SPECIFICATION Spec
CONSTANTS
    SettingKeys = {"poll", "table"}
    Width <- MCWidth
    InFile <- MCInFile
    Editors = {e1}
INVARIANT ResetStays
CHECK_DEADLOCK FALSE
