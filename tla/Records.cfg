SPECIFICATION MCSpec
CONSTANTS
    Networks <- MCNetworks
    TTL = 1
    Threshold = 1
    GroupFrom = 2
    TrunkFrom = 2
    Grace = 2
    s1 = s1  s2 = s2  s3 = s3
    admin1 = admin1  admin2 = admin2
    Switches <- MCSwitches
    Outside = "outside"
    Families <- MCFamilies
    N = 2
    Models <- MCModels
    SettingKeys = {"poll", "table"}
    Width <- MCWidth
    InFile <- MCInFile
    Editors <- MCEditors
    Devices = {"h"}
    Rooms = {"p"}
    MissingScans = 2
    Writers = {admin1}
    Importers = {admin2}
    Fields = {"label"}
    Files <- MCFiles
    Drawable = {"s", "t", "h"}
    Pages = {admin1}
    Hangings <- MCHangings
CHECK_DEADLOCK FALSE
INVARIANTS MapHangsTogether VerdictIsTrue LiveIsKept PinsStand
PROPERTIES CablesAreDrawn DevicesAtHome NotesAreKept LoopsAreTold
