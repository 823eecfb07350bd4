SPECIFICATION Spec
CONSTANTS
    dev = dev
    copy = copy
    Macs = {dev, copy}
    Near <- MCNear
    IPs = {a}
    NoRow = NoRow
    NoIP = NoIP
    Noted = {}
    ConfirmScans = 2
    CopySightings = 2
    Crowd = 1
    Retention = 1
    MaxScans = 3
    MaxDays = 1
    MaxStops = 1
CHECK_DEADLOCK FALSE
INVARIANT RowsAreTrue
PROPERTY ScansAreTrue
