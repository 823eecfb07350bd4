SPECIFICATION FairSpec
CONSTANTS
    Channels = {"email", "telegram"}
    Pages = {p1, p2}
    Addresses = {x, y}
    CodeAttempts = 2
    CodesPerHour = 2
    Nobody = Nobody
    MaxCodes = 3
    MaxUpdates = 2
    MaxStops = 1
CHECK_DEADLOCK FALSE
INVARIANTS AddressProved CodesAndLinks
 
