SPECIFICATION Spec
CONSTANTS
    k1 = k1  k2 = k2  k3 = k3
    ping = ping  counters = counters  op = op  boot = boot
    Keys = {k1}
    Instant = {}
    Legacy = {}
    Confirmable = {k1}
    Monitors = {ping, counters}
    Operators = {op}
    Boot = boot
    Owners <- OneOwned
    Janitors <- OneJanitor
    LoadLimit = 5
    MaxRows = 2
    MaxCrashes = 1
    MaxDbErrors = 1
INVARIANTS OneOpenRow ChronicleComplete EngineInv
PROPERTY KeepsTheBook
