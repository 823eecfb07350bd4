SPECIFICATION FairSpec
CONSTANTS
    k1 = k1  k2 = k2  k3 = k3
    ping = ping  counters = counters  op = op  boot = boot
    Keys = {k1, k2, k3}
    Instant = {k2}
    Legacy = {k3}
    Confirmable = {}
    Monitors = {ping, counters}
    Operators = {}
    Boot = boot
    Owners <- ThreeOwned
    Janitors <- ThreeJanitor
    LoadLimit = 5
    MaxRows = 2
    MaxCrashes = 1
    MaxDbErrors = 0
INVARIANT TrackedOpen
PROPERTY ClearedWhenOver
