SPECIFICATION PortsSpec
CONSTANTS
    \* a link that carries three octets an interval, counters of 32 bits cut to 4
    Speed = 3
    Loads = {0, 3}
    Percent = 80
    Cycles = 2
    Wrap = 4
    MaxGap = 1
    Limit = 24
    k1 = k1  k2 = k2
    Keys = {k1, k2}
    PingKeys = {k1}
    Configs <- MCConfigs
    PingTargets = TRUE
    MaxAge = 3
    Agents <- MCAgents
    Tables <- MCTables
    RetriesOnBreak = 1
    Strikes = 2
    Cooldown = 2
    m1 = m1  m2 = m2
    Rules <- MCRules
    Members <- MCMembers
    Window = 1
    Threshold = 2
    FlapHistory = 3
    JanitorCycles = 2
PROPERTIES  OverIsCleared
