SPECIFICATION FairSpec
CONSTANTS
    s1 = s1  s2 = s2
    r1 = r1  r2 = r2
    c1 = c1  c2 = c2  c3 = c3
    Families = {"polls", "trees", "copies", "bridge"}
    Switches = {s1, s2}
    Roots = {r1, r2}
    StaleScans = 2
    Copies = {c1, c2}
    CopiesThreshold = 2
    Window = 2
    MaxRestarts = 1
PROPERTIES AlarmsFollowEvidence PersistentIsAlarmed OverIsCleared
