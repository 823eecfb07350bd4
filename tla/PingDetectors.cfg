SPECIFICATION FairSpec
CONSTANTS
    h1 = h1  h2 = h2
    p1 = p1  p2 = p2
    Hosts = {h1, h2}
    Ports = {p1, p2}
    MassDownHosts = 2
    Restless = {h1}
    MaxRestarts = 1
PROPERTIES AlarmsFollowAnswers OutagesAreFollowed
