SPECIFICATION FairSpec
CONSTANTS
    Switches = {s1}
    StaleScans = 2
    Intervals <- MCIntervals
PROPERTIES PollsAreApart ScansRecur
