SPECIFICATION APISpec
CONSTANTS
    N = 1
    Metrics = {1}
    Fallible = {1}
    Killable = {}
    MaxClock = 3
    MaxCycles = 2
    StalenessAfter = 1
    Requested = {"cost"}
CHECK_DEADLOCK FALSE
INVARIANTS
    FreshMeansCurrent
