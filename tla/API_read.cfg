SPECIFICATION APISpec
CONSTANTS
    N = 1
    Metrics = {1}
    Fallible = {1}
    Killable = {}
    MaxClock = 1
    MaxCycles = 2
    StalenessAfter = 0
    Requested = {"health", "signals", "verdict", "cost", "window"}
CHECK_DEADLOCK FALSE
INVARIANTS
    StampNeverOverstatesAge
    WindowCostKeepsUp
    ReasonMatchesCount
PROPERTIES
    ReadsMonotone
