SPECIFICATION Spec
CONSTANTS
    N = 3
    Metrics = {1, 2}
    Fallible = {1, 2, 3}
    Killable = {2}
    MaxClock = 2
    MaxCycles = 3
CHECK_DEADLOCK FALSE
INVARIANTS
    StreakMeasuresCost
    CostIsLastMetricsWindow
    NoTruncatedWindow
    PartialAccounted
PROPERTIES
    ImplementsStore
