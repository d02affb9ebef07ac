SPECIFICATION FairAgentSpec
CONSTANTS
    N = 4
    Metrics = {1}
    Fallible = {1}
    Killable = {2}
    MaxClock = 1
    MaxCycles = 2
CHECK_DEADLOCK FALSE
INVARIANT
    ExitTellsTruth
PROPERTIES
    CancelEnds
    KeepsCollecting
