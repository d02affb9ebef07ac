SPECIFICATION Spec
CONSTANTS
    Uuids <- MCUuids
    Observations <- MCObservations
    MaxObs = 4
INVARIANTS
    LegsFromTheirSource
    NothingObservedIsLost
    PricedExactlyIfSupplied
    FirstKnownWins
CHECK_DEADLOCK FALSE
