SPECIFICATION FairSpec
CONSTANTS
    MaxRounds = 3
    MaxWindows = 2
    MaxEntries = 1
    DirectiveLists <- MCLists
INVARIANTS
    SingleFlight
    PostsBoundedAndGrowing
    ExecutedVetted
    VerdictKept
PROPERTIES
    LaunchedOnceInOrder
    NewestInvestigated
    CancelWindsDown
CHECK_DEADLOCK FALSE
