SPECIFICATION FairSpec
CONSTANTS
    MaxBytes = 4
    Deadline = 2
    Chunk = 3
    Ring = 2
    Sizes = {1, 3}
    MaxLog = 4
    MaxWindows = 2
INVARIANTS
    UnbrokenRun
    StopsPromptly
    NothingSkipped
PROPERTIES
    DrainEnds
CHECK_DEADLOCK FALSE
