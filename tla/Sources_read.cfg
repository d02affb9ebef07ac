SPECIFICATION Spec
CONSTANTS
    KmsgTexts <- MCKmsgTexts
    Numbers = {"79", "94", "48"}
    Gpus = {"GPU-1", "GPU-2"}
    Devices = 2
    NVIDIA = {2}
    Widths = {0, 8, 16}
    MaxWidth = 16
    Speeds = {25, 160}
    MaxSpeed = 160
    NcclLines <- MCNcclLines
    ncclMaxBytes = 4
    MaxLine = 2
    MaxLines = 5
    MaxChanges = 2
INVARIANTS
    XidsAreTheRecords
    LegsWereTrue
    SteadyLinksReported
    RecentTimeoutsReported
CHECK_DEADLOCK FALSE
