SPECIFICATION Spec
CONSTANTS
    Wirings = {{"PROMETHEUS", "DCGM"}}
    BurstCap = 1
    LinkSeries = {"crc", "pcie"}
    Vanishing = {"pcie"}
    MaxClock = 0
    MaxEvents = 3
    MaxReloads = 0
INVARIANTS
    NoSpuriousSpike
