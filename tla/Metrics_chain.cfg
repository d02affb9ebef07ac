SPECIFICATION Spec
CONSTANTS
    Wirings = {{}, {"PROMETHEUS"}, {"PROMETHEUS", "DCGM"}, {"DCGM", "ProfilingBurst"},
               {"PROMETHEUS", "DCGM", "FieldFallback", "ProfilingBurst"}}
    BurstCap = 2
    LinkSeries = {"crc", "pcie"}
    Vanishing = {"ecc"}
    MaxClock = 2
    MaxEvents = 2
    MaxReloads = 1
INVARIANTS
    LoadBounded
    EccConserved
    NoSpuriousSpike
    SourceHonest
