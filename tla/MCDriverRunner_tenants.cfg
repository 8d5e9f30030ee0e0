CONSTANTS
    u1 = u1
    u2 = u2
    mirarun = mirarun
    admin = admin
    None = None
    Uris <- TwoUris
    NameOf <- OneName
    Sinks <- OneSink
    FlakySinks <- NoSinks
    Slots = {}
    StatsSupported = TRUE
    RevisionSupported = TRUE
    MaxBirths = 2
    MaxDeaths = 1
    MaxTicks = 2
    MaxBoots = 1
    MaxFaults = 0
    MaxCrashes = 0
SPECIFICATION Spec
SYMMETRY Namesake
CONSTRAINT OneUpset
INVARIANTS EventsTellNewerDeaths CpuWithinCapacity ReadsFromThisCycle
