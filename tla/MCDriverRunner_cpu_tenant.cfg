CONSTANTS
    u1 = u1
    u2 = u2
    mirarun = mirarun
    admin = admin
    None = None
    Uris <- OneUri
    NameOf <- OwnNames
    Sinks <- OneSink
    FlakySinks <- NoSinks
    Slots = {}
    StatsSupported = TRUE
    RevisionSupported = FALSE
    MaxBirths = 2
    MaxDeaths = 0
    MaxTicks = 3
    MaxBoots = 0
    MaxFaults = 0
    MaxCrashes = 0
SPECIFICATION Spec
INVARIANTS CpuOfOneContainer
