CONSTANTS
    u1 = u1
    u2 = u2
    mirarun = mirarun
    admin = admin
    None = None
    Uris <- OneUri
    NameOf <- OwnNames
    Sinks <- OneSink
    FlakySinks <- OneSink
    Slots = {1}
    StatsSupported = FALSE
    RevisionSupported = FALSE
    MaxBirths = 1
    MaxDeaths = 2
    MaxTicks = 0
    MaxBoots = 0
    MaxFaults = 1
    MaxCrashes = 1
SPECIFICATION Spec
INVARIANTS TypeOK EventsTellNewerDeaths OomToldTruly DeathsHeardAtMostOnce
