CONSTANTS
    u1 = u1
    u2 = u2
    mirarun = mirarun
    admin = admin
    None = None
    Uris <- TwoUris
    NameOf <- OwnNames
    Sinks <- TwoSinks
    FlakySinks <- OneSink
    Slots = {1}
    StatsSupported = FALSE
    RevisionSupported = FALSE
    MaxBirths = 2
    MaxDeaths = 0
    MaxTicks = 0
    MaxBoots = 0
    MaxFaults = 1
    MaxCrashes = 1
SPECIFICATION FairSpec
INVARIANTS SnapshotTruthful
PROPERTIES ReportsAreTruthful ReliableViewsConverge
