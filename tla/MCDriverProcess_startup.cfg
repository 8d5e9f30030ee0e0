CONSTANTS
    None = None
    Stopper = "signal"
    MaxStops = 1
    Numbers <- SomeNumbers
    Stripped <- Spaced
    Lowered <- InLower
    Hostname = "vps1"
    References <- Refs
    HttpUrls <- Urls
    DiskPaths <- SomeDisks
    Environments <- TwoAltered
SPECIFICATION ProcessSpec
INVARIANTS MisconfiguredExitsTwo
CHECK_DEADLOCK FALSE
