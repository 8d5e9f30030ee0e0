CONSTANTS
    None = None
    Stopper = "thread"
    MaxStops = 2
    Numbers <- SomeNumbers
    Stripped <- Spaced
    Lowered <- InLower
    Hostname = "vps1"
    References <- Refs
    HttpUrls <- Urls
    DiskPaths <- SomeDisks
    Environments <- OneAltered
SPECIFICATION ProcessSpec
INVARIANTS TypeOK AtMostOneLateCycle BlankMeansUnset
PROPERTIES StopEndsLoop FailedCycleRetried
CHECK_DEADLOCK FALSE
