SPECIFICATION ShutdownSpec
CONSTANTS
    Producers = {p1, p2}
    QueueSize = 2
    BatchSize = 2
    Timeout = 1
    Default = 2
    MaxSpans = 4
    BuildTime = 1
    MaxLatency = 2
    Unusable = Unusable
    None = None
INVARIANT ExitWithinTimeout
CHECK_DEADLOCK FALSE
