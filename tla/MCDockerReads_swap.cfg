CONSTANTS
    first = first
    second = second
    None = None
    Invalid = Invalid
    Callers <- OneCaller
    Portainer = FALSE
    MaxClients = 3
    References <- AllReferences
    Plain <- Segs
    Lowered <- LoweredSchemes
    HostNames <- OtherHosts
    Reference = "prod"
    Short <- ShortIds
    NameOrder <- Names
    MaxContainers = 2
    MaxLogBytes = 6
    MaxTail = 2
    Documents <- SwapDocuments
    Asks <- OneAsks
    Writings <- SomeWritings
    Logs <- SomeLogs
SPECIFICATION Spec
INVARIANTS ReadsAddressed
