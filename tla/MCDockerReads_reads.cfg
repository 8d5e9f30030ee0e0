CONSTANTS
    first = first
    second = second
    None = None
    Invalid = Invalid
    Callers <- TwoCallers
    Portainer = TRUE
    MaxClients = 3
    References <- AllReferences
    Plain <- Segs
    Lowered <- LoweredSchemes
    HostNames <- OtherHosts
    Reference = "prod"
    Short <- ShortIds
    NameOrder <- Names
    MaxContainers = 2
    MaxLogBytes = 6
    MaxTail = 2
    Documents <- AllDocuments
    Asks <- TwoAsk
    Writings <- SomeWritings
    Logs <- SomeLogs
SPECIFICATION Spec
INVARIANTS RequestsGoThrough OneClientUnlessRaced NotFoundIsAnswered
           AnswersPassedTheCheck InvalidOnlyIfSo ListedIsDescribable
           AggregatesDescribable CountsAddUp LogsToldAsAsked CutLogsDecode
           UrisCanonical
