CONSTANTS
    None = None
    MaxJiffies = 3
    MaxResets = 1
    Inventories <- SomeInventories
    MaxResources = 2
    MaxBodyBytes = 9
    MaxPortChars = 3
    MaxCycles = 3
SPECIFICATION Spec
INVARIANTS DeliveryTypeOK UtilizationInRange WholeInventories
           AcknowledgedUnlessRaised WithinContract RowsWithinHostTime
CHECK_DEADLOCK FALSE
