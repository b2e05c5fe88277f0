SPECIFICATION Spec
CONSTANTS
    Nodes = {n1, n2}
    Schemas = {s1}
    NoSchema = NoSchema
    MaxGeneration = 2
    MaxRequests = 3
    MaxFaults = 0
PROPERTY ElectedPrimaryHoldsEpoch
CHECK_DEADLOCK FALSE
