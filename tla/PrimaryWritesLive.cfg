SPECIFICATION LiveSpec
CONSTANTS
    Nodes = {n1, n2}
    Schemas = {s1}
    NoSchema = NoSchema
    MaxGeneration = 1
    MaxRequests = 2
    MaxFaults = 2
PROPERTIES
    RequestsEnd
    EventuallyApplied
CHECK_DEADLOCK FALSE
