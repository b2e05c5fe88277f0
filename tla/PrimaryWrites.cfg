SPECIFICATION Spec
CONSTANTS
    Nodes = {n1, n2}
    Schemas = {s1, s2}
    NoSchema = NoSchema
    MaxGeneration = 2
    MaxRequests = 2
    MaxFaults = 1
SYMMETRY Symmetry
INVARIANTS
    IndInv
    StalePrimaryRejected
PROPERTIES
    ReadYourWrites
    
    ImplementsIdRegistry
CHECK_DEADLOCK FALSE
