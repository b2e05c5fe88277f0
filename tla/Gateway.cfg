SPECIFICATION LiveSpec
CONSTANTS
    n1 = n1
    n2 = n2
    NoNode = NoNode
    Nodes = {n1, n2}
    Rank <- MCRank
    Inputs <- MCInputs
    Menu <- MCMenu
    Ids = {r1}
    Acls <- MCAcls
    Keys = {"k1"}
    MaxChanges = 3
    MaxFaults = 1
INVARIANTS
    
    IngressDecides
    
    
PROPERTIES
    RequestsAnswered
    SnapshotsFollow
CHECK_DEADLOCK FALSE
