SPECIFICATION LiveSpec
CONSTANTS
    n1 = n1
    n2 = n2
    NoNode = NoNode
    Nodes = {n1, n2}
    Rank <- MCRank
    MaxGeneration = 12
    MaxIds = 6
    MaxFaults = 2
INVARIANT ForwardDescends
PROPERTIES
    ImplementsRole
    Converges
CHECK_DEADLOCK FALSE
