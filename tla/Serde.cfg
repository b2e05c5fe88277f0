SPECIFICATION LiveSpec
CONSTANTS
    s1 = s1
    s2 = s2
    t1 = t1
    t2 = t2
    t3 = t3
    Interned <- MCInterned
    Local <- MCLocal
    Foreign <- MCForeign
    MaxRecords = 2
    MaxFaults = 2
    Base = 4
    Groups = 3
    Top = 1
    MaxIndex = 7
    Files <- MCFiles
    RefGraphs <- MCRefGraphs
    MaxDepth = 4
INVARIANTS
    
    
    FramesRoundTrip
    
PROPERTY RecordsDecided
CHECK_DEADLOCK FALSE
