SPECIFICATION RestSpec

CONSTANTS
    a = a
    b = b
    c = c
    base = base
    dep = dep
    dep2 = dep2
    top = top
    other = other
    Subjects = {a, b, c}
    Schemas = {base, dep, dep2, top, other}
    NoSubject = NoSubject
    NoValue = NoValue
    NoName = NoName
    Latest = Latest
    NameOrder <- ABC
    Compile <- Compiled
    Refs <- DepRefs
    Loads <- TwoSubjects
    MaxInt = 9
    DefaultLevel = "BACKWARD"
    DefaultMode = "READWRITE"

INVARIANTS
    RegisteredIsFound

CHECK_DEADLOCK FALSE
