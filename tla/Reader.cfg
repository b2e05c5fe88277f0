SPECIFICATION BootSpec
CONSTANTS
    Waiters = {w1}
    State = State
    Gone = Gone
    None = None
    Absent = Absent
    Compacted = Compacted
    Split = Split
    Deleting = Deleting
    MaxTopics = 2
    MaxWrites = 3
    MaxFaults = 1
INVARIANTS
    SeenIsApplied
    NoTokenLeaks
    IdHighWaterKept
PROPERTIES
    WaitersAnswered
    StartEnds
CHECK_DEADLOCK FALSE
