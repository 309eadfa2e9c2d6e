SPECIFICATION Spec
CONSTANTS
    Thieves = {f1, f2}
    InitialCapacity = 2
    MaxTasks = 4
INVARIANTS
    ExactlyOnce
    MoversAreExclusive
CHECK_DEADLOCK FALSE
