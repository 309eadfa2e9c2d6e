SPECIFICATION Spec
CONSTANTS
    Thieves = {f1}
    InitialCapacity = 2
    MaxTasks = 2
INVARIANTS
    NoTaskLost
CHECK_DEADLOCK FALSE
