SPECIFICATION FairSpec
CONSTANTS
    Workers = {w1, w2}
    Clients = {c1}
    MpscCapacity = 1
    MaxTasks = 2
    MaxSleeps = 1
INVARIANTS
    ActiveIsExact
    NoLostWakeup
PROPERTIES
    TasksComplete
    WaitAllReturns
    PoolStops
CHECK_DEADLOCK FALSE
