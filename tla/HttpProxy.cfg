SPECIFICATION Spec
CONSTANTS
    Sessions = {s1, s2}
    MaxPool = 2
    MaxConns = 2
    Warm = 1
    IdleCap = 1
    MaxShort = 1
INVARIANTS
    CountersAreExact
    RightResponse
PROPERTY
    WaiterIsServed
CHECK_DEADLOCK FALSE
