SPECIFICATION Spec
CONSTANTS
    Msgs = {m1}
    Conns = {1, 2}
    None = 0
    MaxBuffered = 1
    MaxFaults = 1
PROPERTY AtLeastOnce
CHECK_DEADLOCK FALSE
