SPECIFICATION Spec
CONSTANTS
    Msgs = {m1}
    Conns = {1, 2}
    None = 0
    MaxBuffered = 1
    MaxFaults = 2
INVARIANTS
    OneRecovery
PROPERTY DeliveredUnlessUnowned
CHECK_DEADLOCK FALSE
