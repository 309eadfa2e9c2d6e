SPECIFICATION Spec
CONSTANTS
    Msgs = {1, 2}
    Workers = {w1}
    DedupCap = 1
    MaxCopies = 2
    MaxFaults = 1
INVARIANTS
    AckMeansDone
    AckedIsReplayed
PROPERTIES
    NoSecondRun
    SentIsHandled
CHECK_DEADLOCK FALSE
