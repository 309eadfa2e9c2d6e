SPECIFICATION FairSpec
CONSTANTS
    Senders = {s1, s2}
    Workers = {w1, w2}
    MaxCalls = 2
    Capacity = 3
    MaxPerActivation = 2
    MaxRestarts = 0
    Msgs <- MCMsgs
INVARIANTS
    TypeOK
    SerialExecution
    PendingAccounting
    NoStrandedMail
PROPERTIES
    MailIsHandled
    ClosedStaysAtRest
    BlockedSenderGetsIn
CHECK_DEADLOCK FALSE
