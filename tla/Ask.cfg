SPECIFICATION FairAskSpec
CONSTANTS
    Asks = {a1, a2}
    MaxReplies = 2
INVARIANTS
    NoAskLeaks
    OneReplyWins
PROPERTIES
    AskReturns
CHECK_DEADLOCK FALSE
