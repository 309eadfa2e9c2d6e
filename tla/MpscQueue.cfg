SPECIFICATION FairSpec
CONSTANTS
    Producers = {p1, p2}
    Capacity = 2
    MaxItems = 3
    Nil = Nil
INVARIANTS
    NoDataRace
    SizeIsBounded
PROPERTIES
    FullMeansFull
    ImplementsTicketQueue
    EmplaceReturns
CHECK_DEADLOCK FALSE
