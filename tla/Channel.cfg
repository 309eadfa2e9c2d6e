SPECIFICATION FairSpec
CONSTANTS
    Readers = {r1, r2}
    Writers = {w1, w2}
    Capacity = 2
    MaxCalls = 3
    None = None
INVARIANTS
    ReservationsAreOwned
    WokenReaderFindsData
    NobodyWaitsInVain
PROPERTIES
    ImplementsFifo
    CloseReleasesAll
CHECK_DEADLOCK FALSE
