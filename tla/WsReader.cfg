SPECIFICATION WsSpec
CONSTANTS
    MaxFrames = 3
    MaxShared = 2
    FrameLen = 2
    BufLen = 3
    Buffers = 2
    Modes = {"ring", "plain"}
    Handlers = {"text"}
INVARIANTS DeliveredInOrder BuffersAreConserved FreedAfterTheLast
 
CHECK_DEADLOCK FALSE
