SPECIFICATION MCSpec
CONSTANTS
    HeaderLength = 4
    MaxSize = 5
    Lengths <- MCLengths
    MaxFrames = 3
    Ragged = FALSE
    MaxOrders = 2
INVARIANTS
    FramesIntact
    InBuffer
    HandledAsSent
    NothingLeft
PROPERTY AllRead
CHECK_DEADLOCK FALSE
