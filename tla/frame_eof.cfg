SPECIFICATION FairSpec
CONSTANTS
    HeaderLength = 4
    MaxSize = 5
    Lengths <- MCLengths
    MaxFrames = 1
    Ragged = FALSE
PROPERTY EofEndsSession
CHECK_DEADLOCK FALSE
