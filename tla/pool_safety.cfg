SPECIFICATION MCSpec
CONSTANTS
    Sizes = {1, 2}
    MaxBands = 3
    MaxInits = 2
    Element = {8, 9}
    BlockSize = 2
    MaxCount = 4
    Value = {1, 2}
    Fresh = 0
    Unknown = 3
    GrowSizes = {0, 1, 2}
    MaxAlloc = 4
    Letter = {7, 8}
    NewLine = 10
    CarriageReturn = 13
    LineLen = 3
    NumLines = 3
    MaxText = 5
    Wrap = 5
    Intervals = {1, 3}
    MaxTime = 12
    Base = 4
    LengthSize = 1
    MAX_ARR_SIZE = 1
    RowSize = 3
    Values <- MCValues
    Blocks <- MCBlocks
    MaxBytes = 5
    Pieces <- MCPieces
    CharSets <- MCCharSets
    LOCALSTRINGSIZE = 3
    Junk = {97}
    MaxLength = 4
    Starts <- MCStarts
    Messages <- MCMessages
    MaxSent = 5
INVARIANTS
    Ordered
    ObjectsOnce
    NeverFails
    ListSound
    HoldsSequence
    RingHolds
    TimerTells
    NotTooOften
    BufferCarries
    TextHeld
    TextRead
    TokensInTurn
    CiphersAgree
CHECK_DEADLOCK FALSE
