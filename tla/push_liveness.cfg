SPECIFICATION MCSpec
CONSTANTS
    MaxId = 4
    OrderNo = {4}
    OtherTypes = {}
    MaxRequests = 2
    ThreadNums = {1, 3}
    MaxThreads = 5
    MaxThrows = 3
INVARIANT ThreadsCounted
PROPERTIES
    OrdersAnswered
    KickCloses
    HandlersRun
    StopEnds
CHECK_DEADLOCK FALSE
