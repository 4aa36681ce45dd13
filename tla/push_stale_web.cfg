SPECIFICATION Spec
CONSTANTS
    MaxId = 4
    OrderNo <- MCOrderNo
    OtherTypes = {}
    MaxRequests = 2
INVARIANT OrdersGoToWeb
CHECK_DEADLOCK FALSE
