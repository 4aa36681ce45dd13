SPECIFICATION MCSpec
CONSTANTS
    MaxId = 4
    OrderNo <- MCOrderNo
    OtherTypes = {"TEXT"}
    MaxRequests = 2
    ConnectID = {2, 4}
    AccountID = {7, 8}
    MaxRecords = 3
INVARIANTS
    AccountsFound
    UsersCounted
PROPERTY OrderServiceImplemented
CHECK_DEADLOCK FALSE
