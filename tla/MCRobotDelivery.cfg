SPECIFICATION RobotSpec
CONSTANTS
    p1 = p1
    p2 = p2
    p3 = p3
    bread = bread
    None = None
    NumUsers = 1
    Products = {bread}
    Procs = {p1, p2, p3}
    NumInit = 2
    InitStatuses = {"shipping", "delivering"}
    MaxOrders = 3
    MaxBatch = 1
    MaxConns = 2
    PatchIds = {1, 2, 3}
    PatchStatuses = {"completed"}
    MaxFaults = 1
INVARIANTS
    RobotTypeOK
    CacheFollowsTable
    DeliveringIsCarried
    RobotNeverPanics
PROPERTIES
    KeepsPromise
    OfferedIsDelivered
CHECK_DEADLOCK FALSE
