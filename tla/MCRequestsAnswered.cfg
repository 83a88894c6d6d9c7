SPECIFICATION LiveSpec
CONSTANTS
    p1 = p1
    p2 = p2
    p3 = p3
    bread = bread
    milk = milk
    None = None
    NumUsers = 1
    Products = {bread}
    Procs = {p1, p2, p3}
    NumInit = 1
    InitStatuses = {"shipping"}
    MaxOrders = 3
    MaxBatch = 1
    MaxConns = 2
    PatchIds = {1}
    PatchStatuses = {"completed"}
PROPERTIES
    Answered
