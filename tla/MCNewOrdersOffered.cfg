SPECIFICATION Spec
CONSTANTS
    p1 = p1
    p2 = p2
    p3 = p3
    bread = bread
    milk = milk
    None = None
    NumUsers = 2
    Products = {bread, milk}
    Procs = {p1, p2}
    NumInit = 1
    InitStatuses = {"shipping"}
    MaxOrders = 3
    MaxBatch = 2
    MaxConns = 3
    PatchIds = {1, 2}
    PatchStatuses = {"completed"}
SYMMETRY Symmetry
INVARIANTS
    ShippingRowsOffered
