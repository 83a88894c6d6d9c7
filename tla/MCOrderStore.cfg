SPECIFICATION Spec
CONSTANTS
    p1 = p1
    p2 = p2
    p3 = p3
    bread = bread
    milk = milk
    None = None
    NumUsers = 2
    Products = {bread}
    Procs = {p1, p2, p3}
    NumInit = 1
    InitStatuses = {"shipping", "delivering"}
    MaxOrders = 3
    MaxBatch = 2
    MaxConns = 2
    PatchIds = {0, 1}
    PatchStatuses = {"completed"}
SYMMETRY Symmetry
INVARIANTS
    TypeOK
    SlotsIndexed
    ShippingCached
    CachedRows
    OfferedIsShipping
    PlansIndexed
    LoadedNeverPanics
PROPERTIES
    RetiredAfterWrite
    SlotsKeepOrders
