SPECIFICATION Spec
CONSTANTS
    Weights = {1, 2, 3, 6}
    Values = {1, 2, 3}
    MaxOrders = 4
    MaxCapacity = 5
    Threshold = 5
INVARIANTS PlanIsOptimal TotalsAreOfListed OverloadsAreUnpruned
CHECK_DEADLOCK FALSE
