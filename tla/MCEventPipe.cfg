SPECIFICATION MCFairSpec
CONSTANTS
    Capacity = 2
    Budget = 3
    Sizes = {1, 2, 4}
    MaxPackets = 3
INVARIANTS
    NoLossNoReorder
    ClosedIsLast
    BudgetConserved
PROPERTIES
    CloseGetsThrough
