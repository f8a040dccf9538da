\* Two sends of sizes that fit, exhaust and exceed the budget, through a queue of one.
SPECIFICATION MCFairSpec
CONSTANTS
    i1 = i1
    i2 = i2
    NoItem = NoItem
    Items = {i1, i2}
    Capacity = 1
    Budget = 3
    Sizes = {1, 2, 4}
INVARIANTS
    ResultsAreTrue
    PermitsConserved
PROPERTIES
    WireIsReadable
    SendAndCloseReturn
