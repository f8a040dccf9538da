SPECIFICATION MCSpec
CONSTANTS
    MaxGen = 2
    MaxMsgs = 1
    MaxTalkers = 1
    Kinds = {"request"}
    Capacity = 1
    MaxDrops = 1
INVARIANTS
    ResponseOnItsConnection
    NothingLeftBehind
PROPERTIES
    LiveSlotKept
    EventsInOrder
