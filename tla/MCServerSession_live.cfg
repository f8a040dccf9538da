CONSTANTS
    MaxIn = 1
    Kinds = {"response"}
    Mailbox = 2
    Batch = 2
    s1 = s1
    r1 = r1
    b1 = b1
    c1 = c1
    Senders = {}
    Requesters = {r1}
    Casters = {}
    Closers = {c1}
    Nested = {}
    MayPanic = TRUE
SPECIFICATION FairSpec
PROPERTIES CallsReturn SessionEnds
CHECK_DEADLOCK FALSE
