CONSTANTS
    MaxIn = 2
    Kinds = {"request"}
    Mailbox = 2
    Batch = 2
    s1 = s1
    r1 = r1
    b1 = b1
    c1 = c1
    Senders = {s1}
    Requesters = {}
    Casters = {b1}
    Closers = {c1}
    Nested = {}
    MayPanic = TRUE
SPECIFICATION FairSpec
INVARIANTS ReleasedIsClean PeerCloseLosesNothing
PROPERTIES ImplementsContract
CHECK_DEADLOCK FALSE
