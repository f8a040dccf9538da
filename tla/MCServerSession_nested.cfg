CONSTANTS
    MaxIn = 1
    Kinds = {"message"}
    Mailbox = 1
    Batch = 2
    s1 = s1
    r1 = r1
    b1 = b1
    c1 = c1
    Senders = {}
    Requesters = {}
    Casters = {}
    Closers = {c1}
    Nested = {c1}
    MayPanic = FALSE
SPECIFICATION FairSpec
PROPERTY CloseFromHandlerReturns
CHECK_DEADLOCK FALSE
