\* One session, two tasks, two registrations: a peer that takes fresh ids or uses the
\* id of an earlier request again, and one outbound id before the counter is exhausted.
SPECIFICATION MCFairSpec
CONSTANTS
    s1 = s1
    t1 = t1
    t2 = t2
    Sessions = {s1}
    Threads = {t1, t2}
    MaxId = 2
    MaxGen = 2
    ReuseIds = TRUE
INVARIANTS
    RemovalOwned
    GaugeExact
    NoneOutlivesSession
    WaiterNeverLost
    AnswerMatchesOutcome
PROPERTIES
    EveryRequestEnds
    ImplementsLifecycle
