CONSTANTS
    p1 = p1
    v1 = v1
    d1 = d1
    d2 = d2
    Protocols = {p1}
    MaxSessions = 2
    Mute = {2}
    Cap = 1
    Unlimited = FALSE
    Serves = {v1}
    Shutdowns = {d1, d2}
    MayFail = TRUE
SPECIFICATION FairSpec
INVARIANTS CleanReportIsTrue StoppedMeansJoined
PROPERTIES PhaseForward ServeAndShutdownReturn AdmittedSessionsEnd
CHECK_DEADLOCK FALSE
