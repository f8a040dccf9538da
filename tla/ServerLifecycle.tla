-------------------------- MODULE ServerLifecycle --------------------------
(***************************************************************************)
(* The life of a TransportServer: serve and its owned startup task, the    *)
(* listeners and the timeout scanner, admission and the connection cap,    *)
(* stop, and concurrent calls of shutdown with their deadlines and reports *)
(* (transport/transport_server.rs).                                        *)
(*                                                                         *)
(* A session is what ServerSession and SessionContract leave of it: an     *)
(* entry in transports, a supervisor in the session tracker, a permit.     *)
(* Every wait of shutdown is bounded by its one deadline, so each of them  *)
(* ends when its condition holds or, at any time, without it.  Storing a   *)
(* phase and notifying its watchers are one step, except for Stopped, the  *)
(* only phase the watchers wait for.                                       *)
(***************************************************************************)
EXTENDS Integers, FiniteSets

CONSTANTS
    Protocols,    \* the configured protocols, one listener each
    MaxSessions,  \* bound: the connections that the listeners accept
    Mute,         \* those of QUIC peers that open no stream: close() waits for them
    Cap,          \* the connection permits there are
    Unlimited,    \* is max_connections left at usize::MAX?
    Serves,       \* calls of serve
    Shutdowns,    \* calls of shutdown_with_timeout
    MayFail       \* may a build fail or panic, and an infra task end abnormally?

ASSUME LifecycleAssumption ==
    /\ Cap \in Nat
    /\ Unlimited \in BOOLEAN
    /\ MaxSessions \in Nat
    /\ Mute \subseteq 1 .. MaxSessions
    /\ MayFail \in BOOLEAN

Scanner == "scanner"
Infra == Protocols \cup {Scanner}
None == "none"

\* Connections are numbered in the order in which they are accepted.
Sessions == 1 .. MaxSessions
NoSession == 0

Rank == [Idle |-> 0, Starting |-> 1, Running |-> 2, ShuttingDown |-> 3, Stopped |-> 4]
Phases == {"Idle", "Starting", "Running", "ShuttingDown", "Stopped"}

VARIABLES
    phase,        \* server_phase
    unseen,       \* watch receivers with a notification they have not seen
    gate,         \* admission_open
    rootCancel,   \* root_cancel
    stopCancel,   \* infra_cancel, cancelled by itself
    infraFailed,  \* infra_failed
    serveError,   \* serve_error
    startup,      \* the owned startup task
    built,        \* protocols built so far
    task,         \* each infra task: see TaskStates
    owner,        \* the connection in a listener's hands
    permits,      \* available permits
    session,      \* each connection: see SessionStates
    cancelled,    \* sessions that cancelled themselves at the re-check
    serve,        \* each call of serve
    shut,         \* each call of shutdown
    lock,         \* the holder of shutdown_lock
    cur,          \* the phase a shutdown loaded
    never,        \* never_served
    stopped,      \* infra_stopped
    report        \* what a shutdown returned: "none", "clean" or "unclean"

startVars == <<serveError, startup, built>>
admitVars == <<task, owner, permits, session, cancelled>>
shutVars == <<shut, lock, cur, never, stopped, report>>
vars == <<phase, unseen, gate, rootCancel, stopCancel, infraFailed, startVars, admitVars,
          serve, shutVars>>

\* A listener awaits the close of a connection it has no permit for ("rejecting") or has
\* found the gate closed for ("refusing").
TaskStates == {"none", "running", "rejecting", "gate", "refusing", "insert", "spawn",
               "recheck", "stopping", "done"}
SessionStates == {"none", "rejected", "granted", "entered", "live", "removed", "ended"}
ServeStates == {"idle", "refused", "subscribe", "check", "wait", "ok", "error", "dropped"}
ShutdownStates == {"idle", "lock", "load", "swap", "gate", "cancel", "join", "observe",
                   "watch", "straggle", "report", "returned", "dropped"}

TypeOK ==
    /\ phase \in Phases
    /\ unseen \subseteq Serves \cup Shutdowns
    /\ gate \in BOOLEAN /\ rootCancel \in BOOLEAN /\ stopCancel \in BOOLEAN
    /\ infraFailed \in BOOLEAN /\ serveError \in BOOLEAN
    /\ startup \in {"none", "build", "publish", "drain", "notify", "done"}
    /\ built \subseteq Protocols
    /\ task \in [Infra -> TaskStates]
    /\ owner \in [Protocols -> Sessions \cup {NoSession}]
    /\ permits \in Nat
    /\ session \in [Sessions -> SessionStates]
    /\ cancelled \subseteq Sessions
    /\ serve \in [Serves -> ServeStates]
    /\ shut \in [Shutdowns -> ShutdownStates]
    /\ lock \in Shutdowns \cup {None}
    /\ cur \in [Shutdowns -> {"Idle", "Starting", "Running"}]
    /\ never \subseteq Shutdowns
    /\ stopped \subseteq Shutdowns
    /\ report \in [Shutdowns -> {"none", "clean", "unclean"}]

Init ==
    /\ phase = "Idle"
    /\ unseen = {}
    /\ gate = TRUE
    /\ rootCancel = FALSE
    /\ stopCancel = FALSE
    /\ infraFailed = FALSE
    /\ serveError = FALSE
    /\ startup = "none"
    /\ built = {}
    /\ task = [t \in Infra |-> "none"]
    /\ owner = [t \in Protocols |-> NoSession]
    /\ permits = Cap
    /\ session = [s \in Sessions |-> "none"]
    /\ cancelled = {}
    /\ serve = [w \in Serves |-> "idle"]
    /\ shut = [c \in Shutdowns |-> "idle"]
    /\ lock = None
    /\ cur = [c \in Shutdowns |-> "Idle"]
    /\ never = {}
    /\ stopped = {}
    /\ report = [c \in Shutdowns |-> "none"]

InfraCancelled == rootCancel \/ stopCancel
InTracker(s) == session[s] \in {"live", "removed"}
InTransports(s) == session[s] \in {"entered", "live"}
TrackerEmpty == \A s \in Sessions : ~InTracker(s)

\* The watch marks its news unseen for every receiver there is.
Subscribed ==
    {w \in Serves : serve[w] \in {"check", "wait"}} \cup
    {c \in Shutdowns : shut[c] \in {"observe", "watch"}}
Notify == unseen' = unseen \cup Subscribed

-----------------------------------------------------------------------------
(* serve: the one-shot gate, the owned task, and the observer.             *)

serveFrame == <<gate, rootCancel, stopCancel, infraFailed, admitVars, shutVars>>

ServeStarts(w) ==
    /\ serve[w] = "idle"
    /\ phase = "Idle"
    /\ phase' = "Starting"
    /\ Notify
    /\ startup = "none"
    /\ startup' = "build"
    /\ serve' = [serve EXCEPT ![w] = "subscribe"]
    /\ UNCHANGED <<serveFrame, serveError, built>>

ServeRefused(w) ==
    /\ serve[w] = "idle"
    /\ phase # "Idle"
    /\ serve' = [serve EXCEPT ![w] = "refused"]
    /\ UNCHANGED <<serveFrame, phase, unseen, startVars>>

Subscribe(w) ==
    /\ serve[w] = "subscribe"
    /\ serve' = [serve EXCEPT ![w] = "check"]
    /\ UNCHANGED <<serveFrame, phase, unseen, startVars>>

\* Stopped ends the call with what the startup task recorded; else it waits.
ServeChecks(w) ==
    /\ serve[w] = "check"
    /\ serve' = [serve EXCEPT ![w] =
                   IF phase # "Stopped" THEN "wait"
                   ELSE IF serveError \/ infraFailed THEN "error" ELSE "ok"]
    /\ serveError' = (serveError /\ phase # "Stopped")
    /\ unseen' = IF phase = "Stopped" THEN unseen \ {w} ELSE unseen
    /\ UNCHANGED <<serveFrame, phase, startup, built>>

ServeWakes(w) ==
    /\ serve[w] = "wait"
    /\ w \in unseen
    /\ unseen' = unseen \ {w}
    /\ serve' = [serve EXCEPT ![w] = "check"]
    /\ UNCHANGED <<serveFrame, phase, startVars>>

\* The application drops the future of serve: nothing it started depends on it.
ServeDropped(w) ==
    /\ serve[w] = "wait"
    /\ serve' = [serve EXCEPT ![w] = "dropped"]
    /\ unseen' = unseen \ {w}
    /\ UNCHANGED <<serveFrame, phase, startVars>>

-----------------------------------------------------------------------------
(* startup_and_supervise and run_startup.                                  *)

startFrame == <<stopCancel, infraFailed, owner, permits, session, cancelled, serve,
                shutVars>>

\* No protocol, a failed build, or a shutdown during it: the bound endpoints drop.
StartupFails ==
    /\ startup = "build"
    /\ Protocols = {} \/ rootCancel \/ (MayFail /\ built # Protocols)
    /\ serveError' = TRUE
    /\ startup' = "drain"
    /\ UNCHANGED <<startFrame, phase, unseen, gate, rootCancel, built, task>>

StartupPanics ==
    /\ startup = "build"
    /\ MayFail
    /\ built # Protocols
    /\ gate' = FALSE
    /\ rootCancel' = TRUE
    /\ serveError' = TRUE
    /\ startup' = "drain"
    /\ UNCHANGED <<startFrame, phase, unseen, built, task>>

Build(p) ==
    /\ startup = "build"
    /\ p \notin built
    /\ built' = built \cup {p}
    /\ UNCHANGED <<startFrame, phase, unseen, gate, rootCancel, serveError, startup, task>>

\* Every endpoint is bound: start all the accept loops and the scanner together.
StartInfra ==
    /\ startup = "build"
    /\ Protocols # {}
    /\ built = Protocols
    /\ task' = [t \in Infra |-> "running"]
    /\ startup' = "publish"
    /\ UNCHANGED <<startFrame, phase, unseen, gate, rootCancel, serveError, built>>

\* Mutant of PublishRunning: a plain store.
PublishRunningBlind ==
    /\ startup = "publish"
    /\ startup' = "drain"
    /\ phase' = "Running"
    /\ Notify
    /\ UNCHANGED <<startFrame, gate, rootCancel, serveError, built, task>>

\* A compare-and-swap: Running never replaces a ShuttingDown that came first.
PublishRunning ==
    /\ startup = "publish"
    /\ startup' = "drain"
    /\ IF phase = "Starting"
         THEN phase' = "Running" /\ Notify
         ELSE UNCHANGED <<phase, unseen>>
    /\ UNCHANGED <<startFrame, gate, rootCancel, serveError, built, task>>

\* Mutant of StoreStopped: only the listeners are joined, the scanner is not.
StoreStoppedEarly ==
    /\ startup = "drain"
    /\ \A t \in Protocols : task[t] \in {"none", "done"}
    /\ phase' = "Stopped"
    /\ startup' = "notify"
    /\ UNCHANGED <<startFrame, unseen, gate, rootCancel, serveError, built, task>>

\* The infra tracker has drained: store Stopped, then notify the watchers.
StoreStopped ==
    /\ startup = "drain"
    /\ \A t \in Infra : task[t] \in {"none", "done"}
    /\ phase' = "Stopped"
    /\ startup' = "notify"
    /\ UNCHANGED <<startFrame, unseen, gate, rootCancel, serveError, built, task>>

NotifyStopped ==
    /\ startup = "notify"
    /\ Notify
    /\ startup' = "done"
    /\ UNCHANGED <<startFrame, phase, gate, rootCancel, serveError, built, task>>

StartupStep ==
    \/ StartInfra \/ PublishRunning \/ StoreStopped \/ NotifyStopped
    \/ rootCancel /\ StartupFails
    \/ \E p \in Protocols : Build(p)

-----------------------------------------------------------------------------
(* The listeners and the scanner.                                          *)

infraFrame == <<phase, unseen, gate, rootCancel, startVars, serve, shutVars>>
taskFrame == <<infraFrame, stopCancel, infraFailed>>

TaskGoes(t, pc) == task' = [task EXCEPT ![t] = pc]

TaskCancelled(t) ==
    /\ task[t] = "running"
    /\ InfraCancelled
    /\ TaskGoes(t, IF t = Scanner THEN "done" ELSE "stopping")
    /\ UNCHANGED <<taskFrame, owner, permits, session, cancelled>>

\* server.shutdown frees the endpoint; the fail-fast guard finds the token cancelled.
ListenerStops(t) ==
    /\ task[t] = "stopping"
    /\ TaskGoes(t, "done")
    /\ UNCHANGED <<taskFrame, owner, permits, session, cancelled>>

\* InfraFailFast: an abnormal end cancels the siblings.
TaskFails(t) ==
    /\ MayFail
    /\ task[t] = "running"
    /\ ~InfraCancelled
    /\ TaskGoes(t, "done")
    /\ infraFailed' = TRUE
    /\ stopCancel' = TRUE
    /\ UNCHANGED <<infraFrame, owner, permits, session, cancelled>>

\* A connection is accepted and takes a permit; at the cap it is closed, which the
\* listener awaits.
Accept(t, s) ==
    /\ task[t] = "running"
    /\ session[s] = "none"
    /\ \A r \in 1 .. s - 1 : session[r] # "none"
    /\ owner' = [owner EXCEPT ![t] = s]
    /\ \/ /\ permits > 0
          /\ permits' = permits - 1
          /\ session' = [session EXCEPT ![s] = "granted"]
          /\ TaskGoes(t, "gate")
       \/ /\ permits = 0
          /\ session' = [session EXCEPT ![s] = "rejected"]
          /\ TaskGoes(t, "rejecting")
          /\ UNCHANGED permits
    /\ UNCHANGED <<taskFrame, cancelled>>

\* The gate is closed: so is the connection, and the listener awaits it with the permit.
GateRefuses(t) ==
    /\ task[t] = "gate"
    /\ ~gate
    /\ TaskGoes(t, "refusing")
    /\ UNCHANGED <<taskFrame, owner, permits, session, cancelled>>

\* The awaited close() returns; the permit, if there is one, drops with the early return.
CloseReturns(t) ==
    /\ task[t] \in {"rejecting", "refusing"}
    /\ permits' = IF task[t] = "refusing" THEN permits + 1 ELSE permits
    /\ session' = [session EXCEPT ![owner[t]] = "ended"]
    /\ owner' = [owner EXCEPT ![t] = NoSession]
    /\ TaskGoes(t, "running")
    /\ UNCHANGED <<taskFrame, cancelled>>

GateAdmits(t) ==
    /\ task[t] = "gate"
    /\ gate
    /\ TaskGoes(t, "insert")
    /\ UNCHANGED <<taskFrame, owner, permits, session, cancelled>>

InsertTransport(t) ==
    /\ task[t] = "insert"
    /\ session' = [session EXCEPT ![owner[t]] = "entered"]
    /\ TaskGoes(t, "spawn")
    /\ UNCHANGED <<taskFrame, owner, permits, cancelled>>

SpawnSupervisor(t) ==
    /\ task[t] = "spawn"
    /\ session' = [session EXCEPT ![owner[t]] = "live"]
    /\ TaskGoes(t, "recheck")
    /\ UNCHANGED <<taskFrame, owner, permits, cancelled>>

Recheck(t) ==
    /\ task[t] = "recheck"
    /\ cancelled' = IF gate THEN cancelled ELSE cancelled \cup {owner[t]}
    /\ owner' = [owner EXCEPT ![t] = NoSession]
    /\ TaskGoes(t, "running")
    /\ UNCHANGED <<taskFrame, permits, session>>

ListenerStep(t) ==
    \/ ListenerStops(t) \/ GateRefuses(t) \/ GateAdmits(t) \/ InsertTransport(t)
    \/ SpawnSupervisor(t) \/ Recheck(t)
    \/ owner[t] \notin Mute /\ CloseReturns(t)

\* The peer goes, or opens a stream after all.
MuteLeaves(t) ==
    /\ owner[t] \in Mute
    /\ CloseReturns(t)

\* Mutant of SessionCancelled: a session's token of its own, not a child of the root.
SessionCancelledAlone(s) == s \in cancelled

\* A session's token is a child of the root token.
SessionCancelled(s) == rootCancel \/ s \in cancelled

\* The pump's teardown, or a close, removes the entry; then the supervisor ends.
SessionRemoved(s) ==
    /\ session[s] = "live"
    /\ session' = [session EXCEPT ![s] = "removed"]
    /\ UNCHANGED <<taskFrame, task, owner, permits, cancelled>>

SessionFinalised(s) ==
    /\ session[s] = "removed"
    /\ session' = [session EXCEPT ![s] = "ended"]
    /\ cancelled' = cancelled \ {s}
    /\ permits' = permits + 1
    /\ UNCHANGED <<taskFrame, task, owner>>

-----------------------------------------------------------------------------
(* stop and shutdown_with_timeout.                                         *)

Stop ==
    /\ ~stopCancel
    /\ stopCancel' = TRUE
    /\ UNCHANGED <<infraFrame, infraFailed, admitVars>>

shutFrame == <<stopCancel, infraFailed, startVars, admitVars, serve>>
ShutGoes(c, pc) == shut' = [shut EXCEPT ![c] = pc]

Begin(c) ==
    /\ shut[c] = "idle"
    /\ ShutGoes(c, "lock")
    /\ UNCHANGED <<shutFrame, phase, unseen, gate, rootCancel, lock, cur,
                   never, stopped, report>>

TakeLock(c) ==
    /\ shut[c] = "lock"
    /\ lock = None
    /\ lock' = c
    /\ ShutGoes(c, "load")
    /\ UNCHANGED <<shutFrame, phase, unseen, gate, rootCancel, cur, never,
                   stopped, report>>

\* report_snapshot: the deadline passed while another shutdown owns the lock.
LockTimesOut(c) ==
    /\ shut[c] = "lock"
    /\ lock # None
    /\ report' = [report EXCEPT ![c] = "unclean"]
    /\ ShutGoes(c, "returned")
    /\ UNCHANGED <<shutFrame, phase, unseen, gate, rootCancel, lock, cur, never,
                   stopped>>

LoadPhase(c) ==
    /\ shut[c] = "load"
    /\ cur' = IF Rank[phase] < 3 THEN [cur EXCEPT ![c] = phase] ELSE cur
    /\ never' = IF phase = "Idle" THEN never \cup {c} ELSE never
    /\ ShutGoes(c, IF Rank[phase] < 3 THEN "swap" ELSE "gate")
    /\ UNCHANGED <<shutFrame, phase, unseen, gate, rootCancel, lock,
                   stopped, report>>

\* Mutant of SwapPhase: the loop retries with the phase it loaded at first.
SwapPhaseStale(c) ==
    /\ shut[c] = "swap"
    /\ phase = cur[c]
    /\ phase' = "ShuttingDown"
    /\ Notify
    /\ ShutGoes(c, "gate")
    /\ cur' = [cur EXCEPT ![c] = "Idle"]
    /\ UNCHANGED <<shutFrame, gate, rootCancel, lock, never, stopped, report>>

\* compare_exchange; a phase that moved meanwhile is loaded again.
SwapPhase(c) ==
    /\ shut[c] = "swap"
    /\ IF phase = cur[c]
         THEN phase' = "ShuttingDown" /\ Notify /\ ShutGoes(c, "gate") /\ UNCHANGED never
         ELSE never' = never \ {c} /\ ShutGoes(c, "load") /\ UNCHANGED <<phase, unseen>>
    /\ cur' = [cur EXCEPT ![c] = "Idle"]
    /\ UNCHANGED <<shutFrame, gate, rootCancel, lock, stopped, report>>

CloseGate(c) ==
    /\ shut[c] = "gate"
    /\ gate' = FALSE
    /\ ShutGoes(c, "cancel")
    /\ UNCHANGED <<shutFrame, phase, unseen, rootCancel, lock, cur, never,
                   stopped, report>>

\* The offers to the actors are non-blocking; then everything is cancelled at once.
CancelRoot(c) ==
    /\ shut[c] = "cancel"
    /\ rootCancel' = TRUE
    /\ ShutGoes(c, "join")
    /\ UNCHANGED <<shutFrame, phase, unseen, gate, lock, cur, never, stopped, report>>

\* The sessions are joined within the budget; a server that never served is
\* finalised here; then the watch is subscribed.
JoinSessions(c) ==
    /\ shut[c] = "join"
    /\ IF c \in never
         THEN phase' = "Stopped" /\ Notify
         ELSE UNCHANGED <<phase, unseen>>
    /\ never' = never \ {c}
    /\ ShutGoes(c, "observe")
    /\ UNCHANGED <<shutFrame, gate, rootCancel, lock, cur, stopped, report>>

ObserveStopped(c) ==
    /\ shut[c] = "observe"
    /\ ShutGoes(c, IF phase = "Stopped" THEN "straggle" ELSE "watch")
    /\ stopped' = IF phase = "Stopped" THEN stopped \cup {c} ELSE stopped
    /\ unseen' = IF phase = "Stopped" THEN unseen \ {c} ELSE unseen
    /\ UNCHANGED <<shutFrame, phase, gate, rootCancel, lock, cur,
                   never, report>>

WatchPhase(c) ==
    /\ shut[c] = "watch"
    /\ \/ c \in unseen /\ ShutGoes(c, "observe")
       \/ ShutGoes(c, "straggle")
    /\ unseen' = unseen \ {c}
    /\ UNCHANGED <<shutFrame, phase, gate, rootCancel, lock, cur, never,
                   stopped, report>>

JoinStragglers(c) ==
    /\ shut[c] = "straggle"
    /\ ShutGoes(c, "report")
    /\ UNCHANGED <<shutFrame, phase, unseen, gate, rootCancel, lock, cur,
                   never, stopped, report>>

\* Mutant of Report: the sessions and the permits alone make a clean report.
ReportEarly(c) ==
    /\ shut[c] = "report"
    /\ report' = [report EXCEPT ![c] =
                    IF /\ \A s \in Sessions : ~InTracker(s) /\ ~InTransports(s)
                       /\ Unlimited \/ permits = Cap
                      THEN "clean" ELSE "unclean"]
    /\ lock' = None
    /\ stopped' = stopped \ {c}
    /\ ShutGoes(c, "returned")
    /\ UNCHANGED <<shutFrame, phase, unseen, gate, rootCancel, cur, never>>

\* sessions_remaining, infra_stopped and permits_restored make the report.
Report(c) ==
    /\ shut[c] = "report"
    /\ report' = [report EXCEPT ![c] =
                    IF /\ \A s \in Sessions : ~InTracker(s) /\ ~InTransports(s)
                       /\ c \in stopped
                       /\ Unlimited \/ permits = Cap
                      THEN "clean" ELSE "unclean"]
    /\ lock' = None
    /\ stopped' = stopped \ {c}
    /\ ShutGoes(c, "returned")
    /\ UNCHANGED <<shutFrame, phase, unseen, gate, rootCancel, cur, never>>

\* The application drops the future of shutdown where it is suspended.
ShutdownDropped(c) ==
    /\ \/ shut[c] = "lock" /\ lock # None
       \/ shut[c] \in {"join", "straggle"} /\ ~TrackerEmpty
       \/ shut[c] = "watch" /\ c \notin unseen
    /\ lock' = IF lock = c THEN None ELSE lock
    /\ stopped' = stopped \ {c}
    /\ never' = never \ {c}
    /\ ShutGoes(c, "dropped")
    /\ UNCHANGED <<shutFrame, phase, unseen, gate, rootCancel, cur, report>>

ShutdownStep(c) ==
    \/ TakeLock(c) \/ LockTimesOut(c) \/ LoadPhase(c) \/ SwapPhase(c) \/ CloseGate(c)
    \/ CancelRoot(c) \/ JoinSessions(c) \/ ObserveStopped(c) \/ WatchPhase(c)
    \/ JoinStragglers(c) \/ Report(c)

-----------------------------------------------------------------------------
ServeStep(w) == Subscribe(w) \/ ServeChecks(w) \/ ServeWakes(w)

InfraStep ==
    \/ \E t \in Infra : TaskCancelled(t)
    \/ \E t \in Protocols : ListenerStep(t)

Next ==
    \/ \E w \in Serves : ServeStarts(w) \/ ServeRefused(w) \/ ServeStep(w) \/ ServeDropped(w)
    \/ StartupStep
    \/ StartupFails
    \/ StartupPanics
    \/ InfraStep
    \/ \E t \in Infra : TaskFails(t)
    \/ \E t \in Protocols, s \in Sessions : Accept(t, s)
    \/ \E t \in Protocols : MuteLeaves(t)
    \/ \E s \in Sessions : SessionRemoved(s) \/ SessionFinalised(s)
    \/ Stop
    \/ \E c \in Shutdowns : Begin(c) \/ ShutdownStep(c) \/ ShutdownDropped(c)

Spec == Init /\ [][Next]_vars

CancelledSessionStep ==
    \E s \in Sessions : (SessionCancelled(s) /\ SessionRemoved(s)) \/ SessionFinalised(s)

\* Tasks are scheduled, deadlines pass, and a cancelled session ends (SessionEnds of
\* ServerSession).  That a build ends is the protocol's part of the bargain; a mute peer
\* does not have to go.
Fairness ==
    /\ WF_vars(StartupStep)
    /\ WF_vars(\E w \in Serves : ServeStep(w))
    /\ WF_vars(InfraStep)
    /\ WF_vars(CancelledSessionStep)
    /\ WF_vars(\E c \in Shutdowns : ShutdownStep(c))

FairSpec == Spec /\ Fairness

-----------------------------------------------------------------------------
(* Properties.                                                             *)

\* A clean report is the truth and stays true: the phase is Stopped, every listener
\* and the scanner have been joined, no session is left in a map or in the tracker,
\* none can be admitted any more, and every permit is back.
CleanReportIsTrue ==
    \A c \in Shutdowns : report[c] = "clean" =>
        /\ phase = "Stopped"
        /\ \A t \in Infra : task[t] \in {"none", "done"}
        /\ \A s \in Sessions : session[s] \in {"none", "ended"}
        /\ permits = Cap

\* Stopped is published only when no infra task runs, and nothing starts one later.
StoppedMeansJoined ==
    phase = "Stopped" =>
        /\ startup \in {"none", "notify", "done"}
        /\ \A t \in Infra : task[t] \in {"none", "done"}

\* The phase only moves forward: neither the startup task that races a shutdown nor a
\* second call of serve brings an earlier phase back.
PhaseForward == [][Rank[phase'] >= Rank[phase]]_vars

\* A listener awaits the close of s, and the peer of s keeps it waiting.
Holds(s) ==
    /\ s \in Mute
    /\ \E t \in Protocols : task[t] \in {"rejecting", "refusing"} /\ owner[t] = s

\* A call of serve that is observing returns once the server is told to stop or its
\* startup failed, unless a mute peer holds a listener in its refusal.  Every call of
\* shutdown returns or is dropped, without exception: when a mute peer keeps the server
\* from stopping, when the call queues behind another one that was itself dropped, when
\* startup moves the phase under its compare-and-swap loop, and when another shutdown, or
\* nobody, finalises the server.
ServeAndShutdownReturn ==
    /\ \A w \in Serves :
         (serve[w] \in {"subscribe", "check", "wait"} /\ (InfraCancelled \/ serveError)) ~>
             serve[w] \in {"ok", "error", "dropped"} \/ \E s \in Sessions : Holds(s)
    /\ []<>(\A c \in Shutdowns : shut[c] \in {"idle", "returned", "dropped"})

\* Once a shutdown has cancelled the server, every connection that had been accepted
\* ends, including one that passed the gate before it closed; only the peer of that
\* connection itself can delay the close of one that is refused.
AdmittedSessionsEnd ==
    rootCancel ~> \A s \in Sessions : session[s] \in {"none", "ended"} \/ Holds(s)
=============================================================================
