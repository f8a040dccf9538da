----------------------- MODULE ServerLifecycleProofs -----------------------
(***************************************************************************)
(* For any number of protocols, sessions, calls of serve and of shutdown:  *)
(* the phase of a TransportServer only moves forward, Stopped means that   *)
(* every infra task has been joined, and a clean report of shutdown is     *)
(* true for good, with the permits counted or not (max_connections at      *)
(* usize::MAX), and with listeners that wait for connections they refuse.  *)
(***************************************************************************)
EXTENDS ServerLifecycle, FiniteSetTheorems, TLAPS

-----------------------------------------------------------------------------
(* The inductive invariant.                                                *)

\* The startup task, as far as it got, and the phase.
StartupMatchesPhase ==
    /\ startup = "none" => phase \in {"Idle", "ShuttingDown", "Stopped"}
    /\ startup \in {"build", "publish", "drain"} =>
          phase \in {"Starting", "Running", "ShuttingDown"}
    /\ startup \in {"notify", "done"} => phase = "Stopped"

\* Infra tasks exist between the two joins of the startup task.
TasksMatchStartup ==
    /\ startup \in {"none", "build"} => \A t \in Infra : task[t] = "none"
    /\ startup \in {"notify", "done"} => \A t \in Infra : task[t] \in {"none", "done"}

\* A shutdown that takes the server for never served is right from its swap on.
NeverServed ==
    \A c \in never :
        /\ shut[c] \in {"swap", "gate", "cancel", "join"}
        /\ shut[c] = "swap" => cur[c] = "Idle"
        /\ shut[c] # "swap" => startup = "none" /\ phase \in {"ShuttingDown", "Stopped"}

StoppedSeen == \A c \in stopped : phase = "Stopped"

\* The connection in a listener's hands, as far as the listener got with it.
OwnerShape ==
    \A t \in Protocols :
        /\ task[t] \in {"none", "running", "stopping", "done"} => owner[t] = NoSession
        /\ task[t] \notin {"none", "running", "stopping", "done"} => owner[t] \in Sessions
        /\ task[t] = "rejecting" => session[owner[t]] = "rejected"
        /\ task[t] \in {"gate", "refusing", "insert"} => session[owner[t]] = "granted"
        /\ task[t] = "spawn" => session[owner[t]] = "entered"
        /\ task[t] = "recheck" => session[owner[t]] \in {"live", "removed", "ended"}

\* No connection is in the hands of two listeners.
OwnersDiffer ==
    \A t, u \in Protocols : t # u /\ owner[t] # NoSession => owner[t] # owner[u]

\* A connection that is in no map yet is in a listener's hands.
GrantedOwned ==
    \A s \in Sessions : session[s] \in {"rejected", "granted"} =>
        \E t \in Protocols :
            task[t] \in {"rejecting", "gate", "refusing", "insert"} /\ owner[t] = s

\* The connections that hold a permit, and the permits.
Holding == {"granted", "entered", "live", "removed"}
Holders == {s \in Sessions : session[s] \in Holding}
PermitsCounted == permits + Cardinality(Holders) = Cap

PhaseInv == StartupMatchesPhase /\ TasksMatchStartup /\ NeverServed /\ StoppedSeen
OwnerInv == OwnerShape /\ OwnersDiffer /\ GrantedOwned
LifecycleInv == TypeOK /\ PhaseInv /\ OwnerInv /\ PermitsCounted /\ CleanReportIsTrue

-----------------------------------------------------------------------------
\* The order of the phases, as numbers.
LEMMA RankValues ==
    /\ Rank["Idle"] = 0 /\ Rank["Starting"] = 1 /\ Rank["Running"] = 2
    /\ Rank["ShuttingDown"] = 3 /\ Rank["Stopped"] = 4
  BY DEF Rank

\* What the invariant says of a stopped server: every infra task has been joined.
LEMMA StoppedIsJoined == TypeOK /\ PhaseInv => StoppedMeansJoined
  BY DEF TypeOK, PhaseInv, StartupMatchesPhase, TasksMatchStartup, StoppedMeansJoined, Phases

\* The invariant holds when the server is made.
LEMMA InitInv == Init => LifecycleInv
  <1> SUFFICES ASSUME Init PROVE LifecycleInv
    OBVIOUS
  <1>1. TypeOK
    <2>1. permits \in Nat
      BY LifecycleAssumption DEF Init
    <2>2. /\ gate \in BOOLEAN /\ rootCancel \in BOOLEAN /\ stopCancel \in BOOLEAN
          /\ infraFailed \in BOOLEAN /\ serveError \in BOOLEAN
      BY DEF Init
    <2>3. QED
      BY <2>1, <2>2 DEF Init, TypeOK, Phases, TaskStates, SessionStates, ServeStates,
         ShutdownStates
  <1>2. PhaseInv
    BY DEF Init, PhaseInv, StartupMatchesPhase, TasksMatchStartup, NeverServed, StoppedSeen
  <1>3. OwnerInv
    BY DEF Init, OwnerInv, OwnerShape, OwnersDiffer, GrantedOwned, Infra
  <1>4. PermitsCounted
    <2>1. Holders = {}
      BY DEF Init, Holders, Holding
    <2> QED
      BY <2>1, FS_EmptySet, LifecycleAssumption DEF Init, PermitsCounted
  <1>5. CleanReportIsTrue
    BY DEF Init, CleanReportIsTrue
  <1> QED
    BY <1>1, <1>2, <1>3, <1>4, <1>5 DEF LifecycleInv

-----------------------------------------------------------------------------
(* Every step keeps the types.                                             *)

\* A step of serve keeps the types.
LEMMA ServeTypes ==
    ASSUME TypeOK, NEW w \in Serves,
           ServeStarts(w) \/ ServeRefused(w) \/ ServeStep(w) \/ ServeDropped(w)
    PROVE  TypeOK'
  <1> USE DEF TypeOK, Phases, ServeStates, serveFrame, startVars, admitVars, shutVars, Notify,
          Subscribed
  <1>1. CASE ServeStarts(w)
    BY <1>1 DEF ServeStarts
  <1>2. CASE ServeRefused(w)
    BY <1>2 DEF ServeRefused
  <1>3. CASE Subscribe(w)
    BY <1>3 DEF Subscribe
  <1>4. CASE ServeChecks(w)
    BY <1>4 DEF ServeChecks
  <1>5. CASE ServeWakes(w)
    BY <1>5 DEF ServeWakes
  <1>6. CASE ServeDropped(w)
    BY <1>6 DEF ServeDropped
  <1> QED
    BY <1>1, <1>2, <1>3, <1>4, <1>5, <1>6 DEF ServeStep

\* A step of the startup task keeps the types.
LEMMA StartupTypes ==
    ASSUME TypeOK, StartupStep \/ StartupFails \/ StartupPanics
    PROVE  TypeOK'
  <1> USE DEF TypeOK, Phases, TaskStates, startFrame, shutVars, Notify, Subscribed
  <1>1. CASE StartInfra
    BY <1>1 DEF StartInfra
  <1>2. CASE PublishRunning
    BY <1>2 DEF PublishRunning
  <1>3. CASE StoreStopped
    BY <1>3 DEF StoreStopped
  <1>4. CASE NotifyStopped
    BY <1>4 DEF NotifyStopped
  <1>5. CASE StartupFails
    BY <1>5 DEF StartupFails
  <1>6. CASE StartupPanics
    BY <1>6 DEF StartupPanics
  <1>7. CASE \E p \in Protocols : Build(p)
    BY <1>7 DEF Build
  <1> QED
    BY <1>1, <1>2, <1>3, <1>4, <1>5, <1>6, <1>7 DEF StartupStep

\* A step of an infra task keeps the types.
LEMMA TaskTypes ==
    ASSUME TypeOK, NEW t \in Infra, TaskCancelled(t) \/ TaskFails(t)
    PROVE  TypeOK'
  <1> USE DEF TypeOK, TaskStates, taskFrame, infraFrame, startVars, shutVars, TaskGoes
  <1>1. CASE TaskCancelled(t)
    BY <1>1 DEF TaskCancelled
  <1>2. CASE TaskFails(t)
    BY <1>2 DEF TaskFails
  <1> QED
    BY <1>1, <1>2

\* A step of a listener with a connection in its hands keeps the types.
LEMMA ListenerTypes ==
    ASSUME TypeOK, OwnerShape, NEW t \in Protocols,
           ListenerStep(t) \/ MuteLeaves(t) \/ \E s \in Sessions : Accept(t, s)
    PROVE  TypeOK'
  <1>0. t \in Infra
    BY DEF Infra
  <1> USE <1>0 DEF TypeOK, TaskStates, SessionStates, taskFrame, infraFrame, startVars,
          shutVars, TaskGoes, OwnerShape
  <1>1. CASE ListenerStops(t)
    BY <1>1 DEF ListenerStops
  <1>2. CASE GateRefuses(t)
    BY <1>2 DEF GateRefuses
  <1>3. CASE GateAdmits(t)
    BY <1>3 DEF GateAdmits
  <1>4. CASE InsertTransport(t)
    BY <1>4 DEF InsertTransport
  <1>5. CASE SpawnSupervisor(t)
    BY <1>5 DEF SpawnSupervisor
  <1>6. CASE Recheck(t)
    BY <1>6 DEF Recheck
  <1>7. CASE \E s \in Sessions : Accept(t, s)
    BY <1>7 DEF Accept
  <1>8. CASE CloseReturns(t)
    BY <1>8 DEF CloseReturns
  <1> QED
    BY <1>1, <1>2, <1>3, <1>4, <1>5, <1>6, <1>7, <1>8 DEF ListenerStep, MuteLeaves

\* The end of a session, and stop, keep the types.
LEMMA SessionTypes ==
    ASSUME TypeOK, Stop \/ \E s \in Sessions : SessionRemoved(s) \/ SessionFinalised(s)
    PROVE  TypeOK'
  <1> USE DEF TypeOK, SessionStates, taskFrame, infraFrame, startVars, shutVars, admitVars
  <1>1. CASE Stop
    BY <1>1 DEF Stop
  <1>2. CASE \E s \in Sessions : SessionRemoved(s)
    BY <1>2 DEF SessionRemoved
  <1>3. CASE \E s \in Sessions : SessionFinalised(s)
    BY <1>3 DEF SessionFinalised
  <1> QED
    BY <1>1, <1>2, <1>3

\* A step of shutdown keeps the types.
LEMMA ShutdownTypes ==
    ASSUME TypeOK, NEW c \in Shutdowns, Begin(c) \/ ShutdownStep(c) \/ ShutdownDropped(c)
    PROVE  TypeOK'
  <1> USE RankValues DEF TypeOK, Phases, ShutdownStates, shutFrame, startVars, admitVars,
          Notify,
          Subscribed, ShutGoes
  <1>1. CASE Begin(c)
    BY <1>1 DEF Begin
  <1>2. CASE TakeLock(c)
    BY <1>2 DEF TakeLock
  <1>3. CASE LockTimesOut(c)
    BY <1>3 DEF LockTimesOut
  <1>4. CASE LoadPhase(c)
    BY <1>4 DEF LoadPhase
  <1>5. CASE SwapPhase(c)
    BY <1>5 DEF SwapPhase
  <1>6. CASE CloseGate(c)
    <2>1. shut' \in [Shutdowns -> ShutdownStates]
      BY <1>6 DEF CloseGate
    <2>2. gate' \in BOOLEAN
      BY <1>6, Zenon DEF CloseGate
    <2>3. UNCHANGED <<phase, unseen, rootCancel, stopCancel, infraFailed, serveError, startup,
                      built, task, owner, permits, session, cancelled, serve, lock, cur,
                      never, stopped, report>>
      BY <1>6, Zenon DEF CloseGate
    <2> QED
      BY <2>1, <2>2, <2>3
  <1>7. CASE CancelRoot(c)
    BY <1>7 DEF CancelRoot
  <1>8. CASE JoinSessions(c)
    BY <1>8 DEF JoinSessions
  <1>9. CASE ObserveStopped(c)
    BY <1>9 DEF ObserveStopped
  <1>10. CASE WatchPhase(c)
    BY <1>10 DEF WatchPhase
  <1>11. CASE JoinStragglers(c)
    BY <1>11 DEF JoinStragglers
  <1>12. CASE Report(c)
    BY <1>12 DEF Report
  <1>13. CASE ShutdownDropped(c)
    BY <1>13 DEF ShutdownDropped
  <1> QED
    BY <1>1, <1>2, <1>3, <1>4, <1>5, <1>6, <1>7, <1>8, <1>9, <1>10, <1>11, <1>12, <1>13 DEF
       ShutdownStep

-----------------------------------------------------------------------------
(* Every step keeps what the phase says of the tasks and the shutdowns.     *)

\* A step of serve keeps what the phase says.
LEMMA ServePhase ==
    ASSUME TypeOK, PhaseInv, NEW w \in Serves,
           ServeStarts(w) \/ ServeRefused(w) \/ ServeStep(w) \/ ServeDropped(w)
    PROVE  PhaseInv'
  <1> USE DEF TypeOK, Phases, PhaseInv, StartupMatchesPhase, TasksMatchStartup, NeverServed,
          StoppedSeen, serveFrame, startVars, admitVars, shutVars, Notify, Subscribed
  <1>1. CASE ServeStarts(w)
    BY <1>1 DEF ServeStarts
  <1>2. CASE ServeRefused(w)
    BY <1>2 DEF ServeRefused
  <1>3. CASE Subscribe(w)
    BY <1>3 DEF Subscribe
  <1>4. CASE ServeChecks(w)
    BY <1>4 DEF ServeChecks
  <1>5. CASE ServeWakes(w)
    BY <1>5 DEF ServeWakes
  <1>6. CASE ServeDropped(w)
    BY <1>6 DEF ServeDropped
  <1> QED
    BY <1>1, <1>2, <1>3, <1>4, <1>5, <1>6 DEF ServeStep

\* A step of the startup task keeps what the phase says.
LEMMA StartupPhase ==
    ASSUME TypeOK, PhaseInv, StartupStep \/ StartupFails \/ StartupPanics
    PROVE  PhaseInv'
  <1> USE DEF TypeOK, Phases, PhaseInv, StartupMatchesPhase, TasksMatchStartup, NeverServed,
          StoppedSeen, startFrame, shutVars, Notify, Subscribed
  <1>1. CASE StartInfra
    BY <1>1 DEF StartInfra
  <1>2. CASE PublishRunning
    BY <1>2 DEF PublishRunning
  <1>3. CASE StoreStopped
    BY <1>3 DEF StoreStopped
  <1>4. CASE NotifyStopped
    BY <1>4 DEF NotifyStopped
  <1>5. CASE StartupFails
    BY <1>5 DEF StartupFails
  <1>6. CASE StartupPanics
    BY <1>6 DEF StartupPanics
  <1>7. CASE \E p \in Protocols : Build(p)
    BY <1>7 DEF Build
  <1> QED
    BY <1>1, <1>2, <1>3, <1>4, <1>5, <1>6, <1>7 DEF StartupStep

\* A step of an infra task keeps what the phase says.
LEMMA TaskPhase ==
    ASSUME TypeOK, PhaseInv, NEW t \in Infra, TaskCancelled(t) \/ TaskFails(t)
    PROVE  PhaseInv'
  <1> USE DEF TypeOK, Phases, PhaseInv, StartupMatchesPhase, TasksMatchStartup, NeverServed,
          StoppedSeen, taskFrame, infraFrame, startVars, shutVars, TaskGoes
  <1>1. CASE TaskCancelled(t)
    BY <1>1 DEF TaskCancelled
  <1>2. CASE TaskFails(t)
    BY <1>2 DEF TaskFails
  <1> QED
    BY <1>1, <1>2

\* A step of a listener with a connection in its hands keeps what the phase says.
LEMMA ListenerPhase ==
    ASSUME TypeOK, PhaseInv, NEW t \in Protocols,
           ListenerStep(t) \/ MuteLeaves(t) \/ \E s \in Sessions : Accept(t, s)
    PROVE  PhaseInv'
  <1>0. t \in Infra
    BY DEF Infra
  <1> USE <1>0 DEF TypeOK, Phases, PhaseInv, StartupMatchesPhase, TasksMatchStartup,
          NeverServed, StoppedSeen, taskFrame, infraFrame, startVars, shutVars, TaskGoes
  <1>1. CASE ListenerStops(t)
    BY <1>1 DEF ListenerStops
  <1>2. CASE GateRefuses(t)
    BY <1>2 DEF GateRefuses
  <1>3. CASE GateAdmits(t)
    BY <1>3 DEF GateAdmits
  <1>4. CASE InsertTransport(t)
    BY <1>4 DEF InsertTransport
  <1>5. CASE SpawnSupervisor(t)
    BY <1>5 DEF SpawnSupervisor
  <1>6. CASE Recheck(t)
    BY <1>6 DEF Recheck
  <1>7. CASE \E s \in Sessions : Accept(t, s)
    BY <1>7 DEF Accept
  <1>8. CASE CloseReturns(t)
    BY <1>8 DEF CloseReturns
  <1> QED
    BY <1>1, <1>2, <1>3, <1>4, <1>5, <1>6, <1>7, <1>8 DEF ListenerStep, MuteLeaves

\* The end of a session, and stop, keep what the phase says.
LEMMA SessionPhase ==
    ASSUME TypeOK, PhaseInv,
           Stop \/ \E s \in Sessions : SessionRemoved(s) \/ SessionFinalised(s)
    PROVE  PhaseInv'
  <1> USE DEF TypeOK, Phases, PhaseInv, StartupMatchesPhase, TasksMatchStartup, NeverServed,
          StoppedSeen, taskFrame, infraFrame, startVars, shutVars, admitVars
  <1>1. CASE Stop
    BY <1>1 DEF Stop
  <1>2. CASE \E s \in Sessions : SessionRemoved(s)
    BY <1>2 DEF SessionRemoved
  <1>3. CASE \E s \in Sessions : SessionFinalised(s)
    BY <1>3 DEF SessionFinalised
  <1> QED
    BY <1>1, <1>2, <1>3

\* A step of shutdown keeps what the phase says.
LEMMA ShutdownPhase ==
    ASSUME TypeOK, PhaseInv,
           NEW c \in Shutdowns, Begin(c) \/ ShutdownStep(c) \/ ShutdownDropped(c)
    PROVE  PhaseInv'
  <1> USE RankValues DEF TypeOK, Phases, PhaseInv, StartupMatchesPhase, TasksMatchStartup,
          NeverServed, StoppedSeen, shutFrame, startVars, admitVars, shutVars, Notify,
          Subscribed, ShutGoes
  <1>1. CASE Begin(c)
    BY <1>1 DEF Begin
  <1>2. CASE TakeLock(c)
    BY <1>2 DEF TakeLock
  <1>3. CASE LockTimesOut(c)
    BY <1>3 DEF LockTimesOut
  <1>4. CASE LoadPhase(c)
    BY <1>4 DEF LoadPhase
  <1>5. CASE SwapPhase(c)
    BY <1>5 DEF SwapPhase
  <1>6. CASE CloseGate(c)
    BY <1>6 DEF CloseGate
  <1>7. CASE CancelRoot(c)
    BY <1>7 DEF CancelRoot
  <1>8. CASE JoinSessions(c)
    BY <1>8 DEF JoinSessions
  <1>9. CASE ObserveStopped(c)
    BY <1>9 DEF ObserveStopped
  <1>10. CASE WatchPhase(c)
    BY <1>10 DEF WatchPhase
  <1>11. CASE JoinStragglers(c)
    BY <1>11 DEF JoinStragglers
  <1>12. CASE Report(c)
    BY <1>12 DEF Report
  <1>13. CASE ShutdownDropped(c)
    BY <1>13 DEF ShutdownDropped
  <1> QED
    BY <1>1, <1>2, <1>3, <1>4, <1>5, <1>6, <1>7, <1>8, <1>9, <1>10, <1>11, <1>12, <1>13 DEF
       ShutdownStep

-----------------------------------------------------------------------------
(* Every step keeps what is known of the connections and of the permits.    *)

\* A step that leaves listeners, connections and permits alone keeps what is known of them.
LEMMA AdmitUnchanged ==
    ASSUME OwnerInv, PermitsCounted, UNCHANGED admitVars
    PROVE  OwnerInv' /\ PermitsCounted'
  <1>1. OwnerInv'
    BY DEF OwnerInv, OwnerShape, OwnersDiffer, GrantedOwned, admitVars
  <1>2. Holders' = Holders /\ permits' = permits
    BY DEF Holders, admitVars
  <1> QED
    BY <1>1, <1>2 DEF PermitsCounted

\* There are finitely many connections.
LEMMA HoldersFinite ==
    ASSUME TRUE
    PROVE  IsFiniteSet(Holders) /\ Cardinality(Holders) \in Nat
  <1>1. IsFiniteSet(Sessions)
    BY FS_Interval, LifecycleAssumption DEF Sessions
  <1>2. Holders \subseteq Sessions
    BY DEF Holders
  <1> QED
    BY <1>1, <1>2, FS_Subset, FS_CardinalityType

\* A connection that takes a permit.
LEMMA PermitTaken ==
    ASSUME TypeOK, PermitsCounted, NEW s \in Sessions, NEW v \in Holding,
           session[s] \notin Holding, permits > 0,
           session' = [session EXCEPT ![s] = v], permits' = permits - 1
    PROVE  PermitsCounted'
  <1>1. Holders' = Holders \cup {s} /\ s \notin Holders
    BY DEF Holders, TypeOK
  <1>2. Cardinality(Holders') = Cardinality(Holders) + 1
    BY <1>1, HoldersFinite, FS_AddElement
  <1> QED
    BY <1>2, HoldersFinite, LifecycleAssumption DEF PermitsCounted, TypeOK

\* A connection that gives its permit back.
LEMMA PermitReturned ==
    ASSUME TypeOK, PermitsCounted, NEW s \in Sessions, NEW v, v \notin Holding,
           session[s] \in Holding,
           session' = [session EXCEPT ![s] = v], permits' = permits + 1
    PROVE  PermitsCounted'
  <1>1. Holders' = Holders \ {s} /\ s \in Holders
    BY DEF Holders, TypeOK
  <1>2. Cardinality(Holders') = Cardinality(Holders) - 1
    BY <1>1, HoldersFinite, FS_RemoveElement
  <1> QED
    BY <1>2, HoldersFinite, LifecycleAssumption DEF PermitsCounted, TypeOK

\* A connection that goes on with its permit, or without one.
LEMMA PermitKept ==
    ASSUME TypeOK, PermitsCounted, NEW s \in Sessions, NEW v,
           session[s] \in Holding <=> v \in Holding,
           session' = [session EXCEPT ![s] = v], permits' = permits
    PROVE  PermitsCounted'
  <1>1. Holders' = Holders
    BY DEF Holders, TypeOK
  <1> QED
    BY <1>1 DEF PermitsCounted

\* When no connection is anywhere, all permits are back.
LEMMA PermitsBack ==
    ASSUME TypeOK, PermitsCounted, \A s \in Sessions : session[s] \in {"none", "ended"}
    PROVE  permits = Cap
  <1>1. Holders = {}
    BY DEF Holders, Holding
  <1> QED
    BY <1>1, FS_EmptySet, LifecycleAssumption DEF PermitsCounted, TypeOK

\* The startup task starts listeners that hold nothing.
LEMMA StartupOwners ==
    ASSUME TypeOK, OwnerInv, PermitsCounted, TasksMatchStartup,
           StartupStep \/ StartupFails \/ StartupPanics
    PROVE  OwnerInv' /\ PermitsCounted'
  <1>1. CASE StartInfra
    <2>1. /\ \A t \in Protocols : task[t] = "none" /\ task'[t] = "running"
          /\ UNCHANGED <<owner, permits, session>>
      BY <1>1 DEF StartInfra, startFrame, TasksMatchStartup, Infra
    <2>2. OwnerInv'
      BY <2>1 DEF OwnerInv, OwnerShape, OwnersDiffer, GrantedOwned
    <2>3. Holders' = Holders /\ permits' = permits
      BY <2>1 DEF Holders
    <2> QED
      BY <2>2, <2>3 DEF PermitsCounted
  <1>2. CASE ~StartInfra
    <2>1. UNCHANGED admitVars
      BY <1>2 DEF StartupStep, PublishRunning, StoreStopped, NotifyStopped, StartupFails,
         StartupPanics, Build, startFrame, admitVars
    <2> QED
      BY <2>1, AdmitUnchanged
  <1> QED
    BY <1>1, <1>2

\* An infra task that is cancelled or fails holds nothing.
LEMMA TaskOwners ==
    ASSUME TypeOK, OwnerInv, PermitsCounted, NEW t \in Infra, TaskCancelled(t) \/ TaskFails(t)
    PROVE  OwnerInv' /\ PermitsCounted'
  <1>1. /\ task[t] = "running"
        /\ \E pc \in {"stopping", "done"} : task' = [task EXCEPT ![t] = pc]
        /\ UNCHANGED <<owner, permits, session>>
    BY DEF TaskCancelled, TaskFails, taskFrame, infraFrame, TaskGoes
  <1>2. OwnerInv'
    BY <1>1 DEF OwnerInv, OwnerShape, OwnersDiffer, GrantedOwned, TypeOK, Infra
  <1>3. Holders' = Holders /\ permits' = permits
    BY <1>1 DEF Holders
  <1> QED
    BY <1>2, <1>3 DEF PermitsCounted

\* A listener with a connection in its hands keeps what is known of the connections.
LEMMA ListenerOwners ==
    ASSUME TypeOK, OwnerInv, NEW t \in Protocols,
           ListenerStep(t) \/ MuteLeaves(t) \/ \E s \in Sessions : Accept(t, s)
    PROVE  OwnerInv'
  <1>0. t \in Infra /\ \A u \in Protocols : u \in Infra
    BY DEF Infra
  <1>z. NoSession \notin Sessions
    BY LifecycleAssumption DEF NoSession, Sessions
  <1> USE <1>0, <1>z DEF TypeOK, OwnerInv, OwnerShape, OwnersDiffer, GrantedOwned, TaskGoes
  <1>1. CASE ListenerStops(t)
    BY <1>1 DEF ListenerStops
  <1>2. CASE GateRefuses(t)
    BY <1>2 DEF GateRefuses
  <1>3. CASE GateAdmits(t)
    BY <1>3 DEF GateAdmits
  <1>4. CASE InsertTransport(t)
    BY <1>4 DEF InsertTransport
  <1>5. CASE SpawnSupervisor(t)
    BY <1>5 DEF SpawnSupervisor
  <1>6. CASE Recheck(t)
    BY <1>6 DEF Recheck
  <1>7. ASSUME NEW s \in Sessions, Accept(t, s) PROVE OwnerInv'
    <2>1. /\ task[t] = "running" /\ session[s] = "none"
          /\ owner' = [owner EXCEPT ![t] = s]
          /\ \/ session' = [session EXCEPT ![s] = "granted"] /\ task' = [task EXCEPT ![t] = "gate"]
             \/ session' = [session EXCEPT ![s] = "rejected"] /\ task' = [task EXCEPT ![t] = "rejecting"]
      BY <1>7 DEF Accept
    <2>2. ASSUME NEW u \in Protocols, owner[u] = s PROVE FALSE
      <3>1. owner[u] # NoSession /\ session[owner[u]] = "none"
        BY <2>1, <2>2, <1>z
      <3> QED
        BY <3>1, <1>0 DEF TaskStates
    <2>3. OwnerShape'
      BY <2>1, <2>2
    <2>4. OwnersDiffer'
      BY <2>1, <2>2
    <2>5. GrantedOwned'
      BY <2>1, <2>2
    <2> QED
      BY <2>3, <2>4, <2>5
  <1>8. CASE CloseReturns(t)
    <2>1. /\ task[t] \in {"rejecting", "refusing"} /\ owner[t] \in Sessions
          /\ owner' = [owner EXCEPT ![t] = NoSession]
          /\ session' = [session EXCEPT ![owner[t]] = "ended"]
          /\ task' = [task EXCEPT ![t] = "running"]
      BY <1>8 DEF CloseReturns
    <2>2. \A u \in Protocols \ {t} : owner[u] # owner[t]
      BY <2>1, <1>z
    <2>3. OwnerShape'
      BY <2>1, <2>2
    <2>4. OwnersDiffer'
      BY <2>1, <2>2
    <2>5. GrantedOwned'
      BY <2>1, <2>2
    <2> QED
      BY <2>3, <2>4, <2>5
  <1> QED
    BY <1>1, <1>2, <1>3, <1>4, <1>5, <1>6, <1>7, <1>8 DEF ListenerStep, MuteLeaves

\* A listener takes a permit for a connection and returns the one of a refused connection.
LEMMA ListenerPermits ==
    ASSUME TypeOK, OwnerShape, PermitsCounted, NEW t \in Protocols,
           ListenerStep(t) \/ MuteLeaves(t) \/ \E s \in Sessions : Accept(t, s)
    PROVE  PermitsCounted'
  <1>0. t \in Infra
    BY DEF Infra
  <1>1. CASE ListenerStops(t) \/ GateRefuses(t) \/ GateAdmits(t) \/ Recheck(t)
    <2>1. Holders' = Holders /\ permits' = permits
      BY <1>1 DEF ListenerStops, GateRefuses, GateAdmits, Recheck, Holders
    <2> QED
      BY <2>1 DEF PermitsCounted
  <1>2. CASE InsertTransport(t)
    BY <1>2, PermitKept DEF InsertTransport, OwnerShape, Holding
  <1>3. CASE SpawnSupervisor(t)
    BY <1>3, PermitKept DEF SpawnSupervisor, OwnerShape, Holding
  <1>4. ASSUME NEW s \in Sessions, Accept(t, s) PROVE PermitsCounted'
    <2>1. CASE permits > 0
      BY <1>4, <2>1, PermitTaken DEF Accept, Holding
    <2>2. CASE permits = 0
      BY <1>4, <2>2, PermitKept DEF Accept, Holding
    <2> QED
      BY <1>4, <2>1, <2>2 DEF Accept
  <1>5. CASE CloseReturns(t)
    <2>1. CASE task[t] = "refusing"
      BY <1>5, <2>1, PermitReturned DEF CloseReturns, OwnerShape, Holding
    <2>2. CASE task[t] = "rejecting"
      BY <1>5, <2>2, PermitKept DEF CloseReturns, OwnerShape, Holding
    <2> QED
      BY <1>5, <2>1, <2>2 DEF CloseReturns
  <1> QED
    BY <1>1, <1>2, <1>3, <1>4, <1>5 DEF ListenerStep, MuteLeaves

\* A session that ends keeps what is known of the connections, and returns its permit.
LEMMA SessionOwners ==
    ASSUME TypeOK, OwnerInv, PermitsCounted,
           Stop \/ \E s \in Sessions : SessionRemoved(s) \/ SessionFinalised(s)
    PROVE  OwnerInv' /\ PermitsCounted'
  <1>1. CASE Stop
    BY <1>1, AdmitUnchanged DEF Stop
  <1>2. ASSUME NEW s \in Sessions, SessionRemoved(s) PROVE OwnerInv' /\ PermitsCounted'
    <2>1. PermitsCounted'
      BY <1>2, PermitKept DEF SessionRemoved, Holding
    <2>2. OwnerInv'
      BY <1>2 DEF SessionRemoved, TypeOK, OwnerInv, OwnerShape, OwnersDiffer, GrantedOwned
    <2> QED
      BY <2>1, <2>2
  <1>3. ASSUME NEW s \in Sessions, SessionFinalised(s) PROVE OwnerInv' /\ PermitsCounted'
    <2>1. PermitsCounted'
      BY <1>3, PermitReturned DEF SessionFinalised, Holding
    <2>2. OwnerInv'
      BY <1>3 DEF SessionFinalised, TypeOK, OwnerInv, OwnerShape, OwnersDiffer, GrantedOwned
    <2> QED
      BY <2>1, <2>2
  <1> QED
    BY <1>1, <1>2, <1>3

-----------------------------------------------------------------------------
(* Clean reports stay true: a stopped server has nothing left that moves.   *)

\* A step of serve keeps the clean reports true.
LEMMA ServeClean ==
    ASSUME TypeOK, CleanReportIsTrue, StoppedMeansJoined, NEW w \in Serves,
           ServeStarts(w) \/ ServeRefused(w) \/ ServeStep(w) \/ ServeDropped(w)
    PROVE  CleanReportIsTrue'
  <1> USE DEF TypeOK, CleanReportIsTrue, StoppedMeansJoined, Infra, serveFrame, startVars, admitVars, shutVars, Notify, Subscribed
  <1>1. CASE ServeStarts(w)
    BY <1>1 DEF ServeStarts
  <1>2. CASE ServeRefused(w)
    BY <1>2 DEF ServeRefused
  <1>3. CASE Subscribe(w)
    BY <1>3 DEF Subscribe
  <1>4. CASE ServeChecks(w)
    BY <1>4 DEF ServeChecks
  <1>5. CASE ServeWakes(w)
    BY <1>5 DEF ServeWakes
  <1>6. CASE ServeDropped(w)
    BY <1>6 DEF ServeDropped
  <1> QED
    BY <1>1, <1>2, <1>3, <1>4, <1>5, <1>6 DEF ServeStep

\* A step of the startup task keeps the clean reports true.
LEMMA StartupClean ==
    ASSUME TypeOK, CleanReportIsTrue, StoppedMeansJoined, TasksMatchStartup,
           StartupStep \/ StartupFails \/ StartupPanics
    PROVE  CleanReportIsTrue'
  <1> USE DEF TypeOK, CleanReportIsTrue, StoppedMeansJoined, Infra, TasksMatchStartup, startFrame, shutVars, Notify, Subscribed
  <1>1. CASE StartInfra
    BY <1>1 DEF StartInfra
  <1>2. CASE PublishRunning
    BY <1>2 DEF PublishRunning
  <1>3. CASE StoreStopped
    BY <1>3 DEF StoreStopped
  <1>4. CASE NotifyStopped
    BY <1>4 DEF NotifyStopped
  <1>5. CASE StartupFails
    BY <1>5 DEF StartupFails
  <1>6. CASE StartupPanics
    BY <1>6 DEF StartupPanics
  <1>7. CASE \E p \in Protocols : Build(p)
    BY <1>7 DEF Build
  <1> QED
    BY <1>1, <1>2, <1>3, <1>4, <1>5, <1>6, <1>7 DEF StartupStep

\* A step of an infra task keeps the clean reports true.
LEMMA TaskClean ==
    ASSUME TypeOK, CleanReportIsTrue, StoppedMeansJoined,
           NEW t \in Infra, TaskCancelled(t) \/ TaskFails(t)
    PROVE  CleanReportIsTrue'
  <1> USE DEF TypeOK, CleanReportIsTrue, StoppedMeansJoined, Infra, taskFrame, infraFrame, startVars, shutVars, TaskGoes
  <1>1. CASE TaskCancelled(t)
    BY <1>1 DEF TaskCancelled
  <1>2. CASE TaskFails(t)
    BY <1>2 DEF TaskFails
  <1> QED
    BY <1>1, <1>2

\* A step of a listener with a connection in its hands keeps the clean reports true.
LEMMA ListenerClean ==
    ASSUME TypeOK, CleanReportIsTrue, StoppedMeansJoined, NEW t \in Protocols,
           ListenerStep(t) \/ MuteLeaves(t) \/ \E s \in Sessions : Accept(t, s)
    PROVE  CleanReportIsTrue'
  <1>0. t \in Infra
    BY DEF Infra
  <1> USE <1>0 DEF TypeOK, CleanReportIsTrue, StoppedMeansJoined, Infra, taskFrame, infraFrame, startVars, shutVars, TaskGoes
  <1>1. CASE ListenerStops(t)
    BY <1>1 DEF ListenerStops
  <1>2. CASE GateRefuses(t)
    BY <1>2 DEF GateRefuses
  <1>3. CASE GateAdmits(t)
    BY <1>3 DEF GateAdmits
  <1>4. CASE InsertTransport(t)
    BY <1>4 DEF InsertTransport
  <1>5. CASE SpawnSupervisor(t)
    BY <1>5 DEF SpawnSupervisor
  <1>6. CASE Recheck(t)
    BY <1>6 DEF Recheck
  <1>7. CASE \E s \in Sessions : Accept(t, s)
    BY <1>7 DEF Accept
  <1>8. CASE CloseReturns(t)
    BY <1>8 DEF CloseReturns
  <1> QED
    BY <1>1, <1>2, <1>3, <1>4, <1>5, <1>6, <1>7, <1>8 DEF ListenerStep, MuteLeaves

\* The end of a session, and stop, keep the clean reports true.
LEMMA SessionClean ==
    ASSUME TypeOK, CleanReportIsTrue, StoppedMeansJoined,
           Stop \/ \E s \in Sessions : SessionRemoved(s) \/ SessionFinalised(s)
    PROVE  CleanReportIsTrue'
  <1> USE DEF TypeOK, CleanReportIsTrue, StoppedMeansJoined, Infra, taskFrame, infraFrame, startVars, shutVars, admitVars
  <1>1. CASE Stop
    BY <1>1 DEF Stop
  <1>2. CASE \E s \in Sessions : SessionRemoved(s)
    BY <1>2 DEF SessionRemoved
  <1>3. CASE \E s \in Sessions : SessionFinalised(s)
    BY <1>3 DEF SessionFinalised
  <1> QED
    BY <1>1, <1>2, <1>3

\* A step of shutdown keeps the clean reports true.
LEMMA ShutdownClean ==
    ASSUME TypeOK, CleanReportIsTrue, StoppedMeansJoined, StoppedSeen,
           OwnerInv, PermitsCounted,
           NEW c \in Shutdowns, Begin(c) \/ ShutdownStep(c) \/ ShutdownDropped(c)
    PROVE  CleanReportIsTrue'
  <1> USE DEF TypeOK, CleanReportIsTrue, StoppedMeansJoined, Infra, StoppedSeen, InTracker, InTransports, SessionStates, shutFrame, startVars,
          admitVars, shutVars, Notify, Subscribed, ShutGoes
  <1>1. CASE Begin(c)
    BY <1>1 DEF Begin
  <1>2. CASE TakeLock(c)
    BY <1>2 DEF TakeLock
  <1>3. CASE LockTimesOut(c)
    BY <1>3 DEF LockTimesOut
  <1>4. CASE LoadPhase(c)
    BY <1>4 DEF LoadPhase
  <1>5. CASE SwapPhase(c)
    BY <1>5 DEF SwapPhase
  <1>6. CASE CloseGate(c)
    BY <1>6 DEF CloseGate
  <1>7. CASE CancelRoot(c)
    BY <1>7 DEF CancelRoot
  <1>8. CASE JoinSessions(c)
    BY <1>8 DEF JoinSessions
  <1>9. CASE ObserveStopped(c)
    BY <1>9 DEF ObserveStopped
  <1>10. CASE WatchPhase(c)
    BY <1>10 DEF WatchPhase
  <1>11. CASE JoinStragglers(c)
    BY <1>11 DEF JoinStragglers
  <1>12. CASE Report(c)
    <2>1. /\ \A d \in Shutdowns : report'[d] = "clean" => d = c \/ report[d] = "clean"
          /\ UNCHANGED <<phase, task, session, permits>>
      BY <1>12 DEF Report
    <2>2. CASE report'[c] # "clean"
      BY <2>1, <2>2
    <2>3. CASE report'[c] = "clean"
      <3>1. c \in stopped /\ \A s \in Sessions : ~InTracker(s) /\ ~InTransports(s)
        BY <1>12, <2>3 DEF Report
      <3>2. phase = "Stopped" /\ \A t \in Infra : task[t] \in {"none", "done"}
        BY <3>1
      <3>3. \A s \in Sessions : session[s] \notin {"rejected", "granted"}
        BY <3>2 DEF OwnerInv, GrantedOwned
      <3>4. \A s \in Sessions : session[s] \in {"none", "ended"}
        BY <3>1, <3>3
      <3>5. permits = Cap
        BY <3>4, PermitsBack
      <3> QED
        BY <2>1, <3>2, <3>4, <3>5
    <2> QED
      BY <2>2, <2>3
  <1>13. CASE ShutdownDropped(c)
    BY <1>13 DEF ShutdownDropped
  <1> QED
    BY <1>1, <1>2, <1>3, <1>4, <1>5, <1>6, <1>7, <1>8, <1>9, <1>10, <1>11, <1>12, <1>13 DEF
       ShutdownStep

-----------------------------------------------------------------------------
(* The theorems.                                                           *)

\* A step that changes nothing keeps the invariant.
LEMMA StutterInv == LifecycleInv /\ UNCHANGED vars => LifecycleInv'
  <1> SUFFICES ASSUME LifecycleInv, UNCHANGED vars PROVE LifecycleInv'
    OBVIOUS
  <1> USE DEF vars, startVars, admitVars, shutVars
  <1>1. TypeOK'
    BY DEF LifecycleInv, TypeOK
  <1>2. PhaseInv'
    BY DEF LifecycleInv, PhaseInv, StartupMatchesPhase, TasksMatchStartup, NeverServed,
       StoppedSeen
  <1>3. OwnerInv' /\ PermitsCounted'
    BY AdmitUnchanged DEF LifecycleInv
  <1>4. CleanReportIsTrue'
    BY DEF LifecycleInv, CleanReportIsTrue
  <1> QED
    BY <1>1, <1>2, <1>3, <1>4 DEF LifecycleInv

\* Every step of the server keeps the invariant.
LEMMA StepInv == LifecycleInv /\ [Next]_vars => LifecycleInv'
  <1> SUFFICES ASSUME LifecycleInv, [Next]_vars PROVE LifecycleInv'
    OBVIOUS
  <1>0. /\ TypeOK /\ PhaseInv /\ OwnerInv /\ PermitsCounted /\ CleanReportIsTrue
        /\ StoppedMeansJoined /\ TasksMatchStartup /\ StoppedSeen /\ OwnerShape
    BY StoppedIsJoined DEF LifecycleInv, PhaseInv, OwnerInv
  <1>1. ASSUME NEW w \in Serves,
               ServeStarts(w) \/ ServeRefused(w) \/ ServeStep(w) \/ ServeDropped(w)
        PROVE  LifecycleInv'
    <2>1. UNCHANGED admitVars
      BY <1>1 DEF ServeStarts, ServeRefused, ServeStep, Subscribe, ServeChecks, ServeWakes,
         ServeDropped, serveFrame
    <2> QED
      BY <1>0, <1>1, <2>1, ServeTypes, ServePhase, AdmitUnchanged, ServeClean DEF LifecycleInv
  <1>2. CASE StartupStep \/ StartupFails \/ StartupPanics
    BY <1>0, <1>2, StartupTypes, StartupPhase, StartupOwners, StartupClean DEF LifecycleInv
  <1>3. ASSUME NEW t \in Infra, TaskCancelled(t) \/ TaskFails(t) PROVE LifecycleInv'
    BY <1>0, <1>3, TaskTypes, TaskPhase, TaskOwners, TaskClean DEF LifecycleInv
  <1>4. ASSUME NEW t \in Protocols,
               ListenerStep(t) \/ MuteLeaves(t) \/ \E s \in Sessions : Accept(t, s)
        PROVE  LifecycleInv'
    BY <1>0, <1>4, ListenerTypes, ListenerPhase, ListenerOwners, ListenerPermits,
       ListenerClean DEF LifecycleInv
  <1>5. CASE Stop \/ \E s \in Sessions : SessionRemoved(s) \/ SessionFinalised(s)
    BY <1>0, <1>5, SessionTypes, SessionPhase, SessionOwners, SessionClean DEF LifecycleInv
  <1>6. ASSUME NEW c \in Shutdowns, Begin(c) \/ ShutdownStep(c) \/ ShutdownDropped(c)
        PROVE  LifecycleInv'
    <2>1. UNCHANGED admitVars
      BY <1>6 DEF Begin, ShutdownStep, TakeLock, LockTimesOut, LoadPhase, SwapPhase, CloseGate,
         CancelRoot, JoinSessions, ObserveStopped, WatchPhase, JoinStragglers, Report,
         ShutdownDropped, shutFrame
    <2> QED
      BY <1>0, <1>6, <2>1, ShutdownTypes, ShutdownPhase, AdmitUnchanged, ShutdownClean
         DEF LifecycleInv
  <1>7. CASE UNCHANGED vars
    BY <1>7, StutterInv
  <1> QED
    BY <1>1, <1>2, <1>3, <1>4, <1>5, <1>6, <1>7 DEF Next, InfraStep

\* The invariant holds in every state of every server.
THEOREM LifecycleInvariant == Spec => []LifecycleInv
  BY InitInv, StepInv, PTL DEF Spec

\* Stopped is published only when the startup task has joined every listener and the
\* scanner, or none was ever started, and nothing starts one afterwards: not a shutdown
\* that finalises a server it takes for never served, whoever called serve meanwhile.
THEOREM StoppedIsFinal == Spec => []StoppedMeansJoined
  <1>1. LifecycleInv => StoppedMeansJoined
    BY StoppedIsJoined DEF LifecycleInv
  <1> QED
    BY <1>1, LifecycleInvariant, PTL

\* A clean report of shutdown_with_timeout is true when it is made and for ever after.
THEOREM CleanReportHolds == Spec => []CleanReportIsTrue
  <1>1. LifecycleInv => CleanReportIsTrue
    BY DEF LifecycleInv
  <1> QED
    BY <1>1, LifecycleInvariant, PTL

\* No step moves the phase backwards: the compare-and-swap of the startup task and the
\* loop of shutdown are enough, with any number of calls racing.
THEOREM PhaseMovesForward == Spec => PhaseForward
  <1>1. TypeOK /\ [Next]_vars => [Rank[phase'] >= Rank[phase]]_vars
    <2> SUFFICES ASSUME TypeOK, Next PROVE Rank[phase'] >= Rank[phase]
      OBVIOUS
    <2>0. phase \in Phases
      BY DEF TypeOK
    <2> USE <2>0, RankValues DEF Phases
    <2>1. ASSUME NEW w \in Serves,
                 ServeStarts(w) \/ ServeRefused(w) \/ ServeStep(w) \/ ServeDropped(w)
          PROVE  Rank[phase'] >= Rank[phase]
      BY <2>1 DEF ServeStarts, ServeRefused, ServeStep, Subscribe, ServeChecks, ServeWakes,
         ServeDropped
    <2>2. CASE StartupStep \/ StartupFails \/ StartupPanics
      BY <2>2 DEF StartupStep, StartInfra, PublishRunning, StoreStopped, NotifyStopped,
         StartupFails, StartupPanics, Build
    <2>3. CASE InfraStep \/ \E t \in Infra : TaskFails(t)
      BY <2>3 DEF InfraStep, TaskCancelled, TaskFails, ListenerStep, ListenerStops, GateRefuses,
         GateAdmits, InsertTransport, SpawnSupervisor, Recheck, CloseReturns, taskFrame, infraFrame
    <2>4. CASE \/ \E t \in Protocols, s \in Sessions : Accept(t, s)
               \/ \E t \in Protocols : MuteLeaves(t)
               \/ \E s \in Sessions : SessionRemoved(s) \/ SessionFinalised(s)
               \/ Stop
      BY <2>4 DEF Accept, MuteLeaves, CloseReturns, SessionRemoved, SessionFinalised, Stop, taskFrame, infraFrame
    <2>5. ASSUME NEW c \in Shutdowns, Begin(c) \/ ShutdownStep(c) \/ ShutdownDropped(c)
          PROVE  Rank[phase'] >= Rank[phase]
      <3>1. cur[c] \in {"Idle", "Starting", "Running"}
        BY DEF TypeOK
      <3> QED
        BY <2>5, <3>1 DEF Begin, ShutdownStep, TakeLock, LockTimesOut, LoadPhase, SwapPhase,
           CloseGate, CancelRoot, JoinSessions, ObserveStopped, WatchPhase, JoinStragglers,
           Report, ShutdownDropped
    <2> QED
      BY <2>1, <2>2, <2>3, <2>4, <2>5 DEF Next
  <1>2. LifecycleInv => TypeOK
    BY DEF LifecycleInv
  <1> QED
    BY <1>1, <1>2, LifecycleInvariant, PTL DEF Spec, PhaseForward

=============================================================================
