------------------------ MODULE RequestRegistryProofs ------------------------
(***************************************************************************)
(* Theorems about RequestRegistry, for every set of sessions and threads,  *)
(* every MaxId and MaxGen, and peers that reuse ids or do not.             *)
(*                                                                         *)
(* RegistryInv is the inductive invariant.  TypeOK alone is not inductive: *)
(* that requests[s] stays a set of keys depends on the thread that inserts *)
(* having a key (ThreadShape).  RemovalOwned is not either: a removal by   *)
(* key hits the right registration because the entry under a key is of     *)
(* that key (EntriesShape), because a live registration is always in the   *)
(* map (LiveFound), so that nobody can publish over it, and because a      *)
(* generation not yet published belongs to one thread (DrawnAlone).        *)
(*                                                                         *)
(* The thirty-three actions do only seven kinds of things to the entries   *)
(* (StepKind); the invariant is then preserved kind by kind.               *)
(*                                                                         *)
(* The second half, about how requests end, rests on three more: OutcomeInv*)
(* on top of RegistryInv, GaugeInv and CloseInv on top of both.            *)
(***************************************************************************)
EXTENDS RequestRegistry, FiniteSetTheorems, TLAPS

\* Where a thread has a key, and where it has a registration of that key.
KeyLabels == Labels \ {"idle", "beginClose", "drain"}
TokLabels == {"gauge", "insert", "refused", "index", "recheck", "undo", "schedule",
              "putWaiter", "verify", "dec", "rmEntry"}

\* A thread inside an operation has the locals that operation needs.
ThreadShape ==
    \A t \in Threads :
        /\ pc[t] \in KeyLabels => key[t] \in Keys
        /\ pc[t] \in TokLabels =>
             tok[t] \in Gens /\ tok[t] < nextGen /\ keyOf[tok[t]] = key[t]
        /\ pc[t] \in {"beginClose", "drain"} \/ via[t] = "drain" => sess[t] \in Sessions

\* The entry found under a key is a published registration of that key.
EntriesShape ==
    \A k \in Keys :
        entries[k] # None => keyOf[entries[k]] = k /\ state[entries[k]] # "Unborn"

\* What a RequestKey is made of.
LEMMA KeyFields ==
    \A k \in Keys : k.session \in Sessions /\ k.id \in Ids /\ k.dir \in Directions
BY DEF Keys

\* RequestKey::new makes a key.
LEMMA KeyMade ==
    \A s \in Sessions, i \in Ids, d \in Directions : [session |-> s, id |-> i, dir |-> d] \in Keys
BY DEF Keys

\* The part of TypeOK about a thread's position and its operands.
ControlOK ==
    /\ pc \in [Threads -> Labels]
    /\ key \in [Threads -> Keys \cup {NoKey}]
    /\ tok \in [Threads -> Gens \cup {None}]
    /\ via \in [Threads -> Tails]

\* The three ways a thread moves (Goto, Return, Settle) and staying put keep ControlOK.
LEMMA ControlSteps ==
    ASSUME ControlOK, state \in [Gens -> Live \cup Terminal \cup {"Unborn"}],
           keyOf \in [Gens -> Keys \cup {NoKey}], NEW t \in Threads
    PROVE  /\ \A l \in Labels : Goto(t, l) => ControlOK'
           /\ Return(t) => ControlOK'
           /\ UNCHANGED <<pc, key, tok, via>> => ControlOK'
           /\ \A g \in Gens, outcome \in Terminal, tail \in Tails :
                Settle(t, g, outcome, tail) =>
                    ControlOK' /\ state' \in [Gens -> Live \cup Terminal \cup {"Unborn"}]
<1>1. \A l \in Labels : Goto(t, l) => ControlOK'
  BY DEF Goto, ControlOK
<1>2. Return(t) => ControlOK'
  BY DEF Return, ControlOK, Labels, Tails
<1>3. ASSUME NEW g \in Gens, NEW outcome \in Terminal, NEW tail \in Tails,
             Settle(t, g, outcome, tail)
      PROVE ControlOK' /\ state' \in [Gens -> Live \cup Terminal \cup {"Unborn"}]
  BY <1>3 DEF Settle, ControlOK, Labels
<1>4. UNCHANGED <<pc, key, tok, via>> => ControlOK'
  BY DEF ControlOK
<1> QED
  BY <1>1, <1>2, <1>3, <1>4

\* Every step of the registry keeps the types.
LEMMA TypeStep == TypeOK /\ ThreadShape /\ EntriesShape /\ [Next]_vars => TypeOK'
<1> SUFFICES ASSUME TypeOK, ThreadShape, EntriesShape, [Next]_vars PROVE TypeOK'
  OBVIOUS
<1>0. ControlOK
  BY DEF TypeOK, ControlOK
<1>1. ASSUME NEW s \in Sessions, OpenSession(s)
      PROVE  TypeOK'
  BY <1>1 DEF TypeOK, OpenSession, registryVars, userVars, threadVars
<1>2. ASSUME NEW g \in Gens, Respond(g)
      PROVE  TypeOK'
  <2>1. state' \in [Gens -> Live \cup Terminal \cup {"Unborn"}]
    BY <1>2 DEF TypeOK, Respond, BeginRespond, Found, Terminal, Live
  <2>2. responders' \in SUBSET Gens
    BY <1>2 DEF TypeOK, Respond, BeginRespond
  <2>3. claims' \in SUBSET Gens
    BY <1>2 DEF TypeOK, Respond, BeginRespond
  <2> QED
    BY <1>2, <2>1, <2>2, <2>3
       DEF TypeOK, ControlOK, Respond, BeginRespond, registryVars, userVars, threadVars
<1>3. ASSUME NEW g \in Gens, WriteResponse(g)
      PROVE  TypeOK'
  BY <1>3 DEF TypeOK, WriteResponse, registryVars, userVars, threadVars
<1>4. ASSUME NEW g \in Gens, CallerReceives(g)
      PROVE  TypeOK'
  BY <1>4 DEF TypeOK, CallerReceives, registryVars, userVars, threadVars
<1>5. ASSUME NEW g \in Gens, DeadlinePasses(g)
      PROVE  TypeOK'
  BY <1>5 DEF TypeOK, DeadlinePasses, registryVars, userVars, threadVars
<1>6. ASSUME NEW t \in Threads, NEW k \in Keys, RegisterInbound(t, k)
      PROVE  TypeOK'
  <2>1. nextGen' \in 1 .. MaxGen + 1
    BY <1>6, ConstantsAssumption DEF TypeOK, RegisterInbound, EnterRegister
  <2>2. keyOf' \in [Gens -> Keys \cup {NoKey}]
    BY <1>6 DEF TypeOK, RegisterInbound, EnterRegister, Gens, ThreadShape, KeyLabels, Labels
  <2>3. ControlOK'
    BY <1>6, <1>0, ConstantsAssumption
       DEF RegisterInbound, EnterRegister, TypeOK, Labels, Tails, Terminal, ControlOK, Gens,
           ThreadShape, KeyLabels
  <2> QED
    BY <1>6, <2>1, <2>2, <2>3
       DEF TypeOK, ControlOK, RegisterInbound, EnterRegister, registryVars, userVars,
           threadVars
<1>7. ASSUME NEW t \in Threads, NEW k \in Keys, CompleteWaiter(t, k)
      PROVE  TypeOK'
  <2>1. state' \in [Gens -> Live \cup Terminal \cup {"Unborn"}]
    BY <1>7 DEF TypeOK, CompleteWaiter, Settle, FoundIn, Terminal, Live
  <2>2. ControlOK'
    BY <1>7, <1>0, ControlSteps
       DEF CompleteWaiter, FoundIn, TypeOK, Labels, Tails, Terminal, None
  <2> QED
    BY <1>7, <2>1, <2>2
       DEF TypeOK, ControlOK, CompleteWaiter, registryVars, userVars, threadVars
<1>8. ASSUME NEW t \in Threads, NEW s \in Sessions, NextRequestId(t, s)
      PROVE  TypeOK'
  <2>1. nextId' \in [Sessions -> Ids]
    <3>1. nextId[s] \in Ids /\ nextId[s] # MaxId
      BY <1>8 DEF TypeOK, NextRequestId, IdLeft
    <3>2. nextId[s] + 1 \in Ids
      BY <3>1, ConstantsAssumption DEF Ids
    <3> QED
      BY <1>8, <3>2 DEF TypeOK, NextRequestId, AllocateId
  <2>2. ControlOK'
    BY <1>8, <1>0, KeyMade
       DEF NextRequestId, AllocateId, IdLeft, TypeOK, Labels, Tails, Terminal, ControlOK,
           Directions
  <2> QED
    BY <1>8, <2>1, <2>2
       DEF TypeOK, ControlOK, NextRequestId, registryVars, userVars, threadVars
<1>9. ASSUME NEW t \in Threads, NEW s \in Sessions, CloseSessionPending(t, s)
      PROVE  TypeOK'
  <2>1. sessions' \in SUBSET Sessions
    BY <1>9 DEF TypeOK, CloseSessionPending
  <2>2. sess' \in [Threads -> Sessions \cup {None}]
    BY <1>9 DEF TypeOK, CloseSessionPending
  <2>3. ControlOK'
    BY <1>9, <1>0, ControlSteps DEF CloseSessionPending, TypeOK, Labels, Tails, Terminal
  <2> QED
    BY <1>9, <2>1, <2>2, <2>3
       DEF TypeOK, ControlOK, CloseSessionPending, registryVars, userVars, threadVars
<1>10. ASSUME NEW t \in Threads, NEW g \in Gens, DropResponder(t, g)
      PROVE  TypeOK'
  <2>1. state' \in [Gens -> Live \cup Terminal \cup {"Unborn"}]
    BY <1>10 DEF TypeOK, DropResponder, AbortRequestToken, Settle, Found, Terminal, Live
  <2>2. responders' \in SUBSET Gens
    BY <1>10 DEF TypeOK, DropResponder
  <2>3. ControlOK'
    BY <1>10, <1>0, ControlSteps
       DEF DropResponder, AbortRequestToken, Found, TypeOK, Labels, Tails, Terminal
  <2> QED
    BY <1>10, <2>1, <2>2, <2>3
       DEF TypeOK, ControlOK, DropResponder, registryVars, userVars, threadVars
<1>11. ASSUME NEW t \in Threads, NEW g \in Gens, CallerGivesUp(t, g)
      PROVE  TypeOK'
  <2>1. state' \in [Gens -> Live \cup Terminal \cup {"Unborn"}]
    BY <1>11 DEF TypeOK, CallerGivesUp, AbortRequestToken, Settle, Found, Terminal, Live
  <2>2. guards' \in SUBSET Gens
    BY <1>11 DEF TypeOK, CallerGivesUp
  <2>3. rx' \in [Gens -> {"none", "open", "response", "closed"}]
    BY <1>11 DEF TypeOK, CallerGivesUp, CloseRx
  <2>4. ControlOK'
    BY <1>11, <1>0, ControlSteps
       DEF CallerGivesUp, AbortRequestToken, Found, TypeOK, Labels, Tails, Terminal
  <2> QED
    BY <1>11, <2>1, <2>2, <2>3, <2>4
       DEF TypeOK, ControlOK, CallerGivesUp, registryVars, userVars, threadVars
<1>12. ASSUME NEW t \in Threads, NEW g \in Gens, NEW ok \in BOOLEAN, FinishRespond(t, g, ok)
      PROVE  TypeOK'
  <2>1. state' \in [Gens -> Live \cup Terminal \cup {"Unborn"}]
    BY <1>12 DEF TypeOK, FinishRespond, Settle, Found, Terminal, Live
  <2>2. claims' \in SUBSET Gens
    BY <1>12 DEF TypeOK, FinishRespond
  <2>3. ControlOK'
    BY <1>12, <1>0, ControlSteps DEF FinishRespond, Found, TypeOK, Labels, Tails, Terminal
  <2> QED
    BY <1>12, <2>1, <2>2, <2>3
       DEF TypeOK, ControlOK, FinishRespond, registryVars, userVars, threadVars
<1>13. ASSUME NEW t \in Threads, NEW w \in wheel, ScanTimeoutBucket(t, w)
      PROVE  TypeOK'
  <2>1. wheel' \in SUBSET (Keys \X Gens)
    BY <1>13 DEF TypeOK, ScanTimeoutBucket
  <2>2. ControlOK'
    <3>1. UNCHANGED <<tok, via>> /\ w[1] \in Keys
      BY <1>13 DEF ScanTimeoutBucket, TypeOK
    <3>2. \/ UNCHANGED <<pc, key>>
          \/ pc' = [pc EXCEPT ![t] = "timeout"] /\ key' = [key EXCEPT ![t] = w[1]]
      BY <1>13 DEF ScanTimeoutBucket
    <3> QED
      BY <1>0, <3>1, <3>2 DEF ControlOK, Labels
  <2> QED
    BY <1>13, <2>1, <2>2
       DEF TypeOK, ControlOK, ScanTimeoutBucket, registryVars, userVars, threadVars
<1>14. ASSUME NEW t \in Threads, RegisterOutbound(t)
      PROVE  TypeOK'
  <2>1. nextGen' \in 1 .. MaxGen + 1
    BY <1>14, ConstantsAssumption DEF TypeOK, RegisterOutbound, EnterRegister
  <2>2. keyOf' \in [Gens -> Keys \cup {NoKey}]
    BY <1>14
       DEF TypeOK, RegisterOutbound, EnterRegister, Gens, ThreadShape, KeyLabels, Labels
  <2>3. ControlOK'
    BY <1>14, <1>0, ConstantsAssumption
       DEF RegisterOutbound, EnterRegister, TypeOK, Labels, Tails, Terminal, ControlOK,
           Gens, ThreadShape, KeyLabels
  <2> QED
    BY <1>14, <2>1, <2>2, <2>3
       DEF TypeOK, ControlOK, RegisterOutbound, EnterRegister, registryVars, userVars,
           threadVars
<1>15. ASSUME NEW t \in Threads, RegisterOutboundRefused(t)
      PROVE  TypeOK'
  <2>1. ControlOK'
    BY <1>15, <1>0, ControlSteps
       DEF RegisterOutboundRefused, TypeOK, Labels, Tails, Terminal
  <2> QED
    BY <1>15, <2>1
       DEF TypeOK, ControlOK, RegisterOutboundRefused, registryVars, userVars, threadVars
<1>16. ASSUME NEW t \in Threads, Gauge(t)
      PROVE  TypeOK'
  <2>1. pending' \in Int
    BY <1>16 DEF TypeOK, Gauge
  <2>2. ControlOK'
    BY <1>16, <1>0, ControlSteps DEF Gauge, TypeOK, Labels, Tails, Terminal
  <2> QED
    BY <1>16, <2>1, <2>2 DEF TypeOK, ControlOK, Gauge, registryVars, userVars, threadVars
<1>17. ASSUME NEW t \in Threads, Insert(t)
      PROVE  TypeOK'
  <2>1. entries' \in [Keys -> Gens \cup {None}]
    BY <1>17 DEF TypeOK, Insert, ThreadShape, TokLabels, KeyLabels, Labels
  <2>2. state' \in [Gens -> Live \cup Terminal \cup {"Unborn"}]
    BY <1>17 DEF TypeOK, Insert, Terminal, Live, ThreadShape, TokLabels
  <2>3. ControlOK'
    BY <1>17, <1>0, ControlSteps DEF Insert, TypeOK, Labels, Tails, Terminal
  <2> QED
    BY <1>17, <2>1, <2>2, <2>3
       DEF TypeOK, ControlOK, Insert, registryVars, userVars, threadVars
<1>18. ASSUME NEW t \in Threads, Refused(t)
      PROVE  TypeOK'
  <2>1. pending' \in Int
    BY <1>18 DEF TypeOK, Refused
  <2>2. ControlOK'
    BY <1>18, <1>0, ControlSteps DEF Refused, TypeOK, Labels, Tails, Terminal
  <2> QED
    BY <1>18, <2>1, <2>2 DEF TypeOK, ControlOK, Refused, registryVars, userVars, threadVars
<1>19. ASSUME NEW t \in Threads, Index(t)
      PROVE  TypeOK'
  <2>1. requests' \in [Sessions -> SUBSET Keys]
    BY <1>19, KeyFields DEF TypeOK, Index, ThreadShape, KeyLabels, Labels
  <2>2. ControlOK'
    BY <1>19, <1>0, ControlSteps DEF Index, TypeOK, Labels, Tails, Terminal
  <2> QED
    BY <1>19, <2>1, <2>2 DEF TypeOK, ControlOK, Index, registryVars, userVars, threadVars
<1>20. ASSUME NEW t \in Threads, Recheck(t)
      PROVE  TypeOK'
  <2>1. ControlOK'
    BY <1>20, <1>0, ControlSteps DEF Recheck, TypeOK, Labels, Tails, Terminal
  <2> QED
    BY <1>20, <2>1 DEF TypeOK, ControlOK, Recheck, registryVars, userVars, threadVars
<1>21. ASSUME NEW t \in Threads, Undo(t)
      PROVE  TypeOK'
  <2>1. state' \in [Gens -> Live \cup Terminal \cup {"Unborn"}]
    BY <1>21 DEF TypeOK, Undo, Settle, FoundIn, Terminal, Live
  <2>2. ControlOK'
    <3>1. /\ key[t] \in Keys /\ entries \in [Keys -> Gens \cup {None}]
          /\ state \in [Gens -> Live \cup Terminal \cup {"Unborn"}]
          /\ keyOf \in [Gens -> Keys \cup {NoKey}]
      BY <1>21 DEF Undo, TypeOK, ThreadShape, KeyLabels, Labels
    <3>2. CASE Settle(t, entries[key[t]], "SessionClosed", "undo") /\ entries[key[t]] # None
      <4>1. entries[key[t]] \in Gens /\ "SessionClosed" \in Terminal /\ "undo" \in Tails
        BY <3>1, <3>2 DEF Terminal, Tails
      <4> QED
        BY <1>0, <3>1, <3>2, <4>1, ControlSteps
    <3>3. CASE Goto(t, "rmWaiter")
      BY <1>0, <3>1, <3>3, ControlSteps DEF Labels
    <3> QED
      BY <1>21, <3>2, <3>3 DEF Undo, FoundIn
  <2> QED
    BY <1>21, <2>1, <2>2 DEF TypeOK, ControlOK, Undo, registryVars, userVars, threadVars
<1>22. ASSUME NEW t \in Threads, Schedule(t)
      PROVE  TypeOK'
  <2>1. wheel' \in SUBSET (Keys \X Gens)
    BY <1>22 DEF TypeOK, Schedule, ThreadShape, TokLabels, KeyLabels, Labels
  <2>2. responders' \in SUBSET Gens
    BY <1>22 DEF TypeOK, Schedule, ThreadShape, TokLabels, KeyLabels, Labels
  <2>3. ControlOK'
    BY <1>22, <1>0, ControlSteps DEF Schedule, TypeOK, Labels, Tails, Terminal
  <2> QED
    BY <1>22, <2>1, <2>2, <2>3
       DEF TypeOK, ControlOK, Schedule, registryVars, userVars, threadVars
<1>23. ASSUME NEW t \in Threads, PutWaiter(t)
      PROVE  TypeOK'
  <2>1. waiters' \in [Keys -> Gens \cup {None}]
    BY <1>23 DEF TypeOK, PutWaiter, ThreadShape, TokLabels, KeyLabels, Labels
  <2>2. rx' \in [Gens -> {"none", "open", "response", "closed"}]
    BY <1>23 DEF TypeOK, PutWaiter, ThreadShape, TokLabels, KeyLabels, Labels
  <2>3. ControlOK'
    BY <1>23, <1>0, ControlSteps DEF PutWaiter, TypeOK, Labels, Tails, Terminal
  <2> QED
    BY <1>23, <2>1, <2>2, <2>3
       DEF TypeOK, ControlOK, PutWaiter, registryVars, userVars, threadVars
<1>24. ASSUME NEW t \in Threads, Verify(t)
      PROVE  TypeOK'
  <2>1. guards' \in SUBSET Gens
    BY <1>24 DEF TypeOK, Verify, ArmGuard, ThreadShape, TokLabels, KeyLabels, Labels
  <2>2. ControlOK'
    BY <1>24, <1>0, ControlSteps DEF Verify, ArmGuard, TypeOK, Labels, Tails, Terminal
  <2> QED
    BY <1>24, <2>1, <2>2 DEF TypeOK, ControlOK, Verify, ArmGuard, registryVars, userVars, threadVars
<1>25. ASSUME NEW t \in Threads, MarkTimedOut(t)
      PROVE  TypeOK'
  <2>1. state' \in [Gens -> Live \cup Terminal \cup {"Unborn"}]
    BY <1>25 DEF TypeOK, MarkTimedOut, Settle, FoundIn, Terminal, Live
  <2>2. ControlOK'
    <3>1. /\ key[t] \in Keys /\ entries \in [Keys -> Gens \cup {None}]
          /\ state \in [Gens -> Live \cup Terminal \cup {"Unborn"}]
          /\ keyOf \in [Gens -> Keys \cup {NoKey}]
      BY <1>25 DEF MarkTimedOut, TypeOK, ThreadShape, KeyLabels, Labels
    <3>2. CASE Settle(t, entries[key[t]], "TimedOut", "timedOut") /\ entries[key[t]] # None
      <4>1. entries[key[t]] \in Gens /\ "TimedOut" \in Terminal /\ "timedOut" \in Tails
        BY <3>1, <3>2 DEF Terminal, Tails
      <4> QED
        BY <1>0, <3>1, <3>2, <4>1, ControlSteps
    <3>3. CASE Return(t)
      BY <1>0, <3>1, <3>3, ControlSteps DEF Labels
    <3> QED
      BY <1>25, <3>2, <3>3 DEF MarkTimedOut, FoundIn
  <2> QED
    BY <1>25, <2>1, <2>2
       DEF TypeOK, ControlOK, MarkTimedOut, registryVars, userVars, threadVars
<1>26. ASSUME NEW t \in Threads, Dec(t)
      PROVE  TypeOK'
  <2>1. pending' \in Int
    BY <1>26 DEF TypeOK, Dec
  <2>2. total' \in [timedOut : Nat, sessionClosed : Nat, sendFailed : Nat]
    BY <1>26 DEF TypeOK, Dec
  <2>3. ControlOK'
    BY <1>26, <1>0, ControlSteps DEF Dec, TypeOK, Labels, Tails, Terminal
  <2> QED
    BY <1>26, <2>1, <2>2, <2>3
       DEF TypeOK, ControlOK, Dec, registryVars, userVars, threadVars
<1>27. ASSUME NEW t \in Threads, RmEntry(t)
      PROVE  TypeOK'
  <2>1. entries' \in [Keys -> Gens \cup {None}]
    BY <1>27 DEF TypeOK, RmEntry
  <2>2. ControlOK'
    BY <1>27, <1>0, ControlSteps DEF RmEntry, TypeOK, Labels, Tails, Terminal
  <2> QED
    BY <1>27, <2>1, <2>2 DEF TypeOK, ControlOK, RmEntry, registryVars, userVars, threadVars
<1>28. ASSUME NEW t \in Threads, RmIndex(t)
      PROVE  TypeOK'
  <2>1. requests' \in [Sessions -> SUBSET Keys]
    BY <1>28 DEF TypeOK, RmIndex
  <2>2. ControlOK'
    BY <1>28, <1>0, ControlSteps DEF RmIndex, TypeOK, Labels, Tails, Terminal
  <2> QED
    BY <1>28, <2>1, <2>2 DEF TypeOK, ControlOK, RmIndex, registryVars, userVars, threadVars
<1>29. ASSUME NEW t \in Threads, RmWaiter(t)
      PROVE  TypeOK'
  <2>1. waiters' \in [Keys -> Gens \cup {None}]
    BY <1>29 DEF TypeOK, RmWaiter, CloseRx, ThreadShape, TokLabels, KeyLabels, Labels
  <2>2. rx' \in [Gens -> {"none", "open", "response", "closed"}]
    BY <1>29 DEF TypeOK, RmWaiter, CloseRx, ThreadShape, TokLabels, KeyLabels, Labels
  <2>3. ControlOK'
    BY <1>29, <1>0 DEF RmWaiter, CloseRx, TypeOK, Labels, Tails, Terminal, ControlOK
  <2> QED
    BY <1>29, <2>1, <2>2, <2>3
       DEF TypeOK, ControlOK, RmWaiter, registryVars, userVars, threadVars
<1>30. ASSUME NEW t \in Threads, Deliver(t)
      PROVE  TypeOK'
  <2>1. waiters' \in [Keys -> Gens \cup {None}]
    BY <1>30 DEF TypeOK, Deliver, ThreadShape, TokLabels, KeyLabels, Labels
  <2>2. rx' \in [Gens -> {"none", "open", "response", "closed"}]
    BY <1>30 DEF TypeOK, Deliver, ThreadShape, TokLabels, KeyLabels, Labels
  <2>3. ControlOK'
    BY <1>30, <1>0, ControlSteps DEF Deliver, TypeOK, Labels, Tails, Terminal
  <2> QED
    BY <1>30, <2>1, <2>2, <2>3
       DEF TypeOK, ControlOK, Deliver, registryVars, userVars, threadVars
<1>31. ASSUME NEW t \in Threads, BeginClose(t)
      PROVE  TypeOK'
  <2>1. closing' \in SUBSET Sessions
    BY <1>31 DEF TypeOK, BeginClose, ThreadShape
  <2>2. must' \in [Threads -> SUBSET Keys]
    BY <1>31 DEF TypeOK, BeginClose, ThreadShape
  <2>3. ControlOK'
    BY <1>31, <1>0, ControlSteps DEF BeginClose, TypeOK, Labels, Tails, Terminal
  <2> QED
    BY <1>31, <2>1, <2>2, <2>3
       DEF TypeOK, ControlOK, BeginClose, registryVars, userVars, threadVars
<1>32. ASSUME NEW t \in Threads, NEW k \in Keys, Drain(t, k)
      PROVE  TypeOK'
  <2>1. state' \in [Gens -> Live \cup Terminal \cup {"Unborn"}]
    BY <1>32 DEF TypeOK, Drain, Settle, FoundIn, Terminal, Live
  <2>2. seen' \in [Threads -> SUBSET Keys]
    BY <1>32 DEF TypeOK, Drain
  <2>3. count' \in [Threads -> Nat]
    BY <1>32 DEF TypeOK, Drain
  <2>4. ControlOK'
    BY <1>32, <1>0, ControlSteps DEF Drain, FoundIn, TypeOK, Labels, Tails, Terminal, None
  <2> QED
    BY <1>32, <2>1, <2>2, <2>3, <2>4
       DEF TypeOK, ControlOK, Drain, registryVars, userVars, threadVars
<1>33. ASSUME NEW t \in Threads, DrainEnd(t)
      PROVE  TypeOK'
  <2>1. requests' \in [Sessions -> SUBSET Keys]
    BY <1>33 DEF TypeOK, DrainEnd
  <2>2. total' \in [timedOut : Nat, sessionClosed : Nat, sendFailed : Nat]
    BY <1>33 DEF TypeOK, DrainEnd
  <2>3. sess' \in [Threads -> Sessions \cup {None}]
    BY <1>33 DEF TypeOK, DrainEnd
  <2>4. must' \in [Threads -> SUBSET Keys]
    BY <1>33 DEF TypeOK, DrainEnd, ThreadShape
  <2>5. seen' \in [Threads -> SUBSET Keys]
    BY <1>33 DEF TypeOK, DrainEnd
  <2>6. count' \in [Threads -> Nat]
    BY <1>33 DEF TypeOK, DrainEnd
  <2>7. ControlOK'
    BY <1>33, <1>0, ControlSteps DEF DrainEnd, TypeOK, Labels, Tails, Terminal
  <2> QED
    BY <1>33, <2>1, <2>2, <2>3, <2>4, <2>5, <2>6, <2>7
       DEF TypeOK, ControlOK, DrainEnd, registryVars, userVars, threadVars
<1>34. CASE UNCHANGED vars
  BY <1>34 DEF TypeOK, vars, registryVars, userVars, threadVars
<1> QED
  BY <1>1, <1>2, <1>3, <1>4, <1>5, <1>6, <1>7, <1>8, <1>9, <1>10, <1>11, <1>12, <1>13, 
     <1>14, <1>15, <1>16, <1>17, <1>18, <1>19, <1>20, <1>21, <1>22, <1>23, <1>24, <1>25,
     <1>26, <1>27, <1>28, <1>29, <1>30, <1>31, <1>32, <1>33, <1>34
     DEF Next, Environment, Start, Continue

-----------------------------------------------------------------------------
(* Who owns an entry.                                                      *)

Unpublished == {"gauge", "insert", "refused"}
Removing    == {"dec", "rmEntry"}

\* A generation in use has been drawn, and its key recorded.
GensShape ==
    \A g \in Gens : state[g] # "Unborn" => g < nextGen /\ keyOf[g] \in Keys

\* A thread that has drawn a generation and not published it is alone with it.
DrawnAlone ==
    \A t \in Threads : pc[t] \in Unpublished =>
        /\ state[tok[t]] = "Unborn"
        /\ \A u \in Threads : pc[u] \in Unpublished /\ tok[u] = tok[t] => u = t

\* A live registration is the one found under its key.
LiveFound == \A g \in Gens : state[g] \in Live => Found(g)

\* The inductive invariant.
RegistryInv ==
    /\ TypeOK
    /\ ThreadShape
    /\ EntriesShape
    /\ GensShape
    /\ DrawnAlone
    /\ LiveFound
    /\ RemovalOwned

\* What the steps of the registry do to the entries, in seven kinds.
Others(t) ==
    \A u \in Threads : u # t => /\ pc'[u] = pc[u] /\ key'[u] = key[u]
                                /\ tok'[u] = tok[u] /\ via'[u] = via[u]
                                /\ sess'[u] = sess[u]

\* Nothing of interest.
Pause == UNCHANGED <<entries, state, keyOf, nextGen, pc, key, tok, via, sess>>

\* t moves on without touching an entry, and neither draws nor wins one.
Walk(t) ==
    /\ UNCHANGED <<entries, state, keyOf, nextGen>>
    /\ Others(t)
    /\ pc'[t] \in KeyLabels => key'[t] \in Keys
    /\ pc'[t] \in TokLabels => pc[t] \in TokLabels /\ tok'[t] = tok[t] /\ key'[t] = key[t]
    /\ pc'[t] \in Unpublished => pc[t] \in Unpublished
    /\ pc'[t] \in Removing <=> pc[t] \in Removing
    /\ pc'[t] \in {"beginClose", "drain"} \/ via'[t] = "drain" => sess'[t] \in Sessions

\* t draws a generation for key k.
Draw(t, k) ==
    /\ UNCHANGED <<entries, state>>
    /\ nextGen \in Gens
    /\ nextGen' = nextGen + 1
    /\ keyOf' = [keyOf EXCEPT ![nextGen] = k]
    /\ Others(t)
    /\ pc[t] \notin Removing
    /\ pc'[t] = "gauge" /\ key'[t] = k /\ tok'[t] = nextGen
    /\ via'[t] = via[t] /\ sess'[t] = sess[t]

\* t publishes the generation it drew under its free key.
Publish(t) ==
    /\ UNCHANGED <<keyOf, nextGen>>
    /\ pc[t] = "insert"
    /\ entries[key[t]] = None
    /\ entries' = [entries EXCEPT ![key[t]] = tok[t]]
    /\ state' = [state EXCEPT ![tok[t]] = "Pending"]
    /\ Others(t)
    /\ pc'[t] = "index" /\ key'[t] = key[t] /\ tok'[t] = tok[t] /\ via'[t] = via[t]
    /\ sess'[t] = sess[t]

\* g's Responder claims it.
Claimed(g) ==
    /\ Found(g)
    /\ state[g] = "Pending"
    /\ state' = [state EXCEPT ![g] = "Responding"]
    /\ UNCHANGED <<entries, keyOf, nextGen, pc, key, tok, via, sess>>

\* t settles a live registration and owns its removal.
Win(t, g) ==
    /\ UNCHANGED <<entries, keyOf, nextGen>>
    /\ Found(g)
    /\ state[g] \in Live
    /\ \E outcome \in Terminal : state' = [state EXCEPT ![g] = outcome]
    /\ Others(t)
    /\ pc[t] \notin Removing
    /\ pc'[t] = "dec" /\ tok'[t] = g /\ key'[t] = keyOf[g]
    /\ via'[t] = "drain" => sess'[t] \in Sessions

\* t takes the entry it owns out of the map.
Unlink(t) ==
    /\ UNCHANGED <<state, keyOf, nextGen>>
    /\ pc[t] = "rmEntry"
    /\ entries' = [entries EXCEPT ![key[t]] = None]
    /\ Others(t)
    /\ pc'[t] \in {"rmIndex", "rmWaiter"} /\ key'[t] = key[t] /\ via'[t] = via[t]
    /\ sess'[t] = sess[t]

\* A step of one of the seven kinds.
Kind ==
    \/ Pause
    \/ \E t \in Threads : \/ Walk(t) \/ Publish(t) \/ Unlink(t)
                          \/ \E k \in Keys : Draw(t, k)
                          \/ \E g \in Gens : Win(t, g)
    \/ \E g \in Gens : Claimed(g)

\* Every step of the registry is of one of the seven kinds.
LEMMA StepKind ==
    ASSUME TypeOK, ThreadShape, EntriesShape, [Next]_vars
    PROVE  Kind
<1>0. /\ ControlOK
      /\ sess \in [Threads -> Sessions \cup {None}]
      /\ entries \in [Keys -> Gens \cup {None}]
      /\ nextId \in [Sessions -> Ids]
      /\ nextGen \in 1 .. MaxGen + 1
      /\ wheel \in SUBSET (Keys \X Gens)
      /\ ThreadShape
  BY DEF TypeOK, ControlOK
<1>1. ASSUME NEW s \in Sessions, OpenSession(s)
      PROVE  Pause
  BY <1>1 DEF ControlOK, ThreadShape, Pause, OpenSession, registryVars, userVars, threadVars
<1>2. ASSUME NEW g \in Gens, Respond(g)
      PROVE  Pause \/ Claimed(g)
  BY <1>2
     DEF ControlOK, ThreadShape, Pause, Claimed, Respond, BeginRespond, Found, registryVars,
         userVars, threadVars
<1>3. ASSUME NEW g \in Gens, WriteResponse(g)
      PROVE  Pause
  BY <1>3
     DEF ControlOK, ThreadShape, Pause, WriteResponse, registryVars, userVars, threadVars
<1>4. ASSUME NEW g \in Gens, CallerReceives(g)
      PROVE  Pause
  BY <1>4
     DEF ControlOK, ThreadShape, Pause, CallerReceives, registryVars, userVars, threadVars
<1>5. ASSUME NEW g \in Gens, DeadlinePasses(g)
      PROVE  Pause
  BY <1>5
     DEF ControlOK, ThreadShape, Pause, DeadlinePasses, registryVars, userVars, threadVars
<1>6. ASSUME NEW t \in Threads, NEW k \in Keys, RegisterInbound(t, k)
      PROVE  k \in Keys /\ Draw(t, k)
  BY <1>6, <1>0, ConstantsAssumption
     DEF ControlOK, ThreadShape, Draw, Others, Gens, RegisterInbound, EnterRegister, Labels,
         KeyLabels, TokLabels, Unpublished, Removing, registryVars, userVars, threadVars
<1>7. ASSUME NEW t \in Threads, NEW k \in Keys, CompleteWaiter(t, k)
      PROVE  entries[k] \in Gens /\ Win(t, entries[k])
  BY <1>7, <1>0
     DEF ControlOK, ThreadShape, Win, Others, CompleteWaiter, Settle, FoundIn, Found, Live,
         Terminal, None, EntriesShape, Labels, KeyLabels, TokLabels, Unpublished, Removing,
         registryVars, userVars, threadVars
<1>8. ASSUME NEW t \in Threads, NEW s \in Sessions, NextRequestId(t, s)
      PROVE  Walk(t)
  BY <1>8, <1>0, KeyMade
     DEF ControlOK, ThreadShape, Walk, Others, NextRequestId, Directions, Labels, KeyLabels,
         TokLabels, Unpublished, Removing, registryVars, userVars, threadVars
<1>9. ASSUME NEW t \in Threads, NEW s \in Sessions, CloseSessionPending(t, s)
      PROVE  Walk(t)
  BY <1>9, <1>0
     DEF ControlOK, ThreadShape, Walk, Others, CloseSessionPending, Goto, Labels, KeyLabels,
         TokLabels, Unpublished, Removing, registryVars, userVars, threadVars
<1>10. ASSUME NEW t \in Threads, NEW g \in Gens, DropResponder(t, g)
      PROVE  Pause \/ Win(t, g)
  BY <1>10, <1>0
     DEF ControlOK, ThreadShape, Pause, Win, Others, DropResponder, AbortRequestToken,
         Settle, Found, Live, Terminal, Labels, KeyLabels, TokLabels, Unpublished, Removing,
         registryVars, userVars, threadVars
<1>11. ASSUME NEW t \in Threads, NEW g \in Gens, CallerGivesUp(t, g)
      PROVE  Pause \/ Win(t, g)
  BY <1>11, <1>0
     DEF ControlOK, ThreadShape, Pause, Win, Others, CallerGivesUp, AbortRequestToken,
         Settle, Found, Live, Terminal, Labels, KeyLabels, TokLabels, Unpublished, Removing,
         registryVars, userVars, threadVars
<1>12. ASSUME NEW t \in Threads, NEW g \in Gens, NEW ok \in BOOLEAN, FinishRespond(t, g, ok)
      PROVE  Pause \/ Win(t, g)
  BY <1>12, <1>0
     DEF ControlOK, ThreadShape, Pause, Win, Others, FinishRespond, Settle, Found, Live,
         Terminal, Labels, KeyLabels, TokLabels, Unpublished, Removing, registryVars,
         userVars, threadVars
<1>13. ASSUME NEW t \in Threads, NEW w \in wheel, ScanTimeoutBucket(t, w)
      PROVE  Walk(t)
  BY <1>13, <1>0
     DEF ControlOK, ThreadShape, Walk, Others, ScanTimeoutBucket, FoundIn, Labels,
         KeyLabels, TokLabels, Unpublished, Removing, registryVars, userVars, threadVars
<1>14. ASSUME NEW t \in Threads, RegisterOutbound(t)
      PROVE  key[t] \in Keys /\ Draw(t, key[t])
  BY <1>14, <1>0, ConstantsAssumption
     DEF ControlOK, ThreadShape, Draw, Others, Gens, RegisterOutbound, EnterRegister,
         Labels, KeyLabels, TokLabels, Unpublished, Removing, registryVars, userVars,
         threadVars
<1>15. ASSUME NEW t \in Threads, RegisterOutboundRefused(t)
      PROVE  Walk(t)
  BY <1>15, <1>0
     DEF ControlOK, ThreadShape, Walk, Others, RegisterOutboundRefused, Return, Labels,
         KeyLabels, TokLabels, Unpublished, Removing, registryVars, userVars, threadVars
<1>16. ASSUME NEW t \in Threads, Gauge(t)
      PROVE  Walk(t)
  BY <1>16, <1>0
     DEF ControlOK, ThreadShape, Walk, Others, Gauge, Goto, Labels, KeyLabels, TokLabels,
         Unpublished, Removing, registryVars, userVars, threadVars
<1>17. ASSUME NEW t \in Threads, Insert(t)
      PROVE  Walk(t) \/ Publish(t)
  BY <1>17, <1>0
     DEF ControlOK, ThreadShape, Walk, Publish, Others, Insert, Goto, Labels, KeyLabels,
         TokLabels, Unpublished, Removing, registryVars, userVars, threadVars
<1>18. ASSUME NEW t \in Threads, Refused(t)
      PROVE  Walk(t)
  BY <1>18, <1>0
     DEF ControlOK, ThreadShape, Walk, Others, Refused, Return, Labels, KeyLabels,
         TokLabels, Unpublished, Removing, registryVars, userVars, threadVars
<1>19. ASSUME NEW t \in Threads, Index(t)
      PROVE  Walk(t)
  BY <1>19, <1>0
     DEF ControlOK, ThreadShape, Walk, Others, Index, Goto, Labels, KeyLabels, TokLabels,
         Unpublished, Removing, registryVars, userVars, threadVars
<1>20. ASSUME NEW t \in Threads, Recheck(t)
      PROVE  Walk(t)
  BY <1>20, <1>0
     DEF ControlOK, ThreadShape, Walk, Others, Recheck, Goto, Labels, KeyLabels, TokLabels,
         Unpublished, Removing, registryVars, userVars, threadVars
<1>21. ASSUME NEW t \in Threads, Undo(t)
      PROVE  Walk(t) \/ (entries[key[t]] \in Gens /\ Win(t, entries[key[t]]))
  BY <1>21, <1>0
     DEF ControlOK, ThreadShape, Walk, Win, Others, Undo, Settle, FoundIn, Goto, Found,
         Live, Terminal, None, EntriesShape, Labels, KeyLabels, TokLabels, Unpublished,
         Removing, registryVars, userVars, threadVars
<1>22. ASSUME NEW t \in Threads, Schedule(t)
      PROVE  Walk(t)
  BY <1>22, <1>0
     DEF ControlOK, ThreadShape, Walk, Others, Schedule, Return, Labels, KeyLabels,
         TokLabels, Unpublished, Removing, registryVars, userVars, threadVars
<1>23. ASSUME NEW t \in Threads, PutWaiter(t)
      PROVE  Walk(t)
  BY <1>23, <1>0
     DEF ControlOK, ThreadShape, Walk, Others, PutWaiter, Goto, Labels, KeyLabels,
         TokLabels, Unpublished, Removing, registryVars, userVars, threadVars
<1>24. ASSUME NEW t \in Threads, Verify(t)
      PROVE  Walk(t)
  BY <1>24, <1>0
     DEF ControlOK, ThreadShape, Walk, Others, Verify, ArmGuard, Return, Goto, Labels, KeyLabels,
         TokLabels, Unpublished, Removing, registryVars, userVars, threadVars
<1>25. ASSUME NEW t \in Threads, MarkTimedOut(t)
      PROVE  Walk(t) \/ (entries[key[t]] \in Gens /\ Win(t, entries[key[t]]))
  BY <1>25, <1>0
     DEF ControlOK, ThreadShape, Walk, Win, Others, MarkTimedOut, Settle, FoundIn, Return,
         Found, Live, Terminal, None, EntriesShape, Labels, KeyLabels, TokLabels,
         Unpublished, Removing, registryVars, userVars, threadVars
<1>26. ASSUME NEW t \in Threads, Dec(t)
      PROVE  Walk(t)
  BY <1>26, <1>0
     DEF ControlOK, ThreadShape, Walk, Others, Dec, Goto, Labels, KeyLabels, TokLabels,
         Unpublished, Removing, registryVars, userVars, threadVars
<1>27. ASSUME NEW t \in Threads, RmEntry(t)
      PROVE  Unlink(t)
  BY <1>27, <1>0
     DEF ControlOK, ThreadShape, Unlink, Others, RmEntry, Goto, registryVars, userVars,
         threadVars
<1>28. ASSUME NEW t \in Threads, RmIndex(t)
      PROVE  Walk(t)
  BY <1>28, <1>0
     DEF ControlOK, ThreadShape, Walk, Others, RmIndex, Goto, Return, Labels, KeyLabels,
         TokLabels, Unpublished, Removing, registryVars, userVars, threadVars
<1>29. ASSUME NEW t \in Threads, RmWaiter(t)
      PROVE  Walk(t)
  BY <1>29, <1>0
     DEF ControlOK, ThreadShape, Walk, Others, RmWaiter, Labels, KeyLabels, TokLabels,
         Unpublished, Removing, registryVars, userVars, threadVars
<1>30. ASSUME NEW t \in Threads, Deliver(t)
      PROVE  Walk(t)
  BY <1>30, <1>0
     DEF ControlOK, ThreadShape, Walk, Others, Deliver, Return, Labels, KeyLabels,
         TokLabels, Unpublished, Removing, registryVars, userVars, threadVars
<1>31. ASSUME NEW t \in Threads, BeginClose(t)
      PROVE  Walk(t)
  BY <1>31, <1>0
     DEF ControlOK, ThreadShape, Walk, Others, BeginClose, Goto, Labels, KeyLabels,
         TokLabels, Unpublished, Removing, registryVars, userVars, threadVars
<1>32. ASSUME NEW t \in Threads, NEW k \in Keys, Drain(t, k)
      PROVE  Walk(t) \/ (entries[k] \in Gens /\ Win(t, entries[k]))
  BY <1>32, <1>0
     DEF ControlOK, ThreadShape, Walk, Win, Others, Drain, Settle, FoundIn, Found, Live,
         Terminal, None, EntriesShape, Labels, KeyLabels, TokLabels, Unpublished, Removing,
         registryVars, userVars, threadVars
<1>33. ASSUME NEW t \in Threads, DrainEnd(t)
      PROVE  Walk(t)
  BY <1>33, <1>0
     DEF ControlOK, ThreadShape, Walk, Others, DrainEnd, Return, Labels, KeyLabels,
         TokLabels, Unpublished, Removing, registryVars, userVars, threadVars
<1>34. CASE UNCHANGED vars
  BY <1>34 DEF Kind, vars, Pause, registryVars, userVars, threadVars
<1> QED
  BY <1>0, <1>1, <1>2, <1>3, <1>4, <1>5, <1>6, <1>7, <1>8, <1>9, <1>10, <1>11, <1>12, <1>13,
     
     <1>14, <1>15, <1>16, <1>17, <1>18, <1>19, <1>20, <1>21, <1>22, <1>23, <1>24, <1>25,
     <1>26, <1>27, <1>28, <1>29, <1>30, <1>31, <1>32, <1>33, <1>34
     DEF Kind, Next, Environment, Start, Continue

\* Every kind of step preserves the invariant.
LEMMA KindKeepsInv ==
    ASSUME RegistryInv, TypeOK', Kind
    PROVE  RegistryInv'
<1>0. /\ TypeOK' /\ ThreadShape /\ EntriesShape /\ GensShape
      /\ DrawnAlone /\ LiveFound /\ RemovalOwned
      /\ entries \in [Keys -> Gens \cup {None}]
      /\ state \in [Gens -> Live \cup Terminal \cup {"Unborn"}]
      /\ keyOf \in [Gens -> Keys \cup {NoKey}]
      /\ nextGen \in Nat
      /\ Gens \subseteq Nat /\ None \notin Gens
  <2>1. TypeOK
    BY DEF RegistryInv
  <2>2. nextGen \in Nat /\ Gens \subseteq Nat /\ None \notin Gens
    BY <2>1, ConstantsAssumption DEF TypeOK, Gens, None
  <2>3. /\ entries \in [Keys -> Gens \cup {None}]
        /\ state \in [Gens -> Live \cup Terminal \cup {"Unborn"}]
        /\ keyOf \in [Gens -> Keys \cup {NoKey}]
    BY <2>1 DEF TypeOK
  <2> QED
    BY <2>2, <2>3 DEF RegistryInv
<1>1. CASE Pause
  <2>1. ThreadShape'
    BY <1>0, <1>1 DEF Pause, ThreadShape, KeyLabels, TokLabels, Labels
  <2>2. EntriesShape'
    BY <1>0, <1>1 DEF Pause, EntriesShape, None
  <2>3. GensShape'
    BY <1>0, <1>1 DEF Pause, GensShape, Gens
  <2>4. DrawnAlone'
    BY <1>0, <1>1
       DEF Pause, DrawnAlone, Unpublished, ThreadShape, TokLabels, Labels, KeyLabels
  <2>5. LiveFound'
    BY <1>0, <1>1 DEF Pause, LiveFound, Found, Live, Terminal
  <2>6. RemovalOwned'
    BY <1>0, <1>1 DEF Pause, RemovalOwned, Owns, Removing, Found, Terminal, Live
  <2> QED
    BY <1>0, <2>1, <2>2, <2>3, <2>4, <2>5, <2>6 DEF RegistryInv
<1>2. ASSUME NEW t \in Threads, Walk(t)
      PROVE  RegistryInv'
  <2>1. ThreadShape'
    BY <1>0, <1>2 DEF Walk, Others, ThreadShape, KeyLabels, TokLabels, Labels
  <2>2. EntriesShape'
    BY <1>0, <1>2 DEF Walk, Others, EntriesShape, None
  <2>3. GensShape'
    BY <1>0, <1>2 DEF Walk, Others, GensShape, Gens
  <2>4. DrawnAlone'
    BY <1>0, <1>2
       DEF Walk, Others, DrawnAlone, Unpublished, ThreadShape, TokLabels, Labels, KeyLabels
  <2>5. LiveFound'
    BY <1>0, <1>2 DEF Walk, Others, LiveFound, Found, Live, Terminal
  <2>6. RemovalOwned'
    BY <1>0, <1>2
       DEF Walk, Others, RemovalOwned, Owns, Removing, Found, Terminal, Live, TokLabels
  <2> QED
    BY <1>0, <2>1, <2>2, <2>3, <2>4, <2>5, <2>6 DEF RegistryInv
<1>3. ASSUME NEW t \in Threads, NEW k \in Keys, Draw(t, k)
      PROVE  RegistryInv'
  <2>1. ThreadShape'
    BY <1>0, <1>3
       DEF Draw, Others, ThreadShape, KeyLabels, TokLabels, Labels, Gens, GensShape
  <2>2. EntriesShape'
    BY <1>0, <1>3 DEF Draw, Others, EntriesShape, None, GensShape
  <2>3. GensShape'
    BY <1>0, <1>3 DEF Draw, Others, GensShape, Gens
  <2>4. DrawnAlone'
    BY <1>0, <1>3
       DEF Draw, Others, DrawnAlone, Unpublished, ThreadShape, TokLabels, Labels, KeyLabels,
           GensShape, Gens
  <2>5. LiveFound'
    BY <1>0, <1>3 DEF Draw, Others, LiveFound, Found, Live, Terminal, GensShape
  <2>6. RemovalOwned'
    BY <1>0, <1>3
       DEF Draw, Others, RemovalOwned, Owns, Removing, Found, Terminal, Live, GensShape,
           ThreadShape, TokLabels
  <2> QED
    BY <1>0, <2>1, <2>2, <2>3, <2>4, <2>5, <2>6 DEF RegistryInv
<1>4. ASSUME NEW t \in Threads, Publish(t)
      PROVE  RegistryInv'
  <2>1. ThreadShape'
    BY <1>0, <1>4 DEF Publish, Others, ThreadShape, KeyLabels, TokLabels, Labels
  <2>2. EntriesShape'
    BY <1>0, <1>4
       DEF Publish, Others, EntriesShape, None, ThreadShape, DrawnAlone, TokLabels,
           Unpublished
  <2>3. GensShape'
    BY <1>0, <1>4
       DEF Publish, Others, GensShape, Gens, ThreadShape, TokLabels, KeyLabels, Labels
  <2>4. DrawnAlone'
    BY <1>0, <1>4
       DEF Publish, Others, DrawnAlone, Unpublished, ThreadShape, TokLabels, Labels,
           KeyLabels
  <2>5. LiveFound'
    BY <1>0, <1>4
       DEF Publish, Others, LiveFound, Found, Live, Terminal, ThreadShape, TokLabels, None,
           GensShape, KeyLabels, Labels
  <2>6. RemovalOwned'
    BY <1>0, <1>4
       DEF Publish, Others, RemovalOwned, Owns, Removing, Found, Terminal, Live,
           ThreadShape, TokLabels, DrawnAlone, Unpublished, None, GensShape, Gens
  <2> QED
    BY <1>0, <2>1, <2>2, <2>3, <2>4, <2>5, <2>6 DEF RegistryInv
<1>5. ASSUME NEW g \in Gens, Claimed(g)
      PROVE  RegistryInv'
  <2>1. ThreadShape'
    BY <1>0, <1>5 DEF Claimed, ThreadShape, KeyLabels, TokLabels, Labels, Found
  <2>2. EntriesShape'
    BY <1>0, <1>5 DEF Claimed, EntriesShape, None, Found
  <2>3. GensShape'
    BY <1>0, <1>5 DEF Claimed, GensShape, Gens, Found
  <2>4. DrawnAlone'
    BY <1>0, <1>5
       DEF Claimed, DrawnAlone, Unpublished, ThreadShape, TokLabels, Labels, KeyLabels,
           Found
  <2>5. LiveFound'
    BY <1>0, <1>5 DEF Claimed, LiveFound, Found, Live, Terminal
  <2>6. RemovalOwned'
    BY <1>0, <1>5 DEF Claimed, RemovalOwned, Owns, Removing, Found, Terminal, Live
  <2> QED
    BY <1>0, <2>1, <2>2, <2>3, <2>4, <2>5, <2>6 DEF RegistryInv
<1>6. ASSUME NEW t \in Threads, NEW g \in Gens, Win(t, g)
      PROVE  RegistryInv'
  <2>1. ThreadShape'
    BY <1>0, <1>6
       DEF Win, Others, ThreadShape, KeyLabels, TokLabels, Labels, GensShape, Live, Found
  <2>2. EntriesShape'
    BY <1>0, <1>6 DEF Win, Others, EntriesShape, None, Found, Terminal
  <2>3. GensShape'
    BY <1>0, <1>6 DEF Win, Others, GensShape, Gens, Live, Found
  <2>4. DrawnAlone'
    BY <1>0, <1>6
       DEF Win, Others, DrawnAlone, Unpublished, ThreadShape, TokLabels, Labels, KeyLabels,
           Live, Found
  <2>5. LiveFound'
    BY <1>0, <1>6 DEF Win, Others, LiveFound, Found, Live, Terminal
  <2>6. RemovalOwned'
    BY <1>0, <1>6 DEF Win, Others, RemovalOwned, Owns, Removing, Found, Terminal, Live
  <2> QED
    BY <1>0, <2>1, <2>2, <2>3, <2>4, <2>5, <2>6 DEF RegistryInv
<1>7. ASSUME NEW t \in Threads, Unlink(t)
      PROVE  RegistryInv'
  <2>1. ThreadShape'
    BY <1>0, <1>7 DEF Unlink, Others, ThreadShape, KeyLabels, TokLabels, Labels
  <2>2. EntriesShape'
    BY <1>0, <1>7 DEF Unlink, Others, EntriesShape, None
  <2>3. GensShape'
    BY <1>0, <1>7 DEF Unlink, Others, GensShape, Gens
  <2>4. DrawnAlone'
    BY <1>0, <1>7
       DEF Unlink, Others, DrawnAlone, Unpublished, ThreadShape, TokLabels, Labels,
           KeyLabels
  <2>5. /\ tok[t] \in Gens /\ key[t] \in Keys
        /\ Found(tok[t]) /\ key[t] = keyOf[tok[t]] /\ state[tok[t]] \in Terminal
        /\ \A u \in Threads : Owns(u, tok[t]) => u = t
    BY <1>0, <1>7
       DEF Unlink, RemovalOwned, Owns, ThreadShape, KeyLabels, TokLabels, Labels
  <2>6. ASSUME NEW g \in Gens, g # tok[t], keyOf[g] \in Keys, Found(g)
        PROVE  Found(g)'
    BY <1>0, <1>7, <2>5, <2>6 DEF Unlink, Found
  <2>7. LiveFound'
    BY <1>0, <1>7, <2>5, <2>6 DEF Unlink, LiveFound, GensShape, Live, Terminal
  <2>8. entries'[key[t]] = None
    BY <1>0, <1>7, <2>5 DEF Unlink
  <2>9. ASSUME NEW u \in Threads, NEW g \in Gens, Owns(u, g)'
        PROVE  u # t /\ Owns(u, g) /\ g # tok[t]
    BY <1>7, <2>5, <2>9 DEF Unlink, Others, Owns
  <2>10. ASSUME NEW g \in Gens, Found(g)', keyOf[g] \in Keys
         PROVE  Found(g) /\ g # tok[t]
    BY <1>0, <1>7, <2>5, <2>8, <2>10 DEF Unlink, Found
  <2>11. RemovalOwned'
    <3>1. ASSUME NEW u \in Threads, NEW g \in Gens, Owns(u, g)'
          PROVE  /\ Found(g)' /\ key'[u] = keyOf'[g] /\ state'[g] \in Terminal
                 /\ \A v \in Threads : Owns(v, g)' => v = u
      <4>1. u # t /\ Owns(u, g) /\ g # tok[t]
        BY <2>9, <3>1
      <4>2. /\ Found(g) /\ key[u] = keyOf[g] /\ state[g] \in Terminal
            /\ \A v \in Threads : Owns(v, g) => v = u
        BY <1>0, <4>1 DEF RemovalOwned
      <4>3. keyOf[g] \in Keys
        BY <1>0, <4>2 DEF GensShape, Terminal
      <4>4. Found(g)'
        BY <2>6, <4>1, <4>2, <4>3
      <4>5. key'[u] = keyOf'[g] /\ state'[g] \in Terminal
        BY <1>7, <4>1, <4>2 DEF Unlink, Others
      <4>6. \A v \in Threads : Owns(v, g)' => v = u
        BY <2>9, <4>2
      <4> QED
        BY <4>4, <4>5, <4>6
    <3>2. ASSUME NEW g \in Gens, state'[g] \in Terminal, Found(g)'
          PROVE  \E u \in Threads : Owns(u, g)'
      <4>1. state[g] \in Terminal /\ keyOf[g] \in Keys
        BY <1>0, <1>7, <3>2 DEF Unlink, GensShape, Terminal
      <4>2. Found(g) /\ g # tok[t]
        BY <2>10, <3>2, <4>1
      <4>3. PICK u \in Threads : Owns(u, g)
        BY <1>0, <4>1, <4>2 DEF RemovalOwned
      <4>4. u # t
        BY <4>2, <4>3 DEF Owns
      <4> QED
        BY <1>7, <4>3, <4>4 DEF Unlink, Others, Owns
    <3> QED
      BY <3>1, <3>2 DEF RemovalOwned
  <2> QED
    BY <1>0, <2>1, <2>2, <2>3, <2>4, <2>7, <2>11 DEF RegistryInv
<1> QED
  BY <1>1, <1>2, <1>3, <1>4, <1>5, <1>6, <1>7 DEF Kind

\* The inductive invariant holds initially and is preserved by every step.
THEOREM RegistryInvariant == Spec => []RegistryInv
<1>1. Init => RegistryInv
  <2> SUFFICES ASSUME Init PROVE RegistryInv
    OBVIOUS
  <2>1. TypeOK
    BY ConstantsAssumption DEF Init, TypeOK, Ids, Labels, Tails
  <2>2. ThreadShape /\ EntriesShape /\ GensShape /\ DrawnAlone
    BY DEF Init, ThreadShape, EntriesShape, GensShape, DrawnAlone, KeyLabels, TokLabels,
           Unpublished
  <2>3. LiveFound /\ RemovalOwned
    BY DEF Init, LiveFound, RemovalOwned, Owns, Live, Terminal
  <2> QED
    BY <2>1, <2>2, <2>3 DEF RegistryInv
<1>2. RegistryInv /\ [Next]_vars => RegistryInv'
  BY TypeStep, StepKind, KindKeepsInv DEF RegistryInv
<1> QED
  BY <1>1, <1>2, PTL DEF Spec

\* Every reachable state of the registry is well typed: in particular the outbound id
\* counter of a session never leaves 1..MaxId, however many requests are made.
THEOREM TypeCorrect == Spec => []TypeOK
BY RegistryInvariant, PTL DEF RegistryInv

\* entries.remove(&key) always removes the registration its thread settled, and a
\* settled entry has exactly one remover, for any number of sessions, threads and
\* requests, whether or not peers reuse ids.
THEOREM RemovalIsOwned == Spec => []RemovalOwned
BY RegistryInvariant, PTL DEF RegistryInv

-----------------------------------------------------------------------------
(***************************************************************************)
(* How requests end: what the registry says of a request agrees with what  *)
(* was sent for it, callers get the response to their own request, and the *)
(* registry implements RequestLifecycle.                                   *)
(*                                                                         *)
(* OutcomeInv is the inductive invariant, on top of RegistryInv.  A waiter *)
(* is found by key alone; it is the right one because an outbound key is   *)
(* never used twice (KeysUnique, from the monotonic id counter), because   *)
(* a key has a direction and only one direction has waiters, responders    *)
(* and claims (Roles, HandsShape), and because one thread registers a      *)
(* generation (RegisteredAlone).                                           *)
(*                                                                         *)
(* Two more rest on it: GaugeInv counts the pending gauge as the live      *)
(* entries plus the threads between the gauge and the table, CloseInv says *)
(* what the close of a session still has to visit.                         *)
(***************************************************************************)

\* Where a thread is registering a generation.
RegLabels == {"gauge", "insert", "refused", "index", "recheck", "undo", "schedule",
              "putWaiter", "verify"}

\* An outbound key belongs to the id counter of its session, which has passed it, and is
\* used by one registration, or is about to be by one thread.
KeysUnique ==
    /\ \A g \in Gens : g < nextGen => keyOf[g] \in Keys
    /\ \A g \in Gens : g < nextGen /\ keyOf[g].dir = "Outbound" =>
          keyOf[g].id < nextId[keyOf[g].session]
    /\ \A g, h \in Gens :
          /\ g < nextGen /\ h < nextGen
          /\ keyOf[g] = keyOf[h] /\ keyOf[g].dir = "Outbound"
          => g = h
    /\ \A t \in Threads : pc[t] = "haveId" =>
          /\ key[t].dir = "Outbound"
          /\ key[t].id < nextId[key[t].session]
          /\ \A g \in Gens : g < nextGen => keyOf[g] # key[t]
          /\ \A u \in Threads : pc[u] = "haveId" /\ key[u] = key[t] => u = t

\* Which direction, and which registration, a thread is busy with.
Role(t) ==
    /\ pc[t] = "schedule" => key[t].dir = "Inbound"
    /\ pc[t] \in {"putWaiter", "verify"} => key[t].dir = "Outbound"
    /\ via[t] \in {"responded", "sendFailed"} =>
          pc[t] \in {"dec", "rmEntry", "rmIndex"} /\ key[t].dir = "Inbound"
    /\ via[t] = "complete" => /\ pc[t] \in {"dec", "rmEntry", "rmIndex", "deliver"}
                              /\ key[t].dir = "Outbound"
                              /\ tok[t] \in Gens /\ tok[t] < nextGen
                              /\ keyOf[tok[t]] = key[t]
                              /\ state[tok[t]] = "Responded"
    /\ pc[t] = "deliver" => via[t] = "complete"
    /\ pc[t] = "rmIndex" => /\ tok[t] \in Gens /\ tok[t] < nextGen
                            /\ keyOf[tok[t]] = key[t]
                            /\ state[tok[t]] \in Terminal

Roles == \A t \in Threads : Role(t)

\* One thread registers a generation, and its caller does not wait before it is told to.
RegisteredAlone ==
    \A t \in Threads : pc[t] \in RegLabels =>
        /\ \A u \in Threads : pc[u] \in RegLabels /\ tok[u] = tok[t] => u = t
        /\ pc[t] # "verify" => rx[tok[t]] = "none"

\* Responders and claims are of inbound requests, waiters and receivers of outbound ones,
\* and a waiter is of the key it is found under.
HandsShape ==
    /\ \A g \in responders \cup claims \cup written :
          g < nextGen /\ keyOf[g].dir = "Inbound"
    /\ \A g \in Gens : rx[g] # "none" => g < nextGen /\ keyOf[g].dir = "Outbound"
    /\ \A k \in Keys : waiters[k] # None =>
          k.dir = "Outbound" /\ waiters[k] < nextGen /\ keyOf[waiters[k]] = k

\* The states a request can be in given what was claimed, written and delivered for it.
OutcomeAgrees(g) ==
    /\ g \in claims => state[g] \in {"Responding", "SessionClosed"}
    /\ g \in written => state[g] \in {"Responding", "Responded", "SendFailed",
                                      "SessionClosed"}
    /\ keyOf[g].dir = "Inbound" /\ state[g] = "Responded" => g \in written
    /\ rx[g] = "response" => state[g] = "Responded"

OutcomesAgree == \A g \in Gens : OutcomeAgrees(g)

\* The inductive invariant.
OutcomeInv ==
    /\ RegistryInv
    /\ KeysUnique
    /\ Roles
    /\ RegisteredAlone
    /\ HandsShape
    /\ OutcomesAgree
    /\ WaiterNeverLost

-----------------------------------------------------------------------------
(* The steps, sorted by what they do to the calling thread.                *)

\* A single access by a user of the registry, or the passage of time.
UserStep ==
    \/ \E s \in Sessions : OpenSession(s)
    \/ \E g \in Gens : \/ Respond(g) \/ WriteResponse(g)
                        \/ CallerReceives(g) \/ DeadlinePasses(g)

\* A thread takes an outbound id or draws a generation.
DrawStep(t) ==
    \/ \E s \in Sessions : NextRequestId(t, s)
    \/ RegisterOutbound(t)
    \/ \E k \in Keys : RegisterInbound(t, k)

\* It goes on with a registration,
RegisterStep(t) ==
    \/ RegisterOutboundRefused(t) \/ Gauge(t) \/ Insert(t) \/ Refused(t) \/ Index(t)
    \/ Recheck(t) \/ Schedule(t) \/ PutWaiter(t) \/ Verify(t)

\* tries to settle one,
SettleStep(t) ==
    \/ \E k \in Keys : CompleteWaiter(t, k) \/ Drain(t, k)
    \/ \E g \in Gens : \/ DropResponder(t, g) \/ CallerGivesUp(t, g)
                        \/ \E ok \in BOOLEAN : FinishRespond(t, g, ok)
    \/ Undo(t) \/ MarkTimedOut(t)

\* removes one it has settled,
RemoveStep(t) == Dec(t) \/ RmEntry(t) \/ RmIndex(t) \/ RmWaiter(t) \/ Deliver(t)

\* or looks for work in a session that closes or a bucket that is due.
SweepStep(t) ==
    \/ \E s \in Sessions : CloseSessionPending(t, s)
    \/ BeginClose(t) \/ DrainEnd(t)
    \/ \E w \in wheel : ScanTimeoutBucket(t, w)

\* Every step is one of these.
LEMMA StepSorts ==
    ASSUME [Next]_vars
    PROVE  \/ UserStep \/ UNCHANGED vars
           \/ \E t \in Threads : \/ DrawStep(t) \/ RegisterStep(t) \/ SettleStep(t)
                                 \/ RemoveStep(t) \/ SweepStep(t)
BY DEF Next, Environment, Start, Continue, UserStep, DrawStep, RegisterStep, SettleStep,
   RemoveStep, SweepStep

\* Only its own thread's locals change in a step.
OthersStay(t) ==
    \A u \in Threads : u # t => /\ pc'[u] = pc[u] /\ key'[u] = key[u]
                                /\ tok'[u] = tok[u] /\ via'[u] = via[u]

\* What the sorts of steps leave alone, and where their thread goes.
LEMMA UserFrame ==
    ASSUME UserStep \/ UNCHANGED vars
    PROVE  /\ UNCHANGED <<nextId, nextGen, keyOf, entries, waiters, pc, key, tok, via, rx>>
           /\ UNCHANGED <<closing, requests, pending, sess, must, seen>>
<1>1. CASE \E s \in Sessions : OpenSession(s)
  BY <1>1 DEF OpenSession, userVars, threadVars
<1>2. CASE \E g \in Gens : Respond(g) \/ DeadlinePasses(g)
  BY <1>2 DEF Respond, BeginRespond, DeadlinePasses, userVars, threadVars
<1>3. CASE \E g \in Gens : WriteResponse(g) \/ CallerReceives(g)
  BY <1>3 DEF WriteResponse, CallerReceives, registryVars, threadVars
<1>4. CASE UNCHANGED vars
  BY <1>4 DEF vars, registryVars, userVars, threadVars
<1> QED
  BY <1>1, <1>2, <1>3, <1>4 DEF UserStep

\* A thread that registers moves along the labels of register and try_register_waiter.
LEMMA RegisterFrame ==
    ASSUME TypeOK, NEW t \in Threads, RegisterStep(t)
    PROVE  /\ UNCHANGED <<nextId, nextGen, keyOf, claims, written, sess, must, seen, closing>>
           /\ OthersStay(t)
           /\ pc[t] \in RegLabels \cup {"haveId"}
           /\ \/ pc'[t] \in {"idle"} /\ key'[t] = NoKey /\ tok'[t] = None /\ via'[t] = "none"
              \/ /\ pc'[t] \in (RegLabels \ {"gauge"}) \cup {"rmWaiter"}
                 /\ pc[t] \in RegLabels /\ key'[t] = key[t] /\ tok'[t] = tok[t]
                 /\ via'[t] = via[t]
<1>0. ControlOK
  BY DEF TypeOK, ControlOK
<1>1. CASE RegisterOutboundRefused(t) \/ Refused(t)
  BY <1>0, <1>1 DEF ControlOK, RegisterOutboundRefused, Refused, Return, OthersStay, RegLabels,
     registryVars, userVars
<1>2. CASE Gauge(t) \/ Insert(t) \/ Index(t)
  BY <1>0, <1>2 DEF ControlOK, Gauge, Insert, Index, Goto, OthersStay, RegLabels, userVars
<1>3. CASE Recheck(t)
  BY <1>0, <1>3 DEF ControlOK, Recheck, Goto, OthersStay, RegLabels, registryVars, userVars
<1>4. CASE Schedule(t)
  BY <1>0, <1>4 DEF ControlOK, Schedule, Return, OthersStay, RegLabels
<1>5. CASE PutWaiter(t)
  BY <1>0, <1>5 DEF ControlOK, PutWaiter, Goto, OthersStay, RegLabels
<1>6. CASE Verify(t)
  BY <1>0, <1>6 DEF ControlOK, Verify, ArmGuard, Goto, Return, OthersStay, RegLabels,
        registryVars
<1> QED
  BY <1>1, <1>2, <1>3, <1>4, <1>5, <1>6 DEF RegisterStep

\* t settles g, which it found in one of the states from.
WinsAs(t, g, from, outcome, tail) ==
    /\ g \in Gens /\ Found(g) /\ state[g] \in from
    /\ Settle(t, g, outcome, tail)

\* The ways to settle a request: only a claim can be answered or fail to be, and only a
\* close takes a request away from whoever is answering it.
Wins(t, g) ==
    \/ /\ UNCHANGED claims
       /\ \/ WinsAs(t, g, {"Pending"}, "Responded", "complete") /\ keyOf[g].dir = "Outbound"
          \/ WinsAs(t, g, {"Pending"}, "Dropped", "abort")
          \/ WinsAs(t, g, {"Pending"}, "TimedOut", "timedOut")
          \/ WinsAs(t, g, {"Pending"}, "SessionClosed", "undo")
          \/ WinsAs(t, g, Live, "SessionClosed", "drain")
    \/ /\ g \in claims /\ claims' = claims \ {g}
       /\ \/ g \in written /\ WinsAs(t, g, {"Responding"}, "Responded", "responded")
          \/ WinsAs(t, g, {"Responding"}, "SendFailed", "sendFailed")

\* Or t finds that it is too late.
Loses(t) ==
    /\ UNCHANGED state
    /\ \/ UNCHANGED <<pc, key, tok, via>>
       \/ pc[t] = "undo" /\ Goto(t, "rmWaiter")
       \/ pc[t] = "timeout" /\ Return(t)
    /\ \/ UNCHANGED claims
       \/ \E g \in claims : claims' = claims \ {g} /\ ~ (Found(g) /\ state[g] = "Responding")

\* A receiver that is given up is closed, unless it has its response.
RxCloses == \A g \in Gens : rx'[g] = rx[g] \/ (rx[g] = "open" /\ rx'[g] = "closed")

\* A step that tries to settle a request wins it in one of these ways, or loses it.
LEMMA SettleFrame ==
    ASSUME TypeOK, EntriesShape, ThreadShape, NEW t \in Threads, SettleStep(t)
    PROVE  /\ UNCHANGED <<nextId, nextGen, keyOf, entries, waiters, written, pending>>
           /\ UNCHANGED <<requests, closing, sess, must>>
           /\ responders' \in SUBSET responders
           /\ RxCloses
           /\ pc[t] \in {"idle", "undo", "timeout", "drain"}
           /\ Loses(t) \/ \E g \in Gens : Wins(t, g)
<1>0. /\ rx \in [Gens -> {"none", "open", "response", "closed"}]
      /\ entries \in [Keys -> Gens \cup {None}] /\ EntriesShape
      /\ pc[t] \in KeyLabels => key[t] \in Keys
  BY DEF TypeOK, ThreadShape
<1>1. \A k \in Keys, S \in SUBSET Live : FoundIn(k, S) =>
          /\ entries[k] \in Gens /\ Found(entries[k]) /\ state[entries[k]] \in S
          /\ keyOf[entries[k]] = k
  BY <1>0 DEF FoundIn, Found, EntriesShape, None
<1>2. {"Pending"} \in SUBSET Live /\ Live \in SUBSET Live
  BY DEF Live
<1>3. CASE \E k \in Keys : CompleteWaiter(t, k)
  <2>1. PICK k \in Keys : CompleteWaiter(t, k)
    BY <1>3
  <2>2. Wins(t, entries[k]) /\ entries[k] \in Gens
    BY <2>1, <1>1, <1>2 DEF CompleteWaiter, Wins, WinsAs, userVars
  <2> QED
    BY <2>1, <2>2 DEF CompleteWaiter, userVars, RxCloses
<1>4. CASE \E k \in Keys : Drain(t, k)
  <2>1. PICK k \in Keys : Drain(t, k)
    BY <1>4
  <2>2. Loses(t) \/ (Wins(t, entries[k]) /\ entries[k] \in Gens)
    BY <2>1, <1>1, <1>2 DEF Drain, Wins, WinsAs, Loses, userVars
  <2> QED
    BY <2>1, <2>2 DEF Drain, userVars, RxCloses
<1>5. CASE \E g \in Gens : DropResponder(t, g)
  BY <1>5 DEF DropResponder, AbortRequestToken, Wins, WinsAs, Loses, RxCloses
<1>6. CASE \E g \in Gens : CallerGivesUp(t, g)
  <2>1. PICK g \in Gens : CallerGivesUp(t, g)
    BY <1>6
  <2>2. RxCloses
    BY <2>1, <1>0 DEF CallerGivesUp, CloseRx, RxCloses
  <2>3. Loses(t) \/ Wins(t, g)
    BY <2>1 DEF CallerGivesUp, AbortRequestToken, Wins, WinsAs, Loses
  <2> QED
    BY <2>1, <2>2, <2>3 DEF CallerGivesUp
<1>7. CASE \E g \in Gens : \E ok \in BOOLEAN : FinishRespond(t, g, ok)
  <2>1. PICK g \in Gens, ok \in BOOLEAN : FinishRespond(t, g, ok)
    BY <1>7
  <2>2. Loses(t) \/ Wins(t, g)
    BY <2>1 DEF FinishRespond, Confirmed, Wins, WinsAs, Loses
  <2> QED
    BY <2>1, <2>2 DEF FinishRespond, RxCloses
<1>8. CASE Undo(t)
  <2>1. key[t] \in Keys
    BY <1>0, <1>8 DEF Undo, KeyLabels, Labels
  <2>2. Loses(t) \/ (Wins(t, entries[key[t]]) /\ entries[key[t]] \in Gens)
    BY <2>1, <1>1, <1>2, <1>8 DEF Undo, Wins, WinsAs, Loses, userVars
  <2> QED
    BY <2>2, <1>8 DEF Undo, userVars, RxCloses
<1>9. CASE MarkTimedOut(t)
  <2>1. key[t] \in Keys
    BY <1>0, <1>9 DEF MarkTimedOut, KeyLabels, Labels
  <2>2. Loses(t) \/ (Wins(t, entries[key[t]]) /\ entries[key[t]] \in Gens)
    BY <2>1, <1>1, <1>2, <1>9 DEF MarkTimedOut, Wins, WinsAs, Loses, userVars
  <2> QED
    BY <2>2, <1>9 DEF MarkTimedOut, userVars, RxCloses
<1> QED
  BY <1>3, <1>4, <1>5, <1>6, <1>7, <1>8, <1>9 DEF SettleStep

\* A thread that removes what it settled changes no registration.
LEMMA RemoveFrame ==
    ASSUME TypeOK, NEW t \in Threads, RemoveStep(t)
    PROVE  /\ UNCHANGED <<nextId, nextGen, keyOf, state, claims, written, responders>>
           /\ UNCHANGED <<closing, sess, must, seen>>
           /\ OthersStay(t)
           /\ \/ pc[t] = "dec" /\ pc'[t] = "rmEntry" /\ UNCHANGED <<key, tok, via>>
              \/ pc[t] = "rmEntry" /\ UNCHANGED <<key, tok, via>>
                 /\ pc'[t] = IF via[t] = "drain" THEN "rmWaiter" ELSE "rmIndex"
              \/ pc[t] = "rmIndex" /\ UNCHANGED <<key, tok, via>>
                 /\ via[t] \notin {"responded", "sendFailed"}
                 /\ pc'[t] = IF via[t] = "complete" THEN "deliver" ELSE "rmWaiter"
              \/ /\ \/ pc[t] = "rmIndex" /\ via[t] \in {"responded", "sendFailed"}
                    \/ pc[t] \in {"rmWaiter", "deliver"}
                 /\ pc'[t] \in {"idle", "drain"}
                 /\ key'[t] = NoKey /\ tok'[t] = None /\ via'[t] = "none"
<1>0. ControlOK
  BY DEF TypeOK, ControlOK
<1>1. CASE Dec(t) \/ RmEntry(t)
  BY <1>0, <1>1 DEF ControlOK, Dec, RmEntry, Goto, OthersStay, userVars
<1>2. CASE RmIndex(t)
  BY <1>0, <1>2 DEF ControlOK, RmIndex, Goto, Return, OthersStay, userVars
<1>3. CASE RmWaiter(t)
  BY <1>0, <1>3 DEF ControlOK, RmWaiter, OthersStay
<1>4. CASE Deliver(t)
  BY <1>0, <1>4 DEF ControlOK, Deliver, Return, OthersStay
<1> QED
  BY <1>1, <1>2, <1>3, <1>4 DEF RemoveStep

\* A thread that sweeps has no registration in hand.
LEMMA SweepFrame ==
    ASSUME TypeOK, NEW t \in Threads, SweepStep(t)
    PROVE  /\ UNCHANGED <<nextId, nextGen, keyOf, state, entries, waiters, pending>>
           /\ UNCHANGED <<claims, written, responders, rx>>
           /\ OthersStay(t)
           /\ pc[t] \in {"idle", "beginClose", "drain"}
           /\ pc'[t] \in {"idle", "beginClose", "drain", "timeout"}
           /\ via'[t] \in {via[t], "none"}
<1>0. ControlOK
  BY DEF TypeOK, ControlOK
<1>1. CASE \E s \in Sessions : CloseSessionPending(t, s)
  BY <1>0, <1>1 DEF ControlOK, CloseSessionPending, Goto, OthersStay, userVars
<1>2. CASE BeginClose(t)
  BY <1>0, <1>2 DEF ControlOK, BeginClose, Goto, OthersStay, userVars
<1>3. CASE DrainEnd(t)
  BY <1>0, <1>3 DEF ControlOK, DrainEnd, Return, OthersStay, userVars
<1>4. CASE \E w \in wheel : ScanTimeoutBucket(t, w)
  BY <1>0, <1>4 DEF ControlOK, ScanTimeoutBucket, OthersStay, userVars
<1> QED
  BY <1>1, <1>2, <1>3, <1>4 DEF SweepStep

\* A thread that draws gets the next generation, for a key of its own or the peer's.
LEMMA DrawFrame ==
    ASSUME TypeOK, ThreadShape, NEW t \in Threads, DrawStep(t)
    PROVE  /\ UNCHANGED <<state, entries, waiters, pending, claims, written, responders, rx>>
           /\ UNCHANGED <<requests, closing, sess, must, seen>>
           /\ OthersStay(t)
           /\ \/ /\ pc[t] = "idle" /\ pc'[t] = "haveId" /\ UNCHANGED <<nextGen, keyOf, tok, via>>
                 /\ \E s \in Sessions :
                       /\ nextId[s] \in Nat /\ nextId' = [nextId EXCEPT ![s] = nextId[s] + 1]
                       /\ key'[t] = [session |-> s, id |-> nextId[s], dir |-> "Outbound"]
              \/ /\ UNCHANGED <<nextId, via>> /\ nextGen \in Gens /\ nextGen' = nextGen + 1
                 /\ pc'[t] = "gauge" /\ tok'[t] = nextGen /\ key'[t] \in Keys
                 /\ keyOf' = [keyOf EXCEPT ![nextGen] = key'[t]]
                 /\ \/ pc[t] = "idle" /\ key'[t].dir = "Inbound"
                    \/ pc[t] = "haveId" /\ key'[t] = key[t]
<1>0. /\ ControlOK /\ nextGen \in 1 .. MaxGen + 1 /\ nextId \in [Sessions -> Ids]
      /\ pc[t] \in KeyLabels => key[t] \in Keys
  BY DEF TypeOK, ControlOK, ThreadShape
<1>1. CASE \E s \in Sessions : NextRequestId(t, s)
  <2>1. PICK s \in Sessions : NextRequestId(t, s)
    BY <1>1
  <2>2. nextId[s] \in Nat
    BY <1>0, ConstantsAssumption DEF Ids
  <2> QED
    BY <1>0, <2>1, <2>2 DEF ControlOK, NextRequestId, AllocateId, OthersStay, userVars
<1>2. CASE RegisterOutbound(t)
  <2>1. pc[t] = "haveId" /\ key[t] \in Keys /\ EnterRegister(t, key[t])
    BY <1>0, <1>2 DEF RegisterOutbound, KeyLabels, Labels
  <2>2. nextGen \in Gens
    BY <2>1, <1>0, ConstantsAssumption DEF EnterRegister, Gens
  <2> QED
    BY <1>0, <2>1, <2>2 DEF ControlOK, EnterRegister, OthersStay, userVars
<1>3. CASE \E k \in Keys : RegisterInbound(t, k)
  <2>1. PICK k \in Keys : pc[t] = "idle" /\ k.dir = "Inbound" /\ EnterRegister(t, k)
    BY <1>3 DEF RegisterInbound
  <2>2. nextGen \in Gens
    BY <2>1, <1>0, ConstantsAssumption DEF EnterRegister, Gens
  <2> QED
    BY <1>0, <2>1, <2>2 DEF ControlOK, EnterRegister, OthersStay, userVars
<1> QED
  BY <1>1, <1>2, <1>3 DEF DrawStep

-----------------------------------------------------------------------------
(* Keys and roles.                                                         *)

\* A step that draws nothing keeps the keys unique.
LEMMA KeysStay ==
    ASSUME KeysUnique, UNCHANGED <<nextId, nextGen, keyOf>>,
           \A u \in Threads : pc'[u] = "haveId" => pc[u] = "haveId" /\ key'[u] = key[u]
    PROVE  KeysUnique'
BY DEF KeysUnique

\* Every step keeps outbound keys unique: ids are never given twice.
LEMMA KeysStep ==
    ASSUME RegistryInv, KeysUnique, [Next]_vars
    PROVE  KeysUnique'
<1>0. /\ TypeOK /\ ThreadShape /\ EntriesShape
      /\ pc \in [Threads -> Labels] /\ keyOf \in [Gens -> Keys \cup {NoKey}]
      /\ key \in [Threads -> Keys \cup {NoKey}] /\ tok \in [Threads -> Gens \cup {None}]
      /\ via \in [Threads -> Tails]
      /\ nextId \in [Sessions -> Ids] /\ nextGen \in 1 .. MaxGen + 1
  BY DEF RegistryInv, TypeOK
<1>1. CASE UserStep \/ UNCHANGED vars
  BY <1>1, UserFrame, KeysStay
<1>2. CASE \E t \in Threads : RegisterStep(t)
  BY <1>0, <1>2, RegisterFrame, KeysStay DEF OthersStay, RegLabels
<1>3. CASE \E t \in Threads : RemoveStep(t)
  BY <1>0, <1>3, RemoveFrame, KeysStay DEF OthersStay
<1>4. CASE \E t \in Threads : SweepStep(t)
  BY <1>0, <1>4, SweepFrame, KeysStay DEF OthersStay
<1>5. CASE \E t \in Threads : SettleStep(t)
  <2>1. PICK t \in Threads : SettleStep(t)
    BY <1>5
  <2>2. /\ UNCHANGED <<nextId, nextGen, keyOf>>
        /\ Loses(t) \/ \E g \in Gens : Wins(t, g)
    BY <2>1, <1>0, SettleFrame
  <2>3. \A u \in Threads : pc'[u] = "haveId" => pc[u] = "haveId" /\ key'[u] = key[u]
    <3>1. CASE Loses(t)
      BY <3>1, <1>0 DEF Loses, Goto, Return
    <3>2. CASE \E g \in Gens : Wins(t, g)
      BY <3>2, <1>0 DEF Wins, WinsAs, Settle
    <3> QED
      BY <3>1, <3>2, <2>2
  <2> QED
    BY <2>2, <2>3, KeysStay
<1>6. ASSUME NEW t \in Threads, OthersStay(t), pc[t] = "idle", pc'[t] = "haveId",
             UNCHANGED <<nextGen, keyOf>>, NEW s \in Sessions,
             nextId[s] \in Nat, nextId' = [nextId EXCEPT ![s] = nextId[s] + 1],
             key'[t] = [session |-> s, id |-> nextId[s], dir |-> "Outbound"]
      PROVE  KeysUnique'
  <2>1. \A r \in Sessions : nextId[r] \in Int /\ nextId[r] <= nextId'[r]
    BY <1>0, <1>6, ConstantsAssumption DEF Ids
  <2>2. \A k \in Keys : k.session \in Sessions /\ k.id \in Int
    BY ConstantsAssumption, KeyFields DEF Ids
  <2>3. \A g \in Gens : g < nextGen =>
            /\ keyOf[g] \in Keys
            /\ keyOf[g].dir = "Outbound" => keyOf[g].id < nextId'[keyOf[g].session]
            /\ keyOf[g] # key'[t]
    <3> SUFFICES ASSUME NEW g \in Gens, g < nextGen
                 PROVE  /\ keyOf[g] \in Keys
                        /\ keyOf[g].dir = "Outbound" => keyOf[g].id < nextId'[keyOf[g].session]
                        /\ keyOf[g] # key'[t]
      OBVIOUS
    <3>1. keyOf[g] \in Keys /\ keyOf[g].session \in Sessions /\ keyOf[g].id \in Int
      BY <2>2 DEF KeysUnique
    <3>2. keyOf[g].dir = "Outbound" => keyOf[g].id < nextId[keyOf[g].session]
      BY DEF KeysUnique
    <3> QED
      BY <3>1, <3>2, <2>1, <1>6
  <2>4. \A u \in Threads : pc[u] = "haveId" =>
            /\ key[u].dir = "Outbound" /\ key[u].id < nextId'[key[u].session]
            /\ key[u] # key'[t]
    <3> SUFFICES ASSUME NEW u \in Threads, pc[u] = "haveId"
                 PROVE  /\ key[u].dir = "Outbound" /\ key[u].id < nextId'[key[u].session]
                        /\ key[u] # key'[t]
      OBVIOUS
    <3>1. key[u] \in Keys /\ key[u].session \in Sessions /\ key[u].id \in Int
      BY <1>0, <2>2 DEF ThreadShape, KeyLabels, Labels
    <3>2. key[u].dir = "Outbound" /\ key[u].id < nextId[key[u].session]
      BY DEF KeysUnique
    <3> QED
      BY <3>1, <3>2, <2>1, <1>6
  <2>5. key'[t].dir = "Outbound" /\ key'[t].id < nextId'[key'[t].session]
    BY <1>0, <1>6
  <2> QED
    BY <2>3, <2>4, <2>5, <1>6 DEF KeysUnique, OthersStay
<1>7. ASSUME NEW t \in Threads, OthersStay(t), UNCHANGED nextId,
             nextGen \in Gens, nextGen' = nextGen + 1, pc'[t] = "gauge", key'[t] \in Keys,
             keyOf' = [keyOf EXCEPT ![nextGen] = key'[t]],
             \/ pc[t] = "idle" /\ key'[t].dir = "Inbound"
             \/ pc[t] = "haveId" /\ key'[t] = key[t]
      PROVE  KeysUnique'
  <2>1. nextGen \in Int /\ \A g \in Gens : g \in Int
    BY <1>0, <1>7 DEF Gens
  <2>2. \A g \in Gens : g < nextGen' <=> g < nextGen \/ g = nextGen
    BY <2>1, <1>7
  <2>3. \A g \in Gens : keyOf'[g] = IF g = nextGen THEN key'[t] ELSE keyOf[g]
    BY <1>0, <1>7
  <2>4. key'[t].dir = "Outbound" =>
            /\ pc[t] = "haveId" /\ key'[t] = key[t] /\ key'[t].id < nextId[key'[t].session]
            /\ \A g \in Gens : g < nextGen => keyOf[g] # key'[t]
            /\ \A u \in Threads : u # t /\ pc[u] = "haveId" => key[u] # key'[t]
    BY <1>7 DEF KeysUnique
  <2>5. \A g \in Gens : g < nextGen' =>
            /\ keyOf'[g] \in Keys
            /\ keyOf'[g].dir = "Outbound" => keyOf'[g].id < nextId[keyOf'[g].session]
    BY <2>2, <2>3, <2>4, <1>7 DEF KeysUnique
  <2>6. \A g, h \in Gens :
            g < nextGen' /\ h < nextGen' /\ keyOf'[g] = keyOf'[h] /\ keyOf'[g].dir = "Outbound"
            => g = h
    BY <2>2, <2>3, <2>4 DEF KeysUnique
  <2>7. \A u \in Threads : pc'[u] = "haveId" => u # t /\ pc[u] = "haveId" /\ key'[u] = key[u]
    BY <1>7 DEF OthersStay
  <2>8. \A u \in Threads : pc'[u] = "haveId" => \A g \in Gens : g < nextGen' => keyOf'[g] # key[u]
    BY <2>2, <2>3, <2>4, <2>7 DEF KeysUnique
  <2> QED
    BY <2>5, <2>6, <2>7, <2>8, <1>7 DEF KeysUnique
<1>8. CASE \E t \in Threads : DrawStep(t)
  BY <1>0, <1>6, <1>7, <1>8, DrawFrame
<1> QED
  BY <1>1, <1>2, <1>3, <1>4, <1>5, <1>8, StepSorts

\* An outcome is final, and so is the key of a generation that was drawn.
LEMMA Finality ==
    ASSUME RegistryInv, [Next]_vars
    PROVE  /\ \A g \in Gens : state[g] \in Terminal => state'[g] = state[g]
           /\ \A g \in Gens : g < nextGen => g < nextGen' /\ keyOf'[g] = keyOf[g]
<1>0. /\ TypeOK /\ ThreadShape /\ EntriesShape /\ DrawnAlone
      /\ state \in [Gens -> Live \cup Terminal \cup {"Unborn"}]
      /\ keyOf \in [Gens -> Keys \cup {NoKey}]
      /\ nextGen \in Int /\ \A g \in Gens : g \in Int
  <2>1. TypeOK /\ ThreadShape /\ EntriesShape /\ DrawnAlone
    BY DEF RegistryInv
  <2>2. /\ state \in [Gens -> Live \cup Terminal \cup {"Unborn"}]
        /\ keyOf \in [Gens -> Keys \cup {NoKey}]
        /\ nextGen \in 1 .. MaxGen + 1
    BY <2>1, Zenon DEF TypeOK
  <2>3. \A g \in Gens : g \in Int
    BY DEF Gens
  <2> QED
    BY <2>1, <2>2, <2>3
<1>1. Kind
  BY <1>0, StepKind
<1>2. CASE Pause
  BY <1>2 DEF Pause
<1>3. CASE \E t \in Threads : Walk(t) \/ Unlink(t)
  BY <1>3 DEF Walk, Unlink
<1>4. CASE \E t \in Threads : Publish(t)
  <2>1. PICK t \in Threads : Publish(t)
    BY <1>4
  <2>2. state[tok[t]] = "Unborn"
    BY <2>1, <1>0 DEF Publish, DrawnAlone, Unpublished
  <2> QED
    BY <2>1, <2>2, <1>0 DEF Publish, Terminal
<1>5. CASE \E t \in Threads : \E k \in Keys : Draw(t, k)
  BY <1>0, <1>5 DEF Draw
<1>6. CASE \E t \in Threads : \E g \in Gens : Win(t, g)
  BY <1>0, <1>6 DEF Win, Terminal, Live
<1>7. CASE \E g \in Gens : Claimed(g)
  BY <1>0, <1>7 DEF Claimed, Terminal
<1> QED
  BY <1>1, <1>2, <1>3, <1>4, <1>5, <1>6, <1>7 DEF Kind

\* A thread that does not move keeps its role.
LEMMA RoleStays ==
    ASSUME RegistryInv, [Next]_vars, NEW u \in Threads, Role(u),
           pc'[u] = pc[u], key'[u] = key[u], tok'[u] = tok[u], via'[u] = via[u]
    PROVE  Role(u)'
BY Finality DEF Role, Terminal

\* Every step keeps every thread in its role.
LEMMA RolesStep ==
    ASSUME RegistryInv, HandsShape, Roles, [Next]_vars
    PROVE  Roles'
<1>0. /\ TypeOK /\ ThreadShape /\ EntriesShape /\ RemovalOwned /\ GensShape
      /\ pc \in [Threads -> Labels] /\ keyOf \in [Gens -> Keys \cup {NoKey}]
      /\ key \in [Threads -> Keys \cup {NoKey}] /\ tok \in [Threads -> Gens \cup {None}]
      /\ via \in [Threads -> Tails]
      /\ state \in [Gens -> Live \cup Terminal \cup {"Unborn"}]
  BY DEF RegistryInv, TypeOK
<1>1. CASE UserStep \/ UNCHANGED vars
  BY <1>1, UserFrame, RoleStays DEF Roles
<1>2. ASSUME NEW t \in Threads, OthersStay(t), Role(t)'
      PROVE  Roles'
  BY <1>2, RoleStays DEF OthersStay, Roles
<1>3. CASE \E t \in Threads : DrawStep(t)
  <2>1. PICK t \in Threads : DrawStep(t)
    BY <1>3
  <2>2. OthersStay(t) /\ pc'[t] \in {"haveId", "gauge"} /\ via'[t] = via[t]
        /\ pc[t] \in {"idle", "haveId"}
    BY <2>1, <1>0, DrawFrame
  <2>3. via[t] \notin {"responded", "sendFailed", "complete"}
    BY <2>2 DEF Roles, Role
  <2> QED
    BY <2>2, <2>3, <1>2 DEF Role
<1>4. CASE \E t \in Threads : SweepStep(t)
  <2>1. PICK t \in Threads : SweepStep(t)
    BY <1>4
  <2>2. OthersStay(t) /\ pc'[t] \in {"idle", "beginClose", "drain", "timeout"}
        /\ pc[t] \in {"idle", "beginClose", "drain"} /\ via'[t] \in {via[t], "none"}
    BY <2>1, <1>0, SweepFrame
  <2>3. via[t] \notin {"responded", "sendFailed", "complete"}
    BY <2>2 DEF Roles, Role
  <2> QED
    BY <2>2, <2>3, <1>2 DEF Role
<1>5. CASE \E t \in Threads : RegisterStep(t)
  <2>1. PICK t \in Threads : RegisterStep(t)
    BY <1>5
  <2>2. /\ OthersStay(t) /\ pc[t] \in RegLabels \cup {"haveId"}
        /\ \/ pc'[t] \in {"idle"} /\ key'[t] = NoKey /\ tok'[t] = None /\ via'[t] = "none"
           \/ /\ pc'[t] \in (RegLabels \ {"gauge"}) \cup {"rmWaiter"}
              /\ pc[t] \in RegLabels /\ key'[t] = key[t] /\ via'[t] = via[t]
    BY <2>1, <1>0, RegisterFrame
  <2>3. via[t] \notin {"responded", "sendFailed", "complete"}
    BY <2>2 DEF Roles, Role, RegLabels
  <2>4. /\ pc'[t] = "schedule" => key[t].dir = "Inbound"
        /\ pc'[t] \in {"putWaiter", "verify"} => key[t].dir = "Outbound"
    <3>1. pc[t] \in TokLabels \/ pc[t] = "haveId"
      BY <2>2 DEF RegLabels, TokLabels
    <3>2. pc[t] \in TokLabels => key[t].dir \in {"Inbound", "Outbound"}
      BY <1>0, KeyFields DEF ThreadShape, TokLabels, KeyLabels, Labels, Directions
    <3>3. CASE Recheck(t)
      BY <3>2, <3>3, <1>0 DEF Recheck, Goto, TokLabels
    <3>4. CASE PutWaiter(t)
      BY <3>4, <1>0 DEF PutWaiter, Goto, Roles, Role
    <3>5. CASE RegisterOutboundRefused(t) \/ Refused(t) \/ Schedule(t)
      BY <3>5, <1>0 DEF RegisterOutboundRefused, Refused, Schedule, Return
    <3>6. CASE Gauge(t) \/ Insert(t) \/ Index(t)
      BY <3>6, <1>0 DEF Gauge, Insert, Index, Goto
    <3>7. CASE Verify(t)
      BY <3>7, <1>0 DEF Verify, Goto, Return
    <3> QED
      BY <2>1, <3>3, <3>4, <3>5, <3>6, <3>7 DEF RegisterStep
  <2>5. Role(t)'
    BY <2>2, <2>3, <2>4 DEF Role, RegLabels
  <2> QED
    BY <2>2, <2>5, <1>2
<1>6. CASE \E t \in Threads : RemoveStep(t)
  <2>1. PICK t \in Threads : RemoveStep(t)
    BY <1>6
  <2>2. OthersStay(t) /\ UNCHANGED <<nextGen, keyOf, state>>
    BY <2>1, <1>0, RemoveFrame
  <2>3. CASE pc[t] = "dec" /\ pc'[t] = "rmEntry" /\ UNCHANGED <<key, tok, via>>
    BY <2>2, <2>3, <1>2 DEF Roles, Role
  <2>4. CASE pc[t] = "rmEntry" /\ UNCHANGED <<key, tok, via>>
             /\ pc'[t] = IF via[t] = "drain" THEN "rmWaiter" ELSE "rmIndex"
    <3>1. tok[t] \in Gens /\ tok[t] < nextGen /\ keyOf[tok[t]] = key[t]
      BY <2>4, <1>0 DEF ThreadShape, TokLabels
    <3>2. state[tok[t]] \in Terminal
      BY <2>4, <3>1, <1>0 DEF RemovalOwned, Owns
    <3> QED
      BY <2>2, <2>4, <3>1, <3>2, <1>2 DEF Roles, Role
  <2>5. CASE pc[t] = "rmIndex" /\ UNCHANGED <<key, tok, via>>
             /\ via[t] \notin {"responded", "sendFailed"}
             /\ pc'[t] = IF via[t] = "complete" THEN "deliver" ELSE "rmWaiter"
    BY <2>2, <2>5, <1>2 DEF Roles, Role
  <2>6. CASE pc'[t] \in {"idle", "drain"} /\ key'[t] = NoKey /\ tok'[t] = None /\ via'[t] = "none"
    BY <2>2, <2>6, <1>2 DEF Role
  <2> QED
    BY <2>1, <2>3, <2>4, <2>5, <2>6, <1>0, RemoveFrame
<1>7. CASE \E t \in Threads : SettleStep(t)
  <2>1. PICK t \in Threads : SettleStep(t)
    BY <1>7
  <2>2. UNCHANGED <<nextGen, keyOf>> /\ (Loses(t) \/ \E g \in Gens : Wins(t, g))
    BY <2>1, <1>0, SettleFrame
  <2>3. CASE UNCHANGED <<pc, key, tok, via>>
    BY <2>3, RoleStays DEF Roles
  <2>4. CASE pc[t] = "undo" /\ Goto(t, "rmWaiter")
    BY <2>4, <1>0, <1>2 DEF Goto, OthersStay, Roles, Role
  <2>5. CASE pc[t] = "timeout" /\ Return(t)
    BY <2>5, <1>0, <1>2 DEF Return, OthersStay, Role
  <2>6. ASSUME NEW g \in Gens, Wins(t, g)
        PROVE  Roles'
    <3>1. /\ OthersStay(t) /\ pc'[t] = "dec" /\ key'[t] = keyOf[g] /\ tok'[t] = g
      BY <2>6, <1>0 DEF Wins, WinsAs, Settle, OthersStay
    <3>2. state[g] # "Unborn"
      BY <2>6 DEF Wins, WinsAs, Live
    <3>3. g < nextGen /\ keyOf[g] \in Keys
      BY <3>2, <1>0 DEF GensShape
    <3>4. /\ via'[t] = "complete" => keyOf[g].dir = "Outbound" /\ state'[g] = "Responded"
          /\ via'[t] \in {"responded", "sendFailed"} => g \in claims
      BY <2>6, <1>0 DEF Wins, WinsAs, Settle
    <3>5. via'[t] \in {"responded", "sendFailed"} => keyOf[g].dir = "Inbound"
      BY <3>4 DEF HandsShape
    <3>6. nextGen' = nextGen /\ keyOf' = keyOf
      BY <2>2
    <3>7. Role(t)'
      BY <3>1, <3>3, <3>4, <3>5, <3>6 DEF Role
    <3> QED
      BY <3>1, <3>7, <1>2
  <2> QED
    BY <2>2, <2>3, <2>4, <2>5, <2>6 DEF Loses
<1> QED
  BY <1>1, <1>3, <1>4, <1>5, <1>6, <1>7, StepSorts

-----------------------------------------------------------------------------
(* Who registers, and who waits.                                           *)

\* A step in which no thread starts to register, and no caller starts to wait.
LEMMA AloneStays ==
    ASSUME RegisteredAlone,
           \A u \in Threads : pc'[u] \in RegLabels =>
               /\ pc[u] \in RegLabels /\ tok'[u] = tok[u] /\ tok[u] \in Gens
               /\ pc[u] = "verify" => pc'[u] = "verify",
           \A g \in Gens : rx[g] = "none" => rx'[g] = "none"
    PROVE  RegisteredAlone'
BY DEF RegisteredAlone

\* Every generation is registered by one thread, before anybody waits for it.
LEMMA AloneStep ==
    ASSUME RegistryInv, HandsShape, RegisteredAlone, [Next]_vars
    PROVE  RegisteredAlone'
<1>0. /\ TypeOK /\ ThreadShape /\ EntriesShape
      /\ pc \in [Threads -> Labels]
      /\ key \in [Threads -> Keys \cup {NoKey}] /\ tok \in [Threads -> Gens \cup {None}]
      /\ via \in [Threads -> Tails]
      /\ waiters \in [Keys -> Gens \cup {None}]
      /\ rx \in [Gens -> {"none", "open", "response", "closed"}]
  BY DEF RegistryInv, TypeOK
<1>1. \A u \in Threads : pc[u] \in RegLabels =>
          tok[u] \in Gens /\ tok[u] < nextGen /\ key[u] \in Keys
  BY <1>0 DEF ThreadShape, RegLabels, TokLabels, KeyLabels, Labels
<1>2. CASE UserStep \/ UNCHANGED vars
  BY <1>1, <1>2, UserFrame, AloneStays
<1>3. CASE \E t \in Threads : SweepStep(t)
  BY <1>0, <1>1, <1>3, SweepFrame, AloneStays DEF OthersStay, RegLabels
<1>4. CASE \E t \in Threads : RemoveStep(t)
  <2>1. PICK t \in Threads : RemoveStep(t)
    BY <1>4
  <2>2. OthersStay(t) /\ pc'[t] \notin RegLabels
    BY <2>1, <1>0, RemoveFrame DEF RegLabels
  <2>3. \A g \in Gens : rx[g] = "none" => rx'[g] = "none"
    <3>1. CASE Dec(t) \/ RmEntry(t) \/ RmIndex(t)
      BY <3>1 DEF Dec, RmEntry, RmIndex, userVars
    <3>2. CASE RmWaiter(t)
      BY <3>2, <1>0 DEF RmWaiter, CloseRx
    <3>3. CASE Deliver(t)
      BY <3>3, <1>0 DEF Deliver
    <3> QED
      BY <2>1, <3>1, <3>2, <3>3 DEF RemoveStep
  <2> QED
    BY <2>2, <2>3, <1>1, AloneStays DEF OthersStay
<1>5. CASE \E t \in Threads : SettleStep(t)
  <2>1. PICK t \in Threads : SettleStep(t)
    BY <1>5
  <2>2. RxCloses /\ (Loses(t) \/ \E g \in Gens : Wins(t, g))
    BY <2>1, <1>0, SettleFrame
  <2>3. \A u \in Threads : pc'[u] \in RegLabels =>
           pc[u] \in RegLabels /\ tok'[u] = tok[u] /\ pc'[u] = pc[u]
    <3>1. CASE Loses(t)
      BY <3>1, <1>0 DEF Loses, Goto, Return, RegLabels
    <3>2. CASE \E g \in Gens : Wins(t, g)
      BY <3>2, <1>0 DEF Wins, WinsAs, Settle, RegLabels
    <3> QED
      BY <3>1, <3>2, <2>2
  <2> QED
    BY <2>2, <2>3, <1>1, AloneStays DEF RxCloses
<1>6. CASE \E t \in Threads : RegisterStep(t)
  <2>1. PICK t \in Threads : RegisterStep(t)
    BY <1>6
  <2>2. /\ OthersStay(t)
        /\ pc'[t] \in RegLabels => pc[t] \in RegLabels /\ tok'[t] = tok[t]
    BY <2>1, <1>0, RegisterFrame DEF RegLabels
  <2>3. CASE PutWaiter(t)
    <3>1. pc[t] = "putWaiter" /\ pc'[t] = "verify" /\ pc[t] \in RegLabels
      BY <2>3, <1>0 DEF PutWaiter, Goto, RegLabels
    <3>2. \A g \in Gens : g # tok[t] /\ rx[g] = "none" => rx'[g] = "none"
      BY <2>3, <1>0 DEF PutWaiter
    <3>3. \A u \in Threads : u # t /\ pc[u] \in RegLabels => tok[u] # tok[t]
      BY <3>1 DEF RegisteredAlone
    <3> QED
      BY <2>2, <3>1, <3>2, <3>3, <1>1 DEF RegisteredAlone, OthersStay
  <2>4. CASE ~ PutWaiter(t)
    <3>1. rx' = rx
      BY <2>1, <2>4 DEF RegisterStep, RegisterOutboundRefused, Gauge, Insert, Refused, Index,
         Recheck, Schedule, Verify, userVars
    <3>2. pc[t] = "verify" => pc'[t] \notin RegLabels
      <4> SUFFICES ASSUME pc[t] = "verify" PROVE pc'[t] \notin RegLabels
        OBVIOUS
      <4>1. Verify(t)
        BY <2>1, <2>4 DEF RegisterStep, RegisterOutboundRefused, Gauge, Insert, Refused, Index,
           Recheck, Schedule
      <4> QED
        BY <4>1, <1>0 DEF Verify, Goto, Return, RegLabels
    <3> QED
      BY <2>2, <3>1, <3>2, <1>1, AloneStays DEF OthersStay
  <2> QED
    BY <2>3, <2>4
<1>7. CASE \E t \in Threads : DrawStep(t)
  <2>1. PICK t \in Threads : DrawStep(t)
    BY <1>7
  <2>2. OthersStay(t) /\ rx' = rx
        /\ (pc'[t] = "haveId" \/ (pc'[t] = "gauge" /\ tok'[t] = nextGen /\ nextGen \in Gens))
    BY <2>1, <1>0, DrawFrame
  <2>3. CASE pc'[t] = "haveId"
    BY <2>2, <2>3, <1>1, AloneStays DEF OthersStay, RegLabels
  <2>4. CASE pc'[t] = "gauge" /\ tok'[t] = nextGen /\ nextGen \in Gens
    <3>1. \A u \in Threads : u # t /\ pc'[u] \in RegLabels =>
              pc[u] \in RegLabels /\ tok'[u] = tok[u] /\ pc'[u] = pc[u] /\ tok[u] # nextGen
      <4>1. \A u \in Threads : pc[u] \in RegLabels => tok[u] # nextGen
        BY <1>1, <2>4 DEF Gens
      <4> QED
        BY <4>1, <2>2 DEF OthersStay
    <3>2. rx[nextGen] = "none"
      BY <2>4 DEF HandsShape, Gens
    <3> QED
      BY <2>2, <2>4, <3>1, <3>2 DEF RegisteredAlone
  <2> QED
    BY <2>2, <2>3, <2>4
<1> QED
  BY <1>2, <1>3, <1>4, <1>5, <1>6, <1>7, StepSorts

-----------------------------------------------------------------------------
(* What the users hold.                                                    *)

\* A step that hands out nothing new.
LEMMA HandsStay ==
    ASSUME HandsShape, TypeOK, RegistryInv, [Next]_vars,
           responders' \cup claims' \cup written' \subseteq responders \cup claims \cup written,
           \A g \in Gens : rx'[g] # "none" => rx[g] # "none",
           \A k \in Keys : waiters'[k] \in {waiters[k], None}
    PROVE  HandsShape'
<1>1. /\ responders \cup claims \cup written \subseteq Gens
      /\ \A k \in Keys : waiters[k] # None => waiters[k] \in Gens
      /\ \A g \in Gens : g < nextGen => g < nextGen' /\ keyOf'[g] = keyOf[g]
  BY Finality DEF TypeOK
<1>2. \A g \in responders' \cup claims' \cup written' : g < nextGen' /\ keyOf'[g].dir = "Inbound"
  BY <1>1 DEF HandsShape
<1>3. \A g \in Gens : rx'[g] # "none" => g < nextGen' /\ keyOf'[g].dir = "Outbound"
  BY <1>1 DEF HandsShape
<1>4. \A k \in Keys : waiters'[k] # None =>
          k.dir = "Outbound" /\ waiters'[k] < nextGen' /\ keyOf'[waiters'[k]] = k
  BY <1>1 DEF HandsShape
<1> QED
  BY <1>2, <1>3, <1>4 DEF HandsShape

\* Tokens go to users of the right direction, and waiters under their own keys.
LEMMA HandsStep ==
    ASSUME RegistryInv, Roles, HandsShape, [Next]_vars
    PROVE  HandsShape'
<1>0. /\ TypeOK /\ ThreadShape /\ EntriesShape
      /\ waiters \in [Keys -> Gens \cup {None}]
      /\ rx \in [Gens -> {"none", "open", "response", "closed"}]
  BY DEF RegistryInv, TypeOK
<1>1. CASE UserStep \/ UNCHANGED vars
  <2>1. rx' = rx /\ waiters' = waiters
    BY <1>1, UserFrame
  <2>2. responders' \cup claims' \cup written' \subseteq responders \cup claims \cup written
    <3>1. CASE \E s \in Sessions : OpenSession(s)
      BY <3>1 DEF OpenSession, userVars
    <3>2. CASE \E g \in Gens : Respond(g)
      BY <3>2 DEF Respond
    <3>3. CASE \E g \in Gens : WriteResponse(g)
      BY <3>3 DEF WriteResponse
    <3>4. CASE \E g \in Gens : CallerReceives(g)
      BY <3>4 DEF CallerReceives
    <3>5. CASE \E g \in Gens : DeadlinePasses(g)
      BY <3>5 DEF DeadlinePasses, userVars
    <3>6. CASE UNCHANGED vars
      BY <3>6 DEF vars, userVars
    <3> QED
      BY <1>1, <3>1, <3>2, <3>3, <3>4, <3>5, <3>6 DEF UserStep
  <2> QED
    BY <2>1, <2>2, <1>0, HandsStay
<1>2. CASE \E t \in Threads : DrawStep(t)
  BY <1>0, <1>2, DrawFrame, HandsStay
<1>3. CASE \E t \in Threads : SweepStep(t)
  BY <1>0, <1>3, SweepFrame, HandsStay
<1>4. CASE \E t \in Threads : SettleStep(t)
  <2>1. PICK t \in Threads : SettleStep(t)
    BY <1>4
  <2>2. /\ waiters' = waiters /\ written' = written /\ responders' \in SUBSET responders
        /\ RxCloses /\ (Loses(t) \/ \E g \in Gens : Wins(t, g))
    BY <2>1, <1>0, SettleFrame
  <2>3. claims' \subseteq claims
    BY <2>2 DEF Loses, Wins
  <2> QED
    BY <2>2, <2>3, <1>0, HandsStay DEF RxCloses
<1>5. CASE \E t \in Threads : RemoveStep(t)
  <2>1. PICK t \in Threads : RemoveStep(t)
    BY <1>5
  <2>2. UNCHANGED <<claims, written, responders>>
    BY <2>1, <1>0, RemoveFrame
  <2>3. /\ \A g \in Gens : rx'[g] # "none" => rx[g] # "none"
        /\ \A k \in Keys : waiters'[k] \in {waiters[k], None}
    <3>1. CASE Dec(t) \/ RmEntry(t) \/ RmIndex(t)
      BY <3>1 DEF Dec, RmEntry, RmIndex, userVars
    <3>2. CASE RmWaiter(t)
      BY <3>2, <1>0 DEF RmWaiter, CloseRx
    <3>3. CASE Deliver(t)
      BY <3>3, <1>0 DEF Deliver
    <3> QED
      BY <2>1, <3>1, <3>2, <3>3 DEF RemoveStep
  <2> QED
    BY <2>2, <2>3, <1>0, HandsStay
<1>6. CASE \E t \in Threads : RegisterStep(t)
  <2>1. PICK t \in Threads : RegisterStep(t)
    BY <1>6
  <2>2. UNCHANGED <<nextGen, keyOf, claims, written>>
    BY <2>1, <1>0, RegisterFrame
  <2>3. CASE Schedule(t)
    <3>1. tok[t] < nextGen /\ keyOf[tok[t]].dir = "Inbound"
      BY <2>3, <1>0 DEF Schedule, ThreadShape, TokLabels, Roles, Role
    <3> QED
      BY <2>2, <2>3, <3>1 DEF Schedule, HandsShape
  <2>4. CASE PutWaiter(t)
    <3>1. /\ tok[t] \in Gens /\ tok[t] < nextGen /\ keyOf[tok[t]] = key[t]
          /\ key[t] \in Keys /\ key[t].dir = "Outbound"
      BY <2>4, <1>0 DEF PutWaiter, ThreadShape, TokLabels, KeyLabels, Labels, Roles, Role
    <3>2. \A g \in Gens : rx'[g] # "none" => rx[g] # "none" \/ g = tok[t]
      BY <2>4, <1>0 DEF PutWaiter
    <3>3. \A k \in Keys : waiters'[k] = IF k = key[t] THEN tok[t] ELSE waiters[k]
      BY <2>4, <3>1, <1>0 DEF PutWaiter
    <3>4. responders' = responders
      BY <2>4 DEF PutWaiter
    <3>5. \A g \in Gens : rx'[g] # "none" => g < nextGen' /\ keyOf'[g].dir = "Outbound"
      BY <2>2, <3>1, <3>2 DEF HandsShape
    <3>6. \A k \in Keys : waiters'[k] # None =>
              k.dir = "Outbound" /\ waiters'[k] < nextGen' /\ keyOf'[waiters'[k]] = k
      BY <2>2, <3>1, <3>3 DEF HandsShape
    <3> QED
      BY <2>2, <3>4, <3>5, <3>6 DEF HandsShape
  <2>5. CASE ~ Schedule(t) /\ ~ PutWaiter(t)
    <3>1. UNCHANGED <<responders, waiters, rx>>
      BY <2>1, <2>5 DEF RegisterStep, RegisterOutboundRefused, Gauge, Insert, Refused, Index,
         Recheck, Verify, registryVars, userVars
    <3> QED
      BY <2>2, <3>1, <1>0, HandsStay
  <2> QED
    BY <2>3, <2>4, <2>5
<1> QED
  BY <1>1, <1>2, <1>3, <1>4, <1>5, <1>6, StepSorts

-----------------------------------------------------------------------------
(* Outcomes.                                                               *)

\* A step that neither moves g nor tells anybody about it.
LEMMA OutcomeStays ==
    ASSUME OutcomesAgree, NEW g \in Gens, state'[g] = state[g],
           keyOf'[g] = keyOf[g] \/ state[g] = "Unborn",
           g \in claims' => g \in claims, g \in written' <=> g \in written,
           rx'[g] = "response" => rx[g] = "response"
    PROVE  OutcomeAgrees(g)'
BY DEF OutcomesAgree, OutcomeAgrees

\* What is claimed, written and delivered agrees with the outcome after every step.
LEMMA OutcomesStep ==
    ASSUME RegistryInv, KeysUnique, Roles, HandsShape, OutcomesAgree, [Next]_vars
    PROVE  OutcomesAgree'
<1> SUFFICES ASSUME NEW g \in Gens PROVE OutcomeAgrees(g)'
  BY DEF OutcomesAgree
<1>0. /\ TypeOK /\ ThreadShape /\ EntriesShape /\ GensShape /\ DrawnAlone
      /\ waiters \in [Keys -> Gens \cup {None}]
      /\ rx \in [Gens -> {"none", "open", "response", "closed"}]
      /\ state \in [Gens -> Live \cup Terminal \cup {"Unborn"}]
      /\ keyOf \in [Gens -> Keys \cup {NoKey}]
      /\ nextGen \in Int /\ g \in Int
  <2>1. /\ TypeOK /\ ThreadShape /\ EntriesShape /\ GensShape /\ DrawnAlone
    BY Zenon DEF RegistryInv
  <2>2. /\ waiters \in [Keys -> Gens \cup {None}]
        /\ rx \in [Gens -> {"none", "open", "response", "closed"}]
        /\ state \in [Gens -> Live \cup Terminal \cup {"Unborn"}]
        /\ keyOf \in [Gens -> Keys \cup {NoKey}]
        /\ nextGen \in 1 .. MaxGen + 1
    BY <2>1, Zenon DEF TypeOK
  <2>3. nextGen \in Int /\ g \in Int
    BY <2>2 DEF Gens
  <2> QED
    BY <2>1, <2>2, <2>3
<1>00. OutcomeAgrees(g)
  BY DEF OutcomesAgree
<1>1. CASE UserStep \/ UNCHANGED vars
  <2>1. UNCHANGED <<rx, keyOf>>
    BY <1>1, UserFrame
  <2>2. CASE \E h \in Gens : Respond(h)
    <3>1. PICK h \in Gens : Respond(h)
      BY <2>2
    <3>2. CASE h = g /\ BeginRespond(g)
      BY <3>1, <3>2, <2>1, <1>0, <1>00 DEF Respond, BeginRespond, OutcomeAgrees
    <3>3. CASE h # g /\ BeginRespond(h)
      BY <3>1, <3>3, <2>1, <1>0, OutcomeStays DEF Respond, BeginRespond
    <3>4. CASE UNCHANGED <<state, claims>>
      BY <3>1, <3>4, <2>1, OutcomeStays DEF Respond
    <3> QED
      BY <3>1, <3>2, <3>3, <3>4 DEF Respond
  <2>3. CASE \E h \in Gens : WriteResponse(h)
    BY <2>3, <1>00 DEF WriteResponse, OutcomeAgrees, registryVars
  <2>4. CASE \E h \in Gens : CallerReceives(h) \/ DeadlinePasses(h)
    BY <2>1, <2>4, OutcomeStays DEF CallerReceives, DeadlinePasses, registryVars, userVars
  <2>5. CASE (\E s \in Sessions : OpenSession(s)) \/ UNCHANGED vars
    BY <2>1, <2>5, OutcomeStays DEF OpenSession, vars, registryVars, userVars
  <2> QED
    BY <1>1, <2>2, <2>3, <2>4, <2>5 DEF UserStep
<1>2. CASE \E t \in Threads : DrawStep(t)
  <2>1. PICK t \in Threads : DrawStep(t)
    BY <1>2
  <2>2. /\ UNCHANGED <<state, claims, written, rx>>
        /\ keyOf' = keyOf \/ (nextGen \in Gens /\ keyOf' = [keyOf EXCEPT ![nextGen] = key'[t]])
    BY <2>1, <1>0, DrawFrame
  <2>3. state[nextGen] = "Unborn" \/ nextGen \notin Gens
    BY <1>0 DEF GensShape
  <2>4. keyOf'[g] = keyOf[g] \/ state[g] = "Unborn"
    BY <2>2, <2>3, <1>0
  <2> QED
    BY <2>2, <2>4, OutcomeStays
<1>3. CASE \E t \in Threads : SweepStep(t)
  BY <1>0, <1>3, SweepFrame, OutcomeStays
<1>4. CASE \E t \in Threads : RegisterStep(t)
  <2>1. PICK t \in Threads : RegisterStep(t)
    BY <1>4
  <2>2. UNCHANGED <<nextGen, keyOf, claims, written>>
    BY <2>1, <1>0, RegisterFrame
  <2>3. rx'[g] = "response" => rx[g] = "response"
    BY <2>1, <1>0 DEF RegisterStep, RegisterOutboundRefused, Gauge, Insert, Refused, Index,
       Recheck, Schedule, PutWaiter, Verify, registryVars, userVars
  <2>4. CASE state'[g] = state[g]
    BY <2>2, <2>3, <2>4, OutcomeStays
  <2>5. CASE state'[g] # state[g]
    <3>1. Insert(t)
      BY <2>1, <2>5 DEF RegisterStep, RegisterOutboundRefused, Gauge, Refused, Index,
         Recheck, Schedule, PutWaiter, Verify, registryVars, userVars
    <3>2. tok[t] = g /\ state'[g] = "Pending"
      BY <3>1, <2>5, <1>0 DEF Insert
    <3>3. state[g] = "Unborn"
      BY <3>1, <3>2, <1>0 DEF Insert, DrawnAlone, Unpublished
    <3> QED
      BY <3>2, <3>3, <2>2, <2>3, <1>00 DEF OutcomeAgrees
  <2> QED
    BY <2>4, <2>5
<1>5. CASE \E t \in Threads : SettleStep(t)
  <2>1. PICK t \in Threads : SettleStep(t)
    BY <1>5
  <2>2. UNCHANGED <<keyOf, written>> /\ RxCloses /\ (Loses(t) \/ \E h \in Gens : Wins(t, h))
    BY <2>1, <1>0, SettleFrame
  <2>3. rx'[g] = "response" => rx[g] = "response"
    BY <2>2 DEF RxCloses
  <2>4. claims' \subseteq claims
    BY <2>2 DEF Loses, Wins
  <2>5. CASE state'[g] = state[g]
    BY <2>2, <2>3, <2>4, <2>5, OutcomeStays
  <2>6. CASE state'[g] # state[g]
    <3>1. Wins(t, g)
      <4>1. PICK h \in Gens : Wins(t, h)
        BY <2>2, <2>6 DEF Loses
      <4>2. h = g
        BY <4>1, <2>6, <1>0 DEF Wins, WinsAs, Settle
      <4> QED
        BY <4>1, <4>2
    <3>2. CASE state[g] = "Pending"
      BY <3>1, <3>2, <2>2, <2>3, <1>0, <1>00 DEF Wins, WinsAs, Settle, OutcomeAgrees
    <3>3. CASE state[g] = "Responding"
      BY <3>1, <3>3, <2>2, <2>3, <1>0, <1>00 DEF Wins, WinsAs, Settle, OutcomeAgrees
    <3> QED
      BY <3>1, <3>2, <3>3 DEF Wins, WinsAs, Live
  <2> QED
    BY <2>5, <2>6
<1>6. CASE \E t \in Threads : RemoveStep(t)
  <2>1. PICK t \in Threads : RemoveStep(t)
    BY <1>6
  <2>2. UNCHANGED <<keyOf, state, claims, written>>
    BY <2>1, <1>0, RemoveFrame
  <2>3. CASE rx'[g] = "response" => rx[g] = "response"
    BY <2>2, <2>3, OutcomeStays
  <2>4. CASE rx'[g] = "response" /\ rx[g] # "response"
    <3>1. Deliver(t)
      BY <2>1, <2>4, <1>0 DEF RemoveStep, Dec, RmEntry, RmIndex, RmWaiter, CloseRx, userVars
    <3>2. key[t] \in Keys /\ waiters[key[t]] = g
      BY <3>1, <2>4, <1>0 DEF Deliver, ThreadShape, KeyLabels, Labels
    <3>3. /\ tok[t] \in Gens /\ tok[t] < nextGen /\ keyOf[tok[t]] = key[t]
          /\ key[t].dir = "Outbound" /\ state[tok[t]] = "Responded"
      BY <3>1 DEF Deliver, Roles, Role
    <3>4. g < nextGen /\ keyOf[g] = key[t]
      BY <3>2, <1>0 DEF HandsShape, None, Gens
    <3>5. g = tok[t]
      BY <3>3, <3>4 DEF KeysUnique
    <3> QED
      BY <2>2, <3>3, <3>5, <1>00 DEF OutcomeAgrees
  <2> QED
    BY <2>3, <2>4
<1> QED
  BY <1>1, <1>2, <1>3, <1>4, <1>5, <1>6, StepSorts

-----------------------------------------------------------------------------
(* Waiters.                                                                *)

\* Where a thread still has to look at the waiter of its key.
WaiterLabels == {"verify", "dec", "rmEntry", "rmIndex", "rmWaiter", "deliver"}

OnTheWay(t, g) == key[t] = keyOf[g] /\ pc[t] \in WaiterLabels

\* g's sender is in its place, and g is live or somebody is on the way to that sender.
Waits(g) ==
    /\ waiters[keyOf[g]] = g
    /\ state[g] \in Live \/ \E t \in Threads : OnTheWay(t, g)

\* The waiter of g after a step in which at most t moves, and not away from g's key.
LEMMA WaitStays ==
    ASSUME NEW g \in Gens, Waits(g), keyOf'[g] = keyOf[g],
           waiters'[keyOf[g]] = waiters[keyOf[g]],
           state[g] \in Live => state'[g] \in Live,
           \A t \in Threads : OnTheWay(t, g) => OnTheWay(t, g)'
    PROVE  Waits(g)'
BY DEF Waits

\* Threads other than t stay on their way.
LEMMA OthersOnTheWay ==
    ASSUME NEW t \in Threads, OthersStay(t), NEW g \in Gens, keyOf'[g] = keyOf[g],
           OnTheWay(t, g) => OnTheWay(t, g)'
    PROVE  \A u \in Threads : OnTheWay(u, g) => OnTheWay(u, g)'
BY DEF OthersStay, OnTheWay

\* No caller is forgotten by any step.
LEMMA WaiterStep ==
    ASSUME OutcomeInv, [Next]_vars
    PROVE  WaiterNeverLost'
<1> SUFFICES ASSUME NEW g \in Gens, rx'[g] = "open" PROVE Waits(g)'
  BY DEF WaiterNeverLost, Waits, OnTheWay, WaiterLabels
<1>0. /\ RegistryInv /\ TypeOK /\ ThreadShape /\ EntriesShape /\ GensShape /\ DrawnAlone
      /\ RemovalOwned /\ KeysUnique /\ Roles /\ RegisteredAlone /\ HandsShape
      /\ waiters \in [Keys -> Gens \cup {None}] /\ entries \in [Keys -> Gens \cup {None}]
      /\ rx \in [Gens -> {"none", "open", "response", "closed"}]
      /\ state \in [Gens -> Live \cup Terminal \cup {"Unborn"}]
      /\ keyOf \in [Gens -> Keys \cup {NoKey}]
      /\ pc \in [Threads -> Labels] /\ key \in [Threads -> Keys \cup {NoKey}]
      /\ tok \in [Threads -> Gens \cup {None}] /\ via \in [Threads -> Tails]
  BY DEF OutcomeInv, RegistryInv, TypeOK
<1>00. None \notin Gens
  BY DEF None, Gens
<1>1. rx[g] = "open" =>
          /\ Waits(g) /\ g < nextGen /\ keyOf[g] \in Keys /\ keyOf[g].dir = "Outbound"
          /\ keyOf'[g] = keyOf[g]
  BY <1>0, Finality DEF OutcomeInv, WaiterNeverLost, Waits, OnTheWay, WaiterLabels, HandsShape,
     KeysUnique
<1>2. CASE UserStep \/ UNCHANGED vars
  <2>1. UNCHANGED <<rx, waiters, keyOf, pc, key>>
    BY <1>2, UserFrame
  <2>2. state[g] \in Live => state'[g] \in Live
    BY <1>2, <1>0 DEF UserStep, OpenSession, Respond, BeginRespond, WriteResponse,
       CallerReceives, DeadlinePasses, vars, registryVars, Live
  <2> QED
    BY <1>1, <2>1, <2>2, WaitStays DEF OnTheWay
<1>3. CASE \E t \in Threads : DrawStep(t)
  <2>1. PICK t \in Threads : DrawStep(t)
    BY <1>3
  <2>2. UNCHANGED <<rx, waiters, state>> /\ OthersStay(t) /\ pc[t] \in {"idle", "haveId"}
    BY <2>1, <1>0, DrawFrame
  <2>3. ~ OnTheWay(t, g)
    BY <2>2 DEF OnTheWay, WaiterLabels
  <2> QED
    BY <1>1, <2>2, <2>3, OthersOnTheWay, WaitStays
<1>4. CASE \E t \in Threads : SweepStep(t)
  <2>1. PICK t \in Threads : SweepStep(t)
    BY <1>4
  <2>2. UNCHANGED <<rx, waiters, state>> /\ OthersStay(t)
        /\ pc[t] \in {"idle", "beginClose", "drain"}
    BY <2>1, <1>0, SweepFrame
  <2>3. ~ OnTheWay(t, g)
    BY <2>2 DEF OnTheWay, WaiterLabels
  <2> QED
    BY <1>1, <2>2, <2>3, OthersOnTheWay, WaitStays
<1>5. CASE \E t \in Threads : SettleStep(t)
  <2>1. PICK t \in Threads : SettleStep(t)
    BY <1>5
  <2>2. /\ UNCHANGED <<keyOf, waiters>> /\ RxCloses
        /\ pc[t] \in {"idle", "undo", "timeout", "drain"}
        /\ Loses(t) \/ \E h \in Gens : Wins(t, h)
    BY <2>1, <1>0, SettleFrame
  <2>3. rx[g] = "open" /\ Waits(g)
    BY <2>2, <1>1 DEF RxCloses
  <2>4. ~ OnTheWay(t, g)
    BY <2>2 DEF OnTheWay, WaiterLabels
  <2>5. CASE Wins(t, g)
    <3>1. OnTheWay(t, g)'
      BY <2>2, <2>5, <1>0 DEF Wins, WinsAs, Settle, OnTheWay, WaiterLabels
    <3> QED
      BY <2>2, <2>3, <3>1 DEF Waits
  <2>6. ASSUME NEW h \in Gens, h # g, Wins(t, h)
        PROVE  Waits(g)'
    <3>1. OthersStay(t) /\ state'[g] = state[g]
      BY <2>6, <1>0 DEF Wins, WinsAs, Settle, OthersStay
    <3> QED
      BY <2>2, <2>3, <2>4, <3>1, OthersOnTheWay, WaitStays
  <2>7. CASE Loses(t)
    <3>1. OthersStay(t) /\ state'[g] = state[g]
      BY <2>7, <1>0 DEF Loses, Goto, Return, OthersStay
    <3> QED
      BY <2>2, <2>3, <2>4, <3>1, OthersOnTheWay, WaitStays
  <2> QED
    BY <2>2, <2>5, <2>6, <2>7
<1>6. CASE \E t \in Threads : RegisterStep(t)
  <2>1. PICK t \in Threads : RegisterStep(t)
    BY <1>6
  <2>2. UNCHANGED <<nextGen, keyOf>> /\ OthersStay(t) /\ pc[t] \in RegLabels \cup {"haveId"}
    BY <2>1, <1>0, RegisterFrame
  <2>3. pc[t] \in RegLabels => /\ tok[t] \in Gens /\ tok[t] < nextGen
                               /\ keyOf[tok[t]] = key[t] /\ key[t] \in Keys
    BY <1>0 DEF ThreadShape, RegLabels, TokLabels, KeyLabels, Labels
  <2>4. CASE PutWaiter(t)
    <3>1. pc[t] = "putWaiter" /\ pc[t] \in RegLabels /\ ~ OnTheWay(t, g)
      BY <2>4 DEF PutWaiter, RegLabels, OnTheWay, WaiterLabels
    <3>2. CASE tok[t] = g
      <4>1. OnTheWay(t, g)' /\ waiters'[keyOf[g]] = g
        BY <2>2, <2>3, <2>4, <3>1, <3>2, <1>0 DEF PutWaiter, Goto, OnTheWay, WaiterLabels
      <4> QED
        BY <4>1, <2>2 DEF Waits
    <3>3. CASE tok[t] # g
      <4>1. rx[g] = "open"
        BY <2>4, <3>3, <1>0 DEF PutWaiter
      <4>2. key[t] # keyOf[g]
        BY <2>3, <3>1, <3>3, <4>1, <1>0, <1>1 DEF KeysUnique
      <4>3. waiters'[keyOf[g]] = waiters[keyOf[g]] /\ state' = state
        BY <2>4, <4>1, <4>2, <1>0, <1>1 DEF PutWaiter
      <4> QED
        BY <2>2, <3>1, <4>1, <4>3, <1>1, OthersOnTheWay, WaitStays
    <3> QED
      BY <3>2, <3>3
  <2>5. CASE Verify(t)
    <3>1. rx[g] = "open" /\ UNCHANGED <<state, waiters>> /\ pc[t] \in RegLabels
      BY <2>5 DEF Verify, registryVars, RegLabels
    <3>2. CASE OnTheWay(t, g) => OnTheWay(t, g)'
      BY <2>2, <3>1, <3>2, <1>1, OthersOnTheWay, WaitStays
    <3>3. CASE OnTheWay(t, g) /\ ~ OnTheWay(t, g)'
      <4>1. entries[keyOf[g]] # None
        BY <2>2, <2>5, <3>1, <3>3, <1>0 DEF Verify, Goto, OnTheWay, WaiterLabels
      <4>2. LET h == entries[keyOf[g]]
            IN  h \in Gens /\ keyOf[h] = keyOf[g] /\ state[h] # "Unborn"
        BY <4>1, <3>1, <1>0, <1>1 DEF EntriesShape
      <4>3. entries[keyOf[g]] = g
        BY <4>2, <3>1, <1>0, <1>1 DEF GensShape, KeysUnique
      <4>4. state[g] # "Unborn" /\ Found(g)
        BY <4>2, <4>3 DEF Found
      <4>5. CASE state[g] \in Live
        BY <4>5, <2>2, <3>1, <1>1 DEF Waits
      <4>6. CASE state[g] \in Terminal
        <5>1. PICK u \in Threads : Owns(u, g) /\ key[u] = keyOf[g]
          BY <4>4, <4>6, <1>0 DEF RemovalOwned
        <5>2. u # t
          BY <5>1, <2>5 DEF Owns, Verify
        <5>3. OnTheWay(u, g)'
          BY <5>1, <5>2, <2>2 DEF OthersStay, Owns, OnTheWay, WaiterLabels
        <5> QED
          BY <5>3, <2>2, <3>1, <1>1 DEF Waits
      <4> QED
        BY <4>4, <4>5, <4>6, <1>0
    <3> QED
      BY <3>2, <3>3
  <2>6. CASE ~ PutWaiter(t) /\ ~ Verify(t)
    <3>1. UNCHANGED <<rx, waiters>>
      BY <2>1, <2>6 DEF RegisterStep, RegisterOutboundRefused, Gauge, Insert, Refused, Index,
         Recheck, Schedule, registryVars, userVars
    <3>2. ~ OnTheWay(t, g)
      BY <2>1, <2>6 DEF RegisterStep, RegisterOutboundRefused, Gauge, Insert, Refused, Index,
         Recheck, Schedule, OnTheWay, WaiterLabels
    <3>3. state[g] \in Live => state'[g] \in Live
      BY <2>1, <2>6, <1>0 DEF RegisterStep, RegisterOutboundRefused, Gauge, Insert, Refused,
         Index, Recheck, Schedule, registryVars, Live
    <3> QED
      BY <2>2, <3>1, <3>2, <3>3, <1>1, OthersOnTheWay, WaitStays
  <2> QED
    BY <2>4, <2>5, <2>6
<1>7. CASE \E t \in Threads : RemoveStep(t)
  <2>1. PICK t \in Threads : RemoveStep(t)
    BY <1>7
  <2>2. UNCHANGED <<keyOf, state>> /\ OthersStay(t)
    BY <2>1, <1>0, RemoveFrame
  <2>3. CASE Dec(t) \/ RmEntry(t) \/ RmIndex(t)
    <3>1. UNCHANGED <<rx, waiters>>
      BY <2>3 DEF Dec, RmEntry, RmIndex, userVars
    <3>2. OnTheWay(t, g) => OnTheWay(t, g)'
      <4>1. CASE Dec(t) \/ RmEntry(t)
        BY <4>1, <2>2, <1>0 DEF Dec, RmEntry, Goto, OnTheWay, WaiterLabels
      <4>2. CASE RmIndex(t)
        <5>1. CASE via[t] \in {"responded", "sendFailed"}
          BY <5>1, <3>1, <1>0, <1>1 DEF Roles, Role, OnTheWay
        <5>2. CASE via[t] \notin {"responded", "sendFailed"}
          BY <4>2, <5>2, <2>2, <1>0 DEF RmIndex, Goto, OnTheWay, WaiterLabels
        <5> QED
          BY <5>1, <5>2
      <4> QED
        BY <4>1, <4>2, <2>3
    <3> QED
      BY <2>2, <3>1, <3>2, <1>1, OthersOnTheWay, WaitStays
  <2>4. CASE RmWaiter(t) \/ Deliver(t)
    <3>1. key[t] \in Keys
      BY <2>4, <1>0 DEF RmWaiter, Deliver, ThreadShape, KeyLabels, Labels
    <3>2. rx[g] = "open" /\ waiters[key[t]] # g
      <4>1. CASE RmWaiter(t)
        BY <4>1, <1>0, <1>00 DEF RmWaiter, CloseRx
      <4>2. CASE Deliver(t)
        BY <4>2, <1>0, <1>00 DEF Deliver
      <4> QED
        BY <2>4, <4>1, <4>2
    <3>3. key[t] # keyOf[g] /\ ~ OnTheWay(t, g)
      BY <3>2, <1>1 DEF Waits, OnTheWay
    <3>4. waiters'[keyOf[g]] = waiters[keyOf[g]]
      BY <2>4, <3>1, <3>2, <3>3, <1>0, <1>1 DEF RmWaiter, Deliver
    <3> QED
      BY <2>2, <3>2, <3>3, <3>4, <1>1, OthersOnTheWay, WaitStays
  <2> QED
    BY <2>1, <2>3, <2>4 DEF RemoveStep
<1> QED
  BY <1>2, <1>3, <1>4, <1>5, <1>6, <1>7, StepSorts

-----------------------------------------------------------------------------
(* The theorems.                                                           *)

\* Nothing is held, delivered or settled at the start.
LEMMA OutcomeInit == Init => KeysUnique /\ Roles /\ RegisteredAlone /\ HandsShape
                             /\ OutcomesAgree /\ WaiterNeverLost
<1> SUFFICES ASSUME Init
             PROVE  KeysUnique /\ Roles /\ RegisteredAlone /\ HandsShape
                    /\ OutcomesAgree /\ WaiterNeverLost
  OBVIOUS
<1>1. /\ \A t \in Threads : pc[t] = "idle" /\ via[t] = "none"
      /\ \A g \in Gens : state[g] = "Unborn" /\ rx[g] = "none" /\ ~ (g < nextGen)
      /\ \A k \in Keys : waiters[k] = None
      /\ responders = {} /\ claims = {} /\ written = {}
  BY DEF Init, Gens
<1>2. KeysUnique
  BY <1>1 DEF KeysUnique
<1>3. Roles /\ RegisteredAlone
  BY <1>1 DEF Roles, Role, RegisteredAlone, RegLabels
<1>4. HandsShape
  BY <1>1 DEF HandsShape
<1>5. OutcomesAgree
  BY <1>1 DEF OutcomesAgree, OutcomeAgrees
<1>6. WaiterNeverLost
  BY <1>1 DEF WaiterNeverLost
<1> QED
  BY <1>2, <1>3, <1>4, <1>5, <1>6

\* Outbound keys are unique, threads keep to the direction of their operation, tokens and
\* waiters are of the right direction and key, and outcomes agree with what was sent.
THEOREM OutcomeInvariant == Spec => []OutcomeInv
<1>1. RegistryInv /\ Init => OutcomeInv
  BY OutcomeInit DEF OutcomeInv
<1>2. OutcomeInv /\ RegistryInv' /\ [Next]_vars => OutcomeInv'
  <2> SUFFICES ASSUME OutcomeInv, RegistryInv', [Next]_vars PROVE OutcomeInv'
    OBVIOUS
  <2>0. /\ RegistryInv /\ KeysUnique /\ Roles /\ RegisteredAlone /\ HandsShape
        /\ OutcomesAgree
    BY DEF OutcomeInv
  <2>1. KeysUnique'
    BY <2>0, KeysStep
  <2>2. Roles'
    BY <2>0, RolesStep
  <2>3. RegisteredAlone'
    BY <2>0, AloneStep
  <2>4. HandsShape'
    BY <2>0, HandsStep
  <2>5. OutcomesAgree'
    BY <2>0, OutcomesStep
  <2>6. WaiterNeverLost'
    BY WaiterStep
  <2> QED
    BY <2>1, <2>2, <2>3, <2>4, <2>5, <2>6 DEF OutcomeInv
<1> QED
  BY <1>1, <1>2, RegistryInvariant, PTL DEF Spec

\* What the registry says of a request agrees with the bytes that were sent for it: an
\* answer goes out only under a claim, and Responded means that it went out.
THEOREM AnswersMatchOutcomes == Spec => []AnswerMatchesOutcome
<1>1. OutcomeInv => AnswerMatchesOutcome
  BY DEF OutcomeInv, OutcomesAgree, OutcomeAgrees, AnswerMatchesOutcome
<1> QED
  BY <1>1, OutcomeInvariant, PTL

\* A caller that waits is never forgotten: its sender is in the waiters map, and once its
\* request is settled some thread is on the way to that sender.
THEOREM WaitersAreNeverLost == Spec => []WaiterNeverLost
<1>1. OutcomeInv => WaiterNeverLost
  BY DEF OutcomeInv
<1> QED
  BY <1>1, OutcomeInvariant, PTL

-----------------------------------------------------------------------------
(* The registry implements RequestLifecycle.                               *)

Delivered == {g \in Gens : rx[g] = "response"}

\* A step of the registry is a step of the lifecycle of one request, or none.
LEMMA LifecycleStep ==
    ASSUME OutcomeInv, [Next]_vars
    PROVE  Lifecycle!Next \/ UNCHANGED <<state, claims, written, Delivered>>
<1>0. /\ RegistryInv /\ TypeOK /\ ThreadShape /\ EntriesShape /\ DrawnAlone /\ LiveFound
      /\ OutcomesAgree /\ HandsShape /\ KeysUnique /\ Roles /\ RegisteredAlone
      /\ rx \in [Gens -> {"none", "open", "response", "closed"}]
      /\ claims \subseteq Gens
  BY DEF OutcomeInv, RegistryInv, TypeOK
<1>1. ASSUME NEW g \in Gens,
             \/ Lifecycle!Admit(g) \/ Lifecycle!Claim(g) \/ Lifecycle!Write(g)
             \/ Lifecycle!Resolve(g) \/ Lifecycle!Complete(g) \/ Lifecycle!Deliver(g)
             \/ Lifecycle!GiveUp(g) \/ Lifecycle!CloseSession(g)
      PROVE  Lifecycle!Next
  BY <1>1 DEF Lifecycle!Next
<1>2. CASE UserStep \/ UNCHANGED vars
  <2>1. Delivered' = Delivered
    BY <1>2, UserFrame DEF Delivered
  <2>2. CASE \E g \in Gens : Respond(g)
    <3>1. PICK g \in Gens : Respond(g)
      BY <2>2
    <3>2. CASE BeginRespond(g)
      <4>1. Lifecycle!Claim(g)
        BY <3>1, <3>2, <2>1 DEF Respond, BeginRespond, Lifecycle!Claim, Lifecycle!Move,
              Delivered
      <4> QED
        BY <4>1, <1>1
    <3>3. CASE UNCHANGED <<state, claims>>
      BY <3>1, <3>3, <2>1 DEF Respond
    <3> QED
      BY <3>1, <3>2, <3>3 DEF Respond
  <2>3. CASE \E g \in Gens : WriteResponse(g)
    <3>1. PICK g \in Gens : WriteResponse(g)
      BY <2>3
    <3>2. Lifecycle!Write(g)
      BY <3>1, <2>1 DEF WriteResponse, registryVars, Lifecycle!Write, Delivered
    <3> QED
      BY <3>2, <1>1
  <2>4. CASE \E g \in Gens : CallerReceives(g) \/ DeadlinePasses(g)
    BY <2>1, <2>4 DEF CallerReceives, DeadlinePasses, registryVars, userVars
  <2>5. CASE (\E s \in Sessions : OpenSession(s)) \/ UNCHANGED vars
    BY <2>1, <2>5 DEF OpenSession, vars, registryVars, userVars
  <2> QED
    BY <1>2, <2>2, <2>3, <2>4, <2>5 DEF UserStep
<1>3. CASE \E t \in Threads : DrawStep(t)
  BY <1>0, <1>3, DrawFrame DEF Delivered
<1>4. CASE \E t \in Threads : SweepStep(t)
  BY <1>0, <1>4, SweepFrame DEF Delivered
<1>5. CASE \E t \in Threads : RegisterStep(t)
  <2>1. PICK t \in Threads : RegisterStep(t)
    BY <1>5
  <2>2. UNCHANGED <<claims, written>>
    BY <2>1, <1>0, RegisterFrame
  <2>3. Delivered' = Delivered
    <3>1. CASE PutWaiter(t)
      <4>1. tok[t] \in Gens /\ rx[tok[t]] = "none"
        BY <3>1, <1>0 DEF PutWaiter, ThreadShape, TokLabels, RegisteredAlone, RegLabels
      <4>2. \A g \in Gens : rx'[g] = "response" <=> rx[g] = "response"
        BY <3>1, <4>1 DEF PutWaiter
      <4> QED
        BY <4>2 DEF Delivered
    <3>2. CASE ~ PutWaiter(t)
      <4>1. rx' = rx
        BY <2>1, <3>2 DEF RegisterStep, RegisterOutboundRefused, Gauge, Insert, Refused, Index,
           Recheck, Schedule, Verify, userVars
      <4> QED
        BY <4>1 DEF Delivered
    <3> QED
      BY <3>1, <3>2
  <2>4. CASE state' = state
    BY <2>2, <2>3, <2>4
  <2>5. CASE state' # state
    <3>1. Insert(t)
      BY <2>1, <2>5 DEF RegisterStep, RegisterOutboundRefused, Gauge, Refused, Index,
         Recheck, Schedule, PutWaiter, Verify, registryVars, userVars
    <3>2. tok[t] \in Gens /\ state' = [state EXCEPT ![tok[t]] = "Pending"]
      BY <3>1, <2>5, <1>0 DEF Insert, ThreadShape, TokLabels
    <3>3. state[tok[t]] = "Unborn"
      BY <3>1, <1>0 DEF Insert, DrawnAlone, Unpublished
    <3>4. Lifecycle!Admit(tok[t])
      BY <3>2, <3>3, <2>2, <2>3 DEF Lifecycle!Admit, Lifecycle!Move, Delivered
    <3> QED
      BY <3>2, <3>4, <1>1
  <2> QED
    BY <2>4, <2>5
<1>6. CASE \E t \in Threads : SettleStep(t)
  <2>1. PICK t \in Threads : SettleStep(t)
    BY <1>6
  <2>2. written' = written /\ RxCloses /\ (Loses(t) \/ \E g \in Gens : Wins(t, g))
    BY <2>1, <1>0, SettleFrame
  <2>3. Delivered' = Delivered
    BY <2>2 DEF RxCloses, Delivered
  <2>4. ASSUME NEW g \in Gens, Wins(t, g)
        PROVE  Lifecycle!Next
    <3>1. CASE UNCHANGED claims /\ WinsAs(t, g, {"Pending"}, "Responded", "complete")
      <4>1. Lifecycle!Complete(g)
        BY <3>1, <2>2, <2>3 DEF WinsAs, Settle, Lifecycle!Complete, Lifecycle!Move, Delivered
      <4> QED
        BY <4>1, <1>1
    <3>2. CASE /\ UNCHANGED claims
               /\ \/ WinsAs(t, g, {"Pending"}, "Dropped", "abort")
                  \/ WinsAs(t, g, {"Pending"}, "TimedOut", "timedOut")
      <4>1. Lifecycle!GiveUp(g)
        BY <3>2, <2>2, <2>3 DEF WinsAs, Settle, Lifecycle!GiveUp, Lifecycle!Move, Delivered
      <4> QED
        BY <4>1, <1>1
    <3>3. CASE /\ UNCHANGED claims
               /\ \/ WinsAs(t, g, {"Pending"}, "SessionClosed", "undo")
                  \/ WinsAs(t, g, Live, "SessionClosed", "drain")
      <4>1. Lifecycle!CloseSession(g)
        BY <3>3, <2>2, <2>3 DEF WinsAs, Settle, Live, Lifecycle!CloseSession, Lifecycle!Move,
           Delivered
      <4> QED
        BY <4>1, <1>1
    <3>4. CASE /\ g \in claims /\ claims' = claims \ {g}
               /\ \/ g \in written /\ WinsAs(t, g, {"Responding"}, "Responded", "responded")
                  \/ WinsAs(t, g, {"Responding"}, "SendFailed", "sendFailed")
      <4>1. Lifecycle!Resolve(g)
        BY <3>4, <2>2, <2>3 DEF WinsAs, Settle, Lifecycle!Resolve, Lifecycle!Move, Delivered
      <4> QED
        BY <4>1, <1>1
    <3> QED
      BY <2>4, <3>1, <3>2, <3>3, <3>4 DEF Wins
  <2>5. ASSUME NEW g \in claims, state' = state, claims' = claims \ {g},
               ~ (Found(g) /\ state[g] = "Responding")
        PROVE  Lifecycle!Next
    <3>1. g \in Gens /\ state[g] \in {"Responding", "SessionClosed"}
      BY <2>5, <1>0 DEF OutcomesAgree, OutcomeAgrees
    <3>2. state[g] = "SessionClosed"
      BY <3>1, <2>5, <1>0 DEF LiveFound, Live
    <3>3. Lifecycle!Resolve(g)
      BY <3>2, <2>2, <2>3, <2>5 DEF Lifecycle!Resolve, Delivered
    <3> QED
      BY <3>1, <3>3, <1>1
  <2> QED
    BY <2>2, <2>3, <2>4, <2>5 DEF Loses
<1>7. CASE \E t \in Threads : RemoveStep(t)
  <2>1. PICK t \in Threads : RemoveStep(t)
    BY <1>7
  <2>2. UNCHANGED <<state, claims, written>>
    BY <2>1, <1>0, RemoveFrame
  <2>3. CASE Dec(t) \/ RmEntry(t) \/ RmIndex(t)
    BY <2>2, <2>3 DEF Dec, RmEntry, RmIndex, userVars, Delivered
  <2>4. CASE RmWaiter(t)
    <3>1. \A g \in Gens : rx'[g] = "response" <=> rx[g] = "response"
      BY <2>4, <1>0 DEF RmWaiter, CloseRx
    <3> QED
      BY <2>2, <3>1 DEF Delivered
  <2>5. CASE Deliver(t)
    <3>0. key[t] \in Keys
      BY <2>5, <1>0 DEF Deliver, ThreadShape, KeyLabels, Labels
    <3>1. CASE rx' = rx
      BY <2>2, <3>1 DEF Delivered
    <3>2. CASE rx' # rx
      <4>1. PICK w \in Gens : rx[w] = "open" /\ rx' = [rx EXCEPT ![w] = "response"]
        BY <2>5, <3>0, <3>2, <1>0 DEF Deliver, TypeOK
      <4>2. rx'[w] = "response"
        BY <4>1, <1>0
      <4>3. state[w] = "Responded"
        BY <4>2, <2>2, <1>0, OutcomesStep DEF OutcomesAgree, OutcomeAgrees
      <4>4. Delivered' = Delivered \cup {w} /\ w \notin Delivered
        BY <4>1, <1>0 DEF Delivered
      <4>5. Lifecycle!Deliver(w)
        BY <4>3, <4>4, <2>2 DEF Lifecycle!Deliver, Delivered
      <4> QED
        BY <4>5, <1>1
    <3> QED
      BY <3>1, <3>2
  <2> QED
    BY <2>1, <2>3, <2>4, <2>5 DEF RemoveStep
<1> QED
  BY <1>2, <1>3, <1>4, <1>5, <1>6, <1>7, StepSorts

\* The registry, with its maps, threads and races, implements RequestLifecycle: one
\* outcome per registration, an exclusive claim to answer, and a response delivered only
\* to the caller whose own request was responded to.
THEOREM RegistryImplementsLifecycle == Spec => ImplementsLifecycle
<1>1. Init => Lifecycle!Init
  BY DEF Init, Lifecycle!Init
<1>2. OutcomeInv /\ [Next]_vars => [Lifecycle!Next]_(Lifecycle!vars)
  BY LifecycleStep DEF Lifecycle!vars, Delivered
<1> QED
  BY <1>1, <1>2, OutcomeInvariant, PTL DEF Spec, ImplementsLifecycle, Lifecycle!Spec

-----------------------------------------------------------------------------
(* The pending_requests gauge.                                             *)

Lives == {g \in Gens : state[g] \in Live}

\* The threads that have raised the gauge for an entry not yet visible, or not yet lowered
\* it for one they settled.
Raised == {t \in Threads : pc[t] \in {"insert", "refused", "dec"}}

\* The inductive invariant: finitely many threads are in between, whatever Threads is.
GaugeInv == IsFiniteSet(Raised) /\ GaugeExact

\* One element more.
LEMMA OneMore ==
    ASSUME NEW S, IsFiniteSet(S), NEW x, x \notin S
    PROVE  IsFiniteSet(S \cup {x}) /\ Cardinality(S \cup {x}) = Cardinality(S) + 1
BY FS_AddElement

\* One element less.
LEMMA OneLess ==
    ASSUME NEW S, IsFiniteSet(S), NEW x \in S
    PROVE  IsFiniteSet(S \ {x}) /\ Cardinality(S \ {x}) = Cardinality(S) - 1
BY FS_RemoveElement

\* There are finitely many live registrations.
LEMMA LivesFinite == IsFiniteSet(Lives) /\ Cardinality(Lives) \in Nat
<1>1. IsFiniteSet(Gens)
  BY ConstantsAssumption, FS_Interval DEF Gens
<1>2. Lives \subseteq Gens
  BY DEF Lives
<1> QED
  BY <1>1, <1>2, FS_Subset, FS_CardinalityType

\* The ways the gauge, the live registrations and the threads in between move together.
LEMMA GaugeMoves ==
    ASSUME TypeOK, GaugeInv,
           \/ pending' = pending /\ Lives' = Lives /\ Raised' = Raised
           \/ \E t \in Threads \ Raised :
                 pending' = pending + 1 /\ Lives' = Lives /\ Raised' = Raised \cup {t}
           \/ \E t \in Raised :
                 pending' = pending - 1 /\ Lives' = Lives /\ Raised' = Raised \ {t}
           \/ \E t \in Raised, g \in Gens \ Lives :
                 pending' = pending /\ Lives' = Lives \cup {g} /\ Raised' = Raised \ {t}
           \/ \E t \in Threads \ Raised, g \in Lives :
                 pending' = pending /\ Lives' = Lives \ {g} /\ Raised' = Raised \cup {t}
    PROVE  GaugeInv'
<1>0. /\ pending \in Int /\ IsFiniteSet(Raised) /\ Cardinality(Raised) \in Nat
      /\ IsFiniteSet(Lives) /\ Cardinality(Lives) \in Nat
      /\ pending = Cardinality(Lives) + Cardinality(Raised)
  BY LivesFinite, FS_CardinalityType DEF TypeOK, GaugeInv, GaugeExact, Lives, Raised
<1>1. IsFiniteSet(Raised') /\ pending' = Cardinality(Lives') + Cardinality(Raised')
      => GaugeInv'
  BY DEF GaugeInv, GaugeExact, Lives, Raised
<1>2. CASE pending' = pending /\ Lives' = Lives /\ Raised' = Raised
  BY <1>0, <1>1, <1>2
<1>3. ASSUME NEW t \in Threads \ Raised,
             pending' = pending + 1, Lives' = Lives, Raised' = Raised \cup {t}
      PROVE  GaugeInv'
  BY <1>0, <1>1, <1>3, OneMore
<1>4. ASSUME NEW t \in Raised,
             pending' = pending - 1, Lives' = Lives, Raised' = Raised \ {t}
      PROVE  GaugeInv'
  <2>1. IsFiniteSet(Raised \ {t}) /\ Cardinality(Raised \ {t}) = Cardinality(Raised) - 1
    BY <1>0, OneLess
  <2> QED
    BY <1>0, <1>1, <1>4, <2>1
<1>5. ASSUME NEW t \in Raised, NEW g \in Gens \ Lives,
             pending' = pending, Lives' = Lives \cup {g}, Raised' = Raised \ {t}
      PROVE  GaugeInv'
  <2>1. IsFiniteSet(Raised \ {t}) /\ Cardinality(Raised \ {t}) = Cardinality(Raised) - 1
    BY <1>0, OneLess
  <2>2. IsFiniteSet(Lives \cup {g}) /\ Cardinality(Lives \cup {g}) = Cardinality(Lives) + 1
    BY <1>0, OneMore
  <2> QED
    BY <1>0, <1>1, <1>5, <2>1, <2>2
<1>6. ASSUME NEW t \in Threads \ Raised, NEW g \in Lives,
             pending' = pending, Lives' = Lives \ {g}, Raised' = Raised \cup {t}
      PROVE  GaugeInv'
  <2>1. IsFiniteSet(Lives \ {g}) /\ Cardinality(Lives \ {g}) = Cardinality(Lives) - 1
    BY <1>0, OneLess
  <2>2. IsFiniteSet(Raised \cup {t}) /\ Cardinality(Raised \cup {t}) = Cardinality(Raised) + 1
    BY <1>0, OneMore
  <2> QED
    BY <1>0, <1>1, <1>6, <2>1, <2>2
<1> QED
  BY <1>2, <1>3, <1>4, <1>5, <1>6

\* Only t's own position changes Raised.
LEMMA RaisedMoves ==
    ASSUME NEW t \in Threads, OthersStay(t)
    PROVE  Raised' = IF pc'[t] \in {"insert", "refused", "dec"} THEN Raised \cup {t}
                                                               ELSE Raised \ {t}
BY DEF OthersStay, Raised

\* Every step moves the gauge with what it counts.
LEMMA GaugeStep ==
    ASSUME RegistryInv, GaugeInv, [Next]_vars
    PROVE  GaugeInv'
<1>0. /\ TypeOK /\ ThreadShape /\ EntriesShape /\ DrawnAlone
      /\ state \in [Gens -> Live \cup Terminal \cup {"Unborn"}]
      /\ pc \in [Threads -> Labels] /\ key \in [Threads -> Keys \cup {NoKey}]
      /\ tok \in [Threads -> Gens \cup {None}] /\ via \in [Threads -> Tails]
  BY DEF RegistryInv, TypeOK
<1>1. ASSUME NEW t \in Threads, OthersStay(t), UNCHANGED <<pending, state>>,
             pc[t] \notin {"insert", "refused", "dec"}, pc'[t] \notin {"insert", "refused", "dec"}
      PROVE  GaugeInv'
  <2>1. Raised' = Raised /\ Lives' = Lives
    BY <1>1, RaisedMoves DEF Raised, Lives
  <2> QED
    BY <1>0, <1>1, <2>1, GaugeMoves
<1>2. CASE UserStep \/ UNCHANGED vars
  <2>1. pending' = pending /\ Raised' = Raised
    BY <1>2, UserFrame DEF Raised
  <2>2. Lives' = Lives
    BY <1>2, <1>0 DEF UserStep, OpenSession, Respond, BeginRespond, WriteResponse,
       CallerReceives, DeadlinePasses, vars, registryVars, Live, Lives
  <2> QED
    BY <2>1, <2>2, <1>0, GaugeMoves
<1>3. CASE \E t \in Threads : DrawStep(t)
  BY <1>0, <1>1, <1>3, DrawFrame
<1>4. CASE \E t \in Threads : SweepStep(t)
  BY <1>0, <1>1, <1>4, SweepFrame
<1>5. CASE \E t \in Threads : SettleStep(t)
  <2>1. PICK t \in Threads : SettleStep(t)
    BY <1>5
  <2>2. /\ pending' = pending /\ pc[t] \in {"idle", "undo", "timeout", "drain"}
        /\ Loses(t) \/ \E g \in Gens : Wins(t, g)
    BY <2>1, <1>0, SettleFrame
  <2>3. CASE Loses(t)
    <3>1. OthersStay(t) /\ state' = state /\ pc'[t] \in {pc[t], "rmWaiter", "idle"}
      BY <2>3, <1>0 DEF Loses, Goto, Return, OthersStay
    <3> QED
      BY <2>2, <3>1, <1>1
  <2>4. ASSUME NEW g \in Gens, Wins(t, g)
        PROVE  GaugeInv'
    <3>1. /\ OthersStay(t) /\ pc'[t] = "dec" /\ state[g] \in Live
          /\ \E o \in Terminal : state' = [state EXCEPT ![g] = o]
      BY <2>4, <1>0 DEF Wins, WinsAs, Settle, OthersStay, Live, Terminal
    <3>2. t \notin Raised /\ Raised' = Raised \cup {t}
      BY <3>1, <2>2, RaisedMoves DEF Raised
    <3>3. g \in Lives /\ Lives' = Lives \ {g}
      BY <3>1, <1>0 DEF Lives, Live, Terminal
    <3> QED
      BY <2>2, <3>2, <3>3, <1>0, GaugeMoves
  <2> QED
    BY <2>2, <2>3, <2>4
<1>6. CASE \E t \in Threads : RegisterStep(t)
  <2>1. PICK t \in Threads : RegisterStep(t)
    BY <1>6
  <2>2. OthersStay(t)
    BY <2>1, <1>0, RegisterFrame
  <2>3. CASE Gauge(t)
    <3>1. /\ pc[t] = "gauge" /\ pc'[t] = "insert" /\ pending' = pending + 1
          /\ state' = state
      BY <2>3, <1>0 DEF Gauge, Goto
    <3>2. t \notin Raised /\ Raised' = Raised \cup {t} /\ Lives' = Lives
      BY <3>1, <2>2, RaisedMoves DEF Raised, Lives
    <3> QED
      BY <3>1, <3>2, <1>0, GaugeMoves
  <2>4. CASE Refused(t)
    <3>1. /\ pc[t] = "refused" /\ pc'[t] = "idle" /\ pending' = pending - 1
          /\ state' = state
      BY <2>4, <1>0 DEF Refused, Return
    <3>2. t \in Raised /\ Raised' = Raised \ {t} /\ Lives' = Lives
      BY <3>1, <2>2, RaisedMoves DEF Raised, Lives
    <3> QED
      BY <3>1, <3>2, <1>0, GaugeMoves
  <2>5. CASE Insert(t) /\ state' = state
    <3>1. pc[t] = "insert" /\ pending' = pending
      BY <2>5 DEF Insert
    <3>2. pc'[t] = "refused"
      <4>1. tok[t] \in Gens /\ state[tok[t]] = "Unborn"
        BY <3>1, <1>0 DEF ThreadShape, TokLabels, DrawnAlone, Unpublished
      <4> QED
        BY <2>5, <4>1, <1>0 DEF Insert, Goto
    <3>3. Raised' = Raised /\ Lives' = Lives
      BY <3>1, <3>2, <2>2, <2>5, RaisedMoves DEF Raised, Lives
    <3> QED
      BY <3>1, <3>3, <1>0, GaugeMoves
  <2>6. CASE Insert(t) /\ state' # state
    <3>1. /\ pc[t] = "insert" /\ pc'[t] = "index" /\ pending' = pending
          /\ state' = [state EXCEPT ![tok[t]] = "Pending"]
      BY <2>6, <1>0 DEF Insert, Goto
    <3>2. tok[t] \in Gens /\ state[tok[t]] = "Unborn"
      BY <3>1, <1>0 DEF ThreadShape, TokLabels, DrawnAlone, Unpublished
    <3>3. t \in Raised /\ Raised' = Raised \ {t}
      BY <3>1, <2>2, RaisedMoves DEF Raised
    <3>4. tok[t] \notin Lives /\ Lives' = Lives \cup {tok[t]}
      BY <3>1, <3>2, <1>0 DEF Lives, Live
    <3> QED
      BY <3>1, <3>2, <3>3, <3>4, <1>0, GaugeMoves
  <2>7. CASE RegisterOutboundRefused(t) \/ Index(t) \/ Recheck(t) \/ Schedule(t)
             \/ PutWaiter(t) \/ Verify(t)
    <3>1. UNCHANGED <<pending, state>>
      BY <2>7 DEF RegisterOutboundRefused, Index, Recheck, Schedule, PutWaiter, Verify,
         registryVars
    <3>2. pc[t] \notin {"insert", "refused", "dec"} /\ pc'[t] \notin {"insert", "refused", "dec"}
      BY <2>7, <1>0 DEF RegisterOutboundRefused, Index, Recheck, Schedule, PutWaiter, Verify,
         Goto, Return
    <3> QED
      BY <3>1, <3>2, <2>2, <1>1
  <2> QED
    BY <2>1, <2>3, <2>4, <2>5, <2>6, <2>7 DEF RegisterStep
<1>7. CASE \E t \in Threads : RemoveStep(t)
  <2>1. PICK t \in Threads : RemoveStep(t)
    BY <1>7
  <2>2. OthersStay(t) /\ state' = state
    BY <2>1, <1>0, RemoveFrame
  <2>3. CASE Dec(t)
    <3>1. pc[t] = "dec" /\ pc'[t] = "rmEntry" /\ pending' = pending - 1
      BY <2>3, <1>0 DEF Dec, Goto
    <3>2. t \in Raised /\ Raised' = Raised \ {t} /\ Lives' = Lives
      BY <3>1, <2>2, RaisedMoves DEF Raised, Lives
    <3> QED
      BY <3>1, <3>2, <1>0, GaugeMoves
  <2>4. CASE RmEntry(t) \/ RmIndex(t) \/ RmWaiter(t) \/ Deliver(t)
    <3>1. pending' = pending /\ pc[t] \in {"rmEntry", "rmIndex", "rmWaiter", "deliver"}
      BY <2>4 DEF RmEntry, RmIndex, RmWaiter, Deliver
    <3>2. pc'[t] \notin {"insert", "refused", "dec"}
      BY <2>4, <1>0 DEF RmEntry, RmIndex, RmWaiter, Deliver, Goto, Return
    <3> QED
      BY <3>1, <3>2, <2>2, <1>1
  <2> QED
    BY <2>1, <2>3, <2>4 DEF RemoveStep
<1> QED
  BY <1>2, <1>3, <1>4, <1>5, <1>6, <1>7, StepSorts

\* pending_requests counts the live requests, give or take the threads between their two
\* accesses, for any number of threads; in particular it never wraps below zero.
THEOREM GaugeIsExact == Spec => []GaugeExact
<1>1. Init => GaugeInv
  <2> SUFFICES ASSUME Init PROVE GaugeInv
    OBVIOUS
  <2>1. Raised = {} /\ Lives = {} /\ pending = 0
    BY DEF Init, Raised, Lives, Live
  <2> QED
    BY <2>1, FS_EmptySet DEF GaugeInv, GaugeExact, Raised, Lives
<1>2. RegistryInv /\ GaugeInv /\ [Next]_vars => GaugeInv'
  BY GaugeStep
<1>3. GaugeInv => GaugeExact
  BY DEF GaugeInv
<1> QED
  BY <1>1, <1>2, <1>3, RegistryInvariant, PTL DEF Spec

-----------------------------------------------------------------------------
(* Requests and the close of their session.                                *)

\* t is in the loop of close_session_pending, or in the removal of a key it came across.
Draining(t) == pc[t] = "drain" \/ via[t] = "drain"

\* A session that can no longer be found is marked, or its closer is about to mark it; a
\* closer drains a session that is marked, and has seen no key before.
CloserShape ==
    /\ \A s \in opened \ sessions :
          s \in closing \/ \E t \in Threads : pc[t] = "beginClose" /\ sess[t] = s
    /\ \A t \in Threads :
          /\ Draining(t) => sess[t] \in closing
          /\ via[t] = "drain" => pc[t] \in {"dec", "rmEntry", "rmWaiter"}
          /\ seen[t] # {} => Draining(t)

\* Nobody can answer a request before it is registered.
NotYetAnswered ==
    \A t \in Threads : pc[t] \in RegLabels =>
        tok[t] \notin responders /\ state[tok[t]] # "Responding"

\* Somebody will see g when its session closes: the thread that registers it, which looks
\* at the session again after it has put the key into the index; a closer to come, which
\* will find the key there; or the closer at work, which has it on its list.
WillBeSeen(g) ==
    LET k == keyOf[g]
        s == k.session
    IN  \/ \E t \in Threads :
              /\ tok[t] = g
              /\ \/ pc[t] \in {"index", "undo"}
                 \/ pc[t] = "recheck" /\ (s \in closing \/ k \in requests[s])
        \/ s \notin closing /\ k \in requests[s]
        \/ \E t \in Threads : Draining(t) /\ sess[t] = s /\ k \in must[t] \ seen[t]

LiveIsSeen == \A g \in Gens : state[g] \in Live /\ KeptItsKey(g) => WillBeSeen(g)

\* The inductive invariant, on top of OutcomeInv.
CloseInv == CloserShape /\ NotYetAnswered /\ LiveIsSeen

\* A step that does not concern the closer in thread u, which else starts, marks its
\* session, visits a key or ends.
CloserRests(u) ==
    /\ sess'[u] = sess[u] /\ must'[u] = must[u] /\ seen'[u] = seen[u]
    /\ pc'[u] = "beginClose" <=> pc[u] = "beginClose"
    /\ Draining(u)' <=> Draining(u)
    /\ via'[u] = "drain" => pc'[u] \in {"dec", "rmEntry", "rmWaiter"}

\* Every step is one of these for the closer in thread u.
LEMMA CloserMoves ==
    ASSUME RegistryInv, CloserShape, [Next]_vars, NEW u \in Threads
    PROVE  \/ CloserRests(u)
           \/ \E s \in Sessions : CloseSessionPending(u, s)
           \/ BeginClose(u) \/ DrainEnd(u)
           \/ \E k \in Keys : Drain(u, k)
<1>0. /\ TypeOK /\ ThreadShape /\ EntriesShape
      /\ pc \in [Threads -> Labels] /\ key \in [Threads -> Keys \cup {NoKey}]
      /\ tok \in [Threads -> Gens \cup {None}] /\ via \in [Threads -> Tails]
      /\ sess \in [Threads -> Sessions \cup {None}]
      /\ must \in [Threads -> SUBSET Keys] /\ seen \in [Threads -> SUBSET Keys]
      /\ via[u] = "drain" => pc[u] \in {"dec", "rmEntry", "rmWaiter"}
  BY DEF RegistryInv, TypeOK, CloserShape
<1>1. ASSUME NEW t \in Threads, OthersStay(t), t # u,
             sess'[u] = sess[u], must'[u] = must[u], seen'[u] = seen[u]
      PROVE  CloserRests(u)
  BY <1>0, <1>1 DEF OthersStay, CloserRests, Draining
<1>2. CASE UserStep \/ UNCHANGED vars
  BY <1>0, <1>2, UserFrame DEF CloserRests, Draining
<1>3. CASE \E t \in Threads : DrawStep(t)
  <2>1. PICK t \in Threads : DrawStep(t)
    BY <1>3
  <2>2. /\ UNCHANGED <<sess, must, seen>> /\ OthersStay(t) /\ pc[t] \in {"idle", "haveId"}
        /\ pc'[t] \in {"haveId", "gauge"} /\ via'[t] = via[t]
    BY <2>1, <1>0, DrawFrame
  <2> QED
    BY <2>2, <1>0, <1>1 DEF CloserRests, Draining
<1>4. CASE \E t \in Threads : RegisterStep(t)
  <2>1. PICK t \in Threads : RegisterStep(t)
    BY <1>4
  <2>2. /\ UNCHANGED <<sess, must, seen>> /\ OthersStay(t)
        /\ pc[t] \in RegLabels \cup {"haveId"}
        /\ pc'[t] \in RegLabels \cup {"idle", "rmWaiter"} /\ via'[t] \in {via[t], "none"}
    BY <2>1, <1>0, RegisterFrame
  <2> QED
    BY <2>2, <1>0, <1>1 DEF CloserRests, Draining, RegLabels
<1>5. CASE \E t \in Threads : RemoveStep(t)
  <2>1. PICK t \in Threads : RemoveStep(t)
    BY <1>5
  <2>2. UNCHANGED <<sess, must, seen>> /\ OthersStay(t)
    BY <2>1, <1>0, RemoveFrame
  <2>3. CASE t # u
    BY <2>2, <2>3, <1>1
  <2>4. CASE t = u
    <3>1. CASE Dec(u) \/ RmEntry(u)
      BY <2>2, <3>1, <1>0 DEF Dec, RmEntry, Goto, CloserRests, Draining
    <3>2. CASE RmIndex(u) \/ Deliver(u)
      BY <2>2, <3>2, <1>0 DEF RmIndex, Deliver, Goto, Return, CloserRests, Draining
    <3>3. CASE RmWaiter(u)
      BY <2>2, <3>3, <1>0 DEF RmWaiter, CloserRests, Draining
    <3> QED
      BY <2>1, <2>4, <3>1, <3>2, <3>3 DEF RemoveStep
  <2> QED
    BY <2>3, <2>4
<1>6. CASE \E t \in Threads : SweepStep(t)
  <2>1. PICK t \in Threads : SweepStep(t)
    BY <1>6
  <2>2. OthersStay(t)
    BY <2>1, <1>0, SweepFrame
  <2>3. CASE t # u
    <3>1. sess'[u] = sess[u] /\ must'[u] = must[u] /\ seen'[u] = seen[u]
      BY <2>1, <2>3, <1>0 DEF SweepStep, CloseSessionPending, BeginClose, DrainEnd,
         ScanTimeoutBucket
    <3> QED
      BY <3>1, <2>2, <2>3, <1>1
  <2>4. CASE \E w \in wheel : ScanTimeoutBucket(u, w)
    BY <2>4, <1>0 DEF ScanTimeoutBucket, CloserRests, Draining
  <2> QED
    BY <2>1, <2>3, <2>4 DEF SweepStep
<1>7. CASE \E t \in Threads : \E k \in Keys : Drain(t, k)
  <2>1. PICK t \in Threads, k \in Keys : Drain(t, k)
    BY <1>7
  <2>2. CASE t # u
    <3>1. OthersStay(t) /\ sess'[u] = sess[u] /\ must'[u] = must[u] /\ seen'[u] = seen[u]
      BY <2>1, <2>2, <1>0 DEF Drain, Settle, OthersStay
    <3> QED
      BY <3>1, <2>2, <1>1
  <2> QED
    BY <2>1, <2>2
<1>8. CASE \E t \in Threads : SettleStep(t) /\ ~ \E k \in Keys : Drain(t, k)
  <2>1. PICK t \in Threads : SettleStep(t) /\ ~ \E k \in Keys : Drain(t, k)
    BY <1>8
  <2>2. /\ UNCHANGED <<sess, must, seen>> /\ pc[t] \in {"idle", "undo", "timeout"}
        /\ \/ UNCHANGED <<pc, key, tok, via>>
           \/ Goto(t, "rmWaiter")
           \/ Return(t)
           \/ \E g \in Gens \cup {None}, o \in Terminal, tail \in Tails \ {"drain"} :
                 Settle(t, g, o, tail)
    <3>0. \A k \in Keys : entries[k] \in Gens \cup {None}
      BY <1>0 DEF TypeOK
    <3>1. CASE \E k \in Keys : CompleteWaiter(t, k)
      BY <3>0, <3>1 DEF CompleteWaiter, Terminal, Tails
    <3>2. CASE \E g \in Gens : DropResponder(t, g) \/ CallerGivesUp(t, g)
      BY <3>2 DEF DropResponder, CallerGivesUp, AbortRequestToken, Terminal, Tails
    <3>3. CASE \E g \in Gens : \E ok \in BOOLEAN : FinishRespond(t, g, ok)
      BY <3>3 DEF FinishRespond, Terminal, Tails
    <3>4. CASE Undo(t) \/ MarkTimedOut(t)
      <4>1. key[t] \in Keys
        BY <3>4, <1>0 DEF Undo, MarkTimedOut, ThreadShape, KeyLabels, Labels
      <4> QED
        BY <3>0, <3>4, <4>1 DEF Undo, MarkTimedOut, Terminal, Tails
    <3> QED
      BY <2>1, <3>1, <3>2, <3>3, <3>4 DEF SettleStep
  <2>3. CASE UNCHANGED <<pc, key, tok, via>>
    BY <2>2, <2>3, <1>0 DEF CloserRests, Draining
  <2>4. CASE Goto(t, "rmWaiter") \/ Return(t)
    BY <2>2, <2>4, <1>0 DEF Goto, Return, CloserRests, Draining
  <2>5. ASSUME NEW g \in Gens \cup {None}, NEW o \in Terminal, NEW tail \in Tails \ {"drain"},
               Settle(t, g, o, tail)
        PROVE  CloserRests(u)
    BY <2>2, <2>5, <1>0 DEF Settle, CloserRests, Draining
  <2> QED
    BY <2>2, <2>3, <2>4, <2>5
<1> QED
  BY <1>2, <1>3, <1>4, <1>5, <1>6, <1>7, <1>8, StepSorts

\* What a step does to the sessions and their indexes.
LEMMA SessionMoves ==
    ASSUME TypeOK, [Next]_vars
    PROVE  /\ closing \subseteq closing'
           /\ closing' = closing
              \/ \E t \in Threads : BeginClose(t) /\ closing' = closing \cup {sess[t]}
           /\ \/ opened' \ sessions' \subseteq opened \ sessions
              \/ \E t \in Threads, s \in Sessions :
                    /\ CloseSessionPending(t, s)
                    /\ opened' \ sessions' \subseteq (opened \ sessions) \cup {s}
           /\ \A s \in Sessions : \A k \in requests[s] :
                 \/ k \in requests'[s]
                 \/ \E t \in Threads : pc[t] = "rmIndex" /\ key[t] = k
                 \/ \E t \in Threads : DrainEnd(t) /\ sess[t] = s
<1>0. requests \in [Sessions -> SUBSET Keys]
  BY DEF TypeOK
<1>1. CASE UserStep \/ UNCHANGED vars
  <2>1. UNCHANGED <<closing, requests>>
    BY <1>1, UserFrame
  <2>2. opened' \ sessions' \subseteq opened \ sessions
    BY <1>1 DEF UserStep, OpenSession, Respond, WriteResponse, CallerReceives, DeadlinePasses,
       vars, registryVars
  <2> QED
    BY <2>1, <2>2
<1>2. CASE \E t \in Threads : DrawStep(t)
  <2>1. UNCHANGED <<closing, requests, opened, sessions>>
    BY <1>2 DEF DrawStep, NextRequestId, RegisterOutbound, RegisterInbound, EnterRegister
  <2> QED
    BY <2>1
<1>3. CASE \E t \in Threads : RegisterStep(t)
  <2>1. UNCHANGED <<closing, opened, sessions>>
    BY <1>3 DEF RegisterStep, RegisterOutboundRefused, Gauge, Insert, Refused, Index, Recheck,
       Schedule, PutWaiter, Verify, registryVars
  <2>2. \A s \in Sessions : requests[s] \subseteq requests'[s]
    BY <1>3, <1>0 DEF RegisterStep, RegisterOutboundRefused, Gauge, Insert, Refused, Index,
       Recheck, Schedule, PutWaiter, Verify, registryVars
  <2> QED
    BY <2>1, <2>2
<1>4. CASE \E t \in Threads : SettleStep(t)
  <2>1. UNCHANGED <<closing, requests, opened, sessions>>
    BY <1>4 DEF SettleStep, CompleteWaiter, Drain, DropResponder, CallerGivesUp, FinishRespond,
       Undo, MarkTimedOut
  <2> QED
    BY <2>1
<1>5. CASE \E t \in Threads : RemoveStep(t)
  <2>1. PICK t \in Threads : RemoveStep(t)
    BY <1>5
  <2>2. UNCHANGED <<closing, opened, sessions>>
    BY <2>1 DEF RemoveStep, Dec, RmEntry, RmIndex, RmWaiter, Deliver
  <2>3. \A s \in Sessions : \A k \in requests[s] :
            k \in requests'[s] \/ (pc[t] = "rmIndex" /\ key[t] = k)
    BY <2>1, <1>0 DEF RemoveStep, Dec, RmEntry, RmIndex, RmWaiter, Deliver
  <2> QED
    BY <2>2, <2>3
<1>6. CASE \E t \in Threads : SweepStep(t)
  <2>1. PICK t \in Threads : SweepStep(t)
    BY <1>6
  <2>2. CASE \E s \in Sessions : CloseSessionPending(t, s)
    BY <2>2 DEF CloseSessionPending
  <2>3. CASE BeginClose(t)
    BY <2>3 DEF BeginClose
  <2>4. CASE DrainEnd(t)
    BY <2>4, <1>0 DEF DrainEnd
  <2>5. CASE \E w \in wheel : ScanTimeoutBucket(t, w)
    BY <2>5 DEF ScanTimeoutBucket
  <2> QED
    BY <2>1, <2>2, <2>3, <2>4, <2>5 DEF SweepStep
<1> QED
  BY <1>1, <1>2, <1>3, <1>4, <1>5, <1>6, StepSorts

\* Closers go through their phases in order.
LEMMA CloserStep ==
    ASSUME RegistryInv, CloserShape, [Next]_vars
    PROVE  CloserShape'
<1>0. /\ TypeOK /\ pc \in [Threads -> Labels] /\ via \in [Threads -> Tails]
      /\ sess \in [Threads -> Sessions \cup {None}] /\ seen \in [Threads -> SUBSET Keys]
      /\ ThreadShape
  BY DEF RegistryInv, TypeOK
<1>1. closing \subseteq closing'
  BY <1>0, SessionMoves
<1>2. ASSUME NEW u \in Threads
      PROVE  /\ Draining(u)' => sess'[u] \in closing'
             /\ via'[u] = "drain" => pc'[u] \in {"dec", "rmEntry", "rmWaiter"}
             /\ seen'[u] # {} => Draining(u)'
  <2>0. /\ Draining(u) => sess[u] \in closing
        /\ via[u] = "drain" => pc[u] \in {"dec", "rmEntry", "rmWaiter"}
        /\ seen[u] # {} => Draining(u)
    BY DEF CloserShape
  <2>1. CASE CloserRests(u)
    BY <2>0, <2>1, <1>1 DEF CloserRests
  <2>2. CASE \E s \in Sessions : CloseSessionPending(u, s)
    BY <2>0, <2>2, <1>0 DEF CloseSessionPending, Goto, Draining
  <2>3. CASE BeginClose(u)
    BY <2>0, <2>3, <1>0 DEF BeginClose, Goto, Draining
  <2>4. CASE DrainEnd(u)
    BY <2>4, <1>0 DEF DrainEnd, Return, Draining
  <2>5. CASE \E k \in Keys : Drain(u, k)
    BY <2>0, <2>5, <1>0, <1>1 DEF Drain, Settle, Draining
  <2> QED
    BY <2>1, <2>2, <2>3, <2>4, <2>5, CloserMoves
<1>3. ASSUME NEW s \in opened \ sessions
      PROVE  s \in closing' \/ \E t \in Threads : pc'[t] = "beginClose" /\ sess'[t] = s
  <2>1. CASE s \in closing
    BY <2>1, <1>1
  <2>2. ASSUME NEW t \in Threads, pc[t] = "beginClose", sess[t] = s
        PROVE  s \in closing' \/ (pc'[t] = "beginClose" /\ sess'[t] = s)
    <3>1. CASE CloserRests(t)
      BY <2>2, <3>1 DEF CloserRests
    <3>2. CASE BeginClose(t)
      BY <2>2, <3>2 DEF BeginClose
    <3> QED
      BY <2>2, <3>1, <3>2, CloserMoves DEF CloseSessionPending, DrainEnd, Drain
  <2> QED
    BY <2>1, <2>2 DEF CloserShape
<1>4. ASSUME NEW t \in Threads, NEW s \in Sessions, CloseSessionPending(t, s)
      PROVE  pc'[t] = "beginClose" /\ sess'[t] = s
  BY <1>0, <1>4 DEF CloseSessionPending, Goto
<1>5. \A s \in opened' \ sessions' :
          s \in closing' \/ \E t \in Threads : pc'[t] = "beginClose" /\ sess'[t] = s
  BY <1>0, <1>3, <1>4, SessionMoves
<1> QED
  BY <1>2, <1>5 DEF CloserShape

\* A responder is handed out only by the thread that has registered its request.
LEMMA AnsweredStep ==
    ASSUME RegistryInv, HandsShape, RegisteredAlone, NotYetAnswered, [Next]_vars
    PROVE  NotYetAnswered'
<1>0. /\ TypeOK /\ ThreadShape /\ EntriesShape /\ GensShape
      /\ state \in [Gens -> Live \cup Terminal \cup {"Unborn"}]
      /\ pc \in [Threads -> Labels] /\ key \in [Threads -> Keys \cup {NoKey}]
      /\ tok \in [Threads -> Gens \cup {None}] /\ via \in [Threads -> Tails]
      /\ nextGen \in Int
  BY DEF RegistryInv, TypeOK
<1>1. \A u \in Threads : pc[u] \in RegLabels => tok[u] \in Gens /\ tok[u] < nextGen
  BY <1>0 DEF ThreadShape, RegLabels, TokLabels
<1>2. ASSUME \A u \in Threads : pc'[u] \in RegLabels => pc[u] \in RegLabels /\ tok'[u] = tok[u],
             responders' \subseteq responders,
             \A g \in Gens : state'[g] = "Responding" => state[g] = "Responding" \/ g \in responders
      PROVE  NotYetAnswered'
  BY <1>1, <1>2 DEF NotYetAnswered
<1>3. CASE UserStep \/ UNCHANGED vars
  <2>1. UNCHANGED <<pc, tok>>
    BY <1>3, UserFrame
  <2>2. responders' \subseteq responders
    BY <1>3 DEF UserStep, OpenSession, Respond, WriteResponse, CallerReceives, DeadlinePasses,
       vars, registryVars, userVars
  <2>3. \A g \in Gens : state'[g] = "Responding" => state[g] = "Responding" \/ g \in responders
    BY <1>3, <1>0 DEF UserStep, OpenSession, Respond, BeginRespond, WriteResponse,
       CallerReceives, DeadlinePasses, vars, registryVars, userVars
  <2> QED
    BY <2>1, <2>2, <2>3, <1>2
<1>4. CASE \E t \in Threads : DrawStep(t)
  <2>1. PICK t \in Threads : DrawStep(t)
    BY <1>4
  <2>2. /\ UNCHANGED <<state, responders>> /\ OthersStay(t)
        /\ \/ pc'[t] = "haveId"
           \/ tok'[t] = nextGen /\ nextGen \in Gens
    BY <2>1, <1>0, DrawFrame
  <2>3. nextGen \in Gens => nextGen \notin responders /\ state[nextGen] = "Unborn"
    BY <1>0 DEF HandsShape, GensShape
  <2> QED
    BY <2>2, <2>3 DEF NotYetAnswered, OthersStay, RegLabels
<1>5. CASE \E t \in Threads : SweepStep(t)
  BY <1>0, <1>2, <1>5, SweepFrame DEF OthersStay, RegLabels
<1>6. CASE \E t \in Threads : RemoveStep(t)
  BY <1>0, <1>2, <1>6, RemoveFrame DEF OthersStay, RegLabels
<1>7. CASE \E t \in Threads : SettleStep(t)
  <2>1. PICK t \in Threads : SettleStep(t)
    BY <1>7
  <2>2. responders' \subseteq responders /\ (Loses(t) \/ \E g \in Gens : Wins(t, g))
    BY <2>1, <1>0, SettleFrame
  <2>3. CASE Loses(t)
    BY <2>2, <2>3, <1>0, <1>2 DEF Loses, Goto, Return, RegLabels
  <2>4. ASSUME NEW g \in Gens, Wins(t, g)
        PROVE  NotYetAnswered'
    <3>1. \A u \in Threads : pc'[u] \in RegLabels => pc[u] \in RegLabels /\ tok'[u] = tok[u]
      BY <2>4, <1>0 DEF Wins, WinsAs, Settle, RegLabels
    <3>2. \A h \in Gens : state'[h] = "Responding" => state[h] = "Responding"
      BY <2>4, <1>0 DEF Wins, WinsAs, Settle
    <3> QED
      BY <2>2, <3>1, <3>2, <1>2
  <2> QED
    BY <2>2, <2>3, <2>4
<1>8. CASE \E t \in Threads : RegisterStep(t)
  <2>1. PICK t \in Threads : RegisterStep(t)
    BY <1>8
  <2>2. /\ OthersStay(t)
        /\ pc'[t] \in RegLabels => pc[t] \in RegLabels /\ tok'[t] = tok[t]
    BY <2>1, <1>0, RegisterFrame DEF RegLabels
  <2>3. \A u \in Threads : pc'[u] \in RegLabels => pc[u] \in RegLabels /\ tok'[u] = tok[u]
    BY <2>2 DEF OthersStay
  <2>4. \A g \in Gens : state'[g] = "Responding" => state[g] = "Responding"
    BY <2>1, <1>0 DEF RegisterStep, RegisterOutboundRefused, Gauge, Insert, Refused, Index,
       Recheck, Schedule, PutWaiter, Verify, registryVars
  <2>5. CASE Schedule(t)
    <3>1. /\ pc[t] = "schedule" /\ pc'[t] = "idle" /\ pc[t] \in RegLabels
          /\ responders' = responders \cup {tok[t]}
      BY <2>5, <1>0 DEF Schedule, Return, RegLabels
    <3>2. \A u \in Threads : pc'[u] \in RegLabels => tok[u] # tok[t]
      BY <2>3, <3>1 DEF RegisteredAlone, RegLabels
    <3> QED
      BY <2>3, <2>4, <3>1, <3>2, <1>1 DEF NotYetAnswered
  <2>6. CASE ~ Schedule(t)
    <3>1. responders' = responders
      BY <2>1, <2>6 DEF RegisterStep, RegisterOutboundRefused, Gauge, Insert, Refused, Index,
         Recheck, PutWaiter, Verify, userVars
    <3> QED
      BY <2>3, <2>4, <3>1, <1>2
  <2> QED
    BY <2>5, <2>6
<1> QED
  BY <1>3, <1>4, <1>5, <1>6, <1>7, <1>8, StepSorts

\* A thread that has published its entry and not settled it waits, or takes its next step.
LEMMA RegisterMoves ==
    ASSUME RegistryInv, [Next]_vars, NEW u \in Threads, pc[u] \in {"index", "recheck", "undo"}
    PROVE  \/ pc'[u] = pc[u] /\ tok'[u] = tok[u]
           \/ Index(u) \/ Recheck(u) \/ Undo(u)
<1>0. /\ TypeOK /\ ThreadShape /\ EntriesShape
      /\ pc \in [Threads -> Labels] /\ key \in [Threads -> Keys \cup {NoKey}]
      /\ tok \in [Threads -> Gens \cup {None}] /\ via \in [Threads -> Tails]
  BY DEF RegistryInv, TypeOK
<1>1. CASE UserStep \/ UNCHANGED vars
  BY <1>1, UserFrame
<1>2. CASE \E t \in Threads : DrawStep(t)
  BY <1>0, <1>2, DrawFrame DEF OthersStay
<1>3. CASE \E t \in Threads : SweepStep(t)
  BY <1>0, <1>3, SweepFrame DEF OthersStay
<1>4. CASE \E t \in Threads : RemoveStep(t)
  <2>1. PICK t \in Threads : RemoveStep(t)
    BY <1>4
  <2>2. t # u
    BY <2>1 DEF RemoveStep, Dec, RmEntry, RmIndex, RmWaiter, Deliver
  <2> QED
    BY <2>1, <2>2, <1>0, RemoveFrame DEF OthersStay
<1>5. CASE \E t \in Threads : RegisterStep(t)
  <2>1. PICK t \in Threads : RegisterStep(t)
    BY <1>5
  <2>2. CASE t # u
    BY <2>1, <2>2, <1>0, RegisterFrame DEF OthersStay
  <2>3. CASE t = u
    BY <2>1, <2>3 DEF RegisterStep, RegisterOutboundRefused, Gauge, Insert, Refused, Schedule,
       PutWaiter, Verify
  <2> QED
    BY <2>2, <2>3
<1>6. CASE \E t \in Threads : SettleStep(t)
  <2>1. PICK t \in Threads : SettleStep(t)
    BY <1>6
  <2>2. CASE t # u
    <3>1. Loses(t) \/ \E g \in Gens : Wins(t, g)
      BY <2>1, <1>0, SettleFrame
    <3>2. CASE Loses(t)
      BY <3>2, <2>2, <1>0 DEF Loses, Goto, Return
    <3>3. CASE \E g \in Gens : Wins(t, g)
      BY <3>3, <2>2, <1>0 DEF Wins, WinsAs, Settle
    <3> QED
      BY <3>1, <3>2, <3>3
  <2>3. CASE t = u
    BY <2>1, <2>3 DEF SettleStep, CompleteWaiter, Drain, DropResponder, CallerGivesUp,
       FinishRespond, MarkTimedOut
  <2> QED
    BY <2>2, <2>3
<1> QED
  BY <1>1, <1>2, <1>3, <1>4, <1>5, <1>6, StepSorts

\* A request that becomes live has just been published, by a thread about to index it.
LEMMA JustPublished ==
    ASSUME RegistryInv, [Next]_vars, NEW g \in Gens, state[g] \notin Live, state'[g] \in Live
    PROVE  \E t \in Threads : pc'[t] = "index" /\ tok'[t] = g
<1>0. /\ TypeOK /\ ThreadShape /\ EntriesShape
      /\ state \in [Gens -> Live \cup Terminal \cup {"Unborn"}]
  BY DEF RegistryInv, TypeOK
<1>1. Kind
  BY <1>0, StepKind
<1>2. CASE Pause \/ \E t \in Threads : Walk(t) \/ Unlink(t) \/ \E k \in Keys : Draw(t, k)
  BY <1>2 DEF Pause, Walk, Unlink, Draw
<1>3. CASE \E t \in Threads : \E h \in Gens : Win(t, h)
  BY <1>0, <1>3 DEF Win, Terminal, Live
<1>4. CASE \E h \in Gens : Claimed(h)
  BY <1>0, <1>4 DEF Claimed, Live
<1>5. CASE \E t \in Threads : Publish(t)
  BY <1>0, <1>5 DEF Publish
<1> QED
  BY <1>1, <1>2, <1>3, <1>4, <1>5 DEF Kind

\* A live request that nobody else's key hides is seen by a close after every step.
LEMMA SeenStep ==
    ASSUME OutcomeInv, CloseInv, [Next]_vars
    PROVE  LiveIsSeen'
<1> SUFFICES ASSUME NEW g \in Gens, state'[g] \in Live, KeptItsKey(g)' PROVE WillBeSeen(g)'
  BY DEF LiveIsSeen
<1>0. /\ RegistryInv /\ TypeOK /\ ThreadShape /\ EntriesShape /\ GensShape /\ LiveFound
      /\ Roles /\ CloserShape /\ NotYetAnswered /\ LiveIsSeen
      /\ state \in [Gens -> Live \cup Terminal \cup {"Unborn"}]
      /\ pc \in [Threads -> Labels] /\ key \in [Threads -> Keys \cup {NoKey}]
      /\ tok \in [Threads -> Gens \cup {None}] /\ via \in [Threads -> Tails]
      /\ sess \in [Threads -> Sessions \cup {None}]
      /\ must \in [Threads -> SUBSET Keys] /\ seen \in [Threads -> SUBSET Keys]
      /\ requests \in [Sessions -> SUBSET Keys]
  BY DEF OutcomeInv, RegistryInv, TypeOK, CloseInv
<1>1. CASE state[g] \notin Live
  BY <1>1, <1>0, JustPublished DEF WillBeSeen
<1>2. CASE state[g] \in Live
  <2>1. g < nextGen /\ keyOf[g] \in Keys /\ keyOf'[g] = keyOf[g]
    BY <1>2, <1>0, Finality DEF GensShape, Live
  <2>2. KeptItsKey(g)
    BY <1>0, <2>1, Finality DEF KeptItsKey
  <2>3. WillBeSeen(g)
    BY <1>2, <2>2, <1>0 DEF LiveIsSeen
  <2> DEFINE k == keyOf[g]
             s == k.session
  <2>4. entries[k] = g /\ s \in Sessions /\ k \in Keys /\ g # None
    BY <1>2, <2>1, <1>0, KeyFields DEF LiveFound, Found, None, Gens
  <2>5. \A t \in Threads : ~ (pc[t] = "rmIndex" /\ key[t] = k)
    <3> SUFFICES ASSUME NEW t \in Threads, pc[t] = "rmIndex", key[t] = k PROVE FALSE
      OBVIOUS
    <3>1. /\ tok[t] \in Gens /\ tok[t] < nextGen /\ keyOf[tok[t]] = keyOf[g]
          /\ state[tok[t]] \in Terminal
      BY <1>0 DEF Roles, Role
    <3>2. tok[t] = g
      BY <3>1, <2>2 DEF KeptItsKey
    <3> QED
      BY <3>1, <3>2, <1>2 DEF Live, Terminal
  <2>6. ASSUME k \in requests[s] PROVE s \in closing \/ k \in requests'[s]
    <3>1. CASE \E t \in Threads : DrainEnd(t) /\ sess[t] = s
      BY <3>1, <1>0 DEF DrainEnd, CloserShape, Draining
    <3> QED
      BY <2>4, <2>5, <2>6, <3>1, <1>0, SessionMoves
  <2>7. closing \subseteq closing'
    BY <1>0, SessionMoves
  <2>8. /\ \A t \in Threads :
              /\ tok'[t] = g
              /\ \/ pc'[t] \in {"index", "undo"}
                 \/ pc'[t] = "recheck" /\ (s \in closing' \/ k \in requests'[s])
              => WillBeSeen(g)'
        /\ s \notin closing' /\ k \in requests'[s] => WillBeSeen(g)'
        /\ \A t \in Threads : Draining(t)' /\ sess'[t] = s /\ k \in must'[t] \ seen'[t]
              => WillBeSeen(g)'
    BY <2>1 DEF WillBeSeen
  <2> HIDE DEF k, s
  <2>9. ASSUME NEW t \in Threads, tok[t] = g,
               \/ pc[t] \in {"index", "undo"}
               \/ pc[t] = "recheck" /\ (s \in closing \/ k \in requests[s])
        PROVE  WillBeSeen(g)'
    <3>0. key[t] = k /\ key[t].session = s /\ pc[t] \in RegLabels
      BY <2>9, <1>0 DEF ThreadShape, TokLabels, RegLabels, k, s
    <3>1. CASE pc'[t] = pc[t] /\ tok'[t] = tok[t]
      BY <2>6, <2>7, <2>8, <2>9, <3>1
    <3>2. CASE Index(t)
      <4>1. pc'[t] = "recheck" /\ tok'[t] = g /\ k \in requests'[s]
        BY <2>4, <2>9, <3>0, <3>2, <1>0 DEF Index, Goto
      <4> QED
        BY <4>1, <2>8
    <3>3. CASE Recheck(t)
      <4>1. UNCHANGED <<closing, requests, tok>> /\ pc[t] = "recheck"
        BY <3>3 DEF Recheck, registryVars, Goto
      <4>2. CASE s \in closing
        <5>1. pc'[t] = "undo"
          BY <3>0, <3>3, <4>2, <1>0 DEF Recheck, Goto, IsOpen
        <5> QED
          BY <4>1, <5>1, <2>8, <2>9
      <4>3. CASE s \notin closing
        BY <4>1, <4>3, <2>8, <2>9
      <4> QED
        BY <4>2, <4>3
    <3>4. CASE Undo(t)
      <4>1. state[g] = "Pending"
        BY <2>9, <3>0, <1>0, <1>2 DEF NotYetAnswered, Live
      <4>2. FoundIn(key[t], {"Pending"}) /\ entries[key[t]] = g
        BY <2>4, <3>0, <4>1 DEF FoundIn
      <4>3. state'[g] = "SessionClosed"
        BY <3>4, <4>2, <1>0 DEF Undo, Settle
      <4> QED
        BY <4>3 DEF Live
    <3> QED
      BY <2>9, <3>1, <3>2, <3>3, <3>4, <1>0, RegisterMoves
  <2>10. ASSUME s \notin closing, k \in requests[s]
         PROVE  WillBeSeen(g)'
    <3>1. k \in requests'[s]
      BY <2>6, <2>10
    <3>2. CASE s \notin closing'
      BY <3>1, <3>2, <2>8
    <3>3. CASE s \in closing'
      <4>1. PICK t \in Threads : BeginClose(t) /\ sess[t] = s
        BY <2>10, <3>3, <1>0, SessionMoves
      <4>2. pc[t] = "beginClose" /\ seen[t] = {}
        BY <4>1, <1>0 DEF BeginClose, CloserShape, Draining
      <4>3. Draining(t)' /\ sess'[t] = s /\ must'[t] = requests[s] /\ seen'[t] = {}
        BY <4>1, <4>2, <1>0 DEF BeginClose, Goto, Draining
      <4> QED
        BY <4>3, <2>8, <2>10
    <3> QED
      BY <3>2, <3>3
  <2>11. ASSUME NEW t \in Threads, Draining(t), sess[t] = s, k \in must[t] \ seen[t]
         PROVE  WillBeSeen(g)'
    <3>0. via[t] = "drain" => pc[t] \in {"dec", "rmEntry", "rmWaiter"}
      BY <1>0 DEF CloserShape
    <3>1. CASE CloserRests(t)
      BY <2>8, <2>11, <3>1 DEF CloserRests
    <3>2. CASE (\E r \in Sessions : CloseSessionPending(t, r)) \/ BeginClose(t)
      BY <2>11, <3>0, <3>2 DEF CloseSessionPending, BeginClose, Draining
    <3>3. CASE DrainEnd(t)
      BY <2>11, <3>3 DEF DrainEnd
    <3>4. ASSUME NEW j \in Keys, Drain(t, j)
          PROVE  WillBeSeen(g)'
      <4>1. CASE j = k
        <5>1. FoundIn(j, Live)
          BY <2>4, <4>1, <1>2 DEF FoundIn
        <5>2. state'[g] = "SessionClosed"
          BY <2>4, <3>4, <4>1, <5>1, <1>0 DEF Drain, Settle
        <5> QED
          BY <5>2 DEF Live
      <4>2. CASE j # k
        <5>1. Draining(t)' /\ sess' = sess /\ must' = must /\ seen'[t] = seen[t] \cup {j}
          BY <2>11, <3>4, <1>0 DEF Drain, Settle, Draining
        <5> QED
          BY <5>1, <4>2, <2>8, <2>11
      <4> QED
        BY <4>1, <4>2
    <3> QED
      BY <3>1, <3>2, <3>3, <3>4, <1>0, CloserMoves
  <2> QED
    BY <2>3, <2>9, <2>10, <2>11 DEF WillBeSeen, k, s
<1> QED
  BY <1>1, <1>2

\* Once close_session_pending has returned, a request of that session is live only while
\* its thread has not yet looked at the session again, or if the peer reused its id.
THEOREM NoRequestOutlivesItsSession == Spec => []NoneOutlivesSession
<1>1. Init => CloseInv
  BY DEF Init, CloseInv, CloserShape, NotYetAnswered, LiveIsSeen, Draining, RegLabels, Live
<1>2. OutcomeInv /\ CloseInv /\ [Next]_vars => CloseInv'
  <2> SUFFICES ASSUME OutcomeInv, CloseInv, [Next]_vars PROVE CloseInv'
    OBVIOUS
  <2>1. CloserShape'
    BY CloserStep DEF OutcomeInv, CloseInv
  <2>2. NotYetAnswered'
    BY AnsweredStep DEF OutcomeInv, CloseInv
  <2>3. LiveIsSeen'
    BY SeenStep
  <2> QED
    BY <2>1, <2>2, <2>3 DEF CloseInv
<1>3. CloseInv => NoneOutlivesSession
  <2> SUFFICES ASSUME CloseInv, NEW g \in Gens, state[g] \in Live, KeptItsKey(g),
                      keyOf[g].session \in opened \ sessions,
                      \A t \in Threads : sess[t] # keyOf[g].session
               PROVE  \E t \in Threads : tok[t] = g /\ pc[t] \in {"index", "recheck", "undo"}
    BY DEF NoneOutlivesSession
  <2>1. keyOf[g].session \in closing
    BY DEF CloseInv, CloserShape
  <2>2. WillBeSeen(g)
    BY DEF CloseInv, LiveIsSeen
  <2> QED
    BY <2>1, <2>2 DEF WillBeSeen
<1> QED
  BY <1>1, <1>2, <1>3, OutcomeInvariant, PTL DEF Spec

=============================================================================
