------------------------ MODULE ServerSessionProofs ------------------------
(***************************************************************************)
(* For any number of callers, packets and places in the mailbox, whatever  *)
(* closes the session and wherever it was when that happened:              *)
(* - a session whose supervisor is done has left nothing behind, and       *)
(*   nothing of it comes back (SessionInv);                                *)
(* - the packets between the connection and the handler stand in one line, *)
(*   in the peer's order, and a session that ends with its connection has  *)
(*   settled all of them (LineInv);                                        *)
(* - so the session implements SessionContract.                            *)
(***************************************************************************)
EXTENDS ServerSession, TLAPS

\* The supervisor is spawned with the actor and the pump, after the maps were filled.
AddOrder ==
    /\ adding \in {"gate", "refusing", "refused", "insert", "track", "spawn", "recheck", "done"}
    /\ adding \in {"gate", "refusing", "refused", "insert", "track", "spawn"} =>
          supervisor = "none"

WaitersTyped == waiter \in [Requesters -> {"none", "armed", "answered", "closed"}]

SessionInv == AddOrder /\ WaitersTyped /\ ReleasedIsClean

-----------------------------------------------------------------------------
\* A step of add_session_with_permit keeps the invariant: it fills maps only before there is a
\* supervisor.
LEMMA AddKeeps ==
    ASSUME SessionInv, AddStep \/ RefusalReturns
    PROVE  SessionInv'
  <1> USE DEF SessionInv, AddOrder, WaitersTyped, ReleasedIsClean, serverVars, connVars,
          actorVars, pumpVars, callVars, seenVars
  <1>1. CASE GateRefuses
    BY <1>1 DEF GateRefuses
  <1>2. CASE GateAdmits
    BY <1>2 DEF GateAdmits
  <1>3. CASE InsertTransport
    BY <1>3 DEF InsertTransport
  <1>4. CASE TrackSession
    BY <1>4 DEF TrackSession
  <1>5. CASE SpawnTasks
    BY <1>5 DEF SpawnTasks
  <1>6. CASE Recheck
    BY <1>6 DEF Recheck
  <1>7. CASE RefusalReturns
    BY <1>7 DEF RefusalReturns
  <1> QED
    BY <1>1, <1>2, <1>3, <1>4, <1>5, <1>6, <1>7 DEF AddStep

\* A step of the actor keeps the invariant: a supervisor that is done has joined it.
LEMMA ActorKeeps ==
    ASSUME SessionInv, ActorStep \/ CallbackPanics
    PROVE  SessionInv'
  <1> USE DEF SessionInv, AddOrder, WaitersTyped, ReleasedIsClean, actorFrame, serverVars,
          connVars, actorVars, pumpVars, callVars, seenVars
  <1>1. CASE CallbackReturns
    BY <1>1 DEF CallbackReturns
  <1>2. CASE ActorCancelled
    BY <1>2 DEF ActorCancelled, EndLoop
  <1>3. CASE ActorOrphaned
    BY <1>3 DEF ActorOrphaned, EndLoop
  <1>4. CASE Receive
    BY <1>4 DEF Receive
  <1>5. CASE SkipAfterClose
    BY <1>5 DEF SkipAfterClose
  <1>6. CASE Dispatch
    BY <1>6 DEF Dispatch, Current
  <1>7. CASE RefuseRequest
    BY <1>7 DEF RefuseRequest, Current
  <1>8. CASE MeetClosed
    BY <1>8 DEF MeetClosed, Current
  <1>9. CASE WriteForCaller
    BY <1>9 DEF WriteForCaller, Current
  <1>10. CASE WriteBroadcast
    BY <1>10 DEF WriteBroadcast, Current
  <1>11. CASE BatchDone
    BY <1>11 DEF BatchDone, EndLoop
  <1>12. CASE ActorEnds
    BY <1>12 DEF ActorEnds
  <1>13. CASE CallbackPanics
    BY <1>13 DEF CallbackPanics, EndLoop
  <1> QED
    BY <1>1, <1>2, <1>3, <1>4, <1>5, <1>6, <1>7, <1>8, <1>9, <1>10, <1>11, <1>12, <1>13 DEF
       ActorStep

\* A step of the pump keeps the invariant, for the same reason.
LEMMA PumpKeeps ==
    ASSUME SessionInv, PumpStep
    PROVE  SessionInv'
  <1> USE DEF SessionInv, AddOrder, WaitersTyped, ReleasedIsClean, pumpFrame, serverVars,
          connVars, actorVars, pumpVars, callVars, seenVars
  <1>1. CASE PumpCancelled
    BY <1>1 DEF PumpCancelled
  <1>2. CASE PumpTakes
    BY <1>2 DEF PumpTakes
  <1>3. CASE PumpForwards
    BY <1>3 DEF PumpForwards
  <1>4. CASE PumpTeardown
    BY <1>4 DEF PumpTeardown, ClosePending, RemoveEntries, KeepEntries
  <1>5. CASE \E c \in Requesters : PumpCompletes(c)
    BY <1>5 DEF PumpCompletes
  <1> QED
    BY <1>1, <1>2, <1>3, <1>4, <1>5 DEF PumpStep

\* The supervisor, a shutdown, the peer and the end of the connection keep the invariant.
LEMMA EndKeeps ==
    ASSUME SessionInv,
           \/ SupervisorCancels \/ SupervisorFinalises \/ ShutdownGate \/ ShutdownCancels
           \/ DropTransport \/ PeerSends \/ ConnectionEnds
    PROVE  SessionInv'
  <1> USE DEF SessionInv, AddOrder, WaitersTyped, ReleasedIsClean, shutdownFrame,
          serverVars, connVars, actorVars, pumpVars, callVars, seenVars
  <1>1. CASE SupervisorCancels
    BY <1>1 DEF SupervisorCancels
  <1>2. CASE SupervisorFinalises
    BY <1>2 DEF SupervisorFinalises, RemoveSession, ClosePending, RemoveEntries
  <1>3. CASE ShutdownGate
    BY <1>3 DEF ShutdownGate
  <1>4. CASE ShutdownCancels
    BY <1>4 DEF ShutdownCancels
  <1>5. CASE DropTransport
    BY <1>5 DEF DropTransport
  <1>6. CASE PeerSends
    BY <1>6 DEF PeerSends
  <1>7. CASE ConnectionEnds
    BY <1>7 DEF ConnectionEnds, CloseConnection
  <1> QED
    BY <1>1, <1>2, <1>3, <1>4, <1>5, <1>6, <1>7

\* A call of send, request, broadcast or close keeps the invariant: it never puts an entry
\* into a map, and the registry refuses the waiter of a session it does not track.
LEMMA CallKeeps ==
    ASSUME SessionInv, NEW c \in Callers, CallerStep(c) \/ CallerStarts(c)
    PROVE  SessionInv'
  <1> USE DEF SessionInv, AddOrder, WaitersTyped, ReleasedIsClean, callFrame, sendFrame,
          Goto, serverVars, connVars, actorVars, pumpVars, callVars, seenVars
  <1>1. CASE c \in Requesters /\ AllocateRequestId(c)
    BY <1>1 DEF AllocateRequestId
  <1>2. CASE c \in Requesters /\ RegisterRequest(c)
    BY <1>2 DEF RegisterRequest
  <1>3. CASE c \in Requesters /\ RequestEnds(c)
    BY <1>3 DEF RequestEnds
  <1>4. CASE StartSend(c)
    BY <1>4 DEF StartSend
  <1>5. CASE StartBroadcast(c)
    BY <1>5 DEF StartBroadcast
  <1>6. CASE Enqueue(c)
    BY <1>6 DEF Enqueue, Abort, Fail, FailDead, KeepEntries, RemoveSession, ClosePending,
       RemoveEntries
  <1>7. CASE EnqueueTimesOut(c)
    BY <1>7 DEF EnqueueTimesOut, Abort, Fail, KeepEntries
  <1>8. CASE TakeReply(c)
    BY <1>8 DEF TakeReply, Written, Abort, Fail, FailDead, KeepEntries, RemoveSession,
       ClosePending, RemoveEntries
  <1>9. CASE WriteDirect(c)
    BY <1>9 DEF WriteDirect, Written, WriteResults, Abort, Fail, FailDead, KeepEntries,
       RemoveSession, ClosePending, RemoveEntries
  <1>10. CASE StartClose(c)
    BY <1>10 DEF StartClose
  <1>11. CASE CloseAllSessions(c)
    BY <1>11 DEF CloseAllSessions
  <1>12. CASE NotifyActorClosed(c)
    BY <1>12 DEF NotifyActorClosed
  <1>13. CASE Disconnect(c)
    BY <1>13 DEF Disconnect, CloseConnection
  <1>14. CASE CleanUp(c)
    BY <1>14 DEF CleanUp, RemoveSession, ClosePending, RemoveEntries
  <1> QED
    BY <1>1, <1>2, <1>3, <1>4, <1>5, <1>6, <1>7, <1>8, <1>9, <1>10, <1>11, <1>12, <1>13,
       <1>14 DEF CallerStep, CallerStarts

-----------------------------------------------------------------------------
\* The invariant holds in every state of every session.
THEOREM SessionInvariant == Spec => []SessionInv
  <1>1. Init => SessionInv
    BY DEF Init, SessionInv, AddOrder, WaitersTyped, ReleasedIsClean
  <1>2. SessionInv /\ [Next]_vars => SessionInv'
    <2> SUFFICES ASSUME SessionInv, [Next]_vars PROVE SessionInv'
      OBVIOUS
    <2>1. CASE AddStep \/ RefusalReturns
      BY <2>1, AddKeeps
    <2>2. CASE ActorStep \/ CallbackPanics
      BY <2>2, ActorKeeps
    <2>3. CASE PumpStep
      BY <2>3, PumpKeeps
    <2>4. CASE \/ SupervisorCancels \/ SupervisorFinalises \/ ShutdownGate
               \/ ShutdownCancels \/ DropTransport \/ PeerSends \/ ConnectionEnds
      BY <2>4, EndKeeps
    <2>5. ASSUME NEW c \in Callers, CallerStep(c) \/ CallerStarts(c) PROVE SessionInv'
      BY <2>5, CallKeeps
    <2>6. CASE UNCHANGED vars
      BY <2>6 DEF SessionInv, AddOrder, WaitersTyped, ReleasedIsClean, vars, serverVars,
         connVars, actorVars, pumpVars, callVars
    <2> QED
      BY <2>1, <2>2, <2>3, <2>4, <2>5, <2>6 DEF Next, SystemStep
  <1> QED
    BY <1>1, <1>2, PTL DEF Spec

\* A released session is clean and stays so: no map entry, no open request tracking, no
\* waiter, no task and no permit, however pump, supervisor, failed sends and closes shared
\* out the removal, and although the session may have been removed while it was added.
THEOREM ReleasedStaysClean == Spec => []ReleasedIsClean
  <1>1. SessionInv => ReleasedIsClean
    BY DEF SessionInv
  <1> QED
    BY <1>1, SessionInvariant, PTL

-----------------------------------------------------------------------------
(* The order of packets and the contract with the application.             *)

\* What the pipe, the pump, the mailbox and the batch hold.
Items == [kind : Kinds \cup {"closed", "reply", "cast"}, n : 0 .. MaxIn, by : Callers \cup {NoOne}]

\* The pump's hand, as a sequence.
Hand == IF pump = "forward" THEN <<pumped>> ELSE <<>>

Elems(s) == {s[i] : i \in DOMAIN s}

\* Everything between the connection and the handler.
InLine == Elems(batch) \cup Elems(mailbox) \cup Elems(Hand) \cup Elems(pipe)

\* The kinds whose order matters: packets, and the end of a connection that ended by
\* itself (a close or a shutdown puts its closed event in front of packets).
Live == IF forced THEN Kinds ELSE Kinds \cup {"closed"}

Rank(e) == IF e.kind = "closed" THEN MaxIn + 1 ELSE e.n

\* Of the kinds in K, e comes before f.
Before(K, e, f) == e.kind \in K /\ f.kind \in K => Rank(e) < Rank(f)
Precedes(K, S, T) == \A e \in S, f \in T : Before(K, e, f)
Sorted(K, s) == \A i, j \in DOMAIN s : i < j => Before(K, s[i], s[j])

\* The line from the batch back to the pipe is in order.
LineSorted(K, b, m, h, p) ==
    /\ Sorted(K, b) /\ Sorted(K, m) /\ Sorted(K, h) /\ Sorted(K, p)
    /\ Precedes(K, Elems(b), Elems(m)) /\ Precedes(K, Elems(b), Elems(h))
    /\ Precedes(K, Elems(b), Elems(p)) /\ Precedes(K, Elems(m), Elems(h))
    /\ Precedes(K, Elems(m), Elems(p)) /\ Precedes(K, Elems(h), Elems(p))

LineInOrder == LineSorted(Live, batch, mailbox, Hand, pipe)

\* A packet in the line was sent and is newer than what the handler saw.
LineInBounds ==
    \A e \in InLine : e.kind \in Kinds => last < e.n /\ e.n <= sent

LineTyped ==
    /\ batch \in Seq(Items) /\ mailbox \in Seq(Items) /\ pipe \in Seq(Items)
    /\ pump = "forward" => pumped \in Items
    /\ sent \in 0 .. MaxIn /\ last \in 0 .. sent
    /\ settled \subseteq 1 .. sent
    /\ call \in [Callers -> {"idle", "turn", "register", "enqueue", "reply", "direct", "await",
                             "notify", "disconnect", "clean", "done"}]

\* The observed stage of the session and the state of its tasks.
StageShape ==
    /\ adding \in {"gate", "refusing", "insert", "track", "spawn"} =>
          stage = "accepted" /\ actor = "none" /\ pump = "none"
    /\ adding = "refused" => actor = "none" /\ pump = "none"
    /\ actor \in {"none", "connecting", "receiving", "batch", "handler", "final", "done"}
    /\ pump \in {"none", "next", "forward", "teardown", "done"}
    /\ actor = "none" <=> pump = "none"
    /\ actor = "none" <=> supervisor = "none"
    /\ actor \in {"connecting", "receiving", "batch", "handler"} => stage = "connected"
    /\ actor \in {"final", "done"} /\ supervisor # "done" => stage = "disconnected"
    /\ actor \in {"none", "connecting", "receiving"} => batch = <<>>
    /\ actor \in {"none", "connecting", "receiving", "handler"} => ~ stopping

\* Whatever cancels the session or breaks into its line is on record as having forced
\* its end.
ForcedShape ==
    /\ Cancelled \/ panicked => forced
    /\ \A c \in Callers : call[c] = "notify" => forced

\* Of a connection that ends by itself nothing is lost: each packet is settled or in the
\* line, nothing comes behind the closed event, and a pump that has finished has passed
\* that event on.
NothingLost ==
    ~ forced =>
        /\ \A n \in 1 .. sent : n \in settled \/ \E e \in InLine : e.kind \in Kinds /\ e.n = n
        /\ \A e \in InLine : e.kind = "closed" => conn = "closed"
        /\ stopping => conn = "closed" /\ \A e \in InLine : e.kind \notin Live
        /\ pump \in {"teardown", "done"} =>
              \/ stopping
              \/ actor \in {"final", "done"}
              \/ \E e \in Elems(batch) \cup Elems(mailbox) : e.kind = "closed"
        /\ actor \in {"final", "done"} => conn = "closed" /\ settled = 1 .. sent

\* The inductive invariant about the line.
LineInv ==
    LineTyped /\ StageShape /\ ForcedShape /\ LineInOrder /\ LineInBounds /\ NothingLost

-----------------------------------------------------------------------------
(* Sequences, their elements and their order.                              *)

\* The elements of a sequence with one more at its end.
LEMMA ElemsAppend ==
    ASSUME NEW S, NEW s \in Seq(S), NEW e \in S
    PROVE  Append(s, e) \in Seq(S) /\ Elems(Append(s, e)) = Elems(s) \cup {e}
<1>1. /\ Append(s, e) \in Seq(S) /\ DOMAIN s = 1 .. Len(s) /\ Len(s) \in Nat
      /\ DOMAIN Append(s, e) = 1 .. Len(s) + 1
      /\ \A i \in DOMAIN s : Append(s, e)[i] = s[i]
      /\ Append(s, e)[Len(s) + 1] = e
  OBVIOUS
<1>2. DOMAIN Append(s, e) = DOMAIN s \cup {Len(s) + 1}
  BY <1>1
<1> QED BY <1>1, <1>2 DEF Elems

\* The elements of a sequence are its head and those of its tail.
LEMMA ElemsTail ==
    ASSUME NEW S, NEW s \in Seq(S), s # <<>>
    PROVE  /\ Tail(s) \in Seq(S) /\ Head(s) \in S
           /\ Elems(s) = {Head(s)} \cup Elems(Tail(s))
<1>1. /\ Tail(s) \in Seq(S) /\ Head(s) \in S /\ Head(s) = s[1]
      /\ Len(s) \in Nat \ {0} /\ DOMAIN s = 1 .. Len(s) /\ DOMAIN Tail(s) = 1 .. Len(s) - 1
      /\ \A i \in DOMAIN Tail(s) : i + 1 \in DOMAIN s /\ Tail(s)[i] = s[i + 1]
  OBVIOUS
<1>2. \A i \in DOMAIN s : i = 1 \/ (i - 1 \in DOMAIN Tail(s) /\ (i - 1) + 1 = i)
  BY <1>1
<1>3. 1 \in DOMAIN s
  BY <1>1
<1> QED BY <1>1, <1>2, <1>3 DEF Elems

\* A sequence in order stays so with an element at its end that comes after all others.
LEMMA SortedAppend ==
    ASSUME NEW S, NEW s \in Seq(S), NEW e \in S, NEW K,
           Sorted(K, s), \A x \in Elems(s) : Before(K, x, e)
    PROVE  Sorted(K, Append(s, e))
<1>1. /\ DOMAIN s = 1 .. Len(s) /\ Len(s) \in Nat /\ DOMAIN Append(s, e) = 1 .. Len(s) + 1
      /\ \A i \in DOMAIN s : Append(s, e)[i] = s[i]
      /\ Append(s, e)[Len(s) + 1] = e
  OBVIOUS
<1> SUFFICES ASSUME NEW i \in DOMAIN Append(s, e), NEW j \in DOMAIN Append(s, e), i < j
             PROVE  Before(K, Append(s, e)[i], Append(s, e)[j])
  BY DEF Sorted
<1>2. i \in DOMAIN s /\ (j \in DOMAIN s \/ j = Len(s) + 1)
  BY <1>1
<1>3. s[i] \in Elems(s)
  BY <1>2 DEF Elems
<1> QED BY <1>1, <1>2, <1>3 DEF Sorted

\* The head of a sequence in order comes before its tail, which is in order.
LEMMA SortedTail ==
    ASSUME NEW S, NEW s \in Seq(S), s # <<>>, NEW K, Sorted(K, s)
    PROVE  Sorted(K, Tail(s)) /\ Precedes(K, {Head(s)}, Elems(Tail(s)))
<1>1. /\ Head(s) = s[1] /\ Len(s) \in Nat \ {0} /\ DOMAIN s = 1 .. Len(s)
      /\ DOMAIN Tail(s) = 1 .. Len(s) - 1
      /\ \A i \in DOMAIN Tail(s) : i + 1 \in DOMAIN s /\ Tail(s)[i] = s[i + 1]
  OBVIOUS
<1>2. ASSUME NEW i \in DOMAIN Tail(s), NEW j \in DOMAIN Tail(s), i < j
      PROVE  Before(K, Tail(s)[i], Tail(s)[j])
  <2>1. i + 1 \in DOMAIN s /\ j + 1 \in DOMAIN s /\ i + 1 < j + 1
    BY <1>1, <1>2
  <2> QED BY <1>1, <2>1 DEF Sorted
<1>3. ASSUME NEW f \in Elems(Tail(s)) PROVE Before(K, Head(s), f)
  <2>1. PICK i \in DOMAIN Tail(s) : f = Tail(s)[i]
    BY <1>3 DEF Elems
  <2>2. 1 \in DOMAIN s /\ i + 1 \in DOMAIN s /\ 1 < i + 1
    BY <1>1, <2>1
  <2> QED BY <1>1, <2>1, <2>2 DEF Sorted
<1> QED BY <1>2, <1>3 DEF Sorted, Precedes

\* A sequence in order, cut in two.
LEMMA SortedCut ==
    ASSUME NEW S, NEW s \in Seq(S), NEW k \in 0 .. Len(s), NEW K, Sorted(K, s)
    PROVE  LET a == SubSeq(s, 1, k)
               b == SubSeq(s, k + 1, Len(s))
           IN  /\ a \in Seq(S) /\ b \in Seq(S)
               /\ Elems(s) = Elems(a) \cup Elems(b)
               /\ Sorted(K, a) /\ Sorted(K, b) /\ Precedes(K, Elems(a), Elems(b))
<1>0. Len(s) \in Nat /\ DOMAIN s = 1 .. Len(s)
  OBVIOUS
<1>1. PICK a : a = SubSeq(s, 1, k)
  OBVIOUS
<1>2. PICK b : b = SubSeq(s, k + 1, Len(s))
  OBVIOUS
<1>3. /\ a \in Seq(S) /\ DOMAIN a = 1 .. k /\ \A i \in DOMAIN a : a[i] = s[i]
  BY <1>0, <1>1
<1>4. /\ b \in Seq(S) /\ DOMAIN b = 1 .. Len(s) - k /\ \A i \in DOMAIN b : b[i] = s[k + i]
  BY <1>0, <1>2
<1>5. \A i \in DOMAIN a : i \in DOMAIN s /\ i \in Int /\ i <= k
  BY <1>0, <1>3
<1>6. \A i \in DOMAIN b : k + i \in DOMAIN s /\ i \in Int /\ k < k + i
  BY <1>0, <1>4
<1>7. \A i \in DOMAIN s : i \in DOMAIN a \/ (i - k \in DOMAIN b /\ k + (i - k) = i)
  BY <1>0, <1>3, <1>4
<1>8. Elems(s) = Elems(a) \cup Elems(b)
  BY <1>3, <1>4, <1>5, <1>6, <1>7 DEF Elems
<1>9. Sorted(K, a)
  BY <1>3, <1>5 DEF Sorted
<1>10. Sorted(K, b)
  <2> SUFFICES ASSUME NEW i \in DOMAIN b, NEW j \in DOMAIN b, i < j PROVE Before(K, b[i], b[j])
    BY DEF Sorted
  <2>1. k + i \in DOMAIN s /\ k + j \in DOMAIN s /\ k + i < k + j
    BY <1>6
  <2> QED BY <1>4, <2>1 DEF Sorted
<1>11. Precedes(K, Elems(a), Elems(b))
  <2> SUFFICES ASSUME NEW e \in Elems(a), NEW f \in Elems(b) PROVE Before(K, e, f)
    BY DEF Precedes
  <2>1. PICK i \in DOMAIN a : e = a[i]
    BY DEF Elems
  <2>2. PICK j \in DOMAIN b : f = b[j]
    BY DEF Elems
  <2>3. i \in DOMAIN s /\ k + j \in DOMAIN s /\ i < k + j
    BY <1>5, <1>6
  <2> QED BY <1>3, <1>4, <2>1, <2>2, <2>3 DEF Sorted
<1> QED BY <1>1, <1>2, <1>3, <1>4, <1>8, <1>9, <1>10, <1>11

\* Fewer kinds, fewer elements: still in order.
LEMMA LineWeaker ==
    ASSUME NEW K, NEW L \in SUBSET K, NEW b, NEW m, NEW h, NEW p, LineSorted(K, b, m, h, p)
    PROVE  LineSorted(L, b, m, h, p)
BY DEF LineSorted, Sorted, Precedes, Before

\* The one element of a sequence of one.
LEMMA ElemsOfOne == \A e : Elems(<<e>>) = {e}
<1> TAKE e
<1>1. DOMAIN <<e>> = {1} /\ <<e>>[1] = e
  OBVIOUS
<1> QED BY <1>1 DEF Elems

\* An empty sequence has no elements, and is in order, as is one of one element.
LEMMA ElemsOfNone == Elems(<<>>) = {} /\ \A K : Sorted(K, <<>>) /\ \A e : Sorted(K, <<e>>)
<1>1. DOMAIN <<>> = {}
  OBVIOUS
<1>2. \A e : DOMAIN <<e>> = {1}
  OBVIOUS
<1> QED BY <1>1, <1>2 DEF Elems, Sorted

-----------------------------------------------------------------------------
(* The stages of a session, and what forces its end.                       *)

\* What the steps keep besides the line itself.
Shape == StageShape /\ ForcedShape

\* forced is never taken back.
Monotone == forced => forced'

\* add_session_with_permit starts the tasks of a session together.
LEMMA AddShape ==
    ASSUME Shape, AddOrder, AddStep \/ RefusalReturns
    PROVE  Shape' /\ Monotone
<1> USE DEF Shape, Monotone, StageShape, ForcedShape, Cancelled, AddOrder, serverVars,
      connVars, actorVars, pumpVars, callVars, seenVars
<1>1. CASE GateRefuses
  BY <1>1 DEF GateRefuses
<1>2. CASE GateAdmits
  BY <1>2 DEF GateAdmits
<1>3. CASE InsertTransport
  BY <1>3 DEF InsertTransport
<1>4. CASE TrackSession
  BY <1>4 DEF TrackSession
<1>5. CASE SpawnTasks
  BY <1>5 DEF SpawnTasks
<1>6. CASE Recheck
  BY <1>6 DEF Recheck
<1>7. CASE RefusalReturns
  BY <1>7 DEF RefusalReturns
<1> QED BY <1>1, <1>2, <1>3, <1>4, <1>5, <1>6, <1>7 DEF AddStep

\* The actor ends its loop once, and nobody but a panic forces it.
LEMMA ActorShape ==
    ASSUME Shape, LineTyped, ActorStep \/ CallbackPanics
    PROVE  Shape' /\ Monotone
<1> USE DEF Shape, Monotone, StageShape, ForcedShape, Cancelled, AddOrder, actorFrame,
      serverVars, connVars, actorVars, pumpVars, callVars, seenVars
<1>1. CASE CallbackReturns
  BY <1>1 DEF CallbackReturns
<1>2. CASE ActorCancelled
  BY <1>2 DEF ActorCancelled, EndLoop
<1>3. CASE ActorOrphaned
  BY <1>3 DEF ActorOrphaned, EndLoop
<1>4. CASE Receive
  BY <1>4 DEF Receive
<1>5. CASE SkipAfterClose
  BY <1>5 DEF SkipAfterClose
<1>6. CASE Dispatch
  BY <1>6 DEF Dispatch, Current
<1>7. CASE RefuseRequest
  BY <1>7 DEF RefuseRequest, Current
<1>8. CASE MeetClosed
  BY <1>8 DEF MeetClosed, Current
<1>9. CASE WriteForCaller
  BY <1>9 DEF WriteForCaller, Current
<1>10. CASE WriteBroadcast
  BY <1>10 DEF WriteBroadcast, Current
<1>11. CASE BatchDone
  BY <1>11 DEF BatchDone, EndLoop
<1>12. CASE ActorEnds
  BY <1>12 DEF ActorEnds
<1>13. CASE CallbackPanics
  BY <1>13 DEF CallbackPanics, EndLoop
<1> QED BY <1>1, <1>2, <1>3, <1>4, <1>5, <1>6, <1>7, <1>8, <1>9, <1>10, <1>11, <1>12, <1>13
      DEF ActorStep

\* The pump leaves the stage alone.
LEMMA PumpShape ==
    ASSUME Shape, PumpStep
    PROVE  Shape' /\ Monotone
<1> USE DEF Shape, Monotone, StageShape, ForcedShape, Cancelled, AddOrder, pumpFrame,
      serverVars, connVars, actorVars, pumpVars, callVars, seenVars
<1>1. CASE PumpCancelled
  BY <1>1 DEF PumpCancelled
<1>2. CASE PumpTakes
  BY <1>2 DEF PumpTakes
<1>3. CASE PumpForwards
  BY <1>3 DEF PumpForwards
<1>4. CASE PumpTeardown
  BY <1>4 DEF PumpTeardown, ClosePending, RemoveEntries, KeepEntries
<1>5. CASE \E c \in Requesters : PumpCompletes(c)
  BY <1>5 DEF PumpCompletes
<1> QED BY <1>1, <1>2, <1>3, <1>4, <1>5 DEF PumpStep

\* The supervisor, a shutdown and the connection keep the stage in step with the tasks.
LEMMA EndShape ==
    ASSUME Shape, SessionInv,
           \/ SupervisorCancels \/ SupervisorFinalises \/ ShutdownGate \/ ShutdownCancels
           \/ DropTransport \/ PeerSends \/ ConnectionEnds
    PROVE  Shape' /\ Monotone
<1> USE DEF Shape, Monotone, StageShape, ForcedShape, Cancelled, AddOrder, shutdownFrame,
      serverVars, connVars, actorVars, pumpVars, callVars, seenVars
<1>1. CASE SupervisorCancels
  BY <1>1 DEF SupervisorCancels
<1>2. CASE SupervisorFinalises
  BY <1>2 DEF SupervisorFinalises, RemoveSession, ClosePending, RemoveEntries
<1>3. CASE ShutdownGate
  BY <1>3 DEF ShutdownGate
<1>4. CASE ShutdownCancels
  BY <1>4 DEF ShutdownCancels
<1>5. CASE DropTransport
  BY <1>5 DEF DropTransport
<1>6. CASE PeerSends
  BY <1>6 DEF PeerSends
<1>7. CASE ConnectionEnds
  BY <1>7 DEF ConnectionEnds, CloseConnection
<1> QED BY <1>1, <1>2, <1>3, <1>4, <1>5, <1>6, <1>7

\* A call leaves the stage alone; one that closes the session is on record.
LEMMA CallShape ==
    ASSUME Shape, LineTyped, NEW c \in Callers, CallerStep(c) \/ CallerStarts(c)
    PROVE  Shape' /\ Monotone
<1> USE DEF Shape, Monotone, StageShape, ForcedShape, Cancelled, AddOrder, LineTyped,
      callFrame, sendFrame, Goto, serverVars, connVars, actorVars, pumpVars, callVars, seenVars
<1>1. CASE c \in Requesters /\ AllocateRequestId(c)
  BY <1>1 DEF AllocateRequestId
<1>2. CASE c \in Requesters /\ RegisterRequest(c)
  BY <1>2 DEF RegisterRequest, Route
<1>3. CASE c \in Requesters /\ RequestEnds(c)
  BY <1>3 DEF RequestEnds
<1>4. CASE StartSend(c)
  BY <1>4 DEF StartSend, Route
<1>5. CASE StartBroadcast(c)
  BY <1>5 DEF StartBroadcast
<1>6. CASE Enqueue(c)
  BY <1>6 DEF Enqueue, Fail, FailDead
<1>7. CASE EnqueueTimesOut(c)
  BY <1>7 DEF EnqueueTimesOut, Fail
<1>8. CASE TakeReply(c)
  BY <1>8 DEF TakeReply, Written, Fail, FailDead
<1>9. CASE WriteDirect(c)
  BY <1>9 DEF WriteDirect, Written, WriteResults, Fail, FailDead
<1>10. CASE StartClose(c)
  BY <1>10 DEF StartClose
<1>11. CASE CloseAllSessions(c)
  BY <1>11 DEF CloseAllSessions
<1>12. CASE NotifyActorClosed(c)
  BY <1>12 DEF NotifyActorClosed
<1>13. CASE Disconnect(c)
  BY <1>13 DEF Disconnect, CloseConnection
<1>14. CASE CleanUp(c)
  BY <1>14 DEF CleanUp
<1> QED BY <1>1, <1>2, <1>3, <1>4, <1>5, <1>6, <1>7, <1>8, <1>9, <1>10, <1>11, <1>12, <1>13,
      <1>14
   DEF CallerStep, CallerStarts

-----------------------------------------------------------------------------
(* The types of the line.                                                  *)

\* What the steps put into the line are items.
LEMMA ItemTypes ==
    /\ \A k \in Kinds, n \in 1 .. MaxIn : Inbound(k, n) \in Items
    /\ Closed \in Items
    /\ \A c \in Callers : SendWithReply(c) \in Items /\ Send(c) \in Items
BY SessionAssumption DEF Items, Inbound, Closed, SendWithReply, Send, NoOne

\* Packets are the items that are not commands or the end of the connection.
LEMMA ItemKinds ==
    /\ \A e \in Items : e.kind \in {"message", "request", "response"} <=> e.kind \in Kinds
    /\ "closed" \notin Kinds /\ "reply" \notin Kinds /\ "cast" \notin Kinds
BY SessionAssumption DEF Items

\* The heads of the batch and of the pipe are in the line.
LEMMA HeadsInLine ==
    ASSUME LineTyped, LineInBounds
    PROVE  /\ batch # <<>> => /\ Tail(batch) \in Seq(Items) /\ Head(batch) \in Items
                              /\ Head(batch) \in InLine
                              /\ Head(batch).kind \in Kinds => Head(batch).n \in 1 .. sent
           /\ pipe # <<>> => /\ Tail(pipe) \in Seq(Items) /\ Head(pipe) \in Items
                             /\ Head(pipe) \in InLine
                             /\ Head(pipe).kind \in Kinds => Head(pipe).n \in 1 .. sent
<1>1. \A e \in Items : e.n \in Nat
  BY SessionAssumption DEF Items
<1>2. \A e \in InLine : e \in Items /\ e.kind \in Kinds => e.n \in 1 .. sent
  BY <1>1, SessionAssumption DEF LineTyped, LineInBounds
<1>3. (batch # <<>> => /\ Tail(batch) \in Seq(Items) /\ Head(batch) \in Items
                       /\ Head(batch) \in InLine
                       /\ Head(batch).kind \in Kinds => Head(batch).n \in 1 .. sent)
  BY <1>2, ElemsTail DEF LineTyped, InLine
<1>4. (pipe # <<>> => /\ Tail(pipe) \in Seq(Items) /\ Head(pipe) \in Items
                      /\ Head(pipe) \in InLine
                      /\ Head(pipe).kind \in Kinds => Head(pipe).n \in 1 .. sent)
  BY <1>2, ElemsTail DEF LineTyped, InLine
<1> QED BY <1>3, <1>4

\* add_session_with_permit keeps the types.
LEMMA AddTyped ==
    ASSUME LineTyped, AddOrder, StageShape, AddStep \/ RefusalReturns
    PROVE  LineTyped'
<1> USE DEF LineTyped, serverVars, connVars, actorVars, pumpVars, callVars, seenVars
<1>1. CASE GateRefuses
  BY <1>1 DEF GateRefuses
<1>2. CASE GateAdmits
  BY <1>2 DEF GateAdmits
<1>3. CASE InsertTransport
  BY <1>3 DEF InsertTransport
<1>4. CASE TrackSession
  BY <1>4 DEF TrackSession
<1>5. CASE SpawnTasks
  BY <1>5 DEF SpawnTasks
<1>6. CASE Recheck
  BY <1>6 DEF Recheck
<1>7. CASE RefusalReturns
  BY <1>7 DEF RefusalReturns
<1> QED BY <1>1, <1>2, <1>3, <1>4, <1>5, <1>6, <1>7 DEF AddStep

\* The actor keeps the types of the line.
LEMMA ActorTyped ==
    ASSUME LineTyped, LineInBounds, ActorStep \/ CallbackPanics
    PROVE  LineTyped'
<1> USE DEF LineTyped, actorFrame, serverVars, connVars, actorVars, pumpVars, callVars, seenVars
<1>0. /\ batch # <<>> => /\ Tail(batch) \in Seq(Items) /\ Head(batch) \in Items
                         /\ Head(batch).kind \in Kinds => Head(batch).n \in 1 .. sent
      /\ <<>> \in Seq(Items)
      /\ MaxIn \in Nat /\ sent \in 0 .. MaxIn
  BY HeadsInLine, SessionAssumption
<1>1. CASE CallbackReturns
  BY <1>1, <1>0 DEF CallbackReturns
<1>2. CASE ActorCancelled
  BY <1>2, <1>0 DEF ActorCancelled, EndLoop
<1>3. CASE ActorOrphaned
  BY <1>3, <1>0 DEF ActorOrphaned, EndLoop
<1>4. CASE Receive
  <2> DEFINE k == IF Len(mailbox) < Batch THEN Len(mailbox) ELSE Batch
  <2>1. /\ batch' = SubSeq(mailbox, 1, k) /\ mailbox' = SubSeq(mailbox, k + 1, Len(mailbox))
        /\ Len(mailbox) \in Nat /\ mailbox \in Seq(Items)
    BY <1>4 DEF Receive
  <2>a. k \in 0 .. Len(mailbox)
    BY <2>1, SessionAssumption
  <2> HIDE DEF k
  <2>2. batch' \in Seq(Items) /\ mailbox' \in Seq(Items)
    BY <2>1, <2>a
  <2> QED BY <1>4, <2>2 DEF Receive
<1>5. CASE SkipAfterClose
  BY <1>5, <1>0 DEF SkipAfterClose
<1>6. CASE Dispatch
  <2>1. Head(batch).n \in 1 .. sent /\ batch' = Tail(batch) /\ batch' \in Seq(Items)
    BY <1>6, <1>0 DEF Dispatch, Current
  <2>2. Head(batch).n \in 0 .. sent
    BY <1>0, <2>1
  <2>3. last' \in 0 .. sent /\ settled' \subseteq 1 .. sent
    BY <1>6, <2>1, <2>2 DEF Dispatch
  <2> QED BY <1>6, <2>1, <2>3 DEF Dispatch
<1>7. CASE RefuseRequest
  <2>1. Head(batch).kind = "request" /\ batch # <<>> /\ batch' = Tail(batch)
    BY <1>7 DEF RefuseRequest, Current
  <2>2. settled' \subseteq 1 .. sent
    <3>1. Head(batch).n \in 1 .. sent
      BY <1>0, <2>1, ItemKinds
    <3> QED BY <1>7, <3>1 DEF RefuseRequest
  <2> QED BY <1>7, <1>0, <2>1, <2>2 DEF RefuseRequest
<1>8. CASE MeetClosed
  BY <1>8, <1>0 DEF MeetClosed, Current
<1>9. CASE WriteForCaller
  BY <1>9, <1>0 DEF WriteForCaller, Current
<1>10. CASE WriteBroadcast
  BY <1>10, <1>0 DEF WriteBroadcast, Current
<1>11. CASE BatchDone
  BY <1>11, <1>0 DEF BatchDone, EndLoop
<1>12. CASE ActorEnds
  BY <1>12, <1>0 DEF ActorEnds
<1>13. CASE CallbackPanics
  BY <1>13, <1>0 DEF CallbackPanics, EndLoop
<1> QED BY <1>1, <1>2, <1>3, <1>4, <1>5, <1>6, <1>7, <1>8, <1>9, <1>10, <1>11, <1>12, <1>13
      DEF ActorStep

\* The pump keeps the types of the line.
LEMMA PumpTyped ==
    ASSUME LineTyped, LineInBounds, PumpStep
    PROVE  LineTyped'
<1> USE DEF LineTyped, pumpFrame, serverVars, connVars, actorVars, pumpVars, callVars, seenVars
<1>0. /\ pipe # <<>> => /\ Tail(pipe) \in Seq(Items) /\ Head(pipe) \in Items
                        /\ Head(pipe).kind \in Kinds => Head(pipe).n \in 1 .. sent
      /\ MaxIn \in Nat /\ sent \in 0 .. MaxIn
  BY HeadsInLine, SessionAssumption
<1>1. CASE PumpCancelled
  BY <1>1, <1>0 DEF PumpCancelled
<1>2. CASE PumpTakes
  BY <1>2, <1>0 DEF PumpTakes
<1>3. CASE PumpForwards
  <2>1. mailbox' \in Seq(Items)
    <3>1. Append(mailbox, pumped) \in Seq(Items)
      BY <1>3 DEF PumpForwards
    <3> QED BY <1>3, <3>1 DEF PumpForwards
  <2>2. pump' # "forward"
    BY <1>3 DEF PumpForwards
  <2> QED BY <1>3, <2>1, <2>2 DEF PumpForwards
<1>4. CASE PumpTeardown
  BY <1>4, <1>0 DEF PumpTeardown, ClosePending, RemoveEntries, KeepEntries
<1>5. CASE \E c \in Requesters : PumpCompletes(c)
  <2>1. pipe # <<>> /\ Head(pipe).kind = "response" /\ pipe' = Tail(pipe)
        /\ settled' = settled \cup {Head(pipe).n}
    BY <1>5 DEF PumpCompletes
  <2>2. settled' \subseteq 1 .. sent
    <3>1. Head(pipe).n \in 1 .. sent
      BY <1>0, <2>1, ItemKinds
    <3> QED BY <2>1, <3>1
  <2> QED BY <1>5, <1>0, <2>1, <2>2 DEF PumpCompletes
<1> QED BY <1>1, <1>2, <1>3, <1>4, <1>5 DEF PumpStep

\* The supervisor, a shutdown and the connection keep the types.
LEMMA EndTyped ==
    ASSUME LineTyped,
           \/ SupervisorCancels \/ SupervisorFinalises \/ ShutdownGate \/ ShutdownCancels
           \/ DropTransport \/ PeerSends \/ ConnectionEnds
    PROVE  LineTyped'
<1> USE DEF LineTyped, shutdownFrame, serverVars, connVars, actorVars, pumpVars, callVars,
      seenVars
<1>1. CASE SupervisorCancels
  BY <1>1, ItemTypes DEF SupervisorCancels
<1>2. CASE SupervisorFinalises
  BY <1>2, ItemTypes DEF SupervisorFinalises, RemoveSession, ClosePending, RemoveEntries
<1>3. CASE ShutdownGate
  BY <1>3, ItemTypes DEF ShutdownGate
<1>4. CASE ShutdownCancels
  BY <1>4, ItemTypes DEF ShutdownCancels
<1>5. CASE DropTransport
  BY <1>5, ItemTypes DEF DropTransport
<1>6. CASE PeerSends
  <2>1. sent + 1 \in 1 .. MaxIn /\ MaxIn \in Nat
    BY <1>6, SessionAssumption DEF PeerSends
  <2>2. pipe' \in Seq(Items)
    BY <1>6, <2>1, ItemTypes DEF PeerSends
  <2> QED BY <1>6, <2>1, <2>2 DEF PeerSends
<1>7. CASE ConnectionEnds
  <2>1. Append(pipe, Closed) \in Seq(Items)
    BY ItemTypes
  <2>2. pipe' \in Seq(Items) /\ sent' = sent
    BY <1>7, <2>1 DEF ConnectionEnds, CloseConnection
  <2> QED BY <1>7, <2>2 DEF ConnectionEnds
<1> QED BY <1>1, <1>2, <1>3, <1>4, <1>5, <1>6, <1>7

\* A call keeps the types of the line.
LEMMA CallTyped ==
    ASSUME LineTyped, NEW c \in Callers, CallerStep(c) \/ CallerStarts(c)
    PROVE  LineTyped'
<1> USE DEF LineTyped, callFrame, sendFrame, Goto, serverVars, connVars, actorVars, pumpVars,
      callVars, seenVars
<1>1. CASE c \in Requesters /\ AllocateRequestId(c)
  BY <1>1, ItemTypes DEF AllocateRequestId
<1>2. CASE c \in Requesters /\ RegisterRequest(c)
  BY <1>2, ItemTypes DEF RegisterRequest, Route
<1>3. CASE c \in Requesters /\ RequestEnds(c)
  BY <1>3, ItemTypes DEF RequestEnds
<1>4. CASE StartSend(c)
  BY <1>4, ItemTypes DEF StartSend, Route
<1>5. CASE StartBroadcast(c)
  BY <1>5, ItemTypes DEF StartBroadcast
<1>6. CASE Enqueue(c)
  <2>1. mailbox' \in Seq(Items)
    <3>1. Append(mailbox, Send(c)) \in Seq(Items) /\ Append(mailbox, SendWithReply(c)) \in Seq(Items)
      BY ItemTypes
    <3> QED BY <1>6, <3>1 DEF Enqueue
  <2> QED BY <1>6, <2>1 DEF Enqueue, Fail, FailDead
<1>7. CASE EnqueueTimesOut(c)
  BY <1>7, ItemTypes DEF EnqueueTimesOut, Fail
<1>8. CASE TakeReply(c)
  BY <1>8, ItemTypes DEF TakeReply, Written, Fail, FailDead
<1>9. CASE WriteDirect(c)
  BY <1>9, ItemTypes DEF WriteDirect, Written, WriteResults, Fail, FailDead
<1>10. CASE StartClose(c)
  BY <1>10, ItemTypes DEF StartClose
<1>11. CASE CloseAllSessions(c)
  BY <1>11, ItemTypes DEF CloseAllSessions
<1>12. CASE NotifyActorClosed(c)
  BY <1>12, ItemTypes DEF NotifyActorClosed
<1>13. CASE Disconnect(c)
  <2>1. pipe' \in Seq(Items) /\ sent' = sent
    <3>1. Append(pipe, Closed) \in Seq(Items)
      BY ItemTypes
    <3> QED BY <1>13, <3>1 DEF Disconnect, CloseConnection
  <2> QED BY <1>13, <2>1 DEF Disconnect
<1>14. CASE CleanUp(c)
  BY <1>14, ItemTypes DEF CleanUp
<1> QED BY <1>1, <1>2, <1>3, <1>4, <1>5, <1>6, <1>7, <1>8, <1>9, <1>10, <1>11, <1>12, <1>13,
      <1>14
   DEF CallerStep, CallerStarts

-----------------------------------------------------------------------------
(* Moves along the line, and what they do to its order.                    *)

\* Something newer than the whole line joins the pipe.
LEMMA LineJoins ==
    ASSUME NEW K, NEW b, NEW m, NEW h, NEW p \in Seq(Items), NEW e \in Items,
           LineSorted(K, b, m, h, p),
           \A x \in Elems(b) \cup Elems(m) \cup Elems(h) \cup Elems(p) : Before(K, x, e)
    PROVE  LineSorted(K, b, m, h, Append(p, e))
<1>1. Elems(Append(p, e)) = Elems(p) \cup {e}
  BY ElemsAppend
<1>2. Sorted(K, Append(p, e))
  BY SortedAppend DEF LineSorted
<1> QED BY <1>1, <1>2 DEF LineSorted, Precedes

\* The pump takes the head of the pipe in its hand.
LEMMA LineTaken ==
    ASSUME NEW K, NEW b, NEW m, NEW p \in Seq(Items), p # <<>>,
           LineSorted(K, b, m, <<>>, p)
    PROVE  LineSorted(K, b, m, <<Head(p)>>, Tail(p))
<1>1. Elems(p) = {Head(p)} \cup Elems(Tail(p)) /\ Elems(<<Head(p)>>) = {Head(p)}
  BY ElemsTail, ElemsOfOne
<1>2. Sorted(K, Tail(p)) /\ Precedes(K, {Head(p)}, Elems(Tail(p))) /\ Sorted(K, <<Head(p)>>)
  BY SortedTail, ElemsOfNone DEF LineSorted
<1> QED BY <1>1, <1>2 DEF LineSorted, Precedes

\* The head of the pipe leaves the line.
LEMMA LineServed ==
    ASSUME NEW K, NEW b, NEW m, NEW h, NEW p \in Seq(Items), p # <<>>,
           LineSorted(K, b, m, h, p)
    PROVE  LineSorted(K, b, m, h, Tail(p))
<1>1. Elems(p) = {Head(p)} \cup Elems(Tail(p))
  BY ElemsTail
<1>2. Sorted(K, Tail(p))
  BY SortedTail DEF LineSorted
<1> QED BY <1>1, <1>2 DEF LineSorted, Precedes

\* The pump puts what it holds into the mailbox.
LEMMA LineForwarded ==
    ASSUME NEW K, NEW b, NEW m \in Seq(Items), NEW e \in Items, NEW p,
           LineSorted(K, b, m, <<e>>, p)
    PROVE  LineSorted(K, b, Append(m, e), <<>>, p)
<1>1. Elems(Append(m, e)) = Elems(m) \cup {e} /\ Elems(<<e>>) = {e} /\ Elems(<<>>) = {}
  BY ElemsAppend, ElemsOfOne, ElemsOfNone
<1>2. Sorted(K, Append(m, e)) /\ Sorted(K, <<>>)
  BY <1>1, SortedAppend, ElemsOfNone DEF LineSorted, Precedes
<1> QED BY <1>1, <1>2 DEF LineSorted, Precedes

\* A command joins the mailbox; its order does not matter.
LEMMA LineCommanded ==
    ASSUME NEW K, NEW b, NEW m \in Seq(Items), NEW e \in Items, NEW h, NEW p,
           LineSorted(K, b, m, h, p), e.kind \notin K
    PROVE  LineSorted(K, b, Append(m, e), h, p)
<1>1. Elems(Append(m, e)) = Elems(m) \cup {e}
  BY ElemsAppend
<1>2. \A x : Before(K, x, e) /\ Before(K, e, x)
  BY DEF Before
<1>3. Sorted(K, Append(m, e))
  BY <1>2, SortedAppend DEF LineSorted
<1> QED BY <1>1, <1>2, <1>3 DEF LineSorted, Precedes

\* The actor receives the front of the mailbox as its batch.
LEMMA LineReceived ==
    ASSUME NEW K, NEW m \in Seq(Items), NEW k \in 0 .. Len(m), NEW h, NEW p,
           LineSorted(K, <<>>, m, h, p)
    PROVE  LineSorted(K, SubSeq(m, 1, k), SubSeq(m, k + 1, Len(m)), h, p)
<1>1. PICK a : a = SubSeq(m, 1, k)
  OBVIOUS
<1>2. PICK r : r = SubSeq(m, k + 1, Len(m))
  OBVIOUS
<1>3. /\ Elems(m) = Elems(a) \cup Elems(r)
      /\ Sorted(K, a) /\ Sorted(K, r) /\ Precedes(K, Elems(a), Elems(r))
  BY <1>1, <1>2, SortedCut DEF LineSorted
<1>4. LineSorted(K, a, r, h, p)
  BY <1>3 DEF LineSorted, Precedes
<1> QED BY <1>1, <1>2, <1>4

\* The head of the batch leaves the line.
LEMMA LineWorked ==
    ASSUME NEW K, NEW b \in Seq(Items), b # <<>>, NEW m, NEW h, NEW p,
           LineSorted(K, b, m, h, p)
    PROVE  /\ LineSorted(K, Tail(b), m, h, p)
           /\ \A x \in Elems(Tail(b)) \cup Elems(m) \cup Elems(h) \cup Elems(p) :
                 Before(K, Head(b), x)
<1>1. Elems(b) = {Head(b)} \cup Elems(Tail(b))
  BY ElemsTail
<1>2. Sorted(K, Tail(b)) /\ Precedes(K, {Head(b)}, Elems(Tail(b)))
  BY SortedTail DEF LineSorted
<1> QED BY <1>1, <1>2 DEF LineSorted, Precedes

\* The batch and the mailbox, or the pump's hand, are dropped.
LEMMA LineDropped ==
    ASSUME NEW K, NEW b, NEW m, NEW h, NEW p, LineSorted(K, b, m, h, p)
    PROVE  LineSorted(K, <<>>, <<>>, h, p) /\ LineSorted(K, b, m, <<>>, p)
BY ElemsOfNone DEF LineSorted, Precedes

-----------------------------------------------------------------------------
(* The steps of the session and the line.                                  *)

\* What the steps keep about the line.
Line == LineInOrder /\ LineInBounds /\ NothingLost

\* A step that leaves the line alone, may close the connection and may force the end.
Quiet ==
    /\ UNCHANGED <<batch, mailbox, pipe, sent, last, settled, stopping>>
    /\ Hand' = Hand
    /\ conn' \in {conn, "closed"}
    /\ Monotone
    /\ pump' \in {"teardown", "done"} => pump \in {"teardown", "done"}
    /\ actor' \in {"final", "done"} <=> actor \in {"final", "done"}

\* Forcing the end of a session makes fewer kinds matter.
LEMMA LiveShrinks ==
    ASSUME Monotone
    PROVE  Live' \in SUBSET Live /\ Kinds \subseteq Live' /\ (~ forced' => Live' = Live)
BY DEF Live, Monotone

\* A step that leaves the line alone keeps what is known about it.
LEMMA QuietKeeps ==
    ASSUME Line, Quiet
    PROVE  Line'
<1>1. /\ InLine' = InLine
      /\ Elems(batch)' = Elems(batch) /\ Elems(mailbox)' = Elems(mailbox)
  BY DEF Quiet, InLine, Elems
<1>2. Live' \in SUBSET Live /\ (~ forced' => Live' = Live /\ ~ forced)
  BY LiveShrinks DEF Quiet, Monotone
<1>3. LineInOrder'
  <2>1. LineSorted(Live', batch, mailbox, Hand, pipe)
    BY <1>2, LineWeaker DEF Line, LineInOrder
  <2> QED BY <2>1 DEF LineInOrder, Quiet
<1>4. LineInBounds'
  BY <1>1 DEF Line, LineInBounds, Quiet
<1>5. NothingLost'
  BY <1>1, <1>2 DEF Line, NothingLost, Quiet
<1> QED BY <1>3, <1>4, <1>5 DEF Line

\* add_session_with_permit does not touch the line.
LEMMA AddLine ==
    ASSUME Line, Shape, AddOrder, AddStep \/ RefusalReturns
    PROVE  Line'
<1>0. Monotone
  BY AddShape
<1> USE DEF Quiet, Hand, Shape, StageShape, serverVars, connVars, actorVars, pumpVars,
      callVars, seenVars
<1>1. CASE GateRefuses
  BY <1>0, <1>1, QuietKeeps DEF GateRefuses
<1>2. CASE GateAdmits
  BY <1>0, <1>2, QuietKeeps DEF GateAdmits
<1>3. CASE InsertTransport
  BY <1>0, <1>3, QuietKeeps DEF InsertTransport
<1>4. CASE TrackSession
  BY <1>0, <1>4, QuietKeeps DEF TrackSession
<1>5. CASE SpawnTasks
  BY <1>0, <1>5, QuietKeeps DEF SpawnTasks
<1>6. CASE Recheck
  BY <1>0, <1>6, QuietKeeps DEF Recheck
<1>7. CASE RefusalReturns
  BY <1>0, <1>7, QuietKeeps DEF RefusalReturns
<1> QED BY <1>1, <1>2, <1>3, <1>4, <1>5, <1>6, <1>7 DEF AddStep

\* The closed event joins the pipe, behind every packet.
LEMMA CloseJoins ==
    ASSUME Line, LineTyped, conn = "open", CloseConnection,
           UNCHANGED <<batch, mailbox, pumpVars, actor, stopping, last, settled, forced>>
    PROVE  Line'
<1>1. conn' = "closed" /\ pipe' = Append(pipe, Closed) /\ sent' = sent
  BY DEF CloseConnection
<1>2. Hand' = Hand /\ Live' = Live
  BY DEF Hand, Live, pumpVars
<1>3. Closed \in Items /\ Closed.kind = "closed" /\ "closed" \notin Kinds
  BY ItemTypes, ItemKinds DEF Closed
<1>4. Elems(Append(pipe, Closed)) = Elems(pipe) \cup {Closed}
  BY <1>3, ElemsAppend DEF LineTyped
<1>5. InLine' = InLine \cup {Closed} /\ Elems(batch)' = Elems(batch) /\ Elems(mailbox)' = Elems(mailbox)
  BY <1>1, <1>2, <1>4 DEF InLine, Elems
<1>6. LineInOrder'
  <2>1. ASSUME NEW x \in InLine PROVE Before(Live, x, Closed)
    <3>1. CASE forced
      BY <1>3, <3>1 DEF Before, Live
    <3>2. CASE ~ forced
      <4>1. x.kind # "closed" /\ (x.kind \in Live => x.kind \in Kinds)
        BY <3>2 DEF Line, NothingLost, Live
      <4>2. x.kind \in Kinds => x.n <= sent /\ x \in Items
        BY DEF Line, LineInBounds, InLine, Elems, LineTyped, Hand
      <4>3. x \in Items => x.n \in Nat
        BY SessionAssumption DEF Items
      <4>4. sent \in 0 .. MaxIn /\ MaxIn \in Nat
        BY SessionAssumption DEF LineTyped
      <4>5. Rank(Closed) = MaxIn + 1 /\ (x.kind \in Kinds => Rank(x) = x.n)
        BY <1>3 DEF Rank
      <4>6. x.kind \in Kinds => Rank(x) < Rank(Closed)
        BY <4>2, <4>3, <4>4, <4>5
      <4> QED BY <4>1, <4>6 DEF Before
    <3> QED BY <3>1, <3>2
  <2>2. LineSorted(Live, batch, mailbox, Hand, Append(pipe, Closed))
    BY <1>3, <2>1, LineJoins DEF Line, LineInOrder, InLine, LineTyped
  <2> QED BY <1>1, <1>2, <2>2 DEF LineInOrder
<1>7. LineInBounds'
  BY <1>1, <1>3, <1>5 DEF Line, LineInBounds
<1>8. NothingLost'
  BY <1>1, <1>3, <1>5 DEF Line, NothingLost, pumpVars
<1> QED BY <1>6, <1>7, <1>8 DEF Line

\* What is in the line is an item.
LEMMA LineOfItems ==
    ASSUME LineTyped
    PROVE  \A x \in InLine : x \in Items /\ x.n \in 0 .. MaxIn
<1>1. \A x \in InLine : x \in Items
  BY DEF InLine, Elems, LineTyped, Hand
<1> QED BY <1>1 DEF Items

\* A packet joins the pipe, behind all earlier ones.
LEMMA PacketJoins ==
    ASSUME Line, LineTyped, PeerSends
    PROVE  Line'
<1> USE DEF serverVars, actorVars, pumpVars, callVars, seenVars
<1>0. PICK k \in Kinds : pipe' = Append(pipe, Inbound(k, sent + 1))
  BY DEF PeerSends
<1> DEFINE e == Inbound(k, sent + 1)
<1>1. sent' = sent + 1 /\ sent \in 0 .. MaxIn /\ sent + 1 \in 1 .. MaxIn /\ MaxIn \in Nat
      /\ last \in 0 .. sent
  BY SessionAssumption DEF PeerSends, LineTyped
<1>2. Hand' = Hand /\ Live' = Live /\ conn = "open" /\ conn' = "open"
      /\ UNCHANGED <<batch, mailbox, last, settled, stopping, actor, pump, forced>>
  BY DEF PeerSends, Hand, Live
<1>3. e \in Items /\ e.kind = k /\ e.n = sent + 1
  BY <1>1, ItemTypes DEF Inbound
<1>p. pipe' = Append(pipe, e)
  BY <1>0
<1> HIDE DEF e
<1>4. Elems(Append(pipe, e)) = Elems(pipe) \cup {e}
  BY <1>3, ElemsAppend DEF LineTyped
<1>5. InLine' = InLine \cup {e}
  BY <1>p, <1>2, <1>4 DEF InLine, Elems
<1>6. LineInOrder'
  <2>1. ASSUME NEW x \in InLine PROVE Before(Live, x, e)
    <3>1. x.kind \in Live => x.kind \in Kinds
      BY <1>2 DEF Line, NothingLost, Live
    <3>2. x.kind \in Kinds => x.n <= sent /\ x.n \in 0 .. MaxIn
      BY LineOfItems DEF Line, LineInBounds
    <3>3. Rank(e) = sent + 1 /\ (x.kind \in Kinds => Rank(x) = x.n)
      BY <1>3, ItemKinds DEF Rank
    <3>4. x.kind \in Kinds => Rank(x) < Rank(e)
      BY <1>1, <3>2, <3>3
    <3> QED BY <3>1, <3>4 DEF Before
  <2>2. LineSorted(Live, batch, mailbox, Hand, Append(pipe, e))
    BY <1>3, <2>1, LineJoins DEF Line, LineInOrder, InLine, LineTyped
  <2> QED BY <1>p, <1>2, <2>2 DEF LineInOrder
<1>7. LineInBounds'
  <2>1. ASSUME NEW x \in InLine', x.kind \in Kinds PROVE last < x.n /\ x.n <= sent + 1
    <3>1. CASE x = e
      BY <3>1, <1>1, <1>3
    <3>2. CASE x \in InLine
      <4>1. last < x.n /\ x.n <= sent /\ x.n \in 0 .. MaxIn
        BY <2>1, <3>2, LineOfItems DEF Line, LineInBounds
      <4> QED BY <4>1, <1>1
    <3> QED BY <3>1, <3>2, <1>5
  <2> QED BY <2>1, <1>1, <1>2 DEF LineInBounds
<1>8. NothingLost'
  <2> SUFFICES ASSUME ~ forced PROVE NothingLost'
    BY <1>2 DEF NothingLost
  <2>1. ~ stopping /\ actor \notin {"final", "done"} /\ \A x \in InLine : x.kind # "closed"
    BY <1>2 DEF Line, NothingLost
  <2>2. \A n \in 1 .. sent + 1 : n \in 1 .. sent \/ n = sent + 1
    BY <1>1
  <2>3. \A n \in 1 .. sent + 1 : n \in settled \/ \E x \in InLine' : x.kind \in Kinds /\ x.n = n
    BY <2>2, <1>3, <1>5 DEF Line, NothingLost
  <2>4. \A x \in InLine' : x.kind # "closed"
    BY <1>3, <1>5, <2>1, ItemKinds
  <2>5. pump \notin {"teardown", "done"}
    BY <2>1 DEF Line, NothingLost, InLine
  <2> QED BY <1>1, <1>2, <2>1, <2>3, <2>4, <2>5 DEF NothingLost
<1> QED BY <1>6, <1>7, <1>8 DEF Line

\* The supervisor, a shutdown and the connection.
LEMMA EndLine ==
    ASSUME Line, LineTyped, Shape, SessionInv,
           \/ SupervisorCancels \/ SupervisorFinalises \/ ShutdownGate \/ ShutdownCancels
           \/ DropTransport \/ PeerSends \/ ConnectionEnds
    PROVE  Line'
<1>0. Monotone
  BY EndShape
<1> USE DEF shutdownFrame, serverVars, connVars, actorVars, pumpVars, callVars, seenVars
<1>1. CASE SupervisorCancels
  BY <1>0, <1>1, QuietKeeps DEF SupervisorCancels, Quiet, Hand
<1>2. CASE SupervisorFinalises
  BY <1>0, <1>2, QuietKeeps DEF SupervisorFinalises, Quiet, Hand
<1>3. CASE ShutdownGate
  BY <1>0, <1>3, QuietKeeps DEF ShutdownGate, Quiet, Hand
<1>4. CASE ShutdownCancels
  <2>1. forced' /\ Live' = Kinds /\ "closed" \notin Kinds /\ Kinds \in SUBSET Live
    BY <1>4, ItemKinds DEF ShutdownCancels, Live
  <2>2. Hand' = Hand /\ UNCHANGED <<batch, pipe, last, sent>>
    BY <1>4 DEF ShutdownCancels, Hand
  <2>3. LineSorted(Kinds, batch, mailbox, Hand, pipe)
    BY <2>1, LineWeaker DEF Line, LineInOrder
  <2>4. mailbox' \in {mailbox, Append(mailbox, Closed)}
    BY <1>4 DEF ShutdownCancels
  <2>5. Closed \in Items /\ Closed.kind = "closed"
    BY ItemTypes DEF Closed
  <2>6. LineSorted(Kinds, batch, Append(mailbox, Closed), Hand, pipe)
        /\ Elems(Append(mailbox, Closed)) = Elems(mailbox) \cup {Closed}
    BY <2>1, <2>3, <2>5, LineCommanded, ElemsAppend DEF LineTyped
  <2>7. InLine' \subseteq InLine \cup {Closed}
    <3>1. Elems(mailbox') \subseteq Elems(mailbox) \cup {Closed}
      BY <2>4, <2>6
    <3> QED BY <2>2, <3>1 DEF InLine, Elems
  <2>8. LineInOrder'
    BY <2>1, <2>2, <2>3, <2>4, <2>6 DEF LineInOrder
  <2>9. LineInBounds'
    BY <2>1, <2>2, <2>5, <2>7 DEF Line, LineInBounds
  <2> QED BY <2>1, <2>8, <2>9 DEF Line, NothingLost
<1>5. CASE DropTransport
  BY <1>0, <1>5, QuietKeeps DEF DropTransport, Quiet, Hand
<1>6. CASE PeerSends
  BY <1>6, PacketJoins
<1>7. CASE ConnectionEnds
  BY <1>7, CloseJoins DEF ConnectionEnds
<1> QED BY <1>1, <1>2, <1>3, <1>4, <1>5, <1>6, <1>7

\* The pump takes the head of the pipe.
LEMMA TakeMoves ==
    ASSUME Line, LineTyped, PumpTakes
    PROVE  Line'
<1> USE DEF pumpFrame, actorVars, pumpVars, seenVars
<1>1. /\ pump = "next" /\ pipe # <<>> /\ pump' = "forward" /\ pumped' = Head(pipe) /\ pipe' = Tail(pipe)
      /\ UNCHANGED <<batch, mailbox, sent, conn, last, settled, stopping, actor, forced>>
  BY DEF PumpTakes
<1>2. Hand = <<>> /\ Hand' = <<Head(pipe)>> /\ Live' = Live
  BY <1>1 DEF Hand, Live
<1>3. Elems(pipe) = {Head(pipe)} \cup Elems(Tail(pipe))
      /\ Elems(<<Head(pipe)>>) = {Head(pipe)} /\ Elems(<<>>) = {}
  BY <1>1, ElemsTail, ElemsOfOne, ElemsOfNone DEF LineTyped
<1>4. InLine' = InLine
  <2>1. InLine' = Elems(batch) \cup Elems(mailbox) \cup Elems(<<Head(pipe)>>) \cup Elems(Tail(pipe))
    BY <1>1, <1>2 DEF InLine
  <2> QED BY <1>2, <1>3, <2>1 DEF InLine
<1>5. LineInOrder'
  BY <1>1, <1>2, LineTaken DEF Line, LineInOrder, LineTyped
<1>6. LineInBounds' /\ NothingLost'
  BY <1>1, <1>4, <1>2 DEF Line, LineInBounds, NothingLost
<1> QED BY <1>5, <1>6 DEF Line

\* A response leaves the pipe for its waiter: it is settled.
LEMMA CompleteSettles ==
    ASSUME Line, LineTyped, NEW c \in Requesters, PumpCompletes(c)
    PROVE  Line'
<1> USE DEF pumpFrame, actorVars, pumpVars, seenVars
<1>1. /\ pump = "next" /\ pipe # <<>> /\ pipe' = Tail(pipe) /\ settled' = settled \cup {Head(pipe).n}
      /\ Head(pipe).kind = "response"
      /\ UNCHANGED <<batch, mailbox, sent, conn, last, stopping, actor, forced, pump>>
  BY DEF PumpCompletes
<1>2. Hand' = Hand /\ Live' = Live
  BY DEF Hand, Live, PumpCompletes
<1>3. Elems(pipe) = {Head(pipe)} \cup Elems(Tail(pipe)) /\ Head(pipe) \in Items
  BY <1>1, ElemsTail DEF LineTyped
<1>4. InLine = InLine' \cup {Head(pipe)}
  <2>1. InLine' = Elems(batch) \cup Elems(mailbox) \cup Elems(Hand) \cup Elems(Tail(pipe))
    BY <1>1, <1>2 DEF InLine
  <2> QED BY <1>3, <2>1 DEF InLine
<1>5. LineInOrder'
  BY <1>1, <1>2, LineServed DEF Line, LineInOrder, LineTyped
<1>6. LineInBounds'
  BY <1>1, <1>4 DEF Line, LineInBounds
<1>7. NothingLost'
  <2>1. Head(pipe).kind \in Kinds /\ Head(pipe).n \in 1 .. sent
    BY <1>1, <1>3, HeadsInLine, ItemKinds DEF Line
  <2>2. ~ forced => ~ stopping
    BY <2>1, <1>4 DEF Line, NothingLost, Live
  <2>3. settled \subseteq 1 .. sent
    BY DEF LineTyped
  <2> QED BY <1>1, <1>2, <1>4, <2>1, <2>2, <2>3 DEF Line, NothingLost
<1> QED BY <1>5, <1>6, <1>7 DEF Line

\* The pump puts what it holds into the mailbox of an actor that runs; what it holds for
\* an actor that has ended by itself is nothing that was not settled.
LEMMA ForwardMoves ==
    ASSUME Line, LineTyped, PumpForwards
    PROVE  Line'
<1> USE DEF pumpFrame, actorVars, pumpVars, seenVars
<1>1. /\ pump = "forward" /\ pump' \in {"next", "teardown"} /\ pumped' = NoEvent
      /\ UNCHANGED <<batch, pipe, sent, conn, last, settled, stopping, actor, forced>>
  BY DEF PumpForwards
<1>2. Hand = <<pumped>> /\ Hand' = <<>> /\ Live' = Live /\ pumped \in Items
  BY <1>1 DEF Hand, Live, LineTyped
<1>3. Elems(<<pumped>>) = {pumped} /\ Elems(<<>>) = {}
  BY ElemsOfOne, ElemsOfNone
<1>4. CASE RxAlive
  <2>1. /\ mailbox' = Append(mailbox, pumped)
        /\ pump' = IF pumped = Closed THEN "teardown" ELSE "next"
    BY <1>4 DEF PumpForwards
  <2>2. Elems(Append(mailbox, pumped)) = Elems(mailbox) \cup {pumped}
    BY <1>2, ElemsAppend DEF LineTyped
  <2>3. InLine' = InLine /\ Elems(mailbox)' = Elems(mailbox) \cup {pumped}
    BY <1>1, <1>2, <1>3, <2>1, <2>2 DEF InLine, Elems
  <2>4. LineInOrder'
    BY <1>1, <1>2, <2>1, LineForwarded DEF Line, LineInOrder, LineTyped
  <2>5. LineInBounds'
    BY <1>1, <2>3 DEF Line, LineInBounds
  <2>6. pump' \in {"teardown", "done"} => pumped.kind = "closed"
    BY <2>1 DEF Closed
  <2>7. Elems(batch)' = Elems(batch)
    BY <1>1 DEF Elems
  <2>8. NothingLost'
    BY <1>1, <1>2, <2>3, <2>6, <2>7 DEF Line, NothingLost
  <2> QED BY <2>4, <2>5, <2>8 DEF Line
<1>5. CASE ~ RxAlive
  <2>1. mailbox' = mailbox
    BY <1>5 DEF PumpForwards
  <2>2. InLine' \subseteq InLine
    BY <1>1, <1>2, <1>3, <2>1 DEF InLine, Elems
  <2>3. LineInOrder'
    BY <1>1, <1>2, <2>1, LineDropped DEF Line, LineInOrder
  <2>4. LineInBounds'
    BY <1>1, <2>2 DEF Line, LineInBounds
  <2>5. actor \in {"final", "done"}
    BY <1>5 DEF RxAlive
  <2>6. NothingLost'
    BY <1>1, <1>2, <2>2, <2>5 DEF Line, NothingLost
  <2> QED BY <2>3, <2>4, <2>6 DEF Line
<1> QED BY <1>4, <1>5

\* The pump.
LEMMA PumpLine ==
    ASSUME Line, LineTyped, Shape, PumpStep
    PROVE  Line'
<1>0. Monotone
  BY PumpShape
<1> USE DEF pumpFrame, actorVars, pumpVars, seenVars
<1>1. CASE PumpCancelled
  <2>1. /\ forced /\ forced' /\ pump' = "teardown"
        /\ UNCHANGED <<batch, mailbox, pipe, sent, last>>
    BY <1>0, <1>1 DEF PumpCancelled, Monotone, Shape, ForcedShape
  <2>2. Hand' = <<>> /\ Live' = Live /\ Elems(<<>>) = {}
    BY <2>1, ElemsOfNone DEF Hand, Live
  <2>3. LineInOrder'
    BY <2>1, <2>2, LineDropped DEF Line, LineInOrder
  <2>4. InLine' \subseteq InLine
    BY <2>1, <2>2 DEF InLine, Elems
  <2>5. LineInBounds'
    BY <2>1, <2>4 DEF Line, LineInBounds
  <2> QED BY <2>1, <2>3, <2>5 DEF Line, NothingLost
<1>2. CASE PumpTakes
  BY <1>2, TakeMoves
<1>3. CASE PumpForwards
  BY <1>3, ForwardMoves
<1>4. CASE PumpTeardown
  BY <1>0, <1>4, QuietKeeps DEF PumpTeardown, Quiet, Hand
<1>5. CASE \E c \in Requesters : PumpCompletes(c)
  BY <1>5, CompleteSettles
<1> QED BY <1>1, <1>2, <1>3, <1>4, <1>5 DEF PumpStep

\* The head of the batch leaves the line, when it is no packet that matters or is settled.
LEMMA BatchMoves ==
    ASSUME Line, LineTyped, actor = "batch", batch # <<>>, batch' = Tail(batch),
           UNCHANGED <<mailbox, pipe, sent, conn, pump, pumped, forced>>,
           actor' \in {"batch", "handler"},
           last' = last \/ (Head(batch).kind \in Kinds /\ last' = Head(batch).n),
           settled \subseteq settled',
           ~ forced /\ Head(batch).kind \in Kinds => Head(batch).n \in settled',
           stopping => stopping',
           ~ forced /\ stopping' => stopping \/ Head(batch).kind = "closed",
           ~ forced /\ Head(batch).kind = "closed" => stopping'
    PROVE  Line'
<1> DEFINE e == Head(batch)
<1>1. Hand' = Hand /\ Live' = Live
  BY DEF Hand, Live
<1>2. Elems(batch) = {e} \cup Elems(Tail(batch)) /\ e \in Items
  BY ElemsTail DEF LineTyped
<1>3. InLine' = Elems(Tail(batch)) \cup Elems(mailbox) \cup Elems(Hand) \cup Elems(pipe)
  BY <1>1 DEF InLine
<1>4. InLine = InLine' \cup {e}
  BY <1>2, <1>3 DEF InLine
<1>5. LineSorted(Live, Tail(batch), mailbox, Hand, pipe) /\ \A x \in InLine' : Before(Live, e, x)
  BY <1>3, LineWorked DEF Line, LineInOrder, LineTyped
<1> HIDE DEF e
<1>6. LineInOrder'
  BY <1>1, <1>5 DEF LineInOrder
<1>7. LineInBounds'
  <2>1. ASSUME NEW x \in InLine', x.kind \in Kinds PROVE last' < x.n /\ x.n <= sent
    <3>1. last < x.n /\ x.n <= sent
      BY <1>4, <2>1 DEF Line, LineInBounds
    <3>2. e.kind \in Kinds => Rank(e) < Rank(x)
      BY <1>5, <2>1 DEF Before, Live
    <3>3. e.kind \in Kinds => e.n < x.n
      BY <2>1, <3>2, ItemKinds DEF Rank
    <3> QED BY <3>1, <3>3 DEF e
  <2> QED BY <2>1 DEF LineInBounds
<1>8. NothingLost'
  <2> SUFFICES ASSUME ~ forced PROVE NothingLost'
    BY DEF NothingLost
  <2>0. Live = Kinds \cup {"closed"}
    BY DEF Live
  <2>1. \A n \in 1 .. sent : n \in settled' \/ \E x \in InLine' : x.kind \in Kinds /\ x.n = n
    <3>1. e.kind \in Kinds => e.n \in settled'
      BY DEF e
    <3> QED BY <1>4, <3>1 DEF Line, NothingLost
  <2>2. \A x \in InLine' : x.kind = "closed" => conn = "closed"
    BY <1>4 DEF Line, NothingLost
  <2>3. stopping' => conn = "closed" /\ \A x \in InLine' : x.kind \notin Live
    <3>1. CASE stopping
      BY <1>4, <3>1 DEF Line, NothingLost
    <3>2. CASE e.kind = "closed"
      <4>1. conn = "closed"
        BY <1>4, <3>2 DEF Line, NothingLost
      <4>2. ASSUME NEW x \in InLine', x.kind \in Live PROVE FALSE
        <5>1. Rank(e) < Rank(x)
          BY <1>5, <2>0, <3>2, <4>2 DEF Before
        <5>2. x.n \in 0 .. MaxIn /\ MaxIn \in Nat
          BY <1>4, LineOfItems, SessionAssumption
        <5>3. Rank(x) <= MaxIn + 1 /\ Rank(e) = MaxIn + 1 /\ Rank(x) \in Nat
          BY <3>2, <5>2 DEF Rank
        <5> QED BY <5>1, <5>2, <5>3
      <4> QED BY <4>1, <4>2
    <3> QED BY <3>1, <3>2 DEF e
  <2>4. pump \in {"teardown", "done"} =>
              \/ stopping'
              \/ actor' \in {"final", "done"}
              \/ \E x \in Elems(batch') \cup Elems(mailbox) : x.kind = "closed"
    <3> SUFFICES ASSUME pump \in {"teardown", "done"}, ~ stopping'
                 PROVE  \E x \in Elems(Tail(batch)) \cup Elems(mailbox) : x.kind = "closed"
      OBVIOUS
    <3>1. e.kind # "closed" /\ ~ stopping
      BY DEF e
    <3>2. actor \notin {"final", "done"}
      OBVIOUS
    <3> QED BY <1>2, <3>1, <3>2 DEF Line, NothingLost
  <2>5. /\ Elems(batch)' = Elems(batch') /\ Elems(mailbox)' = Elems(mailbox)
    BY DEF Elems
  <2> QED BY <1>1, <2>0, <2>1, <2>2, <2>3, <2>4, <2>5 DEF NothingLost
<1> QED BY <1>6, <1>7, <1>8 DEF Line

\* The loop ends and drops its batch and its mailbox: nothing that was not settled, unless
\* the end was forced.
LEMMA LoopEnds ==
    ASSUME Line, EndLoop, UNCHANGED <<pipe, sent, conn, pump, pumped>>, Monotone,
           ~ forced' => settled = 1 .. sent /\ conn = "closed"
    PROVE  Line'
<1>1. /\ batch' = <<>> /\ mailbox' = <<>> /\ actor' = "final"
      /\ UNCHANGED <<last, settled, stopping>>
  BY DEF EndLoop
<1>2. Hand' = Hand
  BY DEF Hand
<1>3. Live' \in SUBSET Live /\ (~ forced' => Live' = Live /\ ~ forced)
  BY LiveShrinks DEF Monotone
<1>4. InLine' \subseteq InLine
  <2>1. InLine' = Elems(<<>>) \cup Elems(<<>>) \cup Elems(Hand) \cup Elems(pipe)
    BY <1>1, <1>2 DEF InLine
  <2> QED BY <2>1, ElemsOfNone DEF InLine
<1>5. LineInOrder'
  <2>1. LineSorted(Live', batch, mailbox, Hand, pipe)
    BY <1>3, LineWeaker DEF Line, LineInOrder
  <2>2. LineSorted(Live', <<>>, <<>>, Hand, pipe)
    BY <2>1, LineDropped
  <2> QED BY <1>1, <1>2, <2>2 DEF LineInOrder
<1>6. LineInBounds'
  BY <1>1, <1>4 DEF Line, LineInBounds
<1>7. NothingLost'
  BY <1>1, <1>3, <1>4 DEF Line, NothingLost
<1> QED BY <1>5, <1>6, <1>7 DEF Line

\* The actor receives a batch.
LEMMA ReceiveMoves ==
    ASSUME Line, LineTyped, Shape, Receive
    PROVE  Line'
<1> USE DEF actorFrame, connVars, pumpVars, seenVars
<1> DEFINE k == IF Len(mailbox) < Batch THEN Len(mailbox) ELSE Batch
<1>1. /\ batch' = SubSeq(mailbox, 1, k) /\ mailbox' = SubSeq(mailbox, k + 1, Len(mailbox))
      /\ batch = <<>> /\ actor = "receiving" /\ actor' = "batch"
      /\ UNCHANGED <<pipe, sent, conn, pump, pumped, last, settled, stopping, forced>>
  BY DEF Receive, Shape, StageShape
<1>2. mailbox \in Seq(Items) /\ Len(mailbox) \in Nat
  BY DEF LineTyped
<1>3. k \in 0 .. Len(mailbox)
  BY <1>2, SessionAssumption
<1> HIDE DEF k
<1>4. Hand' = Hand /\ Live' = Live
  BY <1>1 DEF Hand, Live
<1>5. LineSorted(Live, <<>>, mailbox, Hand, pipe)
  BY <1>1 DEF Line, LineInOrder
<1>6. LineInOrder'
  <2>1. LineSorted(Live, SubSeq(mailbox, 1, k), SubSeq(mailbox, k + 1, Len(mailbox)), Hand, pipe)
    BY <1>2, <1>3, <1>5, LineReceived
  <2> QED BY <1>1, <1>4, <2>1 DEF LineInOrder
<1>7. Elems(batch)' \cup Elems(mailbox)' = Elems(mailbox) /\ Elems(batch) = {}
  <2>1. Sorted(Live, mailbox)
    BY <1>5 DEF LineSorted
  <2>2. Elems(mailbox) = Elems(SubSeq(mailbox, 1, k)) \cup Elems(SubSeq(mailbox, k + 1, Len(mailbox)))
    BY <1>2, <1>3, <2>1, SortedCut
  <2>3. Elems(batch)' = Elems(batch') /\ Elems(mailbox)' = Elems(mailbox')
    BY DEF Elems
  <2> QED BY <1>1, <2>2, <2>3, ElemsOfNone
<1>8. InLine' = InLine
  <2>1. InLine' = Elems(batch)' \cup Elems(mailbox)' \cup Elems(Hand) \cup Elems(pipe)
    BY <1>1, <1>4 DEF InLine, Elems
  <2> QED BY <1>7, <2>1 DEF InLine
<1>9. LineInBounds' /\ NothingLost'
  BY <1>1, <1>4, <1>7, <1>8 DEF Line, LineInBounds, NothingLost
<1> QED BY <1>6, <1>9 DEF Line

\* The actor.
LEMMA ActorLine ==
    ASSUME Line, LineTyped, Shape, ActorStep \/ CallbackPanics
    PROVE  Line'
<1>0. Monotone
  BY ActorShape
<1> USE DEF actorFrame, connVars, pumpVars, seenVars
<1>1. CASE CallbackReturns
  BY <1>0, <1>1, QuietKeeps DEF CallbackReturns, Quiet, Hand
<1>2. CASE ActorCancelled
  <2>1. forced'
    BY <1>0, <1>2 DEF ActorCancelled, Shape, ForcedShape, Monotone
  <2> QED BY <1>0, <1>2, <2>1, LoopEnds DEF ActorCancelled
<1>3. CASE ActorOrphaned
  <2>1. ~ stopping /\ batch = <<>> /\ mailbox = <<>> /\ pump = "done" /\ actor = "receiving"
    BY <1>3 DEF ActorOrphaned, Shape, StageShape
  <2>2. Elems(batch) = {} /\ Elems(mailbox) = {}
    BY <2>1, ElemsOfNone
  <2>3. forced
    BY <2>1, <2>2 DEF Line, NothingLost
  <2>4. forced'
    BY <1>3, <2>3 DEF ActorOrphaned
  <2> QED BY <1>0, <1>3, <2>4, LoopEnds DEF ActorOrphaned
<1>4. CASE Receive
  BY <1>4, ReceiveMoves
<1>5. CASE SkipAfterClose
  <2>1. ~ forced => Head(batch).kind \notin Kinds \cup {"closed"}
    <3>1. Head(batch) \in InLine
      BY <1>5, HeadsInLine DEF SkipAfterClose, Line
    <3> QED BY <1>5, <3>1 DEF SkipAfterClose, Line, NothingLost, Live
  <2> QED BY <1>5, <2>1, BatchMoves DEF SkipAfterClose
<1>6. CASE Dispatch
  <2>1. Head(batch).kind \in Kinds /\ Head(batch).kind # "closed"
    BY <1>6, ItemKinds DEF Dispatch, Current
  <2> QED BY <1>6, <2>1, BatchMoves DEF Dispatch, Current
<1>7. CASE RefuseRequest
  BY <1>7, BatchMoves DEF RefuseRequest, Current
<1>8. CASE MeetClosed
  BY <1>8, BatchMoves, ItemKinds DEF MeetClosed, Current
<1>9. CASE WriteForCaller
  BY <1>9, BatchMoves, ItemKinds DEF WriteForCaller, Current
<1>10. CASE WriteBroadcast
  BY <1>10, BatchMoves, ItemKinds DEF WriteBroadcast, Current
<1>11. CASE BatchDone
  <2>1. CASE stopping
    <3>1. ~ forced => settled = 1 .. sent /\ conn = "closed"
      BY <2>1 DEF Line, NothingLost, LineTyped, Live
    <3>2. EndLoop /\ UNCHANGED <<pipe, sent, conn, pump, pumped, forced>>
      BY <1>11, <2>1 DEF BatchDone
    <3> QED BY <1>0, <3>1, <3>2, LoopEnds
  <2>2. CASE ~ stopping
    BY <1>0, <1>11, <2>2, QuietKeeps DEF BatchDone, Quiet, Hand
  <2> QED BY <2>1, <2>2
<1>12. CASE ActorEnds
  BY <1>0, <1>12, QuietKeeps DEF ActorEnds, Quiet, Hand
<1>13. CASE CallbackPanics
  BY <1>0, <1>13, LoopEnds DEF CallbackPanics
<1> QED BY <1>1, <1>2, <1>3, <1>4, <1>5, <1>6, <1>7, <1>8, <1>9, <1>10, <1>11, <1>12, <1>13
      DEF ActorStep

\* A command joins the mailbox.
LEMMA CommandJoins ==
    ASSUME Line, LineTyped, NEW e \in Items, e.kind \notin Live, mailbox' = Append(mailbox, e),
           UNCHANGED <<batch, pipe, sent, conn, pump, pumped, actor, stopping, last, settled, forced>>
    PROVE  Line'
<1>1. Hand' = Hand /\ Live' = Live
  BY DEF Hand, Live
<1>2. Elems(Append(mailbox, e)) = Elems(mailbox) \cup {e}
      /\ LineSorted(Live, batch, Append(mailbox, e), Hand, pipe)
  BY ElemsAppend, LineCommanded DEF Line, LineInOrder, LineTyped
<1>3. InLine' = InLine \cup {e}
  <2>1. InLine' = Elems(batch) \cup Elems(Append(mailbox, e)) \cup Elems(Hand) \cup Elems(pipe)
    BY <1>1 DEF InLine
  <2> QED BY <1>2, <2>1 DEF InLine
<1>4. LineInOrder'
  BY <1>1, <1>2 DEF LineInOrder
<1>5. e.kind \notin Kinds
  BY DEF Live
<1>6. LineInBounds'
  BY <1>3, <1>5 DEF Line, LineInBounds
<1>7. NothingLost'
  <2> SUFFICES ASSUME ~ forced PROVE NothingLost'
    BY DEF NothingLost
  <2>1. e.kind # "closed"
    BY DEF Live
  <2>2. Elems(batch)' = Elems(batch) /\ Elems(mailbox)' = Elems(mailbox) \cup {e}
    BY <1>2 DEF Elems
  <2> QED BY <1>1, <1>3, <1>5, <2>1, <2>2 DEF Line, NothingLost
<1> QED BY <1>4, <1>6, <1>7 DEF Line

\* The calls.
LEMMA CallLine ==
    ASSUME Line, LineTyped, Shape, NEW c \in Callers, CallerStep(c) \/ CallerStarts(c)
    PROVE  Line'
<1>0. Monotone
  BY CallShape
<1> USE DEF callFrame, sendFrame, connVars, actorVars, pumpVars
<1>1. CASE c \in Requesters /\ AllocateRequestId(c)
  BY <1>0, <1>1, QuietKeeps DEF AllocateRequestId, Quiet, Hand
<1>2. CASE c \in Requesters /\ RegisterRequest(c)
  BY <1>0, <1>2, QuietKeeps DEF RegisterRequest, Quiet, Hand
<1>3. CASE c \in Requesters /\ RequestEnds(c)
  BY <1>0, <1>3, QuietKeeps DEF RequestEnds, Quiet, Hand
<1>4. CASE StartSend(c)
  BY <1>0, <1>4, QuietKeeps DEF StartSend, Quiet, Hand
<1>5. CASE StartBroadcast(c)
  BY <1>0, <1>5, QuietKeeps DEF StartBroadcast, Quiet, Hand
<1>6. CASE Enqueue(c)
  <2>1. CASE RxAlive
    <3>1. PICK e \in {Send(c), SendWithReply(c)} : mailbox' = Append(mailbox, e)
      BY <1>6, <2>1 DEF Enqueue
    <3>a. e = Send(c) \/ e = SendWithReply(c)
      BY <3>1
    <3>b. e.kind \in {"reply", "cast"}
      BY <3>a DEF Send, SendWithReply
    <3>2. e \in Items /\ e.kind \in {"reply", "cast"}
      BY <3>a, <3>b, ItemTypes
    <3>3. e.kind \notin Live
      BY <3>2, ItemKinds DEF Live
    <3>4. UNCHANGED <<batch, pipe, sent, conn, pump, pumped, actor, stopping, last, settled, forced>>
      BY <1>6 DEF Enqueue
    <3> QED BY <3>1, <3>2, <3>3, <3>4, CommandJoins
  <2>2. CASE ~ RxAlive
    BY <1>0, <1>6, <2>2, QuietKeeps DEF Enqueue, Quiet, Hand
  <2> QED BY <2>1, <2>2
<1>7. CASE EnqueueTimesOut(c)
  BY <1>0, <1>7, QuietKeeps DEF EnqueueTimesOut, Quiet, Hand
<1>8. CASE TakeReply(c)
  BY <1>0, <1>8, QuietKeeps DEF TakeReply, Quiet, Hand
<1>9. CASE WriteDirect(c)
  BY <1>0, <1>9, QuietKeeps DEF WriteDirect, Quiet, Hand
<1>10. CASE StartClose(c)
  BY <1>0, <1>10, QuietKeeps DEF StartClose, Quiet, Hand
<1>11. CASE CloseAllSessions(c)
  BY <1>0, <1>11, QuietKeeps DEF CloseAllSessions, Quiet, Hand
<1>12. CASE NotifyActorClosed(c)
  <2>1. CASE RxAlive
    <3>1. mailbox' = Append(mailbox, Closed)
      BY <1>12, <2>1 DEF NotifyActorClosed
    <3>2. forced
      BY <1>12 DEF NotifyActorClosed, Shape, ForcedShape
    <3>3. Closed \in Items /\ Closed.kind \notin Live
      BY <3>2, ItemTypes, ItemKinds DEF Closed, Live
    <3>4. UNCHANGED <<batch, pipe, sent, conn, pump, pumped, actor, stopping, last, settled, forced>>
      BY <1>12 DEF NotifyActorClosed
    <3> QED BY <3>1, <3>3, <3>4, CommandJoins
  <2>2. CASE ~ RxAlive
    BY <1>0, <1>12, <2>2, QuietKeeps DEF NotifyActorClosed, Quiet, Hand
  <2> QED BY <2>1, <2>2
<1>13. CASE Disconnect(c)
  <2>1. CASE transports /\ conn = "open"
    BY <1>13, <2>1, CloseJoins DEF Disconnect
  <2>2. CASE ~ (transports /\ conn = "open")
    BY <1>0, <1>13, <2>2, QuietKeeps DEF Disconnect, CloseConnection, Quiet, Hand
  <2> QED BY <2>1, <2>2
<1>14. CASE CleanUp(c)
  BY <1>0, <1>14, QuietKeeps DEF CleanUp, Quiet, Hand
<1> QED BY <1>1, <1>2, <1>3, <1>4, <1>5, <1>6, <1>7, <1>8, <1>9, <1>10, <1>11, <1>12, <1>13,
      <1>14
   DEF CallerStep, CallerStarts

-----------------------------------------------------------------------------
(* The line of a session, always.                                          *)

\* A session starts with an empty line.
LEMMA LineStarts == Init => LineInv
<1> SUFFICES ASSUME Init PROVE LineInv
  OBVIOUS
<1>0. <<>> \in Seq(Items) /\ MaxIn \in Nat /\ 1 .. 0 = {}
  BY SessionAssumption
<1>1. LineTyped
  BY <1>0 DEF Init, LineTyped
<1>2. StageShape /\ ForcedShape
  BY DEF Init, StageShape, ForcedShape, Cancelled
<1>3. Hand = <<>> /\ InLine = {}
  BY ElemsOfNone DEF Init, Hand, InLine
<1>4. LineInOrder
  BY <1>3, ElemsOfNone DEF Init, LineInOrder, LineSorted, Precedes
<1>5. LineInBounds /\ NothingLost
  BY <1>0, <1>3 DEF Init, LineInBounds, NothingLost
<1> QED BY <1>1, <1>2, <1>4, <1>5 DEF LineInv

\* Every step keeps it.
LEMMA LineStep ==
    ASSUME SessionInv, LineInv, [Next]_vars
    PROVE  LineInv'
<1>0. /\ LineTyped /\ Shape /\ Line /\ AddOrder /\ StageShape /\ LineInBounds
      /\ (LineTyped' /\ Shape' /\ Line' => LineInv')
  BY DEF LineInv, SessionInv, Shape, Line
<1>1. CASE AddStep \/ RefusalReturns
  BY <1>0, <1>1, AddShape, AddTyped, AddLine
<1>2. CASE ActorStep \/ CallbackPanics
  BY <1>0, <1>2, ActorShape, ActorTyped, ActorLine
<1>3. CASE PumpStep
  BY <1>0, <1>3, PumpShape, PumpTyped, PumpLine
<1>4. CASE \/ SupervisorCancels \/ SupervisorFinalises \/ ShutdownGate \/ ShutdownCancels
           \/ DropTransport \/ PeerSends \/ ConnectionEnds
  BY <1>0, <1>4, EndShape, EndTyped, EndLine
<1>5. CASE \E c \in Callers : CallerStep(c) \/ CallerStarts(c)
  BY <1>0, <1>5, CallShape, CallTyped, CallLine
<1>6. CASE UNCHANGED vars
  <2> USE <1>6 DEF vars, serverVars, connVars, actorVars, pumpVars, callVars, seenVars
  <2>1. LineTyped' /\ Shape'
    BY <1>0 DEF LineTyped, Shape, StageShape, ForcedShape, Cancelled
  <2>2. Line'
    BY <1>0, QuietKeeps DEF Quiet, Hand, Monotone
  <2> QED BY <1>0, <2>1, <2>2
<1> QED BY <1>1, <1>2, <1>3, <1>4, <1>5, <1>6 DEF Next, SystemStep

\* From the connection to the handler, the packets of a session stand in one line, in the
\* order the peer sent them and newer than what the handler has seen; while nobody forces
\* its end, none of them is lost and none stands behind the closed event.
THEOREM LineInvariant == Spec => [](SessionInv /\ LineInv)
<1>1. Init => LineInv
  BY LineStarts
<1>2. SessionInv /\ LineInv /\ [Next]_vars => LineInv'
  BY LineStep
<1> QED BY <1>1, <1>2, SessionInvariant, PTL DEF Spec

\* A session that ended because its connection ended has given every packet to the handler,
\* to a waiter or to the registry that refused it, before on_disconnected is called.
THEOREM PeerCloseSettlesAll == Spec => []PeerCloseLosesNothing
<1>1. LineInv => PeerCloseLosesNothing
  BY DEF LineInv, NothingLost, PeerCloseLosesNothing
<1> QED BY <1>1, LineInvariant, PTL

-----------------------------------------------------------------------------
(* The session implements its contract.                                    *)

\* A step that is not seen by the application.
Unseen == UNCHANGED <<stage, last>>

\* The loop of an actor that runs ends with on_disconnected.
LEMMA EndIsDisconnect ==
    ASSUME StageShape, EndLoop, actor \in {"connecting", "receiving", "batch", "handler"}
    PROVE  Contract!Disconnect
BY DEF StageShape, EndLoop, Contract!Disconnect

\* What the application sees of the actor: packets in the peer's order, then the end.
LEMMA ActorSeen ==
    ASSUME LineInv, ActorStep \/ CallbackPanics
    PROVE  Contract!Next \/ Unseen
<1> USE DEF Unseen, seenVars
<1>0. StageShape /\ LineTyped /\ LineInBounds
  BY DEF LineInv
<1>1. CASE CallbackReturns
  BY <1>1 DEF CallbackReturns
<1>2. CASE ActorCancelled
  BY <1>0, <1>2, EndIsDisconnect DEF ActorCancelled, Contract!Next
<1>3. CASE ActorOrphaned
  BY <1>0, <1>3, EndIsDisconnect DEF ActorOrphaned, Contract!Next
<1>4. CASE Receive
  BY <1>4 DEF Receive
<1>5. CASE SkipAfterClose
  BY <1>5 DEF SkipAfterClose
<1>6. CASE Dispatch
  <2>1. /\ batch # <<>> /\ Head(batch).kind \in Kinds /\ last' = Head(batch).n
        /\ actor = "batch" /\ stage' = stage
    BY <1>6 DEF Dispatch, Current
  <2>2. last < Head(batch).n /\ Head(batch).n \in 1 .. sent
    BY <1>0, <2>1, HeadsInLine DEF LineInBounds
  <2>3. last \in Nat /\ sent \in 0 .. MaxIn /\ MaxIn \in Nat
    BY <1>0, SessionAssumption DEF LineTyped
  <2>4. Head(batch).n \in last + 1 .. MaxIn
    BY <2>2, <2>3
  <2>5. stage = "connected"
    BY <1>0, <2>1 DEF StageShape
  <2> QED BY <2>1, <2>4, <2>5 DEF Contract!Next, Contract!Deliver
<1>7. CASE RefuseRequest
  BY <1>7 DEF RefuseRequest
<1>8. CASE MeetClosed
  BY <1>8 DEF MeetClosed
<1>9. CASE WriteForCaller
  BY <1>9 DEF WriteForCaller
<1>10. CASE WriteBroadcast
  BY <1>10 DEF WriteBroadcast
<1>11. CASE BatchDone
  <2>1. CASE stopping
    BY <1>0, <1>11, <2>1, EndIsDisconnect DEF BatchDone, Contract!Next
  <2>2. CASE ~ stopping
    BY <1>11, <2>2 DEF BatchDone
  <2> QED BY <2>1, <2>2
<1>12. CASE ActorEnds
  BY <1>12 DEF ActorEnds
<1>13. CASE CallbackPanics
  BY <1>0, <1>13, EndIsDisconnect DEF CallbackPanics, Contract!Next
<1> QED BY <1>1, <1>2, <1>3, <1>4, <1>5, <1>6, <1>7, <1>8, <1>9, <1>10, <1>11, <1>12, <1>13
      DEF ActorStep

\* What the application sees of everything else: the first callback, and after the last
\* one the permit.
LEMMA OthersSeen ==
    ASSUME SessionInv, LineInv, Next, ~ ActorStep, ~ CallbackPanics
    PROVE  Contract!Next \/ Unseen
<1> USE DEF Unseen, seenVars
<1>0. StageShape
  BY DEF LineInv
<1>1. CASE AddStep \/ RefusalReturns
  <2>1. CASE RefusalReturns
    BY <1>0, <2>1 DEF RefusalReturns, StageShape, Contract!Next, Contract!Refuse
  <2>2. CASE SpawnTasks
    BY <1>0, <2>2 DEF SpawnTasks, StageShape, Contract!Next, Contract!Connect
  <2>3. CASE GateRefuses \/ GateAdmits \/ InsertTransport \/ TrackSession \/ Recheck
    BY <2>3 DEF GateRefuses, GateAdmits, InsertTransport, TrackSession, Recheck
  <2> QED BY <1>1, <2>1, <2>2, <2>3 DEF AddStep
<1>2. CASE PumpStep
  BY <1>2 DEF PumpStep, PumpCancelled, PumpTakes, PumpForwards, PumpTeardown, PumpCompletes
<1>3. CASE SupervisorFinalises
  BY <1>0, <1>3 DEF SupervisorFinalises, StageShape, Contract!Next, Contract!Release
<1>4. CASE \/ SupervisorCancels \/ ShutdownGate \/ ShutdownCancels
           \/ DropTransport \/ PeerSends \/ ConnectionEnds
  BY <1>4 DEF SupervisorCancels, ShutdownGate, ShutdownCancels, shutdownFrame, DropTransport,
              PeerSends, ConnectionEnds
<1>5. ASSUME NEW c \in Callers, CallerStep(c) \/ CallerStarts(c) PROVE Unseen
  <2> USE DEF callFrame, sendFrame
  <2>1. CASE CallerStep(c)
    BY <2>1 DEF CallerStep, Enqueue, EnqueueTimesOut, TakeReply, WriteDirect, RegisterRequest,
                RequestEnds, StartClose, NotifyActorClosed, Disconnect, CleanUp
  <2>2. CASE CallerStarts(c)
    BY <2>2 DEF CallerStarts, AllocateRequestId, StartSend, StartBroadcast, StartClose,
                CloseAllSessions
  <2> QED BY <1>5, <2>1, <2>2
<1> QED BY <1>1, <1>2, <1>3, <1>4, <1>5 DEF Next, SystemStep

\* A session keeps its contract with the application, however it was closed and wherever it
\* was at that time: on_connected first, then packets in the order the peer sent them,
\* on_disconnected once and last, and only then the release of the permit.
THEOREM SessionImplementsContract == Spec => ImplementsContract
<1>1. Init => Contract!Init
  BY DEF Init, Contract!Init
<1>2. SessionInv /\ LineInv /\ [Next]_vars => [Contract!Next]_(Contract!vars)
  <2> SUFFICES ASSUME SessionInv, LineInv, [Next]_vars
               PROVE  Contract!Next \/ Unseen
    BY DEF Unseen, Contract!vars
  <2>1. CASE UNCHANGED vars
    BY <2>1 DEF Unseen, vars, seenVars
  <2> QED BY <2>1, ActorSeen, OthersSeen
<1> QED BY <1>1, <1>2, LineInvariant, PTL DEF Spec, ImplementsContract, Contract!Spec

=============================================================================
