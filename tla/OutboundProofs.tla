--------------------------- MODULE OutboundProofs ---------------------------
(***************************************************************************)
(* Theorems about Outbound, for every set of sends, queue capacity, budget *)
(* and set of packet sizes.                                                *)
(*                                                                         *)
(* OutboundInv is the inductive invariant.  The line of accepted packets   *)
(* is cut in three: the wire is its front, the queue its back, and the     *)
(* packet being written follows the wire (InLine).  Since no packet is     *)
(* accepted twice, a packet is in at most one of these places, which both  *)
(* the truth of a result and the sum of the permits rest on.  A send that  *)
(* has not reached the queue is known nowhere (Fresh), and a completion    *)
(* says where its packet is or never will be (ReceiptsAreTrue).            *)
(***************************************************************************)
EXTENDS Outbound, FiniteSetTheorems, TLAPS

\* Packets being written: one or none.
Writing == IF current = NoItem THEN 0 ELSE 1

\* No packet is accepted twice; the wire is the front of the accepted packets, the
\* queue their back, and between them is the packet being written.
InLine ==
    /\ \A j, k \in 1 .. Len(accepted) : accepted[j] = accepted[k] => j = k
    /\ Len(wire) + Writing + Len(queue) <= Len(accepted)
    /\ loop = "running" => Len(wire) + Writing + Len(queue) = Len(accepted)
    /\ loop # "running" => current = NoItem
    /\ \A k \in 1 .. Len(wire) : wire[k] = accepted[k]
    /\ current # NoItem => current = accepted[Len(wire) + 1]
    /\ \A k \in 1 .. Len(queue) : queue[k] = accepted[Len(accepted) - Len(queue) + k]

Accepted == {accepted[k] : k \in 1 .. Len(accepted)}

\* A send that has not been enqueued has no outcome yet.
Fresh ==
    \A i \in Items : pc[i] \in {"idle", "charging", "queuing"} =>
        receipt[i] = "pending" /\ result[i] = "none" /\ i \notin Accepted

\* A completion that says ok is of a packet on the wire; one that says failed, of a
\* packet that is nowhere it could be written from.
ReceiptsAreTrue ==
    \A i \in Items :
        /\ receipt[i] = "ok" => i \in OnWire
        /\ receipt[i] = "failed" => i \notin OnWire \cup Queued \cup {current}
        /\ confirmed[i] /\ result[i] = "ok" => receipt[i] = "ok"
        /\ result[i] = "err" => receipt[i] = "failed"

\* The loop writes nothing after a partial frame.
TornStops == torn => loop # "running"

\* The packets that hold permits.
Holders == {i \in Items : pc[i] = "queuing"} \cup Queued \cup ({current} \ {NoItem})

\* The inductive invariant.
LineInv == TypeOK /\ InLine /\ Fresh /\ ReceiptsAreTrue /\ TornStops

OutboundInv == LineInv /\ PermitsConserved

-----------------------------------------------------------------------------
(* Where a packet can be.                                                  *)

\* A packet on the wire, in the queue or being written was accepted, and it is in one of
\* these places only.
LEMMA OnePlace ==
    ASSUME LineInv
    PROVE  /\ OnWire \in SUBSET Accepted /\ Queued \in SUBSET Accepted
           /\ Accepted \in SUBSET Items
           /\ OnWire \cap Queued = {}
           /\ current # NoItem => /\ current \in Accepted
                                  /\ current \notin OnWire \cup Queued
<1> DEFINE w == Len(wire)
           a == Len(accepted)
           q == Len(queue)
<1>1. w \in Nat /\ a \in Nat /\ q \in Nat /\ Writing \in {0, 1} /\ w + Writing + q <= a
      /\ (current # NoItem => Writing = 1)
  BY DEF LineInv, TypeOK, InLine, Writing
<1>2. \A k \in 1 .. w : k \in 1 .. a /\ wire[k] = accepted[k]
  BY <1>1 DEF LineInv, InLine
<1>3. \A k \in 1 .. q : a - q + k \in 1 .. a /\ w + Writing < a - q + k
                       /\ queue[k] = accepted[a - q + k]
  BY <1>1 DEF LineInv, InLine
<1>4. \A j, k \in 1 .. a : accepted[j] = accepted[k] => j = k
  BY DEF LineInv, InLine
<1>5. current # NoItem => w + 1 \in 1 .. a /\ current = accepted[w + 1]
  BY <1>1 DEF LineInv, InLine
<1>6. OnWire \in SUBSET Accepted /\ Queued \in SUBSET Accepted
  BY <1>2, <1>3 DEF OnWire, Queued, Accepted
<1>7. Accepted \in SUBSET Items
  BY DEF LineInv, TypeOK, Accepted
<1>8. OnWire \cap Queued = {}
  <2> SUFFICES ASSUME NEW j \in 1 .. w, NEW k \in 1 .. q, wire[j] = queue[k]
               PROVE  FALSE
    BY DEF OnWire, Queued
  <2>1. j = a - q + k
    BY <1>2, <1>3, <1>4
  <2> QED
    BY <2>1, <1>1, <1>3
<1>9. ASSUME current # NoItem
      PROVE  current \in Accepted /\ current \notin OnWire /\ current \notin Queued
  <2>1. current \in Accepted
    BY <1>5, <1>9 DEF Accepted
  <2>2. current \notin OnWire
    <3> SUFFICES ASSUME NEW j \in 1 .. w, wire[j] = current PROVE FALSE
      BY DEF OnWire
    <3> QED
      BY <1>1, <1>2, <1>4, <1>5, <1>9
  <2>3. current \notin Queued
    <3> SUFFICES ASSUME NEW k \in 1 .. q, queue[k] = current PROVE FALSE
      BY DEF Queued
    <3>1. w + 1 = a - q + k
      BY <1>3, <1>4, <1>5, <1>9
    <3> QED
      BY <3>1, <1>1, <1>3, <1>9
  <2> QED
    BY <2>1, <2>2, <2>3
<1> QED
  BY <1>6, <1>7, <1>8, <1>9

\* Appending to a sequence adds to what is in it.
LEMMA AppendAdds ==
    ASSUME NEW S, NEW s \in Seq(S), NEW e \in S, NEW t, t = Append(s, e)
    PROVE  /\ t \in Seq(S) /\ Len(t) = Len(s) + 1 /\ Len(s) \in Nat
           /\ \A k \in 1 .. Len(s) : t[k] = s[k]
           /\ t[Len(s) + 1] = e
           /\ {t[k] : k \in 1 .. Len(t)} = {s[k] : k \in 1 .. Len(s)} \cup {e}
<1>1. /\ t \in Seq(S) /\ Len(t) = Len(s) + 1 /\ Len(s) \in Nat
      /\ \A k \in 1 .. Len(s) : t[k] = s[k]
      /\ t[Len(s) + 1] = e
  OBVIOUS
<1>2. \A k \in 1 .. Len(t) : k = Len(s) + 1 \/ k \in 1 .. Len(s)
  BY <1>1
<1>3. Len(s) + 1 \in 1 .. Len(t) /\ \A k \in 1 .. Len(s) : k \in 1 .. Len(t)
  BY <1>1
<1> QED
  BY <1>1, <1>2, <1>3

\* Taking the head off a sequence leaves the rest.
LEMMA TailRemoves ==
    ASSUME NEW S, NEW s \in Seq(S), s # <<>>
    PROVE  /\ Tail(s) \in Seq(S) /\ Len(Tail(s)) = Len(s) - 1 /\ Len(s) \in Nat \ {0}
           /\ Head(s) = s[1] /\ Head(s) \in S
           /\ \A k \in 1 .. Len(Tail(s)) : Tail(s)[k] = s[k + 1]
           /\ {s[k] : k \in 1 .. Len(s)} = {Tail(s)[k] : k \in 1 .. Len(Tail(s))} \cup {Head(s)}
<1> DEFINE t == Tail(s)
<1>1. /\ t \in Seq(S) /\ Len(t) = Len(s) - 1 /\ Len(s) \in Nat \ {0}
      /\ Head(s) = s[1] /\ Head(s) \in S
      /\ \A k \in 1 .. Len(t) : t[k] = s[k + 1]
  OBVIOUS
<1> HIDE DEF t
<1>2. \A k \in 1 .. Len(s) : k = 1 \/ (k - 1 \in 1 .. Len(t) /\ s[k] = t[k - 1])
  BY <1>1
<1>3. 1 \in 1 .. Len(s) /\ \A k \in 1 .. Len(t) : k + 1 \in 1 .. Len(s)
  BY <1>1
<1>4. \A k \in 1 .. Len(t) : t[k] \in {s[j] : j \in 1 .. Len(s)}
  BY <1>1, <1>3
<1>5. \A k \in 1 .. Len(s) : s[k] \in {t[j] : j \in 1 .. Len(t)} \cup {Head(s)}
  BY <1>1, <1>2
<1>6. Head(s) \in {s[j] : j \in 1 .. Len(s)}
  BY <1>1, <1>3
<1> QED
  BY <1>1, <1>4, <1>5, <1>6 DEF t

\* Enqueueing puts a fresh send at the back of the line.
LEMMA EnqueueEffect ==
    ASSUME LineInv, NEW i \in Items, Enqueue(i), i \notin Accepted,
           UNCHANGED <<wire, current, loop>>
    PROVE  /\ InLine'
           /\ queue' \in Seq(Items) /\ accepted' \in Seq(Items) /\ Len(queue') = Len(queue) + 1
           /\ Queued' = Queued \cup {i} /\ OnWire' = OnWire /\ Accepted' = Accepted \cup {i}
<1>1. /\ queue \in Seq(Items) /\ accepted \in Seq(Items) /\ Len(wire) \in Nat
      /\ queue' = Append(queue, i) /\ accepted' = Append(accepted, i)
  BY DEF LineInv, TypeOK, Enqueue
<1>2. /\ queue' \in Seq(Items) /\ Len(queue') = Len(queue) + 1 /\ Len(queue) \in Nat
      /\ \A k \in 1 .. Len(queue) : queue'[k] = queue[k]
      /\ queue'[Len(queue) + 1] = i
      /\ Queued' = Queued \cup {i}
  BY <1>1, AppendAdds DEF Queued
<1>3. /\ accepted' \in Seq(Items) /\ Len(accepted') = Len(accepted) + 1
      /\ Len(accepted) \in Nat
      /\ \A k \in 1 .. Len(accepted) : accepted'[k] = accepted[k]
      /\ accepted'[Len(accepted) + 1] = i
      /\ {accepted'[k] : k \in 1 .. Len(accepted')}
            = {accepted[k] : k \in 1 .. Len(accepted)} \cup {i}
  BY <1>1, AppendAdds
<1>4. /\ Writing' = Writing /\ Writing \in {0, 1} /\ (current # NoItem => Writing = 1)
      /\ Len(wire) + Writing + Len(queue) <= Len(accepted)
  BY DEF Writing, LineInv, InLine
<1>5. \A j, k \in 1 .. Len(accepted') : accepted'[j] = accepted'[k] => j = k
  <2>1. \A k \in 1 .. Len(accepted) : accepted[k] # i
    BY DEF Accepted
  <2>2. \A k \in 1 .. Len(accepted') : k = Len(accepted) + 1 \/ k \in 1 .. Len(accepted)
    BY <1>3
  <2>3. \A j, k \in 1 .. Len(accepted) : accepted[j] = accepted[k] => j = k
    BY DEF LineInv, InLine
  <2>4. \A k \in 1 .. Len(accepted) : accepted'[k] = accepted[k] /\ accepted'[k] # i
    BY <2>1, <1>3
  <2>5. \A k \in 1 .. Len(accepted') : accepted'[k] = i => k = Len(accepted) + 1
    BY <2>2, <2>4
  <2> SUFFICES ASSUME NEW j \in 1 .. Len(accepted'), NEW k \in 1 .. Len(accepted'),
                      accepted'[j] = accepted'[k]
               PROVE  j = k
    OBVIOUS
  <2>6. CASE accepted'[j] = i
    BY <2>5, <2>6
  <2>7. CASE accepted'[j] # i
    <3>1. j \in 1 .. Len(accepted) /\ k \in 1 .. Len(accepted)
      BY <2>2, <2>7, <1>3
    <3> QED
      BY <3>1, <2>3, <2>4
  <2> QED
    BY <2>6, <2>7
<1>6. \A k \in 1 .. Len(wire) : wire[k] = accepted'[k]
  BY <1>1, <1>3, <1>4, <1>2 DEF LineInv, InLine
<1>7. current # NoItem => current = accepted'[Len(wire) + 1]
  BY <1>1, <1>2, <1>3, <1>4 DEF LineInv, InLine
<1>8. \A k \in 1 .. Len(queue') : queue'[k] = accepted'[Len(accepted') - Len(queue') + k]
  <2>1. CASE queue' = <<>>
    BY <2>1
  <2>2. \A k \in 1 .. Len(queue') : k = Len(queue) + 1 \/ k \in 1 .. Len(queue)
    BY <1>2
  <2>3. \A k \in 1 .. Len(queue) : Len(accepted) - Len(queue) + k \in 1 .. Len(accepted)
    BY <1>1, <1>2, <1>3, <1>4
  <2>4. Len(accepted') - Len(queue') = Len(accepted) - Len(queue)
    BY <1>2, <1>3
  <2>5. \A k \in 1 .. Len(queue) :
            queue'[k] = accepted'[Len(accepted) - Len(queue) + k]
    BY <2>3, <1>2, <1>3 DEF LineInv, InLine
  <2>6. Len(accepted) - Len(queue) + (Len(queue) + 1) = Len(accepted) + 1
    BY <1>2, <1>3
  <2> QED
    BY <2>2, <2>4, <2>5, <2>6, <1>2, <1>3
<1>9. OnWire' = OnWire
  BY DEF OnWire
<1>10. /\ Len(wire') + Writing' + Len(queue') <= Len(accepted')
       /\ loop' = "running" => Len(wire') + Writing' + Len(queue') = Len(accepted')
  BY <1>1, <1>2, <1>3, <1>4 DEF LineInv, InLine
<1>11. InLine'
  BY <1>5, <1>6, <1>7, <1>8, <1>10 DEF LineInv, InLine
<1> QED
  BY <1>2, <1>3, <1>9, <1>11 DEF Accepted

\* Take moves the head of the queue to the place behind the wire.
LEMMA TakeEffect ==
    ASSUME LineInv, Take
    PROVE  /\ InLine'
           /\ queue' \in Seq(Items) /\ Len(queue') <= Len(queue)
           /\ current' \in Items /\ current' \in Queued /\ current' \notin Queued'
           /\ Queued = Queued' \cup {current'} /\ OnWire' = OnWire /\ Accepted' = Accepted
<1>1. /\ queue \in Seq(Items) /\ accepted \in Seq(Items) /\ Len(wire) \in Nat
      /\ Len(accepted) \in Nat
      /\ queue' = Tail(queue) /\ queue # <<>> /\ current' = Head(queue) /\ current = NoItem
      /\ UNCHANGED <<wire, accepted, loop>> /\ loop = "running" /\ NoItem \notin Items
  BY OutboundAssumption DEF LineInv, TypeOK, Take
<1>2. /\ queue' \in Seq(Items) /\ Len(queue') = Len(queue) - 1 /\ Len(queue) \in Nat \ {0}
      /\ current' = queue[1] /\ current' \in Items
      /\ \A k \in 1 .. Len(queue') : queue'[k] = queue[k + 1]
      /\ Queued = Queued' \cup {current'}
  <2>1. /\ queue' \in Seq(Items) /\ Len(queue') = Len(queue) - 1 /\ Len(queue) \in Nat \ {0}
        /\ Head(queue) = queue[1] /\ Head(queue) \in Items
        /\ \A k \in 1 .. Len(queue') : queue'[k] = queue[k + 1]
        /\ {queue[k] : k \in 1 .. Len(queue)}
              = {queue'[k] : k \in 1 .. Len(queue')} \cup {Head(queue)}
    <3>1. queue \in Seq(Items) /\ queue # <<>> /\ queue' = Tail(queue)
      BY <1>1
    <3>2. /\ Len(Tail(queue)) = Len(queue) - 1 /\ Len(queue) \in Nat \ {0}
          /\ Tail(queue) \in Seq(Items) /\ Head(queue) = queue[1] /\ Head(queue) \in Items
          /\ \A k \in 1 .. Len(Tail(queue)) : Tail(queue)[k] = queue[k + 1]
          /\ {queue[k] : k \in 1 .. Len(queue)}
                = {Tail(queue)[k] : k \in 1 .. Len(Tail(queue))} \cup {Head(queue)}
      <4>1. queue \in Seq(Items) /\ queue # <<>>
        BY <3>1
      <4> QED
        BY <4>1, TailRemoves, Zenon
    <3> QED
      BY <3>1, <3>2, Zenon
  <2> QED
    BY <2>1, <1>1 DEF Queued
<1>3. Writing = 0 /\ Writing' = 1
  BY <1>1, <1>2 DEF Writing
<1>4. Len(wire) + Len(queue) = Len(accepted)
  BY <1>1, <1>2, <1>3 DEF LineInv, InLine
<1>5. \A k \in 1 .. Len(queue) : queue[k] = accepted[Len(wire) + k]
  <2>1. Len(accepted) - Len(queue) = Len(wire)
    BY <1>1, <1>2, <1>4
  <2> QED
    BY <2>1 DEF LineInv, InLine
<1>6. current' = accepted[Len(wire) + 1]
  BY <1>2, <1>5
<1>7. \A k \in 1 .. Len(queue') : queue'[k] = accepted[Len(wire) + 1 + k]
                                /\ Len(wire) + 1 + k \in 1 .. Len(accepted)
  <2> SUFFICES ASSUME NEW k \in 1 .. Len(queue')
               PROVE  queue'[k] = accepted[Len(wire) + 1 + k]
                      /\ Len(wire) + 1 + k \in 1 .. Len(accepted)
    OBVIOUS
  <2>1. k + 1 \in 1 .. Len(queue) /\ Len(wire) + (k + 1) = Len(wire) + 1 + k
    BY <1>1, <1>2
  <2>2. queue'[k] = accepted[Len(wire) + (k + 1)]
    BY <2>1, <1>2, <1>5
  <2>3. Len(wire) + 1 + k \in 1 .. Len(accepted)
    BY <1>1, <1>2, <1>4
  <2> QED
    BY <2>1, <2>2, <2>3
<1>8. current' \notin Queued'
  <2> SUFFICES ASSUME NEW k \in 1 .. Len(queue'), queue'[k] = current'
               PROVE  FALSE
    BY DEF Queued
  <2>1. Len(wire) + 1 + k = Len(wire) + 1
    BY <1>1, <1>2, <1>4, <1>6, <1>7 DEF LineInv, InLine
  <2> QED
    BY <2>1, <1>1
<1>9. InLine'
  <2>1. Len(accepted') - Len(queue') = Len(wire) + 1
    BY <1>1, <1>2, <1>4
  <2>2. \A k \in 1 .. Len(queue') : queue'[k] = accepted'[Len(accepted') - Len(queue') + k]
    BY <2>1, <1>1, <1>7
  <2>3. Len(wire') + Writing' + Len(queue') = Len(accepted')
    BY <1>1, <1>2, <1>3, <1>4
  <2> QED
    BY <2>2, <2>3, <1>1, <1>2, <1>6 DEF LineInv, InLine
<1> QED
  BY <1>1, <1>2, <1>8, <1>9 DEF OnWire, Accepted

\* WriteOk moves the packet being written to the wire.
LEMMA WriteOkEffect ==
    ASSUME LineInv, WriteOk
    PROVE  /\ InLine' /\ wire' \in Seq(Items)
           /\ Queued' = Queued /\ OnWire' = OnWire \cup {current} /\ Accepted' = Accepted
<1>1. /\ wire \in Seq(Items) /\ current \in Items /\ current # NoItem
      /\ wire' = Append(wire, current) /\ current' = NoItem /\ loop = "running"
      /\ UNCHANGED <<queue, accepted, loop>> /\ Len(queue) \in Nat /\ Len(accepted) \in Nat
  BY DEF LineInv, TypeOK, WriteOk, Finish
<1>2. /\ wire' \in Seq(Items) /\ Len(wire') = Len(wire) + 1 /\ Len(wire) \in Nat
      /\ \A k \in 1 .. Len(wire) : wire'[k] = wire[k]
      /\ wire'[Len(wire) + 1] = current
      /\ OnWire' = OnWire \cup {current}
  BY <1>1, AppendAdds DEF OnWire
<1>3. Writing = 1 /\ Writing' = 0
  BY <1>1 DEF Writing
<1>4. \A k \in 1 .. Len(wire') : wire'[k] = accepted'[k]
  <2>1. \A k \in 1 .. Len(wire') : k = Len(wire) + 1 \/ k \in 1 .. Len(wire)
    BY <1>2
  <2>2. current = accepted[Len(wire) + 1]
    BY <1>1 DEF LineInv, InLine
  <2> QED
    BY <2>1, <2>2, <1>1, <1>2 DEF LineInv, InLine
<1>5. InLine'
  BY <1>1, <1>2, <1>3, <1>4 DEF LineInv, InLine
<1> QED
  BY <1>1, <1>2, <1>5 DEF Queued, Accepted

\* Leaving the loop drops the packet being written, and its end what is queued.
LEMMA LeaveEffect ==
    ASSUME LineInv, UNCHANGED <<wire, accepted>>, current' = NoItem, loop' # "running",
           queue' \in {queue, <<>>}
    PROVE  InLine' /\ OnWire' = OnWire /\ Accepted' = Accepted /\ Queued' \in SUBSET Queued
<1>1. /\ Len(wire) \in Nat /\ Len(accepted) \in Nat /\ Len(queue) \in Nat
      /\ Writing \in {0, 1} /\ Writing' = 0
  BY DEF LineInv, TypeOK, Writing
<1>2. CASE queue' = queue
  BY <1>1, <1>2 DEF LineInv, InLine, OnWire, Accepted, Queued
<1>3. CASE queue' = <<>>
  BY <1>1, <1>3 DEF LineInv, InLine, OnWire, Accepted, Queued
<1> QED
  BY <1>2, <1>3

\* Nothing moves.
LEMMA StillEffect ==
    ASSUME LineInv, UNCHANGED <<wire, accepted, queue, current>>, loop' = loop
    PROVE  InLine' /\ OnWire' = OnWire /\ Accepted' = Accepted /\ Queued' = Queued
BY DEF LineInv, InLine, Writing, OnWire, Accepted, Queued

-----------------------------------------------------------------------------
(* Every action keeps the invariant.                                       *)

\* A send that is not accepted is at none of the places a packet can be.
LEMMA NotAccepted ==
    ASSUME LineInv, NEW i \in Items, pc[i] \in {"idle", "charging", "queuing"}
    PROVE  /\ i \notin Accepted /\ i \notin OnWire \cup Queued \cup {current}
           /\ receipt[i] = "pending" /\ result[i] = "none"
BY OnePlace, OutboundAssumption DEF LineInv, Fresh

\* What an action of a caller does to the line: it enqueues its packet, or nothing.
CallerKeeps == UNCHANGED <<wire, current, loop, torn, reason, closeVars>>

\* The calls that end, or go on, without enqueueing.
LEMMA CallerStill ==
    ASSUME LineInv, NEW i \in Items,
           \/ \E n \in Sizes : Send(i, n) \/ SendDetached(i, n)
           \/ Charge(i) /\ queue' = queue /\ accepted' = accepted
           \/ ChargeFails(i) \/ EnqueueFails(i) \/ AwaitReceipt(i) \/ Cancel(i)
    PROVE  /\ UNCHANGED <<queue, accepted>> /\ CallerKeeps
           /\ InLine' /\ Fresh' /\ ReceiptsAreTrue' /\ TornStops'
<1>1. UNCHANGED <<queue, accepted>> /\ CallerKeeps
  BY DEF CallerKeeps, Send, SendDetached, BeginSend, Charge, ChargeFails, EnqueueFails,
     AwaitReceipt, Cancel, Return, loopVars, closeVars
<1>2. InLine' /\ OnWire' = OnWire /\ Accepted' = Accepted /\ Queued' = Queued
  BY <1>1, StillEffect DEF CallerKeeps
<1>3. TornStops'
  BY <1>1 DEF LineInv, TornStops, CallerKeeps
<1>4. TypeOK /\ Fresh /\ ReceiptsAreTrue /\ current' = current
  BY <1>1 DEF LineInv, CallerKeeps
<1>5. CASE \E n \in Sizes : Send(i, n) \/ SendDetached(i, n)
  <2>1. /\ pc[i] = "idle" /\ pc' = [pc EXCEPT ![i] = "charging"]
        /\ \E c \in BOOLEAN : confirmed' = [confirmed EXCEPT ![i] = c]
        /\ UNCHANGED <<result, receipt>>
    BY <1>5 DEF Send, SendDetached, BeginSend
  <2>2. Fresh'
    BY <2>1, <1>2, <1>4 DEF Fresh, TypeOK
  <2>3. ReceiptsAreTrue'
    BY <2>1, <1>2, <1>4 DEF Fresh, ReceiptsAreTrue, TypeOK
  <2> QED
    BY <2>2, <2>3, <1>1, <1>2, <1>3
<1>6. CASE Charge(i) /\ pc' = [pc EXCEPT ![i] = "queuing"] /\ UNCHANGED <<result, receipt, confirmed>>
  <2>1. Fresh'
    BY <1>2, <1>4, <1>6 DEF Fresh, TypeOK, Charge
  <2>2. ReceiptsAreTrue'
    BY <1>2, <1>4, <1>6 DEF ReceiptsAreTrue
  <2> QED
    BY <2>1, <2>2, <1>1, <1>2, <1>3
<1>7. ASSUME NEW r \in {"err", "cancelled"}, Return(i, r), DropCompletion({i}),
             pc[i] \in {"charging", "queuing"}
      PROVE  Fresh' /\ ReceiptsAreTrue'
  <2>1. i \notin OnWire \cup Queued \cup {current} /\ receipt[i] = "pending" /\ result[i] = "none"
    BY <1>7, NotAccepted
  <2>2. /\ pc' = [pc EXCEPT ![i] = "done"] /\ result' = [result EXCEPT ![i] = r]
        /\ confirmed' = confirmed
        /\ receipt'[i] = "failed"
        /\ \A j \in Items : j # i => receipt'[j] = receipt[j]
    BY <1>7, <2>1 DEF Return, DropCompletion
  <2>3. Fresh'
    BY <2>2, <1>2, <1>4 DEF Fresh, TypeOK
  <2>4. ReceiptsAreTrue'
    BY <2>1, <2>2, <1>2, <1>4 DEF ReceiptsAreTrue, TypeOK
  <2> QED
    BY <2>3, <2>4
<1>8. CASE Charge(i) /\ Return(i, "err") /\ DropCompletion({i})
  BY <1>8, <1>7, <1>1, <1>2, <1>3 DEF Charge
<1>9. CASE ChargeFails(i)
  BY <1>9, <1>7, <1>1, <1>2, <1>3 DEF ChargeFails
<1>10. CASE EnqueueFails(i)
  BY <1>10, <1>7, <1>1, <1>2, <1>3 DEF EnqueueFails
<1>11. CASE Cancel(i) /\ pc[i] # "awaiting"
  BY <1>11, <1>7, <1>1, <1>2, <1>3 DEF Cancel
<1>12. ASSUME NEW r \in {"ok", "err", "cancelled"}, Return(i, r), UNCHANGED receipt,
              r = "ok" => receipt[i] = "ok", r = "err" => receipt[i] = "failed"
       PROVE  Fresh' /\ ReceiptsAreTrue'
  <2>1. /\ pc' = [pc EXCEPT ![i] = "done"] /\ result' = [result EXCEPT ![i] = r]
        /\ confirmed' = confirmed
    BY <1>12 DEF Return
  <2>2. Fresh'
    BY <2>1, <1>2, <1>4, <1>12 DEF Fresh, TypeOK
  <2>3. ReceiptsAreTrue'
    BY <2>1, <1>2, <1>4, <1>12 DEF ReceiptsAreTrue, TypeOK
  <2> QED
    BY <2>2, <2>3
<1>13. CASE Cancel(i) /\ pc[i] = "awaiting"
  BY <1>13, <1>12, <1>1, <1>2, <1>3 DEF Cancel
<1>14. CASE AwaitReceipt(i)
  <2>1. receipt[i] \in {"ok", "failed"}
    BY <1>4, <1>14 DEF AwaitReceipt, TypeOK
  <2> QED
    BY <2>1, <1>14, <1>12, <1>1, <1>2, <1>3 DEF AwaitReceipt
<1>15. Charge(i) /\ queue' = queue =>
          \/ pc' = [pc EXCEPT ![i] = "queuing"] /\ UNCHANGED <<result, receipt, confirmed>>
          \/ Return(i, "err") /\ DropCompletion({i})
  <2>1. queue \in Seq(Items)
    BY <1>4 DEF TypeOK
  <2>2. Len(Append(queue, i)) # Len(queue)
    BY <2>1
  <2> QED
    BY <2>2 DEF Charge, Enqueue
<1> QED
  BY <1>5, <1>6, <1>8, <1>9, <1>10, <1>11, <1>13, <1>14, <1>15

\* The calls that enqueue.
LEMMA CallerEnqueues ==
    ASSUME LineInv, NEW i \in Items, Enqueue(i), CallerKeeps, pc[i] \in {"charging", "queuing"}
    PROVE  InLine' /\ Fresh' /\ ReceiptsAreTrue' /\ TornStops'
<1>1. TypeOK /\ Fresh /\ ReceiptsAreTrue /\ current' = current
  BY DEF LineInv, CallerKeeps
<1>2. i \notin OnWire \cup Queued \cup {current} /\ receipt[i] = "pending" /\ i \notin Accepted
      /\ result[i] = "none"
  BY NotAccepted
<1>3. /\ InLine'
      /\ Queued' = Queued \cup {i} /\ OnWire' = OnWire /\ Accepted' = Accepted \cup {i}
  BY <1>2, EnqueueEffect DEF CallerKeeps
<1>4. /\ receipt' = receipt /\ confirmed' = confirmed
      /\ \E s \in {"awaiting", "done"} : pc' = [pc EXCEPT ![i] = s]
      /\ result' = result \/ (~ confirmed[i] /\ result' = [result EXCEPT ![i] = "ok"])
  BY DEF Enqueue, Return
<1>5. Fresh'
  BY <1>1, <1>3, <1>4 DEF Fresh, TypeOK
<1>6. ReceiptsAreTrue'
  BY <1>1, <1>2, <1>3, <1>4 DEF ReceiptsAreTrue, TypeOK
<1>7. TornStops'
  BY DEF LineInv, TornStops, CallerKeeps
<1> QED
  BY <1>3, <1>5, <1>6, <1>7

\* The packet being written is a send, and at one place only.
LEMMA BeingWritten ==
    ASSUME LineInv, current # NoItem
    PROVE  /\ current \in Items /\ current \in Accepted
           /\ current \notin OnWire \cup Queued
           /\ pc[current] \notin {"idle", "charging", "queuing"}
<1>1. current \in Items
  BY DEF LineInv, TypeOK
<1> QED
  BY <1>1, OnePlace DEF LineInv, Fresh

\* The event loop's steps.
LEMMA LoopKeeps ==
    ASSUME LineInv,
           \/ Take \/ WriteOk \/ FailWrite \/ \E r \in Reasons : Stop(r)
           \/ PublishClose \/ LoopEnds
    PROVE  InLine' /\ Fresh' /\ ReceiptsAreTrue' /\ TornStops'
<1>1. TypeOK /\ Fresh /\ ReceiptsAreTrue /\ TornStops /\ NoItem \notin Items
  BY OutboundAssumption DEF LineInv
<1>2. UNCHANGED <<pc, confirmed, result>>
  BY DEF Take, WriteOk, FailWrite, Stop, PublishClose, LoopEnds, Finish, callVars
<1>3. CASE Take
  <2>1. InLine' /\ OnWire' = OnWire /\ Accepted' = Accepted
        /\ current' \in Queued /\ Queued' \in SUBSET Queued
    BY <1>3, TakeEffect
  <2>2. receipt' = receipt /\ torn' = torn /\ loop' = loop
    BY <1>3 DEF Take
  <2> QED
    BY <2>1, <2>2, <1>1, <1>2 DEF Fresh, ReceiptsAreTrue, TornStops
<1>4. CASE WriteOk
  <2>1. InLine' /\ OnWire' = OnWire \cup {current} /\ Accepted' = Accepted /\ Queued' = Queued
    BY <1>4, WriteOkEffect
  <2>2. current # NoItem /\ current' = NoItem /\ torn' = torn /\ loop' = loop
        /\ receipt' = [receipt EXCEPT ![current] = "ok"]
    BY <1>4 DEF WriteOk, Finish
  <2>3. current \in Items /\ current \in Accepted /\ current \notin OnWire \cup Queued
        /\ receipt[current] # "failed" /\ result[current] # "err"
        /\ pc[current] \notin {"idle", "charging", "queuing"}
    BY <2>2, <1>1, BeingWritten DEF ReceiptsAreTrue
  <2>4. Fresh'
    BY <2>1, <2>2, <2>3, <1>1, <1>2 DEF Fresh, TypeOK
  <2>5. ReceiptsAreTrue'
    BY <2>1, <2>2, <2>3, <1>1, <1>2 DEF ReceiptsAreTrue, TypeOK
  <2> QED
    BY <2>1, <2>2, <2>4, <2>5, <1>1 DEF TornStops
\* Dropping the packet being written, or those in the queue, fails their completions.
<1>5. ASSUME NEW D \in SUBSET Items, UNCHANGED <<wire, accepted>>, current' = NoItem,
             loop' # "running", queue' \in {queue, <<>>},
             \A i \in Items : receipt'[i] = IF i \in D THEN "failed" ELSE receipt[i],
             \A i \in D : /\ receipt[i] = "pending"
                         /\ i \in Accepted /\ i \notin OnWire \cup Queued'
      PROVE  InLine' /\ Fresh' /\ ReceiptsAreTrue' /\ TornStops'
  <2>1. InLine' /\ OnWire' = OnWire /\ Accepted' = Accepted /\ Queued' \in SUBSET Queued
    BY <1>5, LeaveEffect
  <2>2. Fresh'
    BY <2>1, <1>1, <1>2, <1>5 DEF Fresh
  <2>3. \A i \in Items : result[i] = "err" => i \notin D
    BY <1>1, <1>5 DEF ReceiptsAreTrue
  <2>4. ReceiptsAreTrue'
    BY <2>1, <2>3, <1>1, <1>2, <1>5 DEF ReceiptsAreTrue
  <2> QED
    BY <2>1, <2>2, <2>4, <1>5 DEF TornStops
<1>6. current # NoItem => /\ current \in Items /\ current \in Accepted
                          /\ current \notin OnWire \cup Queued
                          /\ receipt[current] = "pending"
  <2>1. current # NoItem => receipt[current] # "ok" /\ receipt[current] # "failed"
    BY <1>1, BeingWritten DEF ReceiptsAreTrue
  <2> QED
    BY <2>1, <1>1, BeingWritten DEF TypeOK
<1>7. \A i \in Queued : i \in Items /\ i \in Accepted /\ i \notin OnWire /\ receipt[i] = "pending"
  <2>1. \A i \in Queued : i \in Items /\ i \in Accepted /\ i \notin OnWire
    BY OnePlace
  <2> QED
    BY <2>1, <1>1 DEF ReceiptsAreTrue, TypeOK
<1>8. CASE FailWrite
  <2>1. /\ current # NoItem /\ UNCHANGED <<wire, accepted, queue>> /\ current' = NoItem
        /\ loop' = "leaving" /\ receipt' = [receipt EXCEPT ![current] = "failed"]
    BY <1>8 DEF FailWrite, Finish
  <2>2. \A i \in Items : receipt'[i] = IF i \in {current} THEN "failed" ELSE receipt[i]
    BY <2>1, <1>1 DEF TypeOK
  <2>3. Queued' = Queued
    BY <2>1 DEF Queued
  <2> QED
    BY <2>1, <2>2, <2>3, <1>5, <1>6
<1>9. CASE \E r \in Reasons : Stop(r)
  <2>1. /\ UNCHANGED <<wire, accepted, queue>> /\ current' = NoItem /\ loop' = "leaving"
    BY <1>9 DEF Stop
  <2>2. Queued' = Queued
    BY <2>1 DEF Queued
  <2>3. CASE current = NoItem
    <3>1. receipt' = receipt
      BY <2>3, <1>9 DEF Stop
    <3> DEFINE D == Items \ Items
    <3>2. D \in SUBSET Items /\ \A i \in Items : i \notin D
      OBVIOUS
    <3> HIDE DEF D
    <3>3. \A i \in Items : receipt'[i] = IF i \in D THEN "failed" ELSE receipt[i]
      BY <3>1, <3>2
    <3> QED
      BY <2>1, <3>2, <3>3, <1>5
  <2>4. CASE current # NoItem
    <3>1. DropCompletion({current})
      BY <2>4, <1>9 DEF Stop
    <3>2. \A i \in Items : receipt'[i] = IF i \in {current} THEN "failed" ELSE receipt[i]
      BY <2>4, <3>1, <1>6 DEF DropCompletion
    <3> QED
      BY <2>1, <2>2, <2>4, <3>2, <1>5, <1>6
  <2> QED
    BY <2>3, <2>4
<1>10. CASE PublishClose
  <2>1. /\ UNCHANGED <<wire, accepted, queue, current, receipt>> /\ loop = "leaving"
        /\ loop' = "closed"
    BY <1>10 DEF PublishClose
  <2>2. current' = NoItem
    BY <2>1 DEF LineInv, InLine
  <2> DEFINE D == Items \ Items
  <2>3. D \in SUBSET Items /\ \A i \in Items : i \notin D
    OBVIOUS
  <2> HIDE DEF D
  <2>4. \A i \in Items : receipt'[i] = IF i \in D THEN "failed" ELSE receipt[i]
    BY <2>1, <2>3
  <2> QED
    BY <2>1, <2>2, <2>3, <2>4, <1>5
<1>11. CASE LoopEnds
  <2>1. /\ UNCHANGED <<wire, accepted, current>> /\ queue' = <<>> /\ loop = "closed"
        /\ loop' = "ended" /\ DropCompletion(Queued)
    BY <1>11 DEF LoopEnds
  <2>2. current' = NoItem
    BY <2>1 DEF LineInv, InLine
  <2>3. Queued' = {} /\ Queued \in SUBSET Items
    BY <2>1, <1>7 DEF Queued
  <2>4. \A i \in Items : receipt'[i] = IF i \in Queued THEN "failed" ELSE receipt[i]
    BY <2>1, <1>7 DEF DropCompletion
  <2> QED
    BY <2>1, <2>2, <2>3, <2>4, <1>5, <1>7
<1> QED
  BY <1>3, <1>4, <1>8, <1>9, <1>10, <1>11

\* The steps of close() and of dropping the adapter only signal.
LEMMA OwnerStill ==
    ASSUME LineInv, CloseCalled \/ Closer \/ DropAdapter \/ UNCHANGED vars
    PROVE  /\ UNCHANGED <<callVars, receipt, avail, queue, loopVars, accepted>>
           /\ InLine' /\ Fresh' /\ ReceiptsAreTrue' /\ TornStops'
<1>1. UNCHANGED <<callVars, receipt, avail, queue, loopVars, accepted>>
  BY DEF CloseCalled, Closer, CloseReturns, CloseTimeout, CloseForced, DropAdapter, vars
<1>2. InLine' /\ OnWire' = OnWire /\ Accepted' = Accepted /\ Queued' = Queued
  BY <1>1, StillEffect DEF loopVars
<1> QED
  BY <1>1, <1>2 DEF LineInv, Fresh, ReceiptsAreTrue, TornStops, callVars, loopVars

\* Every step of the system is one of these.
LEMMA StepCases ==
    ASSUME [Next]_vars
    PROVE  \/ \E i \in Items :
                 \/ \E n \in Sizes : Send(i, n) \/ SendDetached(i, n)
                 \/ Charge(i) \/ ChargeFails(i) \/ EnqueueWaited(i) \/ EnqueueFails(i)
                 \/ AwaitReceipt(i) \/ Cancel(i)
           \/ Take \/ WriteOk \/ FailWrite \/ (\E r \in Reasons : Stop(r))
           \/ PublishClose \/ LoopEnds
           \/ CloseCalled \/ Closer \/ DropAdapter \/ UNCHANGED vars
BY DEF Next, Caller, Teardown, WriteError, WriteDeadline, ReadEnds, ReadFails, Idle,
   ShutdownSeen, Reasons

\* Charging either enqueues, with room in the queue, or leaves the line alone.
LEMMA ChargeCases ==
    ASSUME NEW i, Charge(i)
    PROVE  \/ Enqueue(i) /\ Len(queue) < Capacity
           \/ queue' = queue /\ accepted' = accepted
BY DEF Charge

\* Every step keeps the line of packets and what the results say about it.
LEMMA LineStep ==
    ASSUME LineInv, [Next]_vars
    PROVE  InLine' /\ Fresh' /\ ReceiptsAreTrue' /\ TornStops'
<1>1. ASSUME NEW i \in Items, Charge(i) \/ EnqueueWaited(i), Enqueue(i)
      PROVE  InLine' /\ Fresh' /\ ReceiptsAreTrue' /\ TornStops'
  <2>1. CallerKeeps /\ pc[i] \in {"charging", "queuing"}
    BY <1>1 DEF Charge, EnqueueWaited, CallerKeeps, loopVars
  <2> QED
    BY <2>1, <1>1, CallerEnqueues
<1>2. CASE \E i \in Items : Charge(i)
  BY <1>1, <1>2, ChargeCases, CallerStill
<1>3. CASE \E i \in Items : EnqueueWaited(i)
  BY <1>1, <1>3 DEF EnqueueWaited
<1>4. CASE \E i \in Items : \/ \E n \in Sizes : Send(i, n) \/ SendDetached(i, n)
                            \/ ChargeFails(i) \/ EnqueueFails(i) \/ AwaitReceipt(i) \/ Cancel(i)
  BY <1>4, CallerStill
<1> QED
  BY <1>2, <1>3, <1>4, StepCases, LoopKeeps, OwnerStill

\* Every step keeps the types; the permits are the budget's business.
LEMMA TypesStep ==
    ASSUME LineInv, [Next]_vars, avail' \in 0 .. Budget
    PROVE  TypeOK'
<1>1. TypeOK /\ NoItem \notin Items
  BY OutboundAssumption DEF LineInv
<1>2. CASE \E i \in Items : \E n \in Sizes : Send(i, n) \/ SendDetached(i, n)
  <2>1. PICK i \in Items, n \in Sizes, c \in BOOLEAN : BeginSend(i, n, c)
    BY <1>2 DEF Send, SendDetached
  <2> QED
    BY <2>1, <1>1 DEF TypeOK, BeginSend, loopVars, closeVars
\* A call that ends: its completion may be dropped with it.
<1>3. ASSUME NEW i \in Items, NEW r \in {"ok", "err", "cancelled"}, Return(i, r),
             receipt' = receipt \/ DropCompletion({i}),
             UNCHANGED <<queue, loopVars, closeVars, accepted>>
      PROVE  TypeOK'
  <2>1. receipt' \in [Items -> {"pending", "ok", "failed"}]
    BY <1>1, <1>3 DEF TypeOK, DropCompletion
  <2> QED
    BY <2>1, <1>1, <1>3 DEF TypeOK, Return, loopVars, closeVars
<1>4. ASSUME NEW i \in Items, Enqueue(i), Len(queue) < Capacity, i \notin Accepted,
             UNCHANGED <<loopVars, closeVars>>
      PROVE  TypeOK'
  <2>1. queue' \in Seq(Items) /\ accepted' \in Seq(Items) /\ Len(queue') = Len(queue) + 1
    BY <1>4, EnqueueEffect DEF loopVars
  <2>2. Len(queue') <= Capacity
    BY <2>1, <1>1, <1>4, OutboundAssumption DEF TypeOK
  <2>3. /\ pc' \in [Items -> {"idle", "charging", "queuing", "awaiting", "done"}]
        /\ result' \in [Items -> {"none", "ok", "err", "cancelled"}]
        /\ size' = size /\ confirmed' = confirmed /\ receipt' = receipt
    BY <1>1, <1>4 DEF TypeOK, Enqueue, Return
  <2> QED
    BY <2>1, <2>2, <2>3, <1>1, <1>4 DEF TypeOK, loopVars, closeVars
<1>5. CASE \E i \in Items : Charge(i)
  <2>1. PICK i \in Items : Charge(i)
    BY <1>5
  <2>2. i \notin Accepted
    BY <2>1, NotAccepted DEF Charge
  <2>3. CASE Enqueue(i) /\ Len(queue) < Capacity
    BY <2>1, <2>2, <2>3, <1>4 DEF Charge
  <2>4. CASE Return(i, "err") /\ DropCompletion({i}) /\ UNCHANGED <<queue, accepted>>
    BY <2>1, <2>4, <1>3 DEF Charge
  <2>5. CASE /\ pc' = [pc EXCEPT ![i] = "queuing"]
             /\ UNCHANGED <<size, confirmed, result, receipt, queue, accepted>>
    BY <2>1, <2>5, <1>1 DEF Charge, TypeOK, loopVars, closeVars
  <2> QED
    BY <2>1, <2>3, <2>4, <2>5 DEF Charge
<1>6. CASE \E i \in Items : EnqueueWaited(i)
  BY <1>6, <1>4, NotAccepted DEF EnqueueWaited
<1>7. CASE \E i \in Items : ChargeFails(i) \/ EnqueueFails(i)
  BY <1>7, <1>3 DEF ChargeFails, EnqueueFails
<1>8. CASE \E i \in Items : AwaitReceipt(i) \/ Cancel(i)
  BY <1>8, <1>3 DEF AwaitReceipt, Cancel
<1>9. CASE Take
  <2>1. queue' \in Seq(Items) /\ Len(queue') <= Len(queue) /\ current' \in Items
    BY <1>9, TakeEffect
  <2>2. queue' \in Seq(Items) /\ Len(queue') <= Capacity /\ current' \in Items
    <3>1. Len(queue') \in Nat /\ Len(queue) \in Nat /\ Len(queue) <= Capacity
      BY <2>1, <1>1 DEF TypeOK
    <3> QED
      BY <2>1, <3>1, OutboundAssumption
  <2> QED
    BY <2>2, <1>1, <1>9 DEF TypeOK, Take, callVars, closeVars
<1>10. CASE WriteOk
  <2>1. wire' \in Seq(Items)
    BY <1>10, WriteOkEffect
  <2> QED
    BY <2>1, <1>1, <1>10 DEF TypeOK, WriteOk, Finish, callVars, closeVars
<1>11. CASE FailWrite
  BY <1>1, <1>11 DEF TypeOK, FailWrite, Finish, Reasons, callVars, closeVars
<1>12. CASE \E r \in Reasons : Stop(r)
  <2>1. receipt' \in [Items -> {"pending", "ok", "failed"}]
    <3>1. receipt \in [Items -> {"pending", "ok", "failed"}]
      BY <1>1 DEF TypeOK
    <3>2. receipt' = receipt \/ DropCompletion({current})
      BY <1>12 DEF Stop
    <3> QED
      BY <3>1, <3>2 DEF DropCompletion
  <2> QED
    BY <2>1, <1>1, <1>12 DEF TypeOK, Stop, callVars, closeVars
<1>13. CASE PublishClose
  BY <1>1, <1>13 DEF TypeOK, PublishClose, callVars, closeVars
<1>14. CASE LoopEnds
  <2>1. receipt' \in [Items -> {"pending", "ok", "failed"}]
    BY <1>1, <1>14 DEF TypeOK, LoopEnds, DropCompletion
  <2>2. queue' \in Seq(Items) /\ Len(queue') <= Capacity
    BY <1>14, OutboundAssumption DEF LoopEnds
  <2> QED
    BY <2>1, <2>2, <1>1, <1>14 DEF TypeOK, LoopEnds, callVars, closeVars
<1>15. CASE CloseCalled \/ Closer \/ DropAdapter \/ UNCHANGED vars
  BY <1>1, <1>15 DEF TypeOK, CloseCalled, Closer, CloseReturns, CloseTimeout, CloseForced,
     DropAdapter, vars, callVars, loopVars, closeVars
<1> QED
  BY <1>2, <1>5, <1>6, <1>7, <1>8, <1>9, <1>10, <1>11, <1>12, <1>13, <1>14, <1>15,
     StepCases

-----------------------------------------------------------------------------
(* Sums over finite sets, as the budget forms them (MapThenSumSet): a sum  *)
(* takes in and gives up one element at a time, in whatever order the fold *)
(* takes the elements.  The fold is a recursive function on sets; its      *)
(* equation, and what follows from it, is proved by induction in the form  *)
(* of the least counterexample (WFMin), which speaks of sets and not of    *)
(* predicates.                                                             *)

\* The sum of f over S.
SumOf(f, S) == MapThenSumSet(LAMBDA x : f[x], S)

\* The element the fold takes next, and its equation on the subsets of S.
Pick(S) == CHOOSE x \in S : TRUE

SumsOn(f, S, h) ==
    h = [s \in SUBSET S |-> IF s = {} THEN 0 ELSE f[Pick(s)] + h[s \ {Pick(s)}]]

\* Induction over the subsets of a finite set: a family G that contains a set as soon as
\* it contains the set without any one element contains the whole set.
LEMMA SubsetInduction ==
    ASSUME NEW S, IsFiniteSet(S), NEW G,
           \A T \in SUBSET S : (\A x \in T : T \ {x} \in G) => T \in G
    PROVE  S \in G
  <1> SUFFICES ASSUME S \notin G PROVE FALSE
    OBVIOUS
  <1> DEFINE B == (SUBSET S) \ G
  <1>1. B \subseteq FiniteSubsetsOf(S) /\ B # {}
    BY FS_Subset DEF FiniteSubsetsOf
  <1>2. PICK T \in B : \A U \in B : ~ (<<U, T>> \in StrictSubsetOrdering(S))
    <2>1. IsWellFoundedOn(StrictSubsetOrdering(S), FiniteSubsetsOf(S))
      BY FS_StrictSubsetOrderingWellFounded
    <2> HIDE DEF B
    <2> QED
      BY <1>1, <2>1, WFMin
  <1>3. ASSUME NEW x \in T PROVE T \ {x} \in G
    <2>1. <<T \ {x}, T>> \in StrictSubsetOrdering(S)
      BY <1>3 DEF StrictSubsetOrdering
    <2> QED
      BY <1>2, <2>1
  <1> QED
    BY <1>2, <1>3

\* Two solutions of the equation, on a set and on a larger one, agree.
LEMMA SumsAgree ==
    ASSUME NEW S, IsFiniteSet(S), NEW T \in SUBSET S, NEW f, NEW g, NEW h,
           SumsOn(f, S, h), SumsOn(f, T, g)
    PROVE  h[T] = g[T]
  <1> DEFINE G == {s \in SUBSET T : h[s] = g[s]}
  <1>1. ASSUME NEW s \in SUBSET T, \A x \in s : s \ {x} \in G PROVE s \in G
    <2>1. /\ h[s] = IF s = {} THEN 0 ELSE f[Pick(s)] + h[s \ {Pick(s)}]
          /\ g[s] = IF s = {} THEN 0 ELSE f[Pick(s)] + g[s \ {Pick(s)}]
      BY DEF SumsOn
    <2>2. s # {} => Pick(s) \in s
      BY DEF Pick
    <2> QED
      BY <1>1, <2>1, <2>2
  <1>2. IsFiniteSet(T)
    BY FS_Subset
  <1>3. T \in G
    <2> HIDE DEF G
    <2> QED
      BY <1>1, <1>2, SubsetInduction
  <1> QED
    BY <1>3

\* The fold on a set is its equation's solution there, if there is one.
LEMMA SumIsFold ==
    ASSUME NEW S, NEW f, \E h : SumsOn(f, S, h)
    PROVE  \E h : SumsOn(f, S, h) /\ SumOf(f, S) = h[S]
  <1> DEFINE h == CHOOSE g : SumsOn(f, S, g)
  <1>1. SumsOn(f, S, h)
    OBVIOUS
  <1>2. SumOf(f, S) = h[S]
    BY DEF SumOf, MapThenSumSet, MapThenFoldSet, SumsOn, Pick
  <1> QED
    BY <1>1, <1>2

\* The equation of a sum, with the element the fold takes: the fold is well defined.
LEMMA SumUnfolds ==
    ASSUME NEW S, IsFiniteSet(S), NEW f
    PROVE  /\ S = {} => SumOf(f, S) = 0
           /\ S # {} => Pick(S) \in S /\ SumOf(f, S) = f[Pick(S)] + SumOf(f, S \ {Pick(S)})
  <1> DEFINE Eq(s) == SumOf(f, s) = IF s = {} THEN 0 ELSE f[Pick(s)] + SumOf(f, s \ {Pick(s)})
             G == {T \in SUBSET S : \A s \in SUBSET T : Eq(s)}
  <1>1. ASSUME NEW T \in SUBSET S, \A x \in T : T \ {x} \in G PROVE T \in G
    <2>1. ASSUME NEW s \in SUBSET T, s # T PROVE Eq(s)
      <3>1. PICK x \in T : s \in SUBSET (T \ {x})
        BY <2>1
      <3> HIDE DEF Eq
      <3> QED
        BY <1>1, <3>1
    <2>2. T # {} => Pick(T) \in T /\ T \ {Pick(T)} # T /\ T \ {Pick(T)} \in SUBSET T
      BY DEF Pick
    <2>3. ASSUME NEW s \in SUBSET T, s # {} PROVE s \ {Pick(s)} \in SUBSET T /\ s \ {Pick(s)} # T
      BY <2>3 DEF Pick
    <2> DEFINE k == [s \in SUBSET T |->
                       IF s = T /\ T # {} THEN f[Pick(T)] + SumOf(f, T \ {Pick(T)})
                       ELSE IF s = {} THEN 0 ELSE SumOf(f, s)]
    <2>4. SumsOn(f, T, k)
      <3> SUFFICES ASSUME NEW s \in SUBSET T
                   PROVE  k[s] = IF s = {} THEN 0 ELSE f[Pick(s)] + k[s \ {Pick(s)}]
        BY DEF SumsOn
      <3>1. CASE s = {}
        BY <3>1
      <3>2. CASE s # {}
        <4>1. s \ {Pick(s)} \in SUBSET T /\ s \ {Pick(s)} # T
          BY <2>3, <3>2
        <4>2. k[s \ {Pick(s)}] = SumOf(f, s \ {Pick(s)})
          BY <2>1, <4>1
        <4> QED
          BY <2>1, <3>2, <4>2
      <3> QED
        BY <3>1, <3>2
    <2> HIDE DEF k
    <2>5. PICK h : SumsOn(f, T, h) /\ SumOf(f, T) = h[T]
      BY <2>4, SumIsFold
    <2>6. h[T] = k[T]
      BY <2>4, <2>5, SumsAgree, FS_Subset
    <2>7. Eq(T)
      BY <2>2, <2>5, <2>6 DEF k
    <2> HIDE DEF Eq
    <2> QED
      BY <2>1, <2>7
  <1>2. S \in G
    <2> HIDE DEF G
    <2> QED
      BY <1>1, SubsetInduction
  <1> QED
    BY <1>2 DEF Pick

\* A sum of integers is an integer, of naturals a natural.
LEMMA SumType ==
    ASSUME NEW S, IsFiniteSet(S), NEW f, NEW N, N = Nat \/ N = Int, \A x \in S : f[x] \in N
    PROVE  SumOf(f, S) \in N
  <1> DEFINE G == {s \in SUBSET S : SumOf(f, s) \in N}
  <1>1. ASSUME NEW s \in SUBSET S, \A x \in s : s \ {x} \in G PROVE s \in G
    <2>1. IsFiniteSet(s)
      BY FS_Subset
    <2>2. CASE s = {}
      BY <2>1, <2>2, SumUnfolds
    <2>3. CASE s # {}
      <3>1. Pick(s) \in s /\ SumOf(f, s) = f[Pick(s)] + SumOf(f, s \ {Pick(s)})
        BY <2>1, <2>3, SumUnfolds
      <3>2. SumOf(f, s \ {Pick(s)}) \in N /\ f[Pick(s)] \in N
        BY <1>1, <3>1
      <3> QED
        BY <3>1, <3>2
    <2> QED
      BY <2>2, <2>3
  <1>2. S \in G
    <2> HIDE DEF G
    <2> QED
      BY <1>1, SubsetInduction
  <1> QED
    BY <1>2

\* Any element may be taken out first.
LEMMA SumTakesOut ==
    ASSUME NEW S, IsFiniteSet(S), NEW f, \A x \in S : f[x] \in Int, NEW e \in S
    PROVE  SumOf(f, S) = f[e] + SumOf(f, S \ {e})
  <1> DEFINE G == {s \in SUBSET S : \A x \in s : SumOf(f, s) = f[x] + SumOf(f, s \ {x})}
  <1>1. ASSUME NEW s \in SUBSET S, \A x \in s : s \ {x} \in G PROVE s \in G
    <2> SUFFICES ASSUME NEW x \in s PROVE SumOf(f, s) = f[x] + SumOf(f, s \ {x})
      OBVIOUS
    <2> DEFINE c == Pick(s)
    <2>1. IsFiniteSet(s)
      BY FS_Subset
    <2>2. c \in s /\ SumOf(f, s) = f[c] + SumOf(f, s \ {c})
      BY <2>1, SumUnfolds
    <2> HIDE DEF c
    <2>3. CASE x = c
      BY <2>2, <2>3
    <2>4. CASE x # c
      <3>1. SumOf(f, s \ {c}) = f[x] + SumOf(f, (s \ {c}) \ {x})
        BY <1>1, <2>2, <2>4
      <3>2. SumOf(f, s \ {x}) = f[c] + SumOf(f, (s \ {x}) \ {c})
        BY <1>1, <2>2, <2>4
      <3>3. SumOf(f, (s \ {c}) \ {x}) = SumOf(f, (s \ {x}) \ {c})
        <4>1. (s \ {c}) \ {x} = (s \ {x}) \ {c}
          OBVIOUS
        <4> QED
          BY <4>1, Zenon
      <3>4. SumOf(f, (s \ {c}) \ {x}) \in Int
        <4>1. IsFiniteSet((s \ {c}) \ {x})
          BY <2>1, FS_RemoveElement
        <4> QED
          BY <4>1, SumType
      <3>5. f[x] \in Int /\ f[c] \in Int
        BY <2>2
      <3> QED
        BY <2>2, <3>1, <3>2, <3>3, <3>4, <3>5
    <2> QED
      BY <2>3, <2>4
  <1>2. S \in G
    <2> HIDE DEF G
    <2> QED
      BY <1>1, SubsetInduction
  <1> QED
    BY <1>2

\* A sum takes in one more element.
LEMMA SumTakesIn ==
    ASSUME NEW S, IsFiniteSet(S), NEW f, NEW e, e \notin S, f[e] \in Int,
           \A x \in S : f[x] \in Int
    PROVE  SumOf(f, S \cup {e}) = SumOf(f, S) + f[e]
  <1>1. IsFiniteSet(S \cup {e})
    BY FS_AddElement
  <1>2. \A x \in S \cup {e} : f[x] \in Int
    OBVIOUS
  <1>3. SumOf(f, S \cup {e}) = f[e] + SumOf(f, (S \cup {e}) \ {e})
    BY <1>1, <1>2, SumTakesOut
  <1>4. SumOf(f, (S \cup {e}) \ {e}) = SumOf(f, S)
    <2>1. (S \cup {e}) \ {e} = S
      OBVIOUS
    <2> QED
      BY <2>1, Zenon
  <1>5. SumOf(f, S) \in Int
    BY SumType
  <1> QED
    BY <1>3, <1>4, <1>5

\* The sum over two disjoint sets is the sum of their sums.
LEMMA SumOfUnion ==
    ASSUME NEW S, IsFiniteSet(S), NEW T, IsFiniteSet(T), S \cap T = {}, NEW f,
           \A x \in S \cup T : f[x] \in Int
    PROVE  SumOf(f, S \cup T) = SumOf(f, S) + SumOf(f, T)
  <1> DEFINE G == {t \in SUBSET T : SumOf(f, S \cup t) = SumOf(f, S) + SumOf(f, t)}
  <1>0. SumOf(f, S) \in Int
    BY SumType
  <1>1. ASSUME NEW t \in SUBSET T, \A x \in t : t \ {x} \in G PROVE t \in G
    <2>1. IsFiniteSet(t)
      BY FS_Subset
    <2>2. CASE t = {}
      <3>1. SumOf(f, t) = 0
        BY <2>1, <2>2, SumUnfolds
      <3>2. SumOf(f, S \cup t) = SumOf(f, S)
        <4>1. S \cup t = S
          BY <2>2
        <4> QED
          BY <4>1, Zenon
      <3> QED
        BY <1>0, <3>1, <3>2
    <2>3. CASE t # {}
      <3>1. PICK e \in t : TRUE
        BY <2>3
      <3>2. IsFiniteSet(S \cup t) /\ IsFiniteSet(t \ {e})
        BY <2>1, FS_Union, FS_RemoveElement
      <3>3. SumOf(f, S \cup t) = f[e] + SumOf(f, (S \cup t) \ {e})
        BY <3>2, SumTakesOut
      <3>4. SumOf(f, t) = f[e] + SumOf(f, t \ {e})
        BY <2>1, SumTakesOut
      <3>5. SumOf(f, (S \cup t) \ {e}) = SumOf(f, S \cup (t \ {e}))
        <4>1. (S \cup t) \ {e} = S \cup (t \ {e})
          OBVIOUS
        <4> QED
          BY <4>1, Zenon
      <3>6. SumOf(f, S \cup (t \ {e})) = SumOf(f, S) + SumOf(f, t \ {e})
        BY <1>1
      <3>7. SumOf(f, t \ {e}) \in Int /\ f[e] \in Int
        BY <3>2, SumType
      <3> QED
        BY <1>0, <3>3, <3>4, <3>5, <3>6, <3>7
    <2> QED
      BY <2>2, <2>3
  <1>2. T \in G
    <2> HIDE DEF G
    <2> QED
      BY <1>1, SubsetInduction
  <1> QED
    BY <1>2

\* A sum depends on nothing but the elements of its set.
LEMMA SumSame ==
    ASSUME NEW S, IsFiniteSet(S), NEW f, NEW g, \A x \in S : f[x] = g[x]
    PROVE  SumOf(f, S) = SumOf(g, S)
  <1> DEFINE G == {s \in SUBSET S : SumOf(f, s) = SumOf(g, s)}
  <1>1. ASSUME NEW s \in SUBSET S, \A x \in s : s \ {x} \in G PROVE s \in G
    <2>1. IsFiniteSet(s)
      BY FS_Subset
    <2> QED
      BY <1>1, <2>1, SumUnfolds
  <1>2. S \in G
    <2> HIDE DEF G
    <2> QED
      BY <1>1, SubsetInduction
  <1> QED
    BY <1>2

-----------------------------------------------------------------------------
(* The permits.                                                            *)

\* Holders are sends, so there are finitely many, each with a number of bytes.
LEMMA HoldersAreSends ==
    ASSUME LineInv
    PROVE  /\ Holders \in SUBSET Items /\ Queued \in SUBSET Items
           /\ IsFiniteSet(Holders) /\ IsFiniteSet(Queued)
           /\ \A i \in Items : size[i] \in Nat
<1>1. Holders \in SUBSET Items /\ Queued \in SUBSET Items
  BY OnePlace DEF Holders, LineInv, TypeOK
<1>2. size \in [Items -> Sizes \cup {0}] /\ Sizes \cup {0} \in SUBSET Nat
  BY OutboundAssumption DEF LineInv, TypeOK
<1> QED
  BY <1>1, <1>2, OutboundAssumption, FS_Subset

\* Bytes is such a sum.
LEMMA BytesIsSum ==
    ASSUME NEW S
    PROVE  Bytes(S) = SumOf(size, S)
BY Zenon DEF Bytes, SumOf

\* The permits that are not free are those of the holders.
LEMMA PermitsOfHolders == PermitsConserved <=> avail + SumOf(size, Holders) = Budget
BY BytesIsSum, Zenon DEF PermitsConserved, Holders

\* Also in the next state.
LEMMA PermitsOfHoldersNext ==
    PermitsConserved' <=> avail' + SumOf(size', Holders') = Budget
<1>1. (PermitsConserved <=> avail + SumOf(size, Holders) = Budget)'
  BY PermitsOfHolders, PTL
<1> QED
  BY <1>1

\* A step that moves as many bytes out of the holders as it frees keeps the permits.
LEMMA PermitsKept ==
    ASSUME Holders' \in SUBSET Items, \A i \in Holders' : size'[i] \in Nat,
           avail' \in Nat, avail' + SumOf(size', Holders') = Budget
    PROVE  PermitsConserved' /\ avail' \in 0 .. Budget
<1>1. IsFiniteSet(Holders')
  BY OutboundAssumption, FS_Subset
<1>2. SumOf(size', Holders') \in Nat
  BY <1>1, SumType
<1> QED
  BY <1>2, PermitsOfHoldersNext, OutboundAssumption

\* Permits leave the budget only with a packet and come back only with it.
LEMMA PermitsStep ==
    ASSUME OutboundInv, [Next]_vars
    PROVE  PermitsConserved' /\ avail' \in 0 .. Budget
<1> DEFINE H == Holders
<1>1. LineInv /\ TypeOK /\ NoItem \notin Items
  BY OutboundAssumption DEF OutboundInv, LineInv
<1>2. /\ H \in SUBSET Items /\ IsFiniteSet(H)
      /\ Queued \in SUBSET Items /\ IsFiniteSet(Queued)
      /\ \A i \in Items : size[i] \in Nat
  BY <1>1, HoldersAreSends
<1>3. SumOf(size, H) \in Nat
  BY <1>2, SumType
<1>4. avail + SumOf(size, H) = Budget
  BY PermitsOfHolders DEF OutboundInv
<1>5. avail \in Nat /\ Budget \in Nat
  BY <1>1, OutboundAssumption DEF TypeOK
<1>6. H = {i \in Items : pc[i] = "queuing"} \cup Queued \cup ({current} \ {NoItem})
  BY DEF Holders
<1> HIDE DEF H
\* Nobody's permits move.
<1>7. ASSUME Holders' = H, avail' = avail, \A i \in H : size'[i] = size[i]
      PROVE  PermitsConserved' /\ avail' \in 0 .. Budget
  <2>1. SumOf(size', H) = SumOf(size, H)
    BY <1>2, <1>7, SumSame
  <2>2. SumOf(size', Holders') = SumOf(size, H)
    BY <2>1, <1>7, Zenon
  <2>3. Holders' \in SUBSET Items /\ \A i \in Holders' : size'[i] \in Nat
    BY <1>2, <1>7
  <2> QED
    BY <2>2, <2>3, <1>4, <1>5, <1>7, PermitsKept
\* One packet lets go of its permits.
<1>8. ASSUME NEW e \in H, Holders' = H \ {e}, avail' = avail + size[e], size' = size
      PROVE  PermitsConserved' /\ avail' \in 0 .. Budget
  <2>1. SumOf(size, H) = size[e] + SumOf(size, H \ {e})
    BY <1>2, <1>8, SumTakesOut
  <2>2. SumOf(size', Holders') = SumOf(size, H \ {e})
    BY <1>8, Zenon
  <2>3. Holders' \in SUBSET Items /\ \A i \in Holders' : size'[i] \in Nat
    BY <1>2, <1>8
  <2>4. IsFiniteSet(H \ {e})
    BY <1>2, FS_Subset
  <2>5. SumOf(size, H \ {e}) \in Nat
    BY <2>4, <1>2, SumType
  <2>6. size[e] \in Nat
    BY <1>2
  <2> QED
    BY <2>1, <2>2, <2>3, <2>5, <2>6, <1>4, <1>5, <1>8, PermitsKept
\* One packet takes permits.
<1>9. ASSUME NEW e \in Items, e \notin H, Holders' = H \cup {e}, size[e] <= avail,
             avail' = avail - size[e], size' = size
      PROVE  PermitsConserved' /\ avail' \in 0 .. Budget
  <2>1. size[e] \in Nat /\ size[e] \in Int
    BY <1>2
  <2>2. \A i \in H : size[i] \in Int
    BY <1>2
  <2>3. SumOf(size, H \cup {e}) = SumOf(size, H) + size[e]
    BY <2>1, <2>2, <1>2, <1>9, SumTakesIn
  <2>4. SumOf(size', Holders') = SumOf(size, H \cup {e})
    BY <1>9, Zenon
  <2>5. Holders' \in SUBSET Items /\ \A i \in Holders' : size'[i] \in Nat
    BY <1>2, <1>9
  <2> QED
    BY <2>1, <2>3, <2>4, <2>5, <1>3, <1>4, <1>5, <1>9, PermitsKept
<1>10. ASSUME NEW i \in Items, pc[i] \in {"idle", "charging"}
       PROVE  i \notin H
  BY <1>1, <1>6, <1>10, NotAccepted
<1>11. CASE \E i \in Items : \E n \in Sizes : Send(i, n) \/ SendDetached(i, n)
  <2>1. PICK i \in Items, n \in Sizes, c \in BOOLEAN : BeginSend(i, n, c)
    BY <1>11 DEF Send, SendDetached
  <2>2. i \notin H /\ avail' = avail /\ \A j \in H : size'[j] = size[j]
    BY <2>1, <1>1, <1>2, <1>10 DEF BeginSend, TypeOK
  <2>3. Holders' = H
    BY <2>1, <1>1, <1>6 DEF BeginSend, Holders, Queued, TypeOK, loopVars
  <2> QED
    BY <2>2, <2>3, <1>7
<1>12. CASE \E i \in Items : Charge(i)
  <2>1. PICK i \in Items : Charge(i)
    BY <1>12
  <2>2. pc[i] = "charging" /\ i \notin H /\ i \notin Accepted /\ current' = current /\ loop' = loop
        /\ wire' = wire
    BY <2>1, <1>1, <1>10, NotAccepted DEF Charge, loopVars
  <2>3. CASE Enqueue(i) /\ avail' = avail - size[i]
    <3>1. Queued' = Queued \cup {i} /\ size' = size
      BY <2>2, <2>3, <1>1, EnqueueEffect DEF Enqueue, Return
    <3>2. {j \in Items : pc'[j] = "queuing"} = {j \in Items : pc[j] = "queuing"}
      BY <2>2, <2>3, <1>1 DEF Enqueue, Return, TypeOK
    <3>3. Holders' = H \cup {i}
      BY <3>1, <3>2, <2>2, <1>6 DEF Holders
    <3> QED
      BY <3>1, <3>3, <2>1, <2>2, <2>3, <1>9 DEF Charge
  <2>4. CASE pc' = [pc EXCEPT ![i] = "queuing"] /\ avail' = avail - size[i]
             /\ UNCHANGED <<size, queue>>
    <3>0. Queued' = Queued
      BY <2>4 DEF Queued
    <3>2. {j \in Items : pc'[j] = "queuing"} = {j \in Items : pc[j] = "queuing"} \cup {i}
      BY <2>4, <1>1 DEF TypeOK
    <3>1. Holders' = H \cup {i}
      BY <2>2, <3>0, <3>2, <1>6 DEF Holders
    <3> QED
      BY <3>1, <2>1, <2>2, <2>4, <1>9 DEF Charge
  <2>5. CASE Return(i, "err") /\ UNCHANGED <<avail, queue>>
    <3>1. Holders' = H
      BY <2>2, <2>5, <1>1, <1>6 DEF Holders, Queued, TypeOK, Return
    <3> QED
      BY <3>1, <2>5, <1>7 DEF Return
  <2> QED
    BY <2>1, <2>3, <2>4, <2>5 DEF Charge
<1>13. CASE \E i \in Items : EnqueueWaited(i)
  <2>1. PICK i \in Items : EnqueueWaited(i)
    BY <1>13
  <2>2. pc[i] = "queuing" /\ i \notin Accepted /\ UNCHANGED <<current, loop, wire, avail>>
        /\ Enqueue(i)
    BY <2>1, <1>1, NotAccepted DEF EnqueueWaited, loopVars
  <2>3. Queued' = Queued \cup {i} /\ size' = size
    BY <2>2, <1>1, EnqueueEffect DEF Enqueue, Return
  <2>4. {j \in Items : pc'[j] = "queuing"} = {j \in Items : pc[j] = "queuing"} \ {i}
    BY <2>2, <1>1 DEF Enqueue, Return, TypeOK
  <2>5. Holders' = H
    BY <2>2, <2>3, <2>4, <1>6 DEF Holders
  <2> QED
    BY <2>2, <2>3, <2>5, <1>7
\* A call that ends while it waits for a slot gives its permits back.
<1>14. ASSUME NEW i \in Items, NEW r, Return(i, r), UNCHANGED <<queue, loopVars>>,
              avail' = avail + (IF pc[i] = "queuing" THEN size[i] ELSE 0)
       PROVE  PermitsConserved' /\ avail' \in 0 .. Budget
  <2>1. {j \in Items : pc'[j] = "queuing"} = {j \in Items : pc[j] = "queuing"} \ {i}
    BY <1>1, <1>14 DEF Return, TypeOK
  <2>2. size' = size /\ Queued' = Queued /\ current' = current
    BY <1>14 DEF Return, Queued, loopVars
  <2>3. CASE pc[i] = "queuing"
    <3>1. i \notin Queued \cup {current}
      BY <2>3, <1>1, NotAccepted
    <3>2. i \in H /\ Holders' = H \ {i}
      BY <2>1, <2>2, <2>3, <3>1, <1>6 DEF Holders
    <3> QED
      BY <3>2, <2>2, <2>3, <1>8, <1>14
  <2>4. CASE pc[i] # "queuing"
    <3>1. Holders' = H
      BY <2>1, <2>2, <2>4, <1>6 DEF Holders
    <3> QED
      BY <3>1, <2>2, <2>4, <1>5, <1>7, <1>14
  <2> QED
    BY <2>3, <2>4
<1>15. CASE \E i \in Items : EnqueueFails(i) \/ Cancel(i)
  BY <1>14, <1>15 DEF EnqueueFails, Cancel
<1>16. CASE \E i \in Items : ChargeFails(i) \/ AwaitReceipt(i)
  BY <1>5, <1>14, <1>16 DEF ChargeFails, AwaitReceipt
<1>17. CASE Take
  <2>1. Queued = Queued' \cup {current'} /\ current' \in Items /\ current = NoItem
    BY <1>1, <1>17, TakeEffect DEF Take
  <2>2. Holders' = H
    BY <2>1, <1>1, <1>6, <1>17 DEF Take, Holders, callVars
  <2> QED
    BY <2>2, <1>7, <1>17 DEF Take, callVars
\* The packet being written is done with.
<1>18. ASSUME current # NoItem, current' = NoItem, avail' = avail + size[current],
              UNCHANGED <<callVars, queue>>
       PROVE  PermitsConserved' /\ avail' \in 0 .. Budget
  <2>1. current \in Items /\ current \notin Queued /\ pc[current] # "queuing"
    BY <1>1, <1>18, BeingWritten
  <2>2. current \in H /\ Holders' = H \ {current}
    BY <2>1, <1>6, <1>18 DEF Holders, Queued, callVars
  <2> QED
    BY <2>2, <1>8, <1>18 DEF callVars
<1>19. CASE WriteOk \/ FailWrite
  BY <1>18, <1>19 DEF WriteOk, FailWrite, Finish
<1>20. CASE \E r \in Reasons : Stop(r)
  <2>1. CASE current = NoItem
    <3>1. Holders' = H
      BY <2>1, <1>6, <1>20 DEF Stop, Holders, Queued, callVars
    <3> QED
      BY <3>1, <2>1, <1>7, <1>20 DEF Stop, callVars
  <2>2. CASE current # NoItem
    BY <2>2, <1>18, <1>20 DEF Stop
  <2> QED
    BY <2>1, <2>2
<1>21. CASE PublishClose
  <2>1. Holders' = H
    BY <1>6, <1>21 DEF PublishClose, Holders, Queued, callVars
  <2> QED
    BY <2>1, <1>7, <1>21 DEF PublishClose, callVars
<1>22. CASE LoopEnds
  <2> DEFINE R == {i \in Items : pc[i] = "queuing"} \cup ({current} \ {NoItem})
  <2>1. Queued' = {} /\ size' = size /\ pc' = pc /\ current' = current
        /\ avail' = avail + Bytes(Queued)
    BY <1>22 DEF LoopEnds, Queued, callVars
  <2>2. Holders' = R
    BY <2>1 DEF Holders
  <2>3. H = Queued \cup R
    BY <1>6
  <2>4. Queued \cap R = {}
    BY <1>1, NotAccepted, BeingWritten
  <2>5. IsFiniteSet(R) /\ R \in SUBSET Items
    BY <2>3, <1>2, FS_Subset
  <2> HIDE DEF R
  <2>6. SumOf(size, Queued \cup R) = SumOf(size, Queued) + SumOf(size, R)
    BY <2>4, <2>5, <1>2, SumOfUnion
  <2>7. SumOf(size, H) = SumOf(size, Queued) + SumOf(size, R)
    BY <2>3, <2>6, Zenon
  <2>8. SumOf(size, Queued) \in Nat /\ SumOf(size, R) \in Nat
    BY <2>5, <1>2, SumType
  <2>9. avail' = avail + SumOf(size, Queued)
    BY <2>1, BytesIsSum
  <2>10. SumOf(size', Holders') = SumOf(size, R)
    BY <2>1, <2>2, Zenon
  <2>11. Holders' \in SUBSET Items /\ \A i \in Holders' : size'[i] \in Nat
    BY <2>1, <2>2, <2>5, <1>2
  <2> QED
    BY <2>7, <2>8, <2>9, <2>10, <2>11, <1>4, <1>5, PermitsKept
<1>23. CASE CloseCalled \/ Closer \/ DropAdapter \/ UNCHANGED vars
  <2>1. UNCHANGED <<callVars, receipt, avail, queue, loopVars, accepted>>
    BY <1>1, <1>23, OwnerStill
  <2>2. Holders' = H
    BY <2>1, <1>6 DEF Holders, Queued, callVars, loopVars
  <2> QED
    BY <2>1, <2>2, <1>7 DEF callVars
<1> QED
  BY <1>11, <1>12, <1>13, <1>15, <1>16, <1>17, <1>19, <1>20, <1>21, <1>22, <1>23, StepCases

-----------------------------------------------------------------------------
(* The theorems.                                                           *)

\* Sequences of the same length and elements are the same.
LEMMA SameSeq ==
    ASSUME NEW S, NEW a \in Seq(S), NEW b \in Seq(S), Len(a) = Len(b),
           \A i \in 1 .. Len(a) : a[i] = b[i]
    PROVE  a = b
OBVIOUS

\* A line cut in three is the three parts put together.
LEMMA InLineMeansInOrder ==
    ASSUME LineInv
    PROVE  FramesInOrder
<1> DEFINE c == IF current = NoItem THEN <<>> ELSE <<current>>
<1>1. /\ wire \in Seq(Items) /\ queue \in Seq(Items) /\ accepted \in Seq(Items)
      /\ c \in Seq(Items) /\ Len(c) = Writing /\ Writing \in {0, 1}
      /\ (Writing = 1 => c[1] = current /\ current # NoItem)
  BY DEF LineInv, TypeOK, Writing
<1>2. Len(wire) + Writing + Len(queue) <= Len(accepted)
  BY DEF LineInv, InLine
<1>3. IsPrefix(wire, accepted)
  <2>1. \A k \in 1 .. Len(wire) : wire[k] = accepted[k]
    BY DEF LineInv, InLine
  <2>2. Len(wire) \in Nat /\ Len(accepted) \in Nat /\ Len(wire) <= Len(accepted)
    BY <1>1, <1>2
  <2>3. SubSeq(wire, 1, Len(wire)) = SubSeq(accepted, 1, Len(wire))
    BY <2>1, <2>2, <1>1
  <2> QED
    BY <2>2, <2>3 DEF IsPrefix
<1> HIDE DEF c
<1>4. ASSUME loop = "running"
      PROVE  wire \o c \o queue = accepted
  <2> DEFINE f == wire \o c
             t == f \o queue
  <2>1. Len(wire) \in Nat /\ Len(queue) \in Nat /\ Len(accepted) \in Nat
        /\ Len(accepted) = Len(wire) + Writing + Len(queue)
    BY <1>1, <1>4 DEF LineInv, InLine
  <2>2. /\ f \in Seq(Items) /\ Len(f) = Len(wire) + Writing
        /\ \A k \in 1 .. Len(f) : f[k] = IF k <= Len(wire) THEN wire[k] ELSE c[k - Len(wire)]
    BY <1>1
  <2>3. \A k \in 1 .. Len(f) : f[k] = accepted[k]
    <3> SUFFICES ASSUME NEW k \in 1 .. Len(f) PROVE f[k] = accepted[k]
      OBVIOUS
    <3>1. CASE k <= Len(wire)
      BY <3>1, <2>1, <2>2 DEF LineInv, InLine
    <3>2. CASE k > Len(wire)
      <4>1. Writing = 1 /\ k = Len(wire) + 1
        BY <3>2, <2>1, <2>2, <1>1
      <4>2. f[k] = current
        BY <4>1, <3>2, <2>1, <2>2, <1>1
      <4> QED
        BY <4>1, <4>2, <1>1 DEF LineInv, InLine
    <3> QED
      BY <3>1, <3>2, <2>1, <2>2
  <2> HIDE DEF f
  <2>4. /\ t \in Seq(Items) /\ Len(t) = Len(f) + Len(queue)
        /\ \A k \in 1 .. Len(t) : t[k] = IF k <= Len(f) THEN f[k] ELSE queue[k - Len(f)]
    <3>1. f \in Seq(Items) /\ queue \in Seq(Items)
      BY <2>2, <1>1
    <3> QED
      BY <3>1
  <2>5. \A k \in 1 .. Len(t) : t[k] = accepted[k]
    <3> SUFFICES ASSUME NEW k \in 1 .. Len(t) PROVE t[k] = accepted[k]
      OBVIOUS
    <3>1. CASE k <= Len(f)
      BY <3>1, <2>1, <2>2, <2>3, <2>4
    <3>2. CASE k > Len(f)
      <4>1. k - Len(f) \in 1 .. Len(queue) /\ t[k] = queue[k - Len(f)]
        BY <3>2, <2>1, <2>2, <2>4, <1>1
      <4>2. Len(accepted) - Len(queue) + (k - Len(f)) = k
        BY <2>1, <2>2, <2>4, <1>1
      <4>3. queue[k - Len(f)] = accepted[Len(accepted) - Len(queue) + (k - Len(f))]
        BY <4>1 DEF LineInv, InLine
      <4> QED
        BY <4>1, <4>2, <4>3
    <3> QED
      BY <3>1, <3>2, <2>1, <2>2, <2>4, <1>1
  <2>6. Len(t) = Len(accepted)
    BY <2>1, <2>2, <2>4
  <2> HIDE DEF t
  <2>7. t = accepted
    <3>1. t \in Seq(Items) /\ accepted \in Seq(Items)
      BY <2>4, <1>1
    <3> QED
      BY <2>5, <2>6, <3>1, SameSeq
  <2> QED
    BY <2>7 DEF t, f
<1> QED
  BY <1>3, <1>4 DEF FramesInOrder, c

\* OutboundInv holds of a new connection, and every step of its callers, its event loop
\* and its owner keeps it.
THEOREM OutboundInvariant == Spec => []OutboundInv
<1>1. Init => OutboundInv
  <2> SUFFICES ASSUME Init PROVE OutboundInv
    OBVIOUS
  <2> USE OutboundAssumption DEF Init
  <2>1. TypeOK
    <3>1. <<>> \in Seq(Items) /\ Len(<<>>) <= Capacity /\ avail \in 0 .. Budget
      OBVIOUS
    <3> QED
      BY <3>1 DEF TypeOK
  <2>2. Queued = {} /\ Holders = {} /\ Accepted = {}
    BY DEF Queued, Holders, Accepted
  <2>3. InLine
    BY DEF InLine, Writing
  <2>4. Fresh /\ ReceiptsAreTrue /\ TornStops
    BY <2>2 DEF Fresh, ReceiptsAreTrue, TornStops
  <2>5. SumOf(size, {}) = 0
    BY FS_EmptySet, SumUnfolds
  <2>6. SumOf(size, Holders) = SumOf(size, {})
    BY <2>2, Zenon
  <2>7. PermitsConserved
    BY <2>5, <2>6, PermitsOfHolders
  <2> QED
    BY <2>1, <2>3, <2>4, <2>7 DEF OutboundInv, LineInv
<1>2. OutboundInv /\ [Next]_vars => OutboundInv'
  <2> SUFFICES ASSUME OutboundInv, [Next]_vars PROVE OutboundInv'
    OBVIOUS
  <2>1. PermitsConserved' /\ avail' \in 0 .. Budget
    BY PermitsStep
  <2>2. TypeOK'
    BY <2>1, TypesStep DEF OutboundInv
  <2> QED
    BY <2>1, <2>2, LineStep DEF OutboundInv, LineInv
<1> QED
  BY <1>1, <1>2, PTL DEF Spec

\* A confirmed send that returned Ok is on the wire; one that returned an error is not and
\* never will be, whatever raced with it.
THEOREM ResultsTellTheTruth == Spec => []ResultsAreTrue
<1>1. OutboundInv => ResultsAreTrue
  BY DEF OutboundInv, LineInv, ReceiptsAreTrue, ResultsAreTrue
<1> QED
  BY <1>1, OutboundInvariant, PTL

\* Whichever way a packet leaves the send path, it gives back the permits it took.
THEOREM PermitsAreConserved == Spec => []PermitsConserved
<1>1. OutboundInv => PermitsConserved
  BY DEF OutboundInv
<1> QED
  BY <1>1, OutboundInvariant, PTL

\* The peer reads whole frames in the order they were enqueued, and nothing is written
\* behind a partial one.
THEOREM WireStaysReadable == Spec => WireIsReadable
<1>1. OutboundInv /\ OutboundInv' /\ [Next]_vars
        => [FramesInOrder' /\ (torn => wire' = wire)]_vars
  <2> SUFFICES ASSUME OutboundInv, OutboundInv', [Next]_vars
               PROVE  FramesInOrder' /\ (torn => wire' = wire)
    OBVIOUS
  <2>1. FramesInOrder'
    <3>1. (LineInv => FramesInOrder)'
      BY InLineMeansInOrder, PTL
    <3> QED
      BY <3>1 DEF OutboundInv
  <2>2. ASSUME torn PROVE wire' = wire
    <3>1. loop # "running" /\ LineInv
      BY <2>2 DEF OutboundInv, LineInv, TornStops
    <3>2. CASE \E i \in Items :
                 \/ \E n \in Sizes : Send(i, n) \/ SendDetached(i, n)
                 \/ Charge(i) \/ ChargeFails(i) \/ EnqueueWaited(i) \/ EnqueueFails(i)
                 \/ AwaitReceipt(i) \/ Cancel(i)
      BY <3>2 DEF Send, SendDetached, BeginSend, Charge, ChargeFails, EnqueueWaited,
         EnqueueFails, AwaitReceipt, Cancel, loopVars
    <3>3. CASE Take \/ WriteOk \/ FailWrite \/ (\E r \in Reasons : Stop(r))
               \/ PublishClose \/ LoopEnds
      BY <3>1, <3>3 DEF Take, WriteOk, FailWrite, Stop, PublishClose, LoopEnds
    <3>4. CASE CloseCalled \/ Closer \/ DropAdapter \/ UNCHANGED vars
      BY <3>1, <3>4, OwnerStill DEF loopVars
    <3> QED
      BY <3>2, <3>3, <3>4, StepCases
  <2> QED
    BY <2>1, <2>2
<1> QED
  BY <1>1, OutboundInvariant, PTL DEF Spec, WireIsReadable

=============================================================================
