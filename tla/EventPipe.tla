----------------------------- MODULE EventPipe -----------------------------
(***************************************************************************)
(* The bounded event pipe between a connection's adapter and its consumer  *)
(* (adapters/events.rs), with the byte budget that its packets hold until  *)
(* the application lets go of them (adapters/budget.rs).                   *)
(*                                                                         *)
(* Three parties run in parallel: the read task delivers packets, any task *)
(* of the adapter may publish the close or a diagnostic, and the consumer  *)
(* calls next().  An await point ends a step; what happens between two     *)
(* awaits is one step, because the data queue and the close cell are       *)
(* touched once in it, or because a change in between is the same as one   *)
(* before it.                                                              *)
(*                                                                         *)
(* A packet is its number in wire order; only its size matters.            *)
(***************************************************************************)
EXTENDS Integers, Sequences, FiniteSets, FiniteSetsExt

CONSTANTS
    Capacity,    \* capacity of the data queue
    Budget,      \* bytes the connection's packets may hold
    Sizes,       \* sizes a packet may have (payload and extension, at least 1)
    MaxPackets   \* bound: packets read in a behaviour

ASSUME PipeAssumption ==
    /\ Capacity \in Nat \ {0}
    /\ Budget \in Nat
    /\ Sizes \in SUBSET (Nat \ {0})
    /\ MaxPackets \in Nat

Packets == 1 .. MaxPackets
Diag    == 0                          \* a MessageSent event in the queue
Reasons == {"Normal", "Error", "Timeout"}

VARIABLES
    reader,      \* the read task: "reading", "charging", "sending" or "stopped"
    packet,      \* number of packets read; the last one is being delivered
    size,        \* size of each packet read
    accepted,    \* packets for which deliver returned true, in order
    queue,       \* data_tx / data_rx
    cell,        \* the close cell: "open" or the reason published
    alive,       \* does the adapter still hold the sender half?
    avail,       \* free permits of the byte budget
    rx,          \* the consumer: "idle", "polling" (inside next) or "gone"
    intake,      \* FALSE once the consumer has called data_rx.close()
    got,         \* packets next() has returned, in order
    held,        \* packets returned and still retained by the application
    closedWith   \* reason of the ConnectionClosed returned, or "none"

readerVars   == <<reader, packet, size, accepted>>
consumerVars == <<rx, intake, got, held, closedWith>>
vars         == <<readerVars, queue, cell, alive, avail, consumerVars>>

TypeOK ==
    /\ reader \in {"reading", "charging", "sending", "stopped"}
    /\ packet \in 0 .. MaxPackets
    /\ size \in [Packets -> Sizes \cup {0}]
    /\ accepted \in Seq(Packets)
    /\ queue \in Seq(Packets \cup {Diag}) /\ Len(queue) <= Capacity
    /\ cell \in Reasons \cup {"open"}
    /\ alive \in BOOLEAN
    /\ avail \in 0 .. Budget
    /\ rx \in {"idle", "polling", "gone"}
    /\ intake \in BOOLEAN
    /\ got \in Seq(Packets)
    /\ held \in SUBSET Packets
    /\ closedWith \in Reasons \cup {"none", "EndedWithoutClose"}

Init ==
    /\ reader = "reading"
    /\ packet = 0
    /\ size = [p \in Packets |-> 0]
    /\ accepted = <<>>
    /\ queue = <<>>
    /\ cell = "open"
    /\ alive = TRUE
    /\ avail = Budget
    /\ rx = "idle"
    /\ intake = TRUE
    /\ got = <<>>
    /\ held = {}
    /\ closedWith = "none"

-----------------------------------------------------------------------------
(* The adapter's side.                                                     *)

\* close: the first reason wins.
Publish(reason) == cell' = IF cell = "open" THEN reason ELSE cell

\* deliver is called with a packet it can decode; a pipe already closed refuses it.
Deliver(n) ==
    /\ alive /\ reader = "reading"
    /\ packet < MaxPackets
    /\ packet' = packet + 1
    /\ size' = [size EXCEPT ![packet + 1] = n]
    /\ reader' = IF cell = "open" THEN "charging" ELSE "stopped"
    /\ UNCHANGED <<accepted, queue, cell, alive, avail, consumerVars>>

\* A packet that cannot be decompressed within the limit is a protocol error.
DeliverUndecodable ==
    /\ alive /\ reader = "reading"
    /\ packet < MaxPackets
    /\ packet' = packet + 1
    /\ Publish("Error")
    /\ reader' = "stopped"
    /\ UNCHANGED <<size, accepted, queue, alive, avail, consumerVars>>

\* ByteBudget::charge: a packet larger than the whole budget can never be charged;
\* otherwise wait for permits.  The pipe is looked at again before sending.
Charge ==
    /\ alive /\ reader = "charging"
    /\ \/ /\ size[packet] > Budget
          /\ Publish("Error")
          /\ reader' = "stopped"
          /\ UNCHANGED avail
       \/ /\ size[packet] <= avail
          /\ cell = "open"
          /\ avail' = avail - size[packet]
          /\ reader' = "sending"
          /\ UNCHANGED cell
    /\ UNCHANGED <<packet, size, accepted, queue, alive, consumerVars>>

\* Mutant: the permits of a packet that is not sent are lost.
RefundLost == UNCHANGED avail

\* Dropping the packet being delivered frees its permits, if it has any.
Refund == avail' = avail + (IF reader = "sending" THEN size[packet] ELSE 0)

\* data_tx.send: waits while the queue is full.
Send ==
    /\ alive /\ reader = "sending"
    /\ intake /\ rx # "gone"
    /\ Len(queue) < Capacity
    /\ queue' = Append(queue, packet)
    /\ accepted' = Append(accepted, packet)
    /\ reader' = "reading"
    /\ UNCHANGED <<packet, size, cell, alive, avail, consumerVars>>

\* The close wakes a waiting deliver, or the consumer no longer takes packets.
DeliverRefused ==
    /\ alive /\ reader \in {"charging", "sending"}
    /\ cell # "open" \/ (reader = "sending" /\ (~ intake \/ rx = "gone"))
    /\ Refund
    /\ reader' = "stopped"
    /\ UNCHANGED <<packet, size, accepted, queue, cell, alive, consumerVars>>

\* Mutant: a diagnostic pushes the oldest event out of a full queue.
DiagnosticLagging ==
    /\ alive
    /\ intake /\ rx # "gone"
    /\ queue' = Append(IF Len(queue) < Capacity THEN queue ELSE Tail(queue), Diag)
    /\ UNCHANGED <<readerVars, cell, alive, avail, consumerVars>>

\* diagnostic: try_send, dropped when there is no room.
Diagnostic ==
    /\ alive
    /\ queue' = IF intake /\ rx # "gone" /\ Len(queue) < Capacity
                THEN Append(queue, Diag) ELSE queue
    /\ UNCHANGED <<readerVars, cell, alive, avail, consumerVars>>

\* A task of the adapter publishes the close (end of stream, write failure, idle, ...);
\* several may, one after the other.
Close(reason) ==
    /\ alive
    /\ Publish(reason)
    /\ UNCHANGED <<readerVars, queue, alive, avail, consumerVars>>

\* The adapter's tasks end, a delivery in progress is dropped with them, and so is the
\* sender half; an adapter that died may never have closed.
AdapterEnds ==
    /\ alive
    /\ alive' = FALSE
    /\ Refund
    /\ reader' = "stopped"
    /\ UNCHANGED <<packet, size, accepted, queue, cell, consumerVars>>

-----------------------------------------------------------------------------
(* The consumer's side: EventPipeRx::next.                                 *)

Emitted == closedWith # "none"

\* Mutant: the control plane is not looked at on entry.
NextEntersBlind ==
    /\ rx = "idle"
    /\ ~ Emitted
    /\ rx' = "polling"
    /\ UNCHANGED <<readerVars, queue, cell, alive, avail, intake, got, held,
                   closedWith>>

\* A published close shuts intake before another event is returned.
NextEnters ==
    /\ rx = "idle"
    /\ ~ Emitted
    /\ rx' = "polling"
    /\ intake' = (intake /\ cell = "open")
    /\ UNCHANGED <<readerVars, queue, cell, alive, avail, got, held, closedWith>>

\* recv() yields what is queued, also after the intake was shut.
Recv ==
    /\ rx = "polling"
    /\ queue # <<>>
    /\ queue' = Tail(queue)
    /\ rx' = "idle"
    /\ IF Head(queue) = Diag
       THEN UNCHANGED <<got, held>>
       ELSE got' = Append(got, Head(queue)) /\ held' = held \cup {Head(queue)}
    /\ UNCHANGED <<readerVars, cell, alive, avail, intake, closedWith>>

\* Nothing queued and the control plane fires.
CloseWakes ==
    /\ rx = "polling"
    /\ queue = <<>>
    /\ alive /\ intake
    /\ cell # "open"
    /\ intake' = FALSE
    /\ UNCHANGED <<readerVars, queue, cell, alive, avail, rx, got, held, closedWith>>

\* Mutant: the close overtakes what is queued.
DrainedNotNeeded == ~ intake \/ ~ alive

\* recv() returns None: intake shut or sender gone, and the queue drained.
Drained == queue = <<>> /\ (~ intake \/ ~ alive)

EmitClose ==
    /\ rx = "polling"
    /\ Drained
    /\ closedWith' = IF cell = "open" THEN "EndedWithoutClose" ELSE cell
    /\ rx' = "idle"
    /\ UNCHANGED <<readerVars, queue, cell, alive, avail, intake, got, held>>

\* The application drops the last clone of a payload.
Release(p) ==
    /\ p \in held
    /\ held' = held \ {p}
    /\ avail' = avail + size[p]
    /\ UNCHANGED <<readerVars, queue, cell, alive, rx, intake, got, closedWith>>

\* Bytes of the packets in a set.
Bytes(S) == MapThenSumSet(LAMBDA p : size[p], S)

Queued == {queue[i] : i \in 1 .. Len(queue)} \ {Diag}

\* The consumer drops its half, and what is queued with it.
ConsumerGone ==
    /\ rx # "gone"
    /\ rx' = "gone"
    /\ queue' = <<>>
    /\ avail' = avail + Bytes(Queued)
    /\ UNCHANGED <<readerVars, cell, alive, intake, got, held, closedWith>>

-----------------------------------------------------------------------------

Reader == Charge \/ Send \/ DeliverRefused

Consumer == NextEnters \/ Recv \/ CloseWakes \/ EmitClose

Next ==
    \/ (\E n \in Sizes : Deliver(n)) \/ DeliverUndecodable \/ Reader
    \/ Diagnostic \/ (\E r \in Reasons : Close(r)) \/ AdapterEnds
    \/ Consumer \/ (\E p \in Packets : Release(p)) \/ ConsumerGone

Spec == Init /\ [][Next]_vars

\* The tasks that run a deliver or a next() are scheduled.  Nothing makes the
\* application release a payload, nor the adapter close or end.
Fairness == WF_vars(Reader) /\ WF_vars(Consumer)

FairSpec == Spec /\ Fairness

-----------------------------------------------------------------------------
(* Properties.                                                             *)

\* Packets are numbered in wire order: the packets of s come in it, none twice.
InWireOrder(s) ==
    \A i, j \in 1 .. Len(s) : i < j /\ s[i] # Diag /\ s[j] # Diag => s[i] < s[j]

\* Every accepted packet reaches the consumer, once and in wire order: what next() has
\* returned is a prefix of what deliver accepted, and what is queued is the rest.
NoLossNoReorder ==
    /\ InWireOrder(accepted) /\ InWireOrder(queue)
    /\ Len(got) <= Len(accepted)
    /\ \A k \in 1 .. Len(got) : got[k] = accepted[k]
    /\ rx # "gone" => Queued = {accepted[k] : k \in Len(got) + 1 .. Len(accepted)}

\* ConnectionClosed is the last event: when it is returned, every packet ever accepted
\* has been returned before it, and none can be accepted any more.  The reason it gives
\* is final: the first one published, an Error found by deliver not masked by the Normal
\* of a task's teardown; EndedWithoutClose only of an adapter that never publishes one.
ClosedIsLast ==
    /\ Emitted /\ rx # "gone" => got = accepted /\ (~ alive \/ ~ intake)
    /\ Emitted => closedWith = IF cell = "open" THEN "EndedWithoutClose" ELSE cell

\* The bytes of all packets in the pipe and in the application's hands never exceed the
\* budget, and no permit is lost on any way out (refusal, abort, a consumer that left).
Charged == Queued \cup held \cup (IF reader = "sending" THEN {packet} ELSE {})

BudgetConserved == avail + Bytes(Charged) = Budget

\* A close is not stuck behind data: the consumer gets it even if the queue is full, the
\* application keeps every payload and diagnostics never stop coming; and the reader's
\* delivery, waiting for room or for permits nobody will give back, does not outlive it.
CloseGetsThrough ==
    cell # "open" ~> /\ Emitted \/ rx = "gone"
                     /\ reader \in {"reading", "stopped"}

=============================================================================
