------------------------------ MODULE Outbound ------------------------------
(***************************************************************************)
(* The send path of one TCP connection: callers of a QueueWriter           *)
(* (adapters/outbound.rs) charge the byte budget, enqueue into the bounded *)
(* queue and, on the confirmed tier, wait for the write completion         *)
(* (connection.rs); the adapter's event loop (adapters/tcp.rs) writes the  *)
(* queue to the socket, resolves the completions and tears everything down *)
(* when either direction, the idle timer or close() ends it.               *)
(*                                                                         *)
(* Every caller makes one send, so a caller and its packet have one name.  *)
(* An await point ends a step.  The end of the loop is three steps, since  *)
(* callers on other threads may enqueue between them.                      *)
(***************************************************************************)
EXTENDS Integers, Sequences, FiniteSets, FiniteSetsExt, SequencesExt

CONSTANTS
    Items,      \* the sends
    NoItem,     \* not a send
    Capacity,   \* capacity of the outbound queue
    Budget,     \* bytes the unsent packets of the connection may hold
    Sizes       \* sizes a packet may have

ASSUME OutboundAssumption ==
    /\ NoItem \notin Items
    /\ IsFiniteSet(Items)
    /\ Capacity \in Nat \ {0}
    /\ Budget \in Nat
    /\ Sizes \in SUBSET (Nat \ {0})

Reasons == {"Normal", "Error", "Timeout"}

VARIABLES
    pc,         \* where each send is: idle, charging, queuing, awaiting or done
    size,       \* its packet's size
    confirmed,  \* does its completion have an observer (or a claim)?
    receipt,    \* the completion: pending, ok or failed
    result,     \* what the call returned: none, ok, err or cancelled
    avail,      \* free permits of the byte budget
    queue,      \* the outbound queue
    loop,       \* the event loop: running, leaving (futures dropped), closed (close
                \* published) or ended (queue dropped)
    current,    \* the packet being written
    wire,       \* packets whose bytes all reached the socket, in order
    torn,       \* is there a partial frame on the socket?
    reason,     \* the CloseReason published, or "none"
    shutdown,   \* shutdown signal sent, or its sender dropped
    closing,    \* close(): no, waiting, abandoned, forced or closed
    accepted    \* history: packets in the order they were enqueued

callVars  == <<pc, size, confirmed, result>>
loopVars  == <<loop, current, wire, torn, reason>>
closeVars == <<shutdown, closing>>
vars      == <<callVars, receipt, avail, queue, loopVars, closeVars, accepted>>

TypeOK ==
    /\ pc \in [Items -> {"idle", "charging", "queuing", "awaiting", "done"}]
    /\ size \in [Items -> Sizes \cup {0}]
    /\ confirmed \in [Items -> BOOLEAN]
    /\ receipt \in [Items -> {"pending", "ok", "failed"}]
    /\ result \in [Items -> {"none", "ok", "err", "cancelled"}]
    /\ avail \in 0 .. Budget
    /\ queue \in Seq(Items) /\ Len(queue) <= Capacity
    /\ loop \in {"running", "leaving", "closed", "ended"}
    /\ current \in Items \cup {NoItem}
    /\ wire \in Seq(Items)
    /\ torn \in BOOLEAN
    /\ reason \in Reasons \cup {"none"}
    /\ shutdown \in BOOLEAN
    /\ closing \in {"no", "waiting", "abandoned", "forced", "closed"}
    /\ accepted \in Seq(Items)

Init ==
    /\ pc = [i \in Items |-> "idle"]
    /\ size = [i \in Items |-> 0]
    /\ confirmed = [i \in Items |-> FALSE]
    /\ receipt = [i \in Items |-> "pending"]
    /\ result = [i \in Items |-> "none"]
    /\ avail = Budget
    /\ queue = <<>>
    /\ loop = "running"
    /\ current = NoItem
    /\ wire = <<>>
    /\ torn = FALSE
    /\ reason = "none"
    /\ shutdown = FALSE
    /\ closing = "no"
    /\ accepted = <<>>

\* Bytes of a set of packets.
Bytes(S) == MapThenSumSet(LAMBDA i : size[i], S)

Queued == {queue[k] : k \in 1 .. Len(queue)}

-----------------------------------------------------------------------------
(* The callers: QueueWriter::send_with_completion and await_receipt.       *)

\* The call ends; a completion still in the caller's hands is dropped with the packet,
\* which tells its observer and its claim that the send failed.
Return(i, r) ==
    /\ pc' = [pc EXCEPT ![i] = "done"]
    /\ result' = [result EXCEPT ![i] = r]
    /\ UNCHANGED <<size, confirmed>>

DropCompletion(S) ==
    receipt' = [i \in Items |-> IF i \in S /\ receipt[i] = "pending" THEN "failed"
                                ELSE receipt[i]]

\* A call with a packet of n bytes, confirmed or detached.
BeginSend(i, n, c) ==
    /\ pc[i] = "idle"
    /\ pc' = [pc EXCEPT ![i] = "charging"]
    /\ size' = [size EXCEPT ![i] = n]
    /\ confirmed' = [confirmed EXCEPT ![i] = c]
    /\ UNCHANGED <<result, receipt, avail, queue, loopVars, closeVars, accepted>>

\* send returns when its bytes reached the socket, send_detached once they are queued;
\* without a connection both end before they get here.
Send(i, n) == BeginSend(i, n, TRUE)
SendDetached(i, n) == BeginSend(i, n, FALSE)

\* The packet is the queue's: a confirmed call awaits its receipt, a detached one
\* returns.
Enqueue(i) ==
    /\ queue' = Append(queue, i)
    /\ accepted' = Append(accepted, i)
    /\ IF confirmed[i]
       THEN pc' = [pc EXCEPT ![i] = "awaiting"] /\ UNCHANGED <<size, confirmed, result>>
       ELSE Return(i, "ok")
    /\ UNCHANGED receipt

\* The permits are granted and try_send follows at once.
Charge(i) ==
    /\ pc[i] = "charging"
    /\ size[i] <= Budget /\ size[i] <= avail
    /\ \/ /\ loop # "ended" /\ Len(queue) < Capacity
          /\ Enqueue(i)
          /\ avail' = avail - size[i]
       \/ /\ loop # "ended" /\ Len(queue) = Capacity
          /\ pc' = [pc EXCEPT ![i] = "queuing"]
          /\ avail' = avail - size[i]
          /\ UNCHANGED <<size, confirmed, result, receipt, queue, accepted>>
       \/ /\ loop = "ended"
          /\ Return(i, "err")
          /\ DropCompletion({i})
          /\ UNCHANGED <<avail, queue, accepted>>
    /\ UNCHANGED <<loopVars, closeVars>>

\* Other calls that wait at the same place: both waits are served in turn, so one may
\* time out behind another although there would be room for it.
Behind(i, place) == \E j \in Items \ {i} : pc[j] = place

\* Larger than the budget, or not charged within SEND_QUEUE_WAIT.
ChargeFails(i) ==
    /\ pc[i] = "charging"
    /\ size[i] > avail \/ Behind(i, "charging")
    /\ Return(i, "err")
    /\ DropCompletion({i})
    /\ UNCHANGED <<avail, queue, loopVars, closeVars, accepted>>

\* send_timeout: a slot becomes free,
EnqueueWaited(i) ==
    /\ pc[i] = "queuing"
    /\ loop # "ended" /\ Len(queue) < Capacity
    /\ Enqueue(i)
    /\ UNCHANGED <<avail, loopVars, closeVars>>

\* Mutant: a send reported as timed out stays queued.
TimeoutKeepsQueued(i) ==
    /\ pc[i] = "queuing"
    /\ loop # "ended" /\ Len(queue) < Capacity
    /\ Return(i, "err")
    /\ queue' = Append(queue, i)
    /\ accepted' = Append(accepted, i)
    /\ UNCHANGED <<receipt, avail, loopVars, closeVars>>

\* Mutant: the permits of a rejected packet stay taken.
EnqueueFailsLeaks(i) ==
    /\ pc[i] = "queuing"
    /\ Return(i, "err")
    /\ DropCompletion({i})
    /\ UNCHANGED <<avail, queue, loopVars, closeVars, accepted>>

\* or it does not within SEND_QUEUE_WAIT, or the queue is dropped.
EnqueueFails(i) ==
    /\ pc[i] = "queuing"
    /\ loop = "ended" \/ Len(queue) = Capacity \/ Behind(i, "queuing")
    /\ Return(i, "err")
    /\ DropCompletion({i})
    /\ avail' = avail + size[i]
    /\ UNCHANGED <<queue, loopVars, closeVars, accepted>>

\* await_receipt: the outcome reported, or an error when the completion was dropped.
AwaitReceipt(i) ==
    /\ pc[i] = "awaiting"
    /\ receipt[i] # "pending"
    /\ Return(i, IF receipt[i] = "ok" THEN "ok" ELSE "err")
    /\ UNCHANGED <<receipt, avail, queue, loopVars, closeVars, accepted>>

\* The caller drops the future.  A packet already enqueued stays enqueued.
Cancel(i) ==
    /\ pc[i] \in {"charging", "queuing", "awaiting"}
    /\ Return(i, "cancelled")
    /\ IF pc[i] = "awaiting" THEN UNCHANGED receipt ELSE DropCompletion({i})
    /\ avail' = avail + (IF pc[i] = "queuing" THEN size[i] ELSE 0)
    /\ UNCHANGED <<queue, loopVars, closeVars, accepted>>

-----------------------------------------------------------------------------
(* The event loop.                                                         *)

\* send_queue.recv: the next packet, when the last one is done with.
Take ==
    /\ loop = "running" /\ current = NoItem
    /\ queue # <<>>
    /\ current' = Head(queue)
    /\ queue' = Tail(queue)
    /\ UNCHANGED <<callVars, receipt, avail, loop, wire, torn, reason, closeVars, accepted>>

\* The completion gets the real result, and the packet is dropped with its permits.
Finish(outcome) ==
    /\ current' = NoItem
    /\ receipt' = [receipt EXCEPT ![current] = outcome]
    /\ avail' = avail + size[current]
    /\ UNCHANGED <<callVars, queue, closeVars, accepted>>

WriteOk ==
    /\ loop = "running" /\ current # NoItem
    /\ wire' = Append(wire, current)
    /\ Finish("ok")
    /\ UNCHANGED <<loop, torn, reason>>

\* Mutant: a failed write fails its own packet, and the loop goes on.
FailWriteGoesOn ==
    /\ loop = "running" /\ current # NoItem
    /\ Finish("failed")
    /\ torn' \in {torn, TRUE}
    /\ UNCHANGED <<wire, loop, reason>>

\* A failed write ends the loop: part of the frame may be on the socket.
FailWrite ==
    /\ loop = "running" /\ current # NoItem
    /\ Finish("failed")
    /\ torn' \in {torn, TRUE}
    /\ loop' = "leaving"
    /\ reason' = "Error"
    /\ UNCHANGED wire

\* Encoding or the socket fails,
WriteError == FailWrite

\* Mutant: a write may take for ever.
WriteUnbounded == FALSE

\* or write_deadline passes.
WriteDeadline == FailWrite

\* The other arm of the select wins: its reason is kept, and dropping the write future
\* drops the packet being written, wherever the write is.
Stop(r) ==
    /\ loop = "running"
    /\ loop' = "leaving"
    /\ reason' = r
    /\ IF current = NoItem
       THEN UNCHANGED <<receipt, avail, current, torn>>
       ELSE /\ current' = NoItem
            /\ DropCompletion({current})
            /\ avail' = avail + size[current]
            /\ torn' \in {torn, TRUE}
    /\ UNCHANGED <<callVars, queue, wire, closeVars, accepted>>

\* End of stream, a consumer that is gone; a read or framing error; the idle timer.
ReadEnds == Stop("Normal")
ReadFails == Stop("Error")
Idle == Stop("Timeout")

ShutdownSeen == shutdown /\ Stop("Normal")

\* event_pipe.close
PublishClose ==
    /\ loop = "leaving"
    /\ loop' = "closed"
    /\ UNCHANGED <<callVars, receipt, avail, queue, current, wire, torn, reason, closeVars,
                   accepted>>

\* The task ends: the queue is dropped with what is in it.  (The status it sets to
\* Closed is read by nobody on this path.)
LoopEnds ==
    /\ loop = "closed"
    /\ loop' = "ended"
    /\ queue' = <<>>
    /\ DropCompletion(Queued)
    /\ avail' = avail + Bytes(Queued)
    /\ UNCHANGED <<callVars, current, wire, torn, reason, closeVars, accepted>>

-----------------------------------------------------------------------------
(* The owner of the adapter: Connection::close, or dropping the adapter.   *)

\* close signals the loop and waits for its task.
CloseCalled ==
    /\ closing = "no" /\ ~ shutdown
    /\ closing' = "waiting"
    /\ shutdown' = TRUE
    /\ UNCHANGED <<callVars, receipt, avail, queue, loopVars, accepted>>

\* The event loop's task has ended.
CloseReturns ==
    /\ closing = "waiting"
    /\ loop = "ended"
    /\ closing' = "closed"
    /\ UNCHANGED <<callVars, receipt, avail, queue, loopVars, shutdown, accepted>>

\* graceful_timeout passes while close waits: the future is dropped, and the join handle
\* with it.
CloseTimeout ==
    /\ closing = "waiting"
    /\ closing' = "abandoned"
    /\ UNCHANGED <<callVars, receipt, avail, queue, loopVars, shutdown, accepted>>

\* The second close finds no handle to wait for.
CloseForced ==
    /\ closing = "abandoned"
    /\ closing' = "forced"
    /\ UNCHANGED <<callVars, receipt, avail, queue, loopVars, shutdown, accepted>>

\* The adapter is dropped without close (its slot was replaced): the shutdown channel
\* closes.
DropAdapter ==
    /\ closing = "no" /\ ~ shutdown
    /\ shutdown' = TRUE
    /\ UNCHANGED <<callVars, receipt, avail, queue, loopVars, closing, accepted>>

-----------------------------------------------------------------------------

Caller(i) ==
    \/ Charge(i) \/ ChargeFails(i)
    \/ EnqueueWaited(i) \/ EnqueueFails(i)
    \/ AwaitReceipt(i)

Teardown == ShutdownSeen \/ PublishClose \/ LoopEnds

Closer == CloseReturns \/ CloseTimeout \/ CloseForced

Next ==
    \/ \E i \in Items :
          \/ \E n \in Sizes : Send(i, n) \/ SendDetached(i, n)
          \/ Caller(i)
          \/ Cancel(i)
    \/ Take \/ WriteOk \/ WriteError \/ WriteDeadline
    \/ ReadEnds \/ ReadFails \/ Idle
    \/ Teardown
    \/ CloseCalled \/ Closer \/ DropAdapter

Spec == Init /\ [][Next]_vars

\* Tasks that can run are run and timers fire; the socket need not accept a byte, the
\* peer need not end the stream, and nobody need call close.
Fairness ==
    /\ \A i \in Items : WF_vars(Caller(i))
    /\ WF_vars(Take) /\ WF_vars(WriteDeadline)
    /\ WF_vars(Teardown)
    /\ WF_vars(CloseReturns)

FairSpec == Spec /\ Fairness

-----------------------------------------------------------------------------
(* Properties.                                                             *)

OnWire == {wire[k] : k \in 1 .. Len(wire)}

\* A result tells the truth about the wire, whatever was closing, failing or timing out
\* meanwhile: a confirmed send that returned Ok was written in full, and a send that
\* returned an error was not written and will not be (it is neither on the wire nor
\* anywhere it could still be written from), so that its caller may retry.
ResultsAreTrue ==
    \A i \in Items :
        /\ confirmed[i] /\ result[i] = "ok" => i \in OnWire
        /\ result[i] = "err" => i \notin OnWire \cup Queued \cup {current}

\* Frames go out in the order they were enqueued, none twice and none skipped.
FramesInOrder ==
    /\ IsPrefix(wire, accepted)
    /\ loop = "running" =>
          wire \o (IF current = NoItem THEN <<>> ELSE <<current>>) \o queue = accepted

\* The peer can parse the wire: frames are whole and in order, and nothing follows a
\* partial frame, which could not be told from the frame's rest.
WireIsReadable == [][FramesInOrder' /\ (torn => wire' = wire)]_vars

\* Permits cover exactly the packets that are waiting, queued or being written: whichever
\* way a packet leaves, it gives back what it took.
PermitsConserved ==
    avail + Bytes({i \in Items : pc[i] = "queuing"} \cup Queued
                  \cup ({current} \ {NoItem})) = Budget

\* A call returns, although the socket may take nothing, the queue be full and the
\* budget exhausted for ever: the waits are bounded and a dropped completion is seen.
\* So does close, even in the middle of a write the peer does not drain.
SendAndCloseReturn ==
    /\ \A i \in Items : pc[i] # "idle" ~> pc[i] = "done"
    /\ closing = "waiting" ~> closing # "waiting"

=============================================================================
