--------------------------- MODULE ServerSession ---------------------------
(***************************************************************************)
(* One session of a TransportServer, from the accepted connection to the   *)
(* release of its permit: add_session_with_permit, the actor, the pump and *)
(* the supervisor it spawns, the sends, requests, broadcasts and closes    *)
(* that other tasks aim at the session, and the shutdown that cancels it   *)
(* (transport/transport_server.rs, transport/session_actor.rs).            *)
(*                                                                         *)
(* A step ends where a task may be suspended or where another task can see *)
(* its effect.  The connection is open or closed and its event pipe is a   *)
(* queue that ends with one closed event (EventPipe); a write is accepted, *)
(* refused as busy, or finds the connection dead (Outbound); the registry  *)
(* is only open or closed for this session (RequestRegistry).              *)
(***************************************************************************)
EXTENDS Integers, Sequences, FiniteSets

CONSTANTS
    MaxIn,       \* bound: packets the peer sends
    Kinds,       \* the kinds of packets it sends
    Mailbox,     \* actor_buffer_size
    Batch,       \* BATCH_SIZE
    Senders,     \* tasks that call send
    Requesters,  \* tasks that call request
    Casters,     \* tasks that call broadcast
    Closers,     \* tasks that call close_session or force_close_session
    Nested,      \* the closers that run inside a handler callback
    MayPanic     \* may a handler callback panic?

ASSUME SessionAssumption ==
    /\ MaxIn \in Nat
    /\ Kinds \subseteq {"message", "request", "response"}
    /\ Mailbox \in Nat \ {0}
    /\ Batch \in Nat \ {0}
    /\ Nested \subseteq Closers
    /\ MayPanic \in BOOLEAN

Callers == Senders \cup Requesters \cup Casters \cup Closers
NoOne == "none"

\* What travels through the pipe and the mailbox: n numbers the peer's packets,
\* by is the caller a command came from.
Inbound(k, n) == [kind |-> k, n |-> n, by |-> NoOne]
Closed == [kind |-> "closed", n |-> 0, by |-> NoOne]
SendWithReply(c) == [kind |-> "reply", n |-> 0, by |-> c]
Send(c) == [kind |-> "cast", n |-> 0, by |-> c]
NoEvent == [kind |-> "none", n |-> 0, by |-> NoOne]

VARIABLES
    \* the server
    gate,        \* admission_open
    rootCancel,  \* root_cancel
    transports,  \* does the session have an entry in transports?
    handles,     \* ... in session_handles?
    cstate,      \* its connection state: "none", "connected", "closing", "closed"
    tracking,    \* is the registry open for the session?
    permit,      \* is its connection permit taken?
    \* the connection
    conn,        \* "open" or "closed"
    pipe,        \* its event pipe
    sent,        \* packets the peer has sent
    \* the session's tasks
    adding,      \* add_session_with_permit: "gate", "refusing", "refused", "insert",
                 \* "track", "spawn", "recheck", "done"
    cancel,      \* has the supervisor cancelled the session's token?
    mailbox,     \* the actor's channel
    actor,       \* "none", "connecting", "receiving", "batch", "handler",
                 \* "final" (in on_disconnected), "done"
    batch,       \* messages received and not yet processed
    stopping,    \* should_break
    panicked,    \* did a callback panic?
    pump,        \* "none", "next", "forward", "teardown", "done"
    pumped,      \* the event the pump is forwarding
    supervisor,  \* "none", "waiting", "cleaning", "done"
    offered,     \* shutdown: "idle", "gated", "cancelled"
    \* the callers
    call,        \* what each caller is doing
    reply,       \* its command's reply: "none", "ok", "busy", "dead", "dropped" (with
                 \* its sender) or "left" (in a mailbox without a receiver)
    waiter,      \* a request's waiter: "none", "armed", "answered" or "closed"
    \* observation of the application's callbacks
    stage,       \* as in SessionContract
    last,        \* as in SessionContract
    settled,     \* packets handled, completing a waiter or refused by the registry
    forced       \* was the session ended by anything but the connection's end?

serverVars == <<gate, rootCancel, transports, handles, cstate, tracking, permit>>
connVars == <<conn, pipe, sent>>
actorVars == <<actor, batch, stopping, panicked>>
pumpVars == <<pump, pumped>>
callVars == <<call, reply, waiter>>
seenVars == <<stage, last, settled, forced>>
vars == <<serverVars, connVars, adding, cancel, mailbox, actorVars, pumpVars,
          supervisor, offered, callVars, seenVars>>

Init ==
    /\ gate = TRUE
    /\ rootCancel = FALSE
    /\ transports = FALSE
    /\ handles = FALSE
    /\ cstate = "none"
    /\ tracking = FALSE
    /\ permit = TRUE
    /\ conn = "open"
    /\ pipe = <<>>
    /\ sent = 0
    /\ adding = "gate"
    /\ cancel = FALSE
    /\ mailbox = <<>>
    /\ actor = "none"
    /\ batch = <<>>
    /\ stopping = FALSE
    /\ panicked = FALSE
    /\ pump = "none"
    /\ pumped = NoEvent
    /\ supervisor = "none"
    /\ offered = "idle"
    /\ call = [c \in Callers |-> "idle"]
    /\ reply = [c \in Callers |-> "none"]
    /\ waiter = [c \in Requesters |-> "none"]
    /\ stage = "accepted"
    /\ last = 0
    /\ settled = {}
    /\ forced = FALSE

Cancelled == cancel \/ rootCancel
RxAlive == actor \notin {"final", "done"}
Room == Len(mailbox) < Mailbox

-----------------------------------------------------------------------------
(* The connection: packets and its end, seen through the event pipe.       *)

PeerSends ==
    /\ conn = "open"
    /\ sent < MaxIn
    /\ sent' = sent + 1
    /\ \E k \in Kinds : pipe' = Append(pipe, Inbound(k, sent + 1))
    /\ UNCHANGED <<serverVars, conn, adding, cancel, mailbox, actorVars, pumpVars,
                   supervisor, offered, callVars, seenVars>>

\* transport.disconnect, or the connection's own end: the pipe ends with one
\* closed event.
CloseConnection ==
    IF conn = "open"
      THEN conn' = "closed" /\ pipe' = Append(pipe, Closed) /\ UNCHANGED sent
      ELSE UNCHANGED connVars

ConnectionEnds ==
    /\ conn = "open"
    /\ CloseConnection
    /\ UNCHANGED <<serverVars, adding, cancel, mailbox, actorVars, pumpVars,
                   supervisor, offered, callVars, seenVars>>

\* The tasks and maps that keep the Transport, and with it the connection, alive.
Held ==
    \/ transports
    \/ handles
    \/ adding \notin {"done", "refused"}
    \/ RxAlive /\ actor # "none"
    \/ pump \in {"next", "forward"}
    \/ \E c \in Callers : call[c] \in {"enqueue", "reply", "direct", "notify", "disconnect"}

\* Nobody holds the Transport: dropping it drops the connection and its adapter.
DropTransport ==
    /\ ~Held
    /\ conn = "open"
    /\ conn' = "closed"
    /\ UNCHANGED <<serverVars, pipe, sent, adding, cancel, mailbox, actorVars, pumpVars,
                   supervisor, offered, callVars, seenVars>>

-----------------------------------------------------------------------------
(* add_session_with_permit, in the listener's task.                        *)

\* The gate is closed: the connection is closed, and that is awaited.
GateRefuses ==
    /\ adding = "gate"
    /\ ~gate
    /\ adding' = "refusing"
    /\ UNCHANGED <<serverVars, connVars, cancel, mailbox, actorVars, pumpVars,
                   supervisor, offered, callVars, seenVars>>

\* Its close() returned, which a QUIC peer that opens no stream can prevent for as long
\* as it stays: the permit drops with the early return.
RefusalReturns ==
    /\ adding = "refusing"
    /\ adding' = "refused"
    /\ permit' = FALSE
    /\ conn' = "closed"
    /\ stage' = "released"
    /\ UNCHANGED <<gate, rootCancel, transports, handles, cstate, tracking, pipe, sent,
                   cancel, mailbox, actorVars, pumpVars, supervisor, offered, callVars,
                   last, settled, forced>>

GateAdmits ==
    /\ adding = "gate"
    /\ gate
    /\ adding' = "insert"
    /\ UNCHANGED <<serverVars, connVars, cancel, mailbox, actorVars, pumpVars,
                   supervisor, offered, callVars, seenVars>>

InsertTransport ==
    /\ adding = "insert"
    /\ transports' = TRUE
    /\ adding' = "track"
    /\ UNCHANGED <<gate, rootCancel, handles, cstate, tracking, permit, connVars, cancel,
                   mailbox, actorVars, pumpVars, supervisor, offered, callVars, seenVars>>

\* state_manager.add_connection and request_registry.open_session.
TrackSession ==
    /\ adding = "track"
    /\ cstate' = "connected"
    /\ tracking' = TRUE
    /\ adding' = "spawn"
    /\ UNCHANGED <<gate, rootCancel, transports, handles, permit, connVars, cancel,
                   mailbox, actorVars, pumpVars, supervisor, offered, callVars, seenVars>>

\* The handle is published and the actor, the pump and the supervisor are spawned;
\* the actor's first act is to call on_connected.
SpawnTasks ==
    /\ adding = "spawn"
    /\ handles' = TRUE
    /\ actor' = "connecting"
    /\ stage' = "connected"
    /\ pump' = "next"
    /\ supervisor' = "waiting"
    /\ adding' = "recheck"
    /\ UNCHANGED <<gate, rootCancel, transports, cstate, tracking, permit, connVars, cancel,
                   mailbox, batch, stopping, panicked, pumped, offered, callVars, last,
                   settled, forced>>

\* A shutdown that began after the gate was passed: the session cancels itself.
Recheck ==
    /\ adding = "recheck"
    /\ adding' = "done"
    /\ cancel' = (cancel \/ ~gate)
    /\ forced' = (forced \/ ~gate)
    /\ UNCHANGED <<serverVars, connVars, mailbox, actorVars, pumpVars, supervisor, offered,
                   callVars, stage, last, settled>>

-----------------------------------------------------------------------------
(* Ending the session's bookkeeping.                                       *)

\* close_session_pending: the registry refuses the session from now on and its
\* waiters fail.
ClosePending ==
    /\ tracking' = FALSE
    /\ waiter' = [c \in Requesters |-> IF waiter[c] = "armed" THEN "closed" ELSE waiter[c]]

RemoveEntries ==
    /\ transports' = FALSE
    /\ handles' = FALSE
    /\ cstate' = "none"

KeepEntries == UNCHANGED <<transports, handles, cstate>>

RemoveSession == ClosePending /\ RemoveEntries

-----------------------------------------------------------------------------
(* The actor: run and run_loop.                                            *)

actorFrame == <<gate, rootCancel, transports, handles, cstate, tracking, permit, connVars,
                adding, cancel, pumpVars, supervisor, offered, call, waiter>>

\* Is a callback waiting for a call it made into the server?
CallbackBusy == \E c \in Nested : call[c] \notin {"idle", "done"}

\* on_connected, on_message or on_request returns.
CallbackReturns ==
    /\ actor \in {"connecting", "handler"}
    /\ ~CallbackBusy
    /\ actor' = IF actor = "connecting" THEN "receiving" ELSE "batch"
    /\ UNCHANGED <<actorFrame, mailbox, batch, stopping, panicked, reply, seenVars>>

\* Does caller c wait for the reply to a command in s?
Awaits(c, s) == \E i \in DOMAIN s : s[i] = SendWithReply(c)

\* Mutant: the rest of the batch outlives the loop.
EndLoopSilent ==
    /\ actor' = "final"
    /\ stage' = "disconnected"
    /\ mailbox' = <<>>
    /\ batch' = <<>>
    /\ reply' = [c \in Callers |-> IF Awaits(c, mailbox) THEN "left" ELSE reply[c]]
    /\ UNCHANGED <<stopping, last, settled>>

\* run_loop ends and on_disconnected is called.  The rest of the batch is dropped, and
\* the reply senders with it.  The mailbox loses its only receiver, so nothing is read
\* from it or put into it any more; but flume keeps what is queued while a Sender lives,
\* and the caller that awaits the reply holds one: that reply is left for good.
EndLoop ==
    /\ actor' = "final"
    /\ stage' = "disconnected"
    /\ mailbox' = <<>>
    /\ batch' = <<>>
    /\ reply' = [c \in Callers |->
                    IF Awaits(c, batch) THEN "dropped"
                    ELSE IF Awaits(c, mailbox) THEN "left" ELSE reply[c]]
    /\ UNCHANGED <<stopping, last, settled>>

CallbackPanics ==
    /\ MayPanic
    /\ actor \in {"connecting", "handler"}
    /\ ~CallbackBusy
    /\ EndLoop
    /\ panicked' = TRUE
    /\ forced' = TRUE
    /\ UNCHANGED actorFrame

\* Mutant: a cancelled actor ends without on_disconnected.
ActorCancelledMute ==
    /\ actor = "receiving"
    /\ Cancelled
    /\ actor' = "done"
    /\ mailbox' = <<>>
    /\ batch' = <<>>
    /\ reply' = [c \in Callers |-> IF Awaits(c, mailbox) THEN "left" ELSE reply[c]]
    /\ UNCHANGED <<actorFrame, stopping, panicked, seenVars>>

ActorCancelled ==
    /\ actor = "receiving"
    /\ Cancelled
    /\ EndLoop
    /\ UNCHANGED <<actorFrame, panicked, forced>>

\* Every sender of the mailbox is gone.
ActorOrphaned ==
    /\ actor = "receiving"
    /\ mailbox = <<>>
    /\ ~handles
    /\ pump = "done"
    /\ \A c \in Callers : call[c] \notin {"enqueue", "reply", "notify"}
    /\ EndLoop
    /\ UNCHANGED <<actorFrame, panicked, forced>>

\* Wait for one message, then take what is there, BATCH_SIZE at most.
Receive ==
    /\ actor = "receiving"
    /\ mailbox # <<>>
    /\ LET k == IF Len(mailbox) < Batch THEN Len(mailbox) ELSE Batch
       IN  /\ batch' = SubSeq(mailbox, 1, k)
           /\ mailbox' = SubSeq(mailbox, k + 1, Len(mailbox))
    /\ actor' = "batch"
    /\ UNCHANGED <<actorFrame, stopping, panicked, reply, seenVars>>

\* The first message of the rest of the batch, when the actor still runs.
Current(kinds) ==
    /\ actor = "batch"
    /\ batch # <<>>
    /\ ~stopping
    /\ Head(batch).kind \in kinds
    /\ batch' = Tail(batch)

\* A message behind the terminal event: a pending reply fails, the rest is skipped.
SkipAfterClose ==
    /\ actor = "batch"
    /\ batch # <<>>
    /\ stopping
    /\ batch' = Tail(batch)
    /\ reply' = [c \in Callers |-> IF Head(batch) = SendWithReply(c) THEN "dead" ELSE reply[c]]
    /\ UNCHANGED <<actorFrame, mailbox, actor, stopping, panicked, seenVars>>

\* on_message, or on_request when the registry takes the request.
Dispatch ==
    /\ Current(Kinds)
    /\ Head(batch).kind = "request" => tracking
    /\ actor' = "handler"
    /\ last' = Head(batch).n
    /\ settled' = settled \cup {Head(batch).n}
    /\ UNCHANGED <<actorFrame, mailbox, stopping, panicked, reply, stage, forced>>

\* The registry refuses a request of a session it does not track, and one whose id is
\* still in flight.
RefuseRequest ==
    /\ Current({"request"})
    /\ settled' = settled \cup {Head(batch).n}
    /\ UNCHANGED <<actorFrame, mailbox, actor, stopping, panicked, reply, stage, last, forced>>

MeetClosed ==
    /\ Current({"closed"})
    /\ stopping' = TRUE
    /\ UNCHANGED <<actorFrame, mailbox, actor, panicked, reply, seenVars>>

\* What a write to the connection may return.
WriteResults == IF conn = "open" THEN {"ok", "busy"} ELSE {"dead"}

\* Write-confirmed send with its reply; a broadcast's write reports to nobody.
WriteForCaller ==
    /\ Current({"reply"})
    /\ \E r \in WriteResults : reply' = [reply EXCEPT ![Head(batch).by] = r]
    /\ UNCHANGED <<actorFrame, mailbox, actor, stopping, panicked, seenVars>>

WriteBroadcast ==
    /\ Current({"cast"})
    /\ UNCHANGED <<actorFrame, mailbox, actor, stopping, panicked, reply, seenVars>>

BatchDone ==
    /\ actor = "batch"
    /\ batch = <<>>
    /\ IF stopping
         THEN EndLoop
         ELSE actor' = "receiving" /\ UNCHANGED <<mailbox, batch, stopping, reply, stage, last, settled>>
    /\ UNCHANGED <<actorFrame, panicked, forced>>

\* on_disconnected returns; a panic is resumed and ends the task abnormally.
ActorEnds ==
    /\ actor = "final"
    /\ actor' = "done"
    /\ UNCHANGED <<actorFrame, mailbox, batch, stopping, panicked, reply, seenVars>>

ActorStep ==
    \/ CallbackReturns \/ ActorCancelled \/ ActorOrphaned \/ Receive
    \/ SkipAfterClose \/ Dispatch \/ RefuseRequest \/ MeetClosed \/ WriteForCaller
    \/ WriteBroadcast \/ BatchDone \/ ActorEnds

-----------------------------------------------------------------------------
(* The pump: pump_one_event and pump_teardown.                             *)

pumpFrame == <<gate, rootCancel, permit, conn, sent, adding, cancel, actorVars, supervisor,
               offered, call, reply>>

PumpCancelled ==
    /\ pump \in {"next", "forward"}
    /\ Cancelled
    /\ pump' = "teardown"
    /\ pumped' = NoEvent
    /\ UNCHANGED <<pumpFrame, transports, handles, cstate, tracking, pipe, mailbox, waiter, seenVars>>

\* A response that finds its waiter completes it and goes no further.
PumpCompletes(c) ==
    /\ pump = "next"
    /\ pipe # <<>>
    /\ Head(pipe).kind = "response"
    /\ waiter[c] = "armed"
    /\ waiter' = [waiter EXCEPT ![c] = "answered"]
    /\ pipe' = Tail(pipe)
    /\ settled' = settled \cup {Head(pipe).n}
    /\ UNCHANGED <<pumpFrame, transports, handles, cstate, tracking, mailbox, pumpVars,
                   stage, last, forced>>

PumpTakes ==
    /\ pump = "next"
    /\ pipe # <<>>
    /\ pumped' = Head(pipe)
    /\ pipe' = Tail(pipe)
    /\ pump' = "forward"
    /\ UNCHANGED <<pumpFrame, transports, handles, cstate, tracking, mailbox, waiter, seenVars>>

\* Mutant: an event that finds the mailbox full is dropped.
PumpForwardsLossy ==
    /\ pump = "forward"
    /\ mailbox' = IF RxAlive /\ Room THEN Append(mailbox, pumped) ELSE mailbox
    /\ pump' = IF RxAlive /\ pumped # Closed THEN "next" ELSE "teardown"
    /\ pumped' = NoEvent
    /\ UNCHANGED <<pumpFrame, transports, handles, cstate, tracking, pipe, waiter, seenVars>>

\* The mailbox has room, or the actor is gone; the close event is the last one.
PumpForwards ==
    /\ pump = "forward"
    /\ IF RxAlive
         THEN /\ Room
              /\ mailbox' = Append(mailbox, pumped)
              /\ pump' = IF pumped = Closed THEN "teardown" ELSE "next"
         ELSE pump' = "teardown" /\ UNCHANGED mailbox
    /\ pumped' = NoEvent
    /\ UNCHANGED <<pumpFrame, transports, handles, cstate, tracking, pipe, waiter, seenVars>>

PumpTeardown ==
    /\ pump = "teardown"
    /\ pump' = "done"
    /\ ClosePending
    /\ IF transports THEN RemoveEntries ELSE KeepEntries
    /\ UNCHANGED <<pumpFrame, pipe, mailbox, pumped, seenVars>>

PumpStep ==
    \/ PumpCancelled \/ PumpTakes \/ PumpForwards \/ PumpTeardown
    \/ \E c \in Requesters : PumpCompletes(c)

-----------------------------------------------------------------------------
(* The supervisor, in the session tracker.                                 *)

\* Mutant: the pump of a panicked actor is left waiting for its connection.
SupervisorWaits ==
    /\ supervisor = "waiting"
    /\ actor = "done"
    /\ panicked
    /\ ~cancel
    /\ conn = "closed"
    /\ cancel' = TRUE
    /\ UNCHANGED <<serverVars, connVars, adding, mailbox, actorVars, pumpVars, supervisor,
                   offered, callVars, seenVars>>

\* The actor ended abnormally: its sibling is cancelled.
SupervisorCancels ==
    /\ supervisor = "waiting"
    /\ actor = "done"
    /\ panicked
    /\ ~cancel
    /\ cancel' = TRUE
    /\ UNCHANGED <<serverVars, connVars, adding, mailbox, actorVars, pumpVars, supervisor,
                   offered, callVars, seenVars>>

\* Mutant: the supervisor trusts the pump to have cleaned the maps.
SupervisorTrustsPump ==
    /\ supervisor = "waiting"
    /\ actor = "done"
    /\ pump = "done"
    /\ supervisor' = "done"
    /\ permit' = FALSE
    /\ stage' = "released"
    /\ UNCHANGED <<gate, rootCancel, transports, handles, cstate, tracking, waiter, connVars,
                   adding, cancel, mailbox, actorVars, pumpVars, offered, call, reply, last,
                   settled, forced>>

\* Both tasks are joined: the maps are cleaned and the permit drops.
SupervisorFinalises ==
    /\ supervisor = "waiting"
    /\ actor = "done"
    /\ pump = "done"
    /\ RemoveSession
    /\ supervisor' = "done"
    /\ permit' = FALSE
    /\ stage' = "released"
    /\ UNCHANGED <<gate, rootCancel, connVars, adding, cancel, mailbox, actorVars, pumpVars,
                   offered, call, reply, last, settled, forced>>

-----------------------------------------------------------------------------
(* shutdown_with_timeout, as far as it touches this session.               *)

shutdownFrame == <<transports, handles, cstate, tracking, permit, connVars, adding, cancel,
                   actorVars, pumpVars, supervisor, callVars, stage, last, settled>>

ShutdownGate ==
    /\ offered = "idle"
    /\ offered' = "gated"
    /\ gate' = FALSE
    /\ UNCHANGED <<shutdownFrame, rootCancel, mailbox, forced>>

\* A non-blocking offer of a close (dropped when the mailbox is full or closed),
\* then the cancellation that does not depend on it.
ShutdownCancels ==
    /\ offered = "gated"
    /\ offered' = "cancelled"
    /\ mailbox' = IF handles /\ RxAlive /\ Room THEN Append(mailbox, Closed) ELSE mailbox
    /\ rootCancel' = TRUE
    /\ forced' = TRUE
    /\ UNCHANGED <<shutdownFrame, gate>>

-----------------------------------------------------------------------------
(* send, request and broadcast: send_to_session, request_to_session and    *)
(* SessionHandle::enqueue.                                                 *)

callFrame == <<gate, rootCancel, permit, adding, cancel, actorVars, pumpVars, supervisor,
               offered, stage, last, settled>>
sendFrame == <<callFrame, connVars, forced>>

Goto(c, pc) == call' = [call EXCEPT ![c] = pc]

\* The request's guard drops its waiter on every failure.
Abort(c) ==
    waiter' = IF c \in Requesters /\ waiter[c] = "armed"
                THEN [waiter EXCEPT ![c] = "none"] ELSE waiter

\* A call ends with an error that leaves the session in place.
Fail(c) ==
    /\ Goto(c, "done")
    /\ Abort(c)
    /\ KeepEntries
    /\ UNCHANGED tracking

\* A connection error removes the session; a broadcast only reports it.
FailDead(c) ==
    IF c \in Casters THEN Fail(c) ELSE Goto(c, "done") /\ RemoveSession

\* Through the actor, else straight through the Transport.
Route == IF handles THEN "enqueue" ELSE "direct"

\* send and send_with_options: "Session not found" without a handle or a Transport.
StartSend(c) ==
    /\ call[c] = "idle"
    /\ Goto(c, IF handles \/ transports THEN Route ELSE "done")
    /\ UNCHANGED <<sendFrame, transports, handles, cstate, tracking, mailbox, reply, waiter>>

\* broadcast goes to the sessions that have a handle, and only through it.
StartBroadcast(c) ==
    /\ call[c] = "idle"
    /\ Goto(c, IF handles THEN "enqueue" ELSE "done")
    /\ UNCHANGED <<sendFrame, transports, handles, cstate, tracking, mailbox, reply, waiter>>

\* request and request_with_options take an id, which the registry refuses for a
\* session that it does not track.
AllocateRequestId(c) ==
    /\ call[c] = "idle"
    /\ Goto(c, IF tracking THEN "register" ELSE "done")
    /\ UNCHANGED <<sendFrame, transports, handles, cstate, tracking, mailbox, reply, waiter>>

\* request_to_session: the session may have gone since, from the map or from the
\* registry, where try_register_waiter looks for it again.
RegisterRequest(c) ==
    /\ call[c] = "register"
    /\ IF transports /\ tracking
         THEN Goto(c, Route) /\ waiter' = [waiter EXCEPT ![c] = "armed"]
         ELSE Goto(c, "done") /\ UNCHANGED waiter
    /\ UNCHANGED <<sendFrame, transports, handles, cstate, tracking, mailbox, reply>>

Enqueue(c) ==
    /\ call[c] = "enqueue"
    /\ IF RxAlive
         THEN /\ Room
              /\ mailbox' = Append(mailbox, IF c \in Casters THEN Send(c) ELSE SendWithReply(c))
              /\ Goto(c, IF c \in Casters THEN "done" ELSE "reply")
              /\ KeepEntries
              /\ UNCHANGED <<tracking, waiter>>
         ELSE FailDead(c) /\ UNCHANGED mailbox
    /\ UNCHANGED <<sendFrame, reply>>

\* SEND_QUEUE_WAIT elapses on a full mailbox.
EnqueueTimesOut(c) ==
    /\ call[c] = "enqueue"
    /\ RxAlive
    /\ ~Room
    /\ Fail(c)
    /\ UNCHANGED <<sendFrame, mailbox, reply>>

\* The write was confirmed: a send is done, a request waits for its response.
Written(c) ==
    /\ Goto(c, IF c \in Requesters THEN "await" ELSE "done")
    /\ KeepEntries
    /\ UNCHANGED <<tracking, waiter>>

TakeReply(c) ==
    /\ call[c] = "reply"
    /\ reply[c] \notin {"none", "left"}
    /\ \/ reply[c] = "ok" /\ Written(c)
       \/ reply[c] = "busy" /\ Fail(c)
       \/ reply[c] \in {"dead", "dropped"} /\ FailDead(c)
    /\ reply' = [reply EXCEPT ![c] = "none"]
    /\ UNCHANGED <<sendFrame, mailbox>>

\* The fallback: is_connected, then a write-confirmed send outside the actor.
WriteDirect(c) ==
    /\ call[c] = "direct"
    /\ \E r \in WriteResults :
         CASE r = "ok"   -> Written(c)
           [] r = "busy" -> Fail(c)
           [] r = "dead" -> FailDead(c)
    /\ UNCHANGED <<sendFrame, mailbox, reply>>

\* The response, the session's end, or the response timeout ends a request.
RequestEnds(c) ==
    /\ call[c] = "await"
    /\ Goto(c, "done")
    /\ waiter' = [waiter EXCEPT ![c] = "none"]
    /\ UNCHANGED <<sendFrame, transports, handles, cstate, tracking, mailbox, reply>>

-----------------------------------------------------------------------------
(* close_session, force_close_session and close_all_sessions.              *)

\* try_start_closing, then the actor's handle; a closer inside a callback starts
\* only while one runs.
StartClose(c) ==
    /\ call[c] \in {"idle", "turn"}
    /\ c \in Nested => actor \in {"connecting", "handler"}
    /\ IF cstate = "connected"
         THEN /\ cstate' = "closing"
              /\ Goto(c, IF handles THEN "notify" ELSE "disconnect")
              /\ forced' = TRUE
         ELSE Goto(c, "done") /\ UNCHANGED <<cstate, forced>>
    /\ UNCHANGED <<callFrame, connVars, transports, handles, tracking, mailbox, reply, waiter>>

\* close_all_sessions lists the sessions and closes one after the other, by force once
\* graceful_timeout has passed; the turn of this one may come when it is gone.
CloseAllSessions(c) ==
    /\ call[c] = "idle"
    /\ c \in Nested => actor \in {"connecting", "handler"}
    /\ Goto(c, IF transports THEN "turn" ELSE "done")
    /\ UNCHANGED <<sendFrame, transports, handles, cstate, tracking, mailbox, reply, waiter>>

\* notify_actor_closed: waits for room in the mailbox as long as it takes.
NotifyActorClosed(c) ==
    /\ call[c] = "notify"
    /\ RxAlive => Room
    /\ mailbox' = IF RxAlive THEN Append(mailbox, Closed) ELSE mailbox
    /\ Goto(c, "disconnect")
    /\ UNCHANGED <<sendFrame, transports, handles, cstate, tracking, reply, waiter>>

Disconnect(c) ==
    /\ call[c] = "disconnect"
    /\ IF transports THEN CloseConnection ELSE UNCHANGED connVars
    /\ Goto(c, "clean")
    /\ UNCHANGED <<callFrame, forced, transports, handles, cstate, tracking, mailbox, reply, waiter>>

\* mark_closed, then remove_session.
CleanUp(c) ==
    /\ call[c] = "clean"
    /\ Goto(c, "done")
    /\ RemoveSession
    /\ UNCHANGED <<sendFrame, mailbox, reply>>

CallerStep(c) ==
    \/ c \notin Closers /\ (Enqueue(c) \/ EnqueueTimesOut(c) \/ TakeReply(c) \/ WriteDirect(c))
    \/ c \in Requesters /\ (RegisterRequest(c) \/ RequestEnds(c))
    \/ c \in Closers /\ call[c] = "turn" /\ StartClose(c)
    \/ c \in Closers /\ (NotifyActorClosed(c) \/ Disconnect(c) \/ CleanUp(c))

CallerStarts(c) ==
    \/ c \in Requesters /\ AllocateRequestId(c)
    \/ c \in Senders /\ StartSend(c)
    \/ c \in Casters /\ StartBroadcast(c)
    \/ c \in Closers /\ call[c] = "idle" /\ (StartClose(c) \/ CloseAllSessions(c))

-----------------------------------------------------------------------------
AddStep ==
    \/ GateRefuses \/ GateAdmits \/ InsertTransport \/ TrackSession \/ SpawnTasks
    \/ Recheck

\* What happens without anyone having to decide it.
SystemStep ==
    \/ AddStep
    \/ ActorStep
    \/ PumpStep
    \/ SupervisorCancels
    \/ SupervisorFinalises
    \/ ShutdownCancels
    \/ DropTransport
    \/ \E c \in Callers : CallerStep(c)

Next ==
    \/ SystemStep
    \/ PeerSends
    \/ ConnectionEnds
    \/ RefusalReturns
    \/ CallbackPanics
    \/ ShutdownGate
    \/ \E c \in Callers : CallerStarts(c)

Spec == Init /\ [][Next]_vars

\* Every task of the session is scheduled, callbacks return, and a shutdown or a
\* call that began goes on; the peer, the application and panics owe nothing, and so
\* neither does the close of a refused connection.
Fairness ==
    /\ WF_vars(AddStep)
    /\ WF_vars(ActorStep)
    /\ WF_vars(PumpStep)
    /\ WF_vars(SupervisorCancels)
    /\ WF_vars(SupervisorFinalises)
    /\ WF_vars(ShutdownCancels)
    /\ WF_vars(DropTransport)
    /\ \A c \in Callers : WF_vars(CallerStep(c))

FairSpec == Spec /\ Fairness

-----------------------------------------------------------------------------
(* Properties.                                                             *)

\* The session implements its contract: on_connected is the first callback, packets
\* reach the handler in the peer's order, on_disconnected is called exactly once and
\* last (whether the peer, a close, a shutdown or a panic ended the session), and the
\* permit returns after it.
Contract == INSTANCE SessionContract WITH
    stage <- stage,
    last <- last
ImplementsContract == Contract!Spec

\* Once the supervisor is done nothing of the session is left and nothing returns:
\* no map entry, no open request tracking, no waiter, no task, no permit; although the
\* session may have been removed while it was still being added.
ReleasedIsClean ==
    supervisor = "done" =>
        /\ ~permit /\ ~transports /\ ~handles /\ ~tracking
        /\ cstate = "none"
        /\ actor = "done" /\ pump = "done"
        /\ \A c \in Requesters : waiter[c] # "armed"

\* A connection that ended by itself loses nothing: when on_disconnected is called,
\* every packet has reached the handler, completed a waiter or been refused by the
\* registry.
PeerCloseLosesNothing ==
    actor \in {"final", "done"} /\ ~forced => settled = 1 .. sent

\* Every send, request, broadcast and close that began returns to its caller, also when
\* the session ends, is cancelled or panics with the command in a batch, and whatever the
\* mailbox holds.  The one exception is a command that is still in the mailbox when the
\* loop ends: its caller waits for good.
CallsReturn ==
    \A c \in Callers : call[c] # "idle" ~> call[c] = "done" \/ reply[c] = "left"

\* Once the connection ended, the session was cancelled or a callback panicked, the
\* session is finalised and its permit returns.
SessionEnds ==
    (supervisor # "none" /\ (conn = "closed" \/ Cancelled \/ panicked)) ~> supervisor = "done"

\* A handler may close its own session, as the documentation of on_connected advises:
\* the call returns and the session ends.
CloseFromHandlerReturns ==
    \A c \in Nested : call[c] # "idle" ~> call[c] = "done"
=============================================================================
