-------------------------- MODULE ClientTransport --------------------------
(***************************************************************************)
(* A TransportClient (transport/client.rs) over its Transport              *)
(* (transport/transport.rs) and ConnectionStateManager                     *)
(* (transport/connection_state.rs): the connection slot and its            *)
(* generations, connect, disconnect, shutdown and drop, the consumer task  *)
(* of each connection, the forwarding task and the event stream, and the   *)
(* responses the application writes to requests of an older generation.    *)
(*                                                                         *)
(* connect takes &mut self and everything else &self, so connect excludes  *)
(* every other call of the client; the tasks of older generations, the     *)
(* teardown task and the requests the application holds still run beside   *)
(* it.  A step ends where a task may be suspended or its effect be seen by *)
(* another task, and the application may drop the future of connect or     *)
(* disconnect at any of its awaits.  An adapter is up, told to stop, or    *)
(* down; what it does in between is the subject of EventPipe and Outbound, *)
(* and the registry's sessions are only open or closed here                *)
(* (RequestRegistry).  A response that finds its waiter is taken by it and *)
(* leaves no trace.                                                        *)
(***************************************************************************)
EXTENDS Integers, Sequences, FiniteSets

CONSTANTS
    MaxGen,      \* bound: connections established in a behaviour
    MaxMsgs,     \* bound: messages the peer sends on one connection
    MaxTalkers,  \* bound: connections on which it sends any
    Kinds,       \* the kinds of packets it sends
    Capacity,    \* pipe_capacity, of both queues between consumer and application
    MaxDrops     \* bound: futures of connect and disconnect the application drops

ASSUME ClientAssumption ==
    /\ MaxGen \in Nat
    /\ MaxMsgs \in Nat /\ MaxTalkers \in Nat
    /\ Kinds \subseteq {"message", "request"}
    /\ Capacity \in Nat \ {0}
    /\ MaxDrops \in Nat

None == 0
Gens == 1 .. MaxGen

\* Events of generation g: n orders what the peer and the adapter did.
Connected(g) == [kind |-> "connected", gen |-> g, n |-> 0]
Message(g, k, n) == [kind |-> k, gen |-> g, n |-> n]
Closed(g) == [kind |-> "closed", gen |-> g, n |-> MaxMsgs + 1]
Events == [kind : Kinds \cup {"connected", "closed"}, gen : Gens, n : 0 .. MaxMsgs + 1]
NoEvent == [kind |-> "none", gen |-> None, n |-> 0]

\* The tasks that run close_session: a call of disconnect and shutdown's teardown.
Closers == {"disconnect", "teardown"}

\* What a future had still to do when it was dropped at this await: let the client learn
\* its session, start the forwarding task and keep its handle, take the slot.  At the other
\* awaits nothing else depends on it.
Undone(await) ==
    CASE await \in {"announce", "policy"} -> {"learn"}
      [] await \in {"stream", "handle"}   -> {"forward"}
      [] await \in {"begin", "taking"}    -> {"take"}
      [] OTHER -> {}

VARIABLES
    \* Transport
    slot,        \* generation of the installed connection
    epoch,       \* connection_epoch
    st,          \* state manager: "none" (unknown or removed), Connected, Closing
    reg,         \* registry sessions: "none", "open" or "closed"
    queue,       \* client_events
    receiver,    \* who owns its receiver: "transport", "task" or "gone"
    \* the connections
    conn,        \* "none", "up", "stopping" or "down"
    pipe,        \* events in the event pipe
    sent,        \* messages the peer has sent
    consumer,    \* the consumer task
    ev,          \* the event it is handling
    \* TransportClient
    phase,       \* Active, ShuttingDown, Stopped or Dropped
    current,     \* current_session_id
    connect,     \* the call of connect: "idle" or where it is
    cpc, cgen,   \* the closers, and the generation they close
    dropped,     \* history: <<what a dropped future had still to do, its generation>>
    forwarding,  \* the forwarding task: "none", "running" or "ended"
    handles,     \* what is kept of it: "none", "claimed" (the running flag is set), "abort"
                 \* (an AbortHandle), "both" (a JoinHandle too), "taken" by teardown or drop
    hand,        \* the event it is sending
    scanner,     \* is the timeout scanner running?
    \* the application
    stream,      \* ClientEvents
    listening,   \* does it still hold the stream?
    seen,        \* n of the last event it has taken, per generation
    held,        \* requests it holds
    claimed,     \* requests claimed, not yet bound to a writer
    written      \* <<request, generation of the writer its response was given to>>

transportVars == <<slot, epoch, st, reg>>
queueVars     == <<queue, receiver>>
connVars      == <<conn, pipe, sent>>
consumerVars  == <<consumer, ev>>
clientVars    == <<phase, current, connect>>
closeVars     == <<cpc, cgen, dropped>>
taskVars      == <<forwarding, handles, hand, scanner>>
appVars       == <<stream, listening, seen>>
respondVars   == <<held, claimed, written>>
vars == <<transportVars, queueVars, connVars, consumerVars, clientVars, closeVars,
          taskVars, appVars, respondVars>>

TypeOK ==
    /\ slot \in Gens \cup {None} /\ epoch \in 0 .. MaxGen
    /\ st \in [Gens -> {"none", "Connected", "Closing"}]
    /\ reg \in [Gens -> {"none", "open", "closed"}]
    /\ queue \in Seq(Events) /\ Len(queue) <= Capacity
    /\ receiver \in {"transport", "task", "gone"}
    /\ conn \in [Gens -> {"none", "up", "stopping", "down"}]
    /\ pipe \in [Gens -> Seq(Events)]
    /\ sent \in [Gens -> 0 .. MaxMsgs]
    /\ consumer \in [Gens -> {"none", "polling", "forward", "retire", "mark", "lastForward",
                              "teardown", "teardownMark", "drain", "ended"}]
    /\ ev \in [Gens -> Events \cup {NoEvent}]
    /\ phase \in {"Active", "ShuttingDown", "Stopped", "Dropped"}
    /\ current \in Gens \cup {None}
    /\ connect \in {"idle", "building", "announce", "policy", "stream", "handle"}
    /\ cpc \in [Closers -> {"idle", "begin", "taking", "mark", "join"}]
    /\ cgen \in [Closers -> Gens \cup {None}]
    /\ dropped \in SUBSET ({"learn", "forward", "take"} \X Gens)
    /\ handles \in {"none", "claimed", "abort", "both", "taken"}
    /\ forwarding \in {"none", "running", "ended"}
    /\ hand \in Events \cup {NoEvent}
    /\ scanner \in BOOLEAN /\ listening \in BOOLEAN
    /\ stream \in Seq(Events) /\ Len(stream) <= Capacity
    /\ seen \in [Gens -> -1 .. MaxMsgs + 1]
    /\ held \in SUBSET Events /\ claimed \in SUBSET Events
    /\ written \in SUBSET (Events \X Gens)

Init ==
    /\ slot = None /\ epoch = 0
    /\ st = [g \in Gens |-> "none"] /\ reg = [g \in Gens |-> "none"]
    /\ queue = <<>> /\ receiver = "transport"
    /\ conn = [g \in Gens |-> "none"] /\ pipe = [g \in Gens |-> <<>>]
    /\ sent = [g \in Gens |-> 0]
    /\ consumer = [g \in Gens |-> "none"] /\ ev = [g \in Gens |-> NoEvent]
    /\ phase = "Active" /\ current = None /\ connect = "idle"
    /\ cpc = [c \in Closers |-> "idle"] /\ cgen = [c \in Closers |-> None]
    /\ dropped = {}
    /\ forwarding = "none" /\ handles = "none" /\ hand = NoEvent /\ scanner = FALSE
    /\ stream = <<>> /\ listening = TRUE /\ seen = [g \in Gens |-> -1]
    /\ held = {} /\ claimed = {} /\ written = {}

\* No call with &self is in progress.
Exclusive == connect = "idle" /\ cpc["disconnect"] = "idle"

-----------------------------------------------------------------------------
(* The connection and its peer.                                            *)

\* The peer sends a one-way message (or an answer nobody waits for) or a request.
PeerSends(g, k) ==
    /\ conn[g] = "up" /\ sent[g] < MaxMsgs
    /\ Cardinality({g} \cup {h \in Gens : sent[h] > 0}) <= MaxTalkers
    /\ sent' = [sent EXCEPT ![g] = @ + 1]
    /\ pipe' = [pipe EXCEPT ![g] = Append(@, Message(g, k, sent[g] + 1))]
    /\ UNCHANGED <<transportVars, queueVars, conn, consumerVars, clientVars, closeVars,
                   taskVars, appVars, respondVars>>

\* The adapter's loop ends: its peer, an error or a timer ends it, or it was told to.
ConnEnds(g) ==
    /\ conn[g] \in {"up", "stopping"}
    /\ conn' = [conn EXCEPT ![g] = "down"]
    /\ UNCHANGED <<transportVars, queueVars, pipe, sent, consumerVars, clientVars,
                   closeVars, taskVars, appVars, respondVars>>

\* The slot's content is taken out and closed, or simply dropped.
Release(g) ==
    /\ slot' = None
    /\ conn' = [conn EXCEPT ![g] = IF @ = "up" THEN "stopping" ELSE @]

-----------------------------------------------------------------------------
(* connect.                                                                *)

\* The gates: not shut down, and no connection installed.
Connect ==
    /\ Exclusive /\ phase = "Active" /\ slot = None
    /\ epoch < MaxGen
    /\ connect' = "building"
    /\ UNCHANGED <<transportVars, queueVars, connVars, consumerVars, phase, current,
                   closeVars, taskVars, appVars, respondVars>>

\* Every attempt allowed by the retry strategy failed.
ConnectFails ==
    /\ connect = "building"
    /\ connect' = "idle"
    /\ UNCHANGED <<transportVars, queueVars, connVars, consumerVars, phase, current,
                   closeVars, taskVars, appVars, respondVars>>

\* set_connection up to its first await.  Nothing else can look at the new generation
\* before that, since connect excludes the other calls.
Install ==
    /\ connect = "building"
    /\ epoch' = epoch + 1
    /\ slot' = epoch + 1
    /\ conn' = [conn EXCEPT ![epoch + 1] = "up"]
    /\ st' = [st EXCEPT ![epoch + 1] = "Connected"]
    /\ reg' = [reg EXCEPT ![epoch + 1] = "open"]
    /\ connect' = "announce"
    /\ UNCHANGED <<queueVars, pipe, sent, consumerVars, phase, current, closeVars,
                   taskVars, appVars, respondVars>>

\* A send into client_events: it waits for room, or fails when nobody can receive.
SendEvent(e) ==
    /\ receiver = "gone" \/ Len(queue) < Capacity
    /\ queue' = IF receiver = "gone" THEN queue ELSE Append(queue, e)
    /\ UNCHANGED receiver

\* Mutant: the announcement does not wait for room.
AnnounceLossy ==
    /\ connect = "announce"
    /\ queue' = IF Len(queue) < Capacity THEN Append(queue, Connected(epoch)) ELSE queue
    /\ consumer' = [consumer EXCEPT ![epoch] = "polling"]
    /\ connect' = "policy"
    /\ UNCHANGED <<transportVars, receiver, connVars, ev, phase, current, closeVars,
                   taskVars, appVars, respondVars>>

\* ConnectionEstablished is queued, then the consumer task is spawned.
Announce ==
    /\ connect = "announce"
    /\ SendEvent(Connected(epoch))
    /\ consumer' = [consumer EXCEPT ![epoch] = "polling"]
    /\ connect' = "policy"
    /\ UNCHANGED <<transportVars, connVars, ev, phase, current, closeVars, taskVars,
                   appVars, respondVars>>

\* Mutant: a reconnect that finds the forwarding task running returns too early.
LearnSessionOnce ==
    /\ connect = "policy"
    /\ current' = IF handles = "none" THEN epoch ELSE current
    /\ connect' = IF handles = "none" THEN "stream" ELSE "idle"
    /\ handles' = IF handles = "none" THEN "claimed" ELSE handles
    /\ scanner' = (scanner \/ handles # "none")
    /\ UNCHANGED <<transportVars, queueVars, connVars, consumerVars, phase, closeVars,
                   forwarding, hand, appVars, respondVars>>

\* Behind the frame policy and the write lock, the client learns its session and claims
\* the start of the forwarding task; a reconnect finds it claimed and is through.
LearnSession ==
    /\ connect = "policy"
    /\ current' = epoch
    /\ connect' = IF handles = "none" THEN "stream" ELSE "idle"
    /\ handles' = IF handles = "none" THEN "claimed" ELSE handles
    /\ scanner' = (scanner \/ handles # "none")
    /\ UNCHANGED <<transportVars, queueVars, connVars, consumerVars, phase, closeVars,
                   forwarding, hand, appVars, respondVars>>

\* The receiver is taken out of the Transport, the task spawned, its AbortHandle kept.
StartForwarding ==
    /\ connect = "stream"
    /\ receiver' = "task"
    /\ forwarding' = "running"
    /\ handles' = "abort"
    /\ connect' = "handle"
    /\ UNCHANGED <<transportVars, queue, connVars, consumerVars, phase, current, closeVars,
                   hand, scanner, appVars, respondVars>>

\* The JoinHandle is kept and the scanner started.
ConnectReturns ==
    /\ connect = "handle"
    /\ handles' = "both"
    /\ scanner' = TRUE
    /\ connect' = "idle"
    /\ UNCHANGED <<transportVars, queueVars, connVars, consumerVars, phase, current,
                   closeVars, forwarding, hand, appVars, respondVars>>

\* The application drops the future of connect at one of its awaits: the network, room
\* in the client's queue (the event pipe goes with it), or one of four locks.
CancelConnect ==
    /\ connect # "idle" /\ Cardinality(dropped) < MaxDrops
    /\ connect' = "idle"
    /\ dropped' = dropped \cup (Undone(connect) \X {epoch})
    /\ UNCHANGED <<transportVars, queueVars, connVars, consumerVars, phase, current,
                   cpc, cgen, taskVars, appVars, respondVars>>

-----------------------------------------------------------------------------
(* The consumer task of generation g.                                      *)

\* Tasks that hold a strong reference to the Transport.
InHandler(g) == consumer[g] \notin {"none", "polling", "teardown", "ended"}

\* Mutant: the consumer task owns the Transport.
StrongCycle ==
    \/ phase # "Dropped"
    \/ cpc["teardown"] # "idle"
    \/ \E g \in Gens : consumer[g] \notin {"none", "ended"}

\* Does the Transport still exist?  The consumers only hold a Weak between two events.
Strong ==
    \/ phase # "Dropped"
    \/ cpc["teardown"] # "idle"
    \/ \E g \in Gens : InHandler(g)

\* The last strong reference is gone: the Transport is dropped, with its connection.
FreeTransport ==
    /\ ~ Strong /\ (slot # None \/ receiver = "transport")
    /\ IF slot = None THEN UNCHANGED <<slot, conn>> ELSE Release(slot)
    /\ receiver' = IF receiver = "transport" THEN "gone" ELSE receiver
    /\ queue' = IF receiver = "transport" THEN <<>> ELSE queue
    /\ UNCHANGED <<epoch, st, reg, pipe, sent, consumerVars, clientVars, closeVars,
                   taskVars, appVars, respondVars>>

\* Mutant: the close is forwarded before the slot is emptied.
OnEventForwards(g, e) ==
    /\ reg' = [reg EXCEPT ![g] = IF e.kind = "closed" THEN "closed" ELSE @]
    /\ consumer' = [consumer EXCEPT ![g] = IF e.kind = "closed" THEN "lastForward" ELSE "forward"]
    /\ ev' = [ev EXCEPT ![g] = e]

\* What on_event does up to its first await.
OnEvent(g, e) ==
    CASE e.kind = "closed" ->
            /\ reg' = [reg EXCEPT ![g] = "closed"]
            /\ consumer' = [consumer EXCEPT ![g] = "retire"]
            /\ ev' = [ev EXCEPT ![g] = e]
      [] e.kind = "request" /\ reg[g] # "open" -> UNCHANGED <<reg, consumerVars>>
      [] OTHER ->
            /\ consumer' = [consumer EXCEPT ![g] = "forward"]
            /\ ev' = [ev EXCEPT ![g] = e]
            /\ UNCHANGED reg

\* pipe.next() returns an event (the close after all data); the task ends if the
\* Transport is gone and tears down if a newer connection was installed.
Consume(g) ==
    /\ consumer[g] = "polling"
    /\ pipe[g] # <<>> \/ conn[g] = "down"
    /\ pipe' = [pipe EXCEPT ![g] = IF @ = <<>> THEN @ ELSE Tail(@)]
    /\ IF ~ Strong
         THEN consumer' = [consumer EXCEPT ![g] = "ended"] /\ UNCHANGED <<reg, ev>>
       ELSE IF epoch # g
         THEN consumer' = [consumer EXCEPT ![g] = "teardown"] /\ UNCHANGED <<reg, ev>>
       ELSE OnEvent(g, IF pipe[g] = <<>> THEN Closed(g) ELSE Head(pipe[g]))
    /\ UNCHANGED <<slot, epoch, st, queueVars, conn, sent, clientVars, closeVars,
                   taskVars, appVars, respondVars>>

\* forward_client_event parks while the client's queue is full.  After the close event
\* the pipe is finished and the task goes on to its teardown.
Forward(g) ==
    /\ consumer[g] \in {"forward", "lastForward"}
    /\ SendEvent(ev[g])
    /\ ev' = [ev EXCEPT ![g] = NoEvent]
    /\ consumer' = [consumer EXCEPT ![g] = IF @ = "forward" THEN "polling" ELSE "teardown"]
    /\ UNCHANGED <<transportVars, connVars, clientVars, closeVars, taskVars, appVars,
                   respondVars>>

\* Mutant: the slot is emptied whoever is installed.
RetireAny(g) ==
    IF slot = None THEN UNCHANGED <<slot, conn>> ELSE Release(slot)

\* retire_generation, under the slot lock: only g's own connection is taken out.
RetireSlot(g) ==
    IF slot = g THEN Release(g) ELSE UNCHANGED <<slot, conn>>

Retire(g) ==
    /\ consumer[g] \in {"retire", "teardown"} /\ Strong
    /\ RetireSlot(g)
    /\ consumer' = [consumer EXCEPT ![g] = IF @ = "retire" THEN "mark" ELSE "teardownMark"]
    /\ UNCHANGED <<epoch, st, reg, queueVars, pipe, sent, ev, clientVars, closeVars,
                   taskVars, appVars, respondVars>>

\* Mutant: a replaced generation keeps its state.
ForgetIfTaken(g) == st' = IF slot = None THEN [st EXCEPT ![g] = "none"] ELSE st

\* mark_closed and remove_connection.
Forget(g) == st' = [st EXCEPT ![g] = "none"]

Mark(g) ==
    /\ consumer[g] \in {"mark", "teardownMark"}
    /\ Forget(g)
    /\ consumer' = [consumer EXCEPT ![g] = IF @ = "mark" THEN "lastForward" ELSE "drain"]
    /\ UNCHANGED <<slot, epoch, reg, queueVars, connVars, ev, clientVars, closeVars,
                   taskVars, appVars, respondVars>>

\* The last close_session_pending of the teardown.
ConsumerEnds(g) ==
    /\ consumer[g] = "drain"
    /\ reg' = [reg EXCEPT ![g] = "closed"]
    /\ consumer' = [consumer EXCEPT ![g] = "ended"]
    /\ UNCHANGED <<slot, epoch, st, queueVars, connVars, ev, clientVars, closeVars,
                   taskVars, appVars, respondVars>>

\* The Transport went away before the teardown could upgrade its reference.
NothingToTearDown(g) ==
    /\ consumer[g] = "teardown" /\ ~ Strong
    /\ consumer' = [consumer EXCEPT ![g] = "ended"]
    /\ UNCHANGED <<transportVars, queueVars, connVars, ev, clientVars, closeVars,
                   taskVars, appVars, respondVars>>

Consumer(g) == \/ Consume(g) \/ Forward(g) \/ Retire(g) \/ Mark(g)
               \/ ConsumerEnds(g) \/ NothingToTearDown(g)

-----------------------------------------------------------------------------
(* disconnect, shutdown and drop.                                          *)

CloserEnds(c, next) ==
    /\ cpc' = [cpc EXCEPT ![c] = next]
    /\ cgen' = [cgen EXCEPT ![c] = None]

\* close_session of g up to the slot lock: only the caller that moves the state from
\* Connected to Closing goes on; it fails the session's requests first.
StartClosing(c, g, otherwise) ==
    IF st[g] = "Connected"
      THEN /\ st' = [st EXCEPT ![g] = "Closing"]
           /\ reg' = [reg EXCEPT ![g] = "closed"]
           /\ cpc' = [cpc EXCEPT ![c] = "taking"]
           /\ cgen' = [cgen EXCEPT ![c] = g]
      ELSE /\ CloserEnds(c, otherwise)
           /\ UNCHANGED <<st, reg>>

\* disconnect or force_disconnect: the client forgets its session, ...
Disconnect ==
    /\ Exclusive /\ phase # "Dropped" /\ current # None
    /\ current' = None
    /\ cpc' = [cpc EXCEPT !["disconnect"] = "begin"]
    /\ cgen' = [cgen EXCEPT !["disconnect"] = current]
    /\ UNCHANGED <<transportVars, queueVars, connVars, consumerVars, phase, connect,
                   dropped, taskVars, appVars, respondVars>>

\* ... then closes it.
DisconnectBegins ==
    /\ cpc["disconnect"] = "begin"
    /\ StartClosing("disconnect", cgen["disconnect"], "idle")
    /\ UNCHANGED <<slot, epoch, queueVars, connVars, consumerVars, clientVars, dropped,
                   taskVars, appVars, respondVars>>

\* The slot is taken only if it still belongs to the session.
TakeSlot(c) ==
    /\ cpc[c] = "taking"
    /\ RetireSlot(cgen[c])
    /\ cpc' = [cpc EXCEPT ![c] = "mark"]
    /\ UNCHANGED <<epoch, st, reg, queueVars, pipe, sent, consumerVars, clientVars, cgen,
                   dropped, taskVars, appVars, respondVars>>

\* connection.close() has joined the adapter's loop, or the graceful timeout passed and
\* the forced close found nothing left to join; then mark_closed and remove_connection.
MarkClosed(c) ==
    /\ cpc[c] = "mark"
    /\ Forget(cgen[c])
    /\ CloserEnds(c, IF c = "disconnect" THEN "idle" ELSE "join")
    /\ UNCHANGED <<slot, epoch, reg, queueVars, connVars, consumerVars, clientVars,
                   dropped, taskVars, appVars, respondVars>>

\* The application drops the future of disconnect at one of its awaits: the lock of the
\* state, the lock of the slot, the close of the connection or the lock of the state again.
CancelDisconnect ==
    /\ cpc["disconnect"] # "idle" /\ Cardinality(dropped) < MaxDrops
    /\ CloserEnds("disconnect", "idle")
    /\ dropped' = dropped \cup (Undone(cpc["disconnect"]) \X {cgen["disconnect"]})
    /\ UNCHANGED <<transportVars, queueVars, connVars, consumerVars, clientVars,
                   taskVars, appVars, respondVars>>

\* shutdown: the first call moves the phase and spawns the teardown task, which no
\* caller can cancel; later calls only wait for it.
Shutdown ==
    /\ connect = "idle" /\ phase = "Active"
    /\ phase' = "ShuttingDown"
    /\ cpc' = [cpc EXCEPT !["teardown"] = "begin"]
    /\ UNCHANGED <<transportVars, queueVars, connVars, consumerVars, current, connect,
                   cgen, dropped, taskVars, appVars, respondVars>>

\* The teardown disconnects whatever connection is installed.
TeardownBegins ==
    /\ cpc["teardown"] = "begin"
    /\ IF slot = None
         THEN cpc' = [cpc EXCEPT !["teardown"] = "join"] /\ UNCHANGED <<cgen, st, reg>>
         ELSE StartClosing("teardown", slot, "join")
    /\ UNCHANGED <<slot, epoch, queueVars, connVars, consumerVars, clientVars, dropped,
                   taskVars, appVars, respondVars>>

\* The forwarding task is aborted if one of the handles in by is kept, and with it the
\* receiver and the event in its hand; the handles are taken and the scanner ends.
AbortTasks(by) ==
    /\ IF handles \in by /\ forwarding = "running"
         THEN forwarding' = "ended" /\ hand' = NoEvent /\ receiver' = "gone" /\ queue' = <<>>
         ELSE UNCHANGED <<forwarding, hand, receiver, queue>>
    /\ handles' = IF handles \in {"abort", "both"} THEN "taken" ELSE handles
    /\ scanner' = FALSE

\* Forwarding task and scanner are aborted and joined by their JoinHandles; the client is
\* Stopped.
TeardownEnds ==
    /\ cpc["teardown"] = "join"
    /\ AbortTasks({"both"})
    /\ phase' = IF phase = "Dropped" THEN phase ELSE "Stopped"
    /\ cpc' = [cpc EXCEPT !["teardown"] = "idle"]
    /\ UNCHANGED <<transportVars, connVars, consumerVars, current, connect, cgen,
                   dropped, appVars, respondVars>>

\* The client is dropped without (or after) a shutdown.
DropClient ==
    /\ Exclusive /\ phase # "Dropped"
    /\ phase' = "Dropped"
    /\ AbortTasks({"abort", "both"})
    /\ UNCHANGED <<transportVars, connVars, consumerVars, current, connect, closeVars,
                   appVars, respondVars>>

Closing(c) == TakeSlot(c) \/ MarkClosed(c)

-----------------------------------------------------------------------------
(* The forwarding task and the application.                                *)

\* A request whose Transport is gone can no longer be answered and is dropped.
ForwardingTakes ==
    /\ forwarding = "running" /\ hand = NoEvent /\ queue # <<>>
    /\ hand' = IF Head(queue).kind = "request" /\ ~ Strong THEN NoEvent ELSE Head(queue)
    /\ queue' = Tail(queue)
    /\ UNCHANGED <<transportVars, receiver, connVars, consumerVars, clientVars, closeVars,
                   forwarding, handles, scanner, appVars, respondVars>>

\* The event joins the application's stream, or is discarded when nobody listens.
ForwardingSends ==
    /\ forwarding = "running" /\ hand # NoEvent
    /\ ~ listening \/ Len(stream) < Capacity
    /\ stream' = IF listening THEN Append(stream, hand) ELSE stream
    /\ hand' = NoEvent
    /\ UNCHANGED <<transportVars, queueVars, connVars, consumerVars, clientVars,
                   closeVars, forwarding, handles, scanner, listening, seen, respondVars>>

\* A task nobody aborted ends with the last sender, which the Transport owns.
ForwardingEnds ==
    /\ forwarding = "running" /\ hand = NoEvent /\ queue = <<>> /\ ~ Strong
    /\ forwarding' = "ended"
    /\ receiver' = "gone"
    /\ UNCHANGED <<transportVars, queue, connVars, consumerVars, clientVars, closeVars,
                   handles, hand, scanner, appVars, respondVars>>

AppTakes ==
    /\ listening /\ stream # <<>>
    /\ stream' = Tail(stream)
    /\ seen' = [seen EXCEPT ![Head(stream).gen] = Head(stream).n]
    /\ held' = IF Head(stream).kind = "request" THEN held \cup {Head(stream)} ELSE held
    /\ UNCHANGED <<transportVars, queueVars, connVars, consumerVars, clientVars,
                   closeVars, taskVars, listening, claimed, written>>

AppLeaves ==
    /\ listening
    /\ listening' = FALSE
    /\ stream' = <<>>
    /\ UNCHANGED <<transportVars, queueVars, connVars, consumerVars, clientVars,
                   closeVars, taskVars, seen, respondVars>>

\* respond: the claim succeeds while the request's session has not been drained.
BeginRespond(r) ==
    /\ r \in held
    /\ held' = held \ {r}
    /\ claimed' = IF reg[r.gen] = "open" THEN claimed \cup {r} ELSE claimed
    /\ UNCHANGED <<transportVars, queueVars, connVars, consumerVars, clientVars,
                   closeVars, taskVars, appVars, written>>

\* Mutant: the response takes the writer of whatever connection is installed.
WriterForCurrent(r) == IF Strong /\ slot # None THEN {<<r, slot>>} ELSE {}

\* send_confirmed_with: the writer of the request's own generation, or none.
WriterFor(r) == IF Strong /\ slot = r.gen THEN {<<r, slot>>} ELSE {}

BindWriter(r) ==
    /\ r \in claimed
    /\ claimed' = claimed \ {r}
    /\ written' = written \cup WriterFor(r)
    /\ UNCHANGED <<transportVars, queueVars, connVars, consumerVars, clientVars,
                   closeVars, taskVars, appVars, held>>

-----------------------------------------------------------------------------
Respond == \/ \E r \in held : BeginRespond(r)
           \/ \E r \in claimed : BindWriter(r)

Next ==
    \/ \E g \in Gens : ConnEnds(g) \/ Consumer(g) \/ \E k \in Kinds : PeerSends(g, k)
    \/ Connect \/ ConnectFails \/ Install \/ Announce
    \/ LearnSession \/ StartForwarding \/ ConnectReturns \/ CancelConnect
    \/ Disconnect \/ DisconnectBegins \/ CancelDisconnect
    \/ \E c \in Closers : Closing(c)
    \/ Shutdown \/ TeardownBegins \/ TeardownEnds \/ DropClient \/ FreeTransport
    \/ ForwardingTakes \/ ForwardingSends \/ ForwardingEnds \/ AppTakes \/ AppLeaves
    \/ Respond

Spec == Init /\ [][Next]_vars

\* Tasks and calls under way are scheduled, and an adapter told to stop stops.
Fairness ==
    /\ \A g \in Gens : WF_vars(Consumer(g)) /\ WF_vars(conn[g] = "stopping" /\ ConnEnds(g))
    /\ \A c \in Closers : WF_vars(Closing(c))
    /\ WF_vars(TeardownBegins) /\ WF_vars(TeardownEnds) /\ WF_vars(FreeTransport)
    /\ WF_vars(ForwardingTakes) /\ WF_vars(ForwardingSends) /\ WF_vars(ForwardingEnds)
    /\ WF_vars(Announce) /\ WF_vars(LearnSession) /\ WF_vars(StartForwarding)
    /\ WF_vars(ConnectReturns) /\ WF_vars(DisconnectBegins)

FairSpec == Spec /\ Fairness

-----------------------------------------------------------------------------
(* Properties.                                                             *)

\* A task of an older generation never takes a working connection away: the slot is
\* emptied only when its own connection has ended or is being closed, or with the client.
LiveSlotKept ==
    [][slot # None /\ slot' # slot =>
          conn[slot] = "down" \/ st[slot] = "Closing" \/ ~ Strong]_vars

\* A response reaches the connection its request came from or none, however late the
\* application answers and whatever was installed in between.
ResponseOnItsConnection == \A w \in written : w[2] = w[1].gen

\* The application sees, of each connection, Connected first, then messages in the order
\* they were sent, then at most one Disconnected; other connections' events may mix in.
EventsInOrder ==
    [][\A g \in Gens : seen'[g] # seen[g] =>
          IF seen[g] = -1 THEN seen'[g] = 0 ELSE seen'[g] > seen[g]]_vars

\* A finished consumer task leaves nothing of its generation behind: not in the slot, not
\* in the state manager, not in the registry.
NothingLeftBehind ==
    Strong => \A g \in Gens : consumer[g] = "ended" =>
        slot # g /\ st[g] = "none" /\ reg[g] = "closed"

\* The call that would have told the client of g, or have taken g out of the slot, was dropped.
Abandoned(g) == <<"learn", g>> \in dropped \/ <<"take", g>> \in dropped

\* connect refuses while a connection is installed and tells the caller to disconnect()
\* first; then disconnect() knows that connection, unless a close of it is under way or the
\* application dropped the connect of that very connection before the client had learnt its
\* session, or a disconnect of it before it had the slot.
DisconnectCanFollow ==
    slot # None /\ ~ Abandoned(slot) /\ connect = "idle" /\ phase = "Active"
      /\ (\A c \in Closers : cpc[c] = "idle")
    => current = slot

\* The installed connection has ended, and there is a consumer to find that out.
DeadInstalled == slot # None /\ conn[slot] = "down" /\ consumer[slot] # "none"

\* A dead connection does not stay installed.  It goes as soon as its consumer has handled
\* what came before the close, whether or not the application takes events; and it goes
\* if the application consumes them (as TransportClient::events asks it to) or drops the
\* stream, once there is a task to forward them.  Only a connection whose connect was
\* dropped before it had a consumer is left out.
DeadIsRetired ==
    /\ []<> ~ (DeadInstalled /\ pipe[slot] = <<>> /\ consumer[slot] # "forward")
    /\ []<>(~ listening \/ stream = <<>>) => []<> ~ (DeadInstalled /\ receiver # "transport")

\* Nothing of the client is left: no connection, no consumer, no forwarding task, no scanner.
Released ==
    /\ phase \in {"Stopped", "Dropped"} /\ slot = None
    /\ \A g \in Gens : conn[g] \in {"none", "down"} /\ consumer[g] \in {"none", "ended"}
    /\ forwarding # "running" /\ ~ scanner

\* connect was dropped before the forwarding task had the queue, which fills: consumers,
\* and a later connect, wait for room that nobody makes.
Stranded ==
    /\ receiver = "transport" /\ Len(queue) = Capacity
    /\ connect = "announce" \/ \E g \in Gens : consumer[g] \in {"forward", "lastForward"}
    /\ \E g \in Gens, w \in {"learn", "forward"} : <<w, g>> \in dropped

\* What dropped futures may leave of a client that was shut down: a connection whose
\* disconnect was dropped between the state and the slot, which shutdown takes for closed;
\* consumers of a stranded queue; and the forwarding task, when connect was dropped before
\* its JoinHandle was kept.  Of a client that was dropped only the last two.
Leftover ==
    \/ phase = "Stopped" /\ <<"take", slot>> \in dropped /\ st[slot] = "Closing"
    \/ Stranded
    \/ forwarding = "running" /\ handles = "taken" /\ \E g \in Gens : <<"forward", g>> \in dropped

\* After shutdown or drop the client's connection is closed and its tasks end, even if
\* the application no longer takes events and whatever futures it dropped before, up to
\* what Leftover lists.
EndReleasesEverything ==
    phase \in {"ShuttingDown", "Dropped"} ~>
        phase \in {"Stopped", "Dropped"} /\ (Released \/ Leftover)

=============================================================================
