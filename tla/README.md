# msgtrans: a TLA+ model of the transport core

This directory is a verification project for the crate `crates/msgtrans`: TLA+
modules translated from its source, TLC configurations that check them on small
instances, and TLAPS proofs for every instance. `PROJECT.json` is the index: it
maps every definition to the lines it models, and lists runs, mutants, findings,
hazards and theorems. Paths below are relative to `crates/msgtrans/src`.

## 1. The system

msgtrans moves framed packets (one-way messages, requests, responses) over TCP,
WebSocket or QUIC. A connection of either side looks like this:

    application ── Transport ── Connection (adapter) ── socket
                      │   ▲            │
        request registry  └─ event pipe ┘
                      │
              session actor / client forwarding ── application handlers

| Component | State | Operations | Talks to |
|---|---|---|---|
| Request registry (`transport/request_registry.rs`) | concurrent maps of sessions, entries and waiters; an atomic state per entry; a timeout wheel; counters | open/close session, register (inbound), allocate id and register a waiter (outbound), begin/finish respond, complete waiter, abort token, scan | called by actor, handlers, write loops, pump, callers, scanner, closers |
| Event pipe (`adapters/events.rs`) and byte budget (`adapters/budget.rs`) | bounded data queue, write-once close cell, semaphore of bytes | deliver, diagnostic, close; next | adapter → session actor or client |
| Outbound path (`adapters/outbound.rs`, `connection.rs`) | bounded queue, byte budget, one completion per confirmed write | send (confirmed or detached), await receipt | Transport → adapter loop → registry claims |
| TCP / WebSocket / QUIC adapters (`adapters/`) | one event-loop task, a shutdown signal, a join handle | read, write, idle or ping timer, teardown, close | socket, event pipe, outbound queue |
| Transport (`transport/transport.rs`) | the connection slot with its generation (epoch), its consumer task | set connection, send, request, close, force close, retire | adapters, registry, state manager |
| Connection state manager (`transport/connection_state.rs`) | state per session id | add, try-start-closing, mark closed | Transport, server |
| Session actor (`transport/session_actor.rs`) | mailbox, batch, handler | inbound event, send with reply, close; `Responder` | event pump, registry, handlers |
| TransportServer (`transport/transport_server.rs`) | phase, listeners, session tables, connection permits, task trackers | start, accept, admit, close session, shutdown, scan | everything above |
| TransportClient (`transport/client.rs`, `event.rs`, `stream.rs`) | phase, forwarding task, teardown task | connect with retry, request, disconnect, shutdown | Transport, application stream |
| Packet codec (`packet.rs`) | none | encode, decode, frame a stream, compress | adapters |
| Limits, configs, TLS, FFI, memory pool | plain values | validation, construction | — |

What is hard here is concurrency. Nothing in the registry is under one lock;
every operation is a string of accesses to concurrent maps and atomics, and any
two operations interleave. Queues are bounded, so parties wait for each other:
the reader for the consumer, senders for the writer, the writer for the peer,
and a close must get through all of it. A cancelled future may stop at any
await. Calls time out while what they asked for is still under way. A connection
may be replaced while tasks of the old one still run. `PROJECT.json` lists the
hazards line by line.

What makes each part correct:

* registry: a request ends exactly once; its outcome is what happened on the
  wire; whoever ends it cleans up that request and no other; nothing is left of
  a session after its close; every caller hears something; every request ends;
* event pipe: data is neither lost nor reordered, the close is last and is never
  stuck behind data, memory is bounded and permits return;
* outbound path: a result tells the truth about the wire, in both directions;
  frames are whole and in order; every call and the close return;
* transport: a task of an old generation never touches the new one; a request is
  registered on the connection it is written to;
* actor and server: the handler sees connected, packets, disconnected and nothing
  after it; a released session leaves nothing behind; every call returns; the phase
  only moves forward, a clean shutdown report is true, admitted sessions end;
* client: events in order, and shutdown or drop leave nothing running;
* adapters: what was sent is delivered however the stream is cut; a timeout only
  hits a silent peer; every teardown runs to its end; a listener answers every peer
  that does its part.

## 2. Modules

| Module | Models |
|---|---|
| `RequestLifecycle` | abstract specification: what the registry promises about one request |
| `RequestRegistry` | the registry, one action per shared access |
| `RequestRegistryProofs` | TLAPS proofs about `RequestRegistry`: types, who removes what, outcomes, waiters, the gauge, the close, the refinement |
| `EventPipe` | event pipe and inbound budget, reader and consumer |
| `EventPipeProofs` | TLAPS proofs about `EventPipe` |
| `Outbound` | send path of a connection: callers, queue, event loop, close |
| `OutboundProofs` | TLAPS proofs about `Outbound` |
| `ConnectionLoop` | the event loops of the TCP, WebSocket and QUIC adapters with their clocks, and their ends |
| `ConnectionLoopProofs` | TLAPS proofs about `ConnectionLoop` |
| `Framing` | encoder and decoder, the TCP read buffer with resync, the message readers, the size limits |
| `FramingProofs` | TLAPS proofs about `Framing` |
| `AcceptPump` | a listener: handshakes, accept queue, admission at the cap, its stop |
| `ClientTransport` | a client over its transport: connection slot and generations, consumer and forwarding tasks, connect, disconnect, shutdown, drop |
| `ClientTransportProofs` | TLAPS proofs about `ClientTransport` |
| `SessionContract` | abstract specification: what the server promises the application about one session |
| `ServerSession` | one session of the server: admission, actor, pump, supervisor, and the calls aimed at it |
| `ServerSessionProofs` | TLAPS proofs about `ServerSession` |
| `ServerLifecycle` | serve, startup, listeners and scanner, admission against stop and shutdown |
| `ServerLifecycleProofs` | TLAPS proofs about `ServerLifecycle` |
| `MC*` | instances for TLC, with the `.cfg` files named after them |

How they fit: each module replaces its neighbours by what those promise. A session
of `ServerLifecycle` is a permit, a map entry and a supervisor, and it ends when it
is cancelled (`SessionEnds` of `ServerSession`); in `ServerSession` a connection is
a queue that ends with one closed event (`ClosedIsLast` of `EventPipe`), a write is
accepted, refused or finds the connection dead (`ResultsAreTrue` of `Outbound`), and
the registry is open or closed for the session (`NoneOutlivesSession`); in
`ClientTransport` an adapter told to stop stops (`TeardownCompletes` of
`ConnectionLoop`, `SendAndCloseReturn` of `Outbound`). `ConnectionLoop` leaves bytes
to `Framing` and budgets to the two queue modules.

An operator commented "Mutant" is a plausible bug. No specification uses it;
each is substituted for the definition after it to see that a property fails.

### RequestRegistry

A thread `t` is a task inside one registry operation; `pc[t]` is its next shared
access and each access is one action. A step that holds a DashMap guard across
reads and a compare-exchange is atomic, because the entry cannot leave the map
meanwhile. `entries`, `requests`, `waiters`, `wheel`, `sessions`, `closing` are
the maps and flags of the code; a registration is named by its generation, which
is also the identity of its `RequestEntry`, so `state[g]` survives the entry's
removal as the `Arc` does. `responders`, `claims`, `guards`, `rx` are the
handles the users of the registry hold; dropping them is an action, so handler
panics, cancelled futures and forgotten responders are all covered.

* Registration: `RegisterInbound` or `NextRequestId`/`RegisterOutbound`, then
  `Gauge`, `Insert` (or `Refused`), `Index`, `Recheck`, `Undo` or `Schedule`,
  `PutWaiter`, `Verify`.
* Response: `Respond` (the claim of `BeginRespond`), `WriteResponse` (the socket, external),
  `FinishRespond`; for the caller's side `CompleteWaiter`, `Deliver`.
* Ends: `AbortRequestToken`, `CallerGivesUp`, `ScanTimeoutBucket` followed by
  `MarkTimedOut`, and `CloseSessionPending`/`BeginClose`/`Drain`/`DrainEnd`; they
  share the tail `Dec`, `RmEntry`, `RmIndex`, `RmWaiter`.

A concurrent iteration (`Drain`, the DashSet iterator) visits every key that is
in the set throughout and may or may not visit one that comes or goes; `must`
and `seen` express exactly that. Deadlines are a set `due` that only grows, so a
deadline may pass at any moment after registration.

`ReuseIds` says whether the peer uses an id again once its request has ended.
The crate's own peers never do; the wire protocol does not forbid it, and the
code provides for it with generations.

### EventPipe

The reader (`deliver`: charge, then send, both raced with the close cell), any
closer, and the consumer (`next`: look at the close cell first, then wait for
data or the close, drain what was accepted, emit the close once). Packets are
numbers in wire order with a size; the permit of a packet is released when the
application drops it. Diagnostics share the queue and are unlimited.

### Outbound

Each send is a caller of `send_confirmed_with`/`send_with_completion` that
charges the budget, waits a bounded time for a slot, and on the confirmed tier
awaits its receipt. The TCP loop takes, writes with a deadline, completes;
teardown is three steps (futures dropped, close published, queue dropped), since
senders on other threads can act between them. `close()` signals and joins;
`close_session`'s timeout and the second, forced close are modelled, with the
join handle already taken. Dropping the receiver of the queue drops the commands
in it, which is what the channel crate does (external).

### ConnectionLoop

One module for the three adapters, since they share their shape and differ in
who runs whom. TCP and WebSocket: reader, writer, ping and idle clock are futures
of one task (`Read`, `Write`, `IdleWakes`, `Finish`), and the first to end drops
the others; WebSocket adds pings, pongs and a farewell (`"closing"`). QUIC:
opening the stream, a reader and a writer task under a supervisor, with a grace
window and `abort_all` (`"grace"`, `ReaderAborted`, `WriterAborted`), batches of
writes. Time is in ticks. A future that can go on is polled before the next tick
passes; that is the scheduling the timers themselves rely on, and without it no
timeout of the code means anything. `history` records what the peer did and
whether the consumer kept up, only to judge the timers by.

### Framing

A byte is what the header that starts at it would say, so that the bytes of a
body can look like a header. `FrameLayout` is `frame_layout`; the TCP buffer reads
in chunks of any size (`Fill`), cuts frames (`ParseFrame`), and treats an invalid
header by the frame policy (`ParseInvalid`, `Resync`). WebSocket and QUIC take one
packet per message. Compression is its effect on lengths: halved on the wire,
`raw` when expanded; the receiver's limit holds for both. The lenient policy of
WebSocket and QUIC hands over as one raw packet whatever it cannot decode and is no
longer than the limits, a well-formed frame that they refuse for its extension header
included: `HandedOverRaw`.

### AcceptPump

Peers arrive in a backlog; the pump of TLS and WebSocket runs up to `MaxPending`
handshakes at once and queues the finished ones, QUIC shakes hands inside
`accept()`, plain TCP has none; WebSocket binds its port in the first `accept()` and
tries again when it cannot (`BindFails`). The listener task admits, turns a connection
away at the cap (`"rejecting"`) or at the closed gate (`"refusing"`, with a permit in
hand) and waits for that connection to close, sleeps after an error, and stops. A
shutdown closes the gate and cancels; `stop()` cancels with the gate open. A `Silent`
peer never speaks, a `Bad` one fails its handshake, a `Mute` one completes it, keeps the
connection alive and sends nothing: over QUIC the close of such a connection does not
return while its peer stays (`Stuck`; `quic.rs:567`, `:930`).

### ClientTransport

`slot`, `epoch`, `st` and `reg` are the transport's connection slot, its
generation counter, the state manager and the registry's sessions (only open or
closed here). `consumer[g]` is the task `set_connection` spawns for generation
g: `Consume` (with the weak upgrade, the epoch filter and `on_event` up to its
first await), `Forward`, `Retire`, `Mark`, `ConsumerEnds`. Two closers run
`close_session`: a call of `disconnect` and the teardown task of `shutdown`.
`queue`, `hand` and `stream` are the two bounded hops to the application and the
event the forwarding task holds between them. `Strong` says whether anybody still
holds a strong reference to the Transport; when nobody does, `FreeTransport`
drops it with its connection.

`connect` takes `&mut self`, all other calls `&self`: the borrow checker keeps
`connect` apart from them (the FFI does so with a lock), and the model does the
same with `Exclusive`. What still runs beside `connect` are the tasks of older
generations, the requests the application holds and the teardown. `connect` is one
step per await: network (`"building"`), room in the client's queue (`"announce"`), the
slot lock of the frame policy and the lock of the session id (`"policy"`, after which
`LearnSession`), the lock of the event stream (`"stream"`), and the lock of the
forwarding task's `JoinHandle` (`"handle"`). `disconnect` waits for the state, the slot,
the close and the state again. The application may drop either future at any of these
awaits, `MaxDrops` times in a behaviour; `dropped` records what the future had still to
do (`Undone`), only for the properties to say which connection a drop left behind.

### ServerSession

`add_session_with_permit` step by step (`adding`), the actor with its mailbox and
batches, the pump from the event pipe to the mailbox, the supervisor that joins
both and finalises the session, and callers of send, request, broadcast and close
in every state; `close_all_sessions` lists the sessions first and closes each when
its turn comes, by which time it may be gone. A callback may panic (`MayPanic`), and a
closer may run inside a callback (`Nested`). The refusal at the closed gate awaits the
close of the connection (`GateRefuses`, `RefusalReturns`) and keeps its permit until
then. When the actor's loop ends, the replies of its batch are dropped or failed; what
is still in the mailbox is not: a flume channel keeps its messages while a Sender
lives, and the caller that awaits a reply holds one (external; the crate's source is not
in the repository). Such a reply is `"left"`. `stage` and `last` are what the handler has
seen; with them `ServerSession` implements `SessionContract`.

### ServerLifecycle

The five phases, the one-shot gate of `serve`, the startup task it spawns and only
observes, the listeners and the scanner with their fail-fast guard, admission in
its five steps (permit, gate, map entry, supervisor, re-check of the gate), the two
places where a listener turns a connection away and awaits its close (at the cap
`"rejecting"`, at the closed gate `"refusing"`; a `Mute` peer can hold it there), and
`shutdown_with_timeout`: lock, compare-and-swap loop, gate, cancel, two bounded
joins around the wait for `Stopped`, report (which looks at the permits only if
`max_connections` is not `usize::MAX`, `Unlimited`). Each wait of shutdown is bounded by
one deadline, so it ends when its condition holds or, at any time, without it.
The futures of serve and of shutdown may be dropped where they are suspended.
Storing a phase and notifying its watchers are one step, except for `Stopped`,
the only phase anybody waits for.

## 3. Runs

| Run | Question | Bounds | Distinct states |
|---|---|---|---|
| `registry` | safety, every request ends, refinement of `RequestLifecycle`; ids fresh or reused | 1 session, 2 threads, 2 registrations | 535,142 |
| `event_pipe` | all properties of the pipe | queue 2, budget 3, 3 packets of size 1, 2, 4 | 26,782 |
| `outbound` | results, order, permits; do sends and the close return? | 2 sends, queue 1, budget 3, sizes 1, 2, 4 | 114,851 |
| `client_safety` | do generations stay apart, are events in order? | 2 connections, 1 request on either (`MaxTalkers`), queues of 1, one future dropped at any await | 3,356,322 |
| `client_liveness` | is a dead connection retired, do shutdown and drop release everything? | 2 connections, no messages, queues of 1, one future dropped at any await | 397,536 |
| `session_safety` | contract, cleanliness, nothing lost | 2 requests of the peer, mailbox 2, batch 2, a send, a broadcast, a close, panics | 3,312,133 |
| `session_liveness` | do calls return, does the session end? | 1 response of the peer, mailbox 2, a request, a close, panics | 304,890 |
| `session_close_in_handler` | expected violation, section 6 | 1 message, mailbox 1 | |
| `server_lifecycle` | phases, reports, do serve, shutdown and sessions end? | 1 protocol, 2 connections (the second mute), cap 1, 1 serve, 2 shutdowns, builds and tasks may fail | 487,030 |
| `framing` | is what was sent delivered, whatever the chunks? | header 2, limits 1 and 4, scan 3, up to 2 packets and a corrupt tail | 119,904 |
| `connection_loop` | are timeouts deserved, does every teardown end? | queue 2, pipe 1, idle 2 ticks, ping, pong and write deadline 1 tick | 562,268 |
| `accept` | is every peer answered, does the listener stop? | 5 peers (two good, one silent, one bad, one mute), 1 pending handshake, cap 1, gate open or closed | 60,052 |

Why they are enough to be interesting: two threads let any two operations of the
registry interleave at every access, and with two registrations one request can
end while another takes over its id or its session's last place; the hazards
listed for the registry are races of two. (`RemovalOwned` is proved for any number
of both, and so are the other safety properties of the registry.) Sizes 1, 2 and 4 against a budget of 3 cover: two packets fit, the
second waits, the packet never fits. Queues of one or two slots are full most of
the time. Two connections are an old and a new generation, which is all the epoch
filter and the slot check tell apart; the events of both exceed the three places
between consumer and application, so every party gets parked. One dropped future can
hit each await of either call on the old connection or on the new one, with everything
that can follow. A request on either connection is enough for a response that goes
astray and for data that overtakes an announcement or a close; the theorems of section 4
hold for any number of drops, requests and connections that carry them. One session is
enough for `ServerSession`, since sessions share only the gate, the root token and
the permits, which `ServerLifecycle` has. Two shutdowns are an owner of the lock
and one that queues behind it; the theorems of section 4 hold for any number. With two
connections and one permit the mute peer is turned away at the cap, at the gate, or is
admitted, and the other one is admitted before it, ended or not. The
packets of `framing` lie at, within and above each limit and each wire field, and
their bodies are junk or headers; the payload limit is large enough for a frame with a
refused extension header to be handed over raw; the tails leave an incomplete header, an
incomplete frame, an oversized one, and more junk than one scan covers. Five peers
against one pending handshake and one permit put somebody in every queue.

Deadlock. A client with nothing under way, a closed connection and a registry
whose bounded registrations are used up have nothing left to do: `MCEventPipe`,
`MCOutbound`, `MCClientTransport` and `MCRequestRegistry` add a stuttering step
for exactly those final states and keep TLC's deadlock check on for all others.
In the other runs the system really stops (a released session, a stopped server, a
closed connection, a stopped listener), the check is off, and that it stops
nowhere else is what their liveness properties say.

### Properties

Registry. `RemovalOwned`: a task about to remove an entry finds its own finished
request there. `GaugeExact`: the in-flight gauge equals the live requests plus
the registrations and removals in progress. `NoneOutlivesSession`: when a drain
has ended and no operation is in progress on a key, no live request of the
session is left (but see the first observation of section 6). `WaiterNeverLost`: a
caller that waits has a sender that will be used or dropped.
`AnswerMatchesOutcome`: an answer is written only for a request claimed in time, and
an inbound request is Responded only if its answer was written.
`ImplementsLifecycle`: refinement. `EveryRequestEnds`: liveness.

Event pipe. `NoLossNoReorder`: what was returned is the front of what was accepted,
the queue is the rest, both in wire order. `ClosedIsLast` (with the reason first
given), `BudgetConserved`, `CloseGetsThrough` (to the consumer, and to a parked reader).

Outbound. `ResultsAreTrue`: a caller told Ok has its bytes written, and one told
that nothing was queued has none written now or later. `WireIsReadable`: frames
whole and in order, nothing after a torn one. `PermitsConserved`,
`SendAndCloseReturn`.

Client. `LiveSlotKept`: no task of an older generation empties the slot of a
working connection. `ResponseOnItsConnection`: a late response is written to the
connection of its request or not at all. `EventsInOrder`: Connected, messages in
order, at most one Disconnected, per connection. (Across connections there is no
such order: a Disconnected of the old connection may follow the Connected of the
new one, or be dropped by the epoch filter.) `NothingLeftBehind`: a finished
consumer leaves no slot, state or open session. `DisconnectCanFollow`: whenever
connect would refuse, disconnect knows the connection, unless a close is under way or
a future of that very connection was dropped too early (`Abandoned`). `DeadIsRetired`:
a dead connection leaves the slot as soon as its consumer has handled what came before
the close, whether or not the application takes events, and in any case if it does.
`EndReleasesEverything`: shutdown and drop leave nothing but what `Leftover` names, each
the work of a dropped future (section 6).

Session. `ImplementsContract`: refinement. `ReleasedIsClean`: nothing is left when
the supervisor is done. `PeerCloseLosesNothing`: if only the peer ended the
connection, every packet it had sent was handled first. `CallsReturn` (but for a
command left in the mailbox, section 6), `SessionEnds`: liveness.

Server. `CleanReportIsTrue`, `StoppedMeansJoined`, `PhaseForward`;
`ServeAndShutdownReturn` (shutdown always; serve unless a mute peer holds a listener)
and `AdmittedSessionsEnd` (the only connection that may stay is the one whose own mute
peer holds its refusal): liveness.

Adapters. `DeliversWhatWasSent`, `ChunkingIrrelevant` (against a recursive
reference decoder that sees the whole stream), `WaitsWithinBound`, `ParserReturns`;
`TimeoutDeserved`, `TeardownCompletes`; `PeerAnswered`, `ListenerStops`.

### Fairness

* Registry: a task inside an operation is scheduled again (the operations do not
  await); time passes; the scanner's interval ticks; a claim is resolved, because
  the write that owns it has a deadline and dropping it resolves it too; a
  caller's own timeout fires. Nothing is assumed of handlers, peers or closers.
* Pipe: the reader inside `deliver` and the consumer inside its loop are
  scheduled. Nothing is assumed about the application letting go of packets, nor
  about anyone closing.
* Outbound: callers, their timers (`SEND_QUEUE_WAIT`, write deadline), the
  teardown and the join are scheduled. The socket and the peer get no fairness.
* Client: the tasks, the closers and a connect that waits for room or for a lock are
  scheduled; an adapter told to stop stops. Peers never have to close. The application
  need not take events; the second half of `DeadIsRetired` alone assumes, in its
  statement, that it does or drops its stream.
* Session: the tasks, and calls that began, are scheduled; callbacks return. Peer
  and application owe nothing; a panic may come and need not, and the close of a
  refused connection need not return.
* Server: tasks are scheduled, deadlines pass, a cancelled session ends. That the
  build of a protocol ends is left to the protocol: `StartupStep` contains it. The
  awaited close of a connection that is turned away returns, unless its peer is mute.
* Framing: the parse loop runs; no bytes have to arrive.
* Connection loop: futures are polled, ticks pass, the consumer takes events. The
  peer owes nothing.
* Accept: the listener and the pump are scheduled and every handshake ends within
  its timeout, finished or not; a mute peer never has to go.

## 4. Proofs

`RequestRegistryProofs` proves, for any sets of sessions and threads, any number
of ids and registrations, with or without reuse of ids:

* `TypeCorrect`: `Spec => []TypeOK`;
* `RemovalIsOwned`: `Spec => []RemovalOwned`;
* `RegistryInvariant`: `Spec => []RegistryInv`, on which both rest.

Assumptions: `ConstantsAssumption` only (the bounds are naturals, `MaxId` is
positive). `RemovalOwned` is not inductive: `remove_terminal_entry` removes by
key alone, so it matters why the key cannot have been taken over. `RegistryInv`
adds the argument:

* `ThreadShape`: what each program counter says about a thread's key and token;
* `EntriesShape`, `GensShape`: a table entry and its registration name each
  other, and generations not yet drawn are unborn;
* `DrawnAlone`: a generation drawn and not yet inserted belongs to one thread;
* `LiveFound`: a live registration is in the table under its key, so
  `Insert` is refused while it lives, and the thread that won the transition
  is the only one to remove it.

All 33 actions are shown to be one of seven kinds of step (`Pause`, `Walk`,
`Draw`, `Publish`, `Claimed`, `Win`, `Unlink`); the lemma `StepKind` does that
classification, `KindKeepsInv` shows that each kind keeps the invariant.

The second half of the module, on how requests end, goes on from `RegistryInv` under the
same assumption:

* `AnswersMatchOutcomes`: `Spec => []AnswerMatchesOutcome`;
* `WaitersAreNeverLost`: `Spec => []WaiterNeverLost`;
* `RegistryImplementsLifecycle`: `Spec => ImplementsLifecycle`;
* `GaugeIsExact`: `Spec => []GaugeExact`;
* `NoRequestOutlivesItsSession`: `Spec => []NoneOutlivesSession`;
* `OutcomeInvariant`: `Spec => []OutcomeInv`, on which they rest.

A waiter, too, is found by key alone. It is the right one because the id counter only
moves forward (`KeysUnique`), because keys have a direction and only outbound ones have
waiters (`Roles`, `HandsShape`), and because one thread registers a generation and its
caller does not wait before it is told to (`RegisteredAlone`). `OutcomesAgree` says for
each state of an entry what may have been written. The gauge needs one more conjunct,
that only finitely many threads are between gauge and table, which holds because one
thread moves at a time; `Threads` itself may be infinite. That nothing outlives a close
rests on `LiveIsSeen`: whoever closes a session will see each live request of it, or the
thread that registers the request will look at the session again after it has put the
key into the index. The refinement maps the state of an entry to its abstract phase and
a receiver that holds a response to a delivery; a step of the registry that takes the
removal tail, an index or a wheel forward is a stutter.

`EventPipeProofs` (`PipeAssumption`: a positive capacity, naturals otherwise) and
`OutboundProofs` (`OutboundAssumption`, which adds that the sends are finitely many):

* `NothingLostOrReordered`, `CloseComesLast`, `BudgetIsConserved`: `Spec => []` of
  `NoLossNoReorder`, `ClosedIsLast`, `BudgetConserved`, from `PipeInvariant`;
* `ResultsTellTheTruth`, `PermitsAreConserved`: `Spec => []` of `ResultsAreTrue`,
  `PermitsConserved`, and `WireStaysReadable`: `Spec => WireIsReadable`, from
  `OutboundInvariant`.

In the pipe the packet being delivered is younger than all accepted ones (`Younger`),
nothing is queued or can be once the close is out (`NothingAfterClose`), an intake is
shut only after a close (`ShutByClose`), and what the application holds was returned
(`HeldWereReturned`), so no packet is charged for twice. In the send path the accepted
packets are cut into the wire, the packet being written and the queue (`InLine`), so a
packet is in one place; a send that has not reached the queue is known nowhere
(`Fresh`); and a completion says where its packet is or never will be
(`ReceiptsAreTrue`). Both budgets are sums over a finite set, and each module
proves that such a sum changes by one term when the set changes by one element, for the
fold of the community modules: the recursion is unfolded (`SumUnfolds`), and the order in
which it takes the elements shown irrelevant (`SumTakesOut`), by looking at a least
counterexample among the subsets.

`ClientTransportProofs`, for any number of connections, messages and queue places, and of
futures of connect and disconnect dropped at any of their awaits (`ClientAssumption`:
naturals, a positive capacity, known packet kinds):

* `ConsumersCleanUp`, `DisconnectKnowsTheSlot`, `ResponsesStayOnTheirConnection`:
  `Spec => []` of `NothingLeftBehind`, `DisconnectCanFollow`, `ResponseOnItsConnection`;
* `WorkingSlotIsKept`: `Spec => LiveSlotKept`;
* `ClientInvariant`: `Spec => []ClientInv`, on which they rest;
* `ApplicationSeesOrder`: `Spec => EventsInOrder`, from `EventInvariant`.

A task of an old generation leaves the new connection alone because a filled slot holds
the newest generation (`SlotIsNewest`), because a consumer that retired its generation,
or a closer that took it out, never finds it in the slot again (`RetiredIsGone`,
`TakenIsGone`), and because an installed connection that is not Connected is in the
hands of the closer that moved it, or was left by one that was dropped (`SlotIsKnown`).
`ClientKnowsSlot` says who knows of an installed connection: the client, a disconnect
that has begun, a closer about to take it, or nobody, and then its own connect or
disconnect was dropped. The order of events is an argument
about three places in a row: stream, hand and queue are in order (`InOrder`), what is in
them is newer than what the application has seen (`SeenBehind`) and older than what the
consumer of its generation has yet to take (`ConsumerAhead`). The second half of
`SeenBehind`, that Connected is on its way as long as nothing was seen, holds although
the receiver changes hands when the stream is first taken (`ReceiverShape`).

`ServerSessionProofs` proves, for any number of callers of each kind and of packets,
any mailbox and batch, with or without panics and closes inside callbacks
(`SessionAssumption`: naturals, positive sizes, known packet kinds):

* `ReleasedStaysClean`: `Spec => []ReleasedIsClean`, from `SessionInvariant`;
* `PeerCloseSettlesAll`: `Spec => []PeerCloseLosesNothing`, from `LineInvariant`;
* `SessionImplementsContract`: `Spec => ImplementsContract`, from both.

`SessionInv` adds `AddOrder` (there is no supervisor before the maps are filled, so
nothing it removed is put back by an admission still under way) and `WaitersTyped`.
Pump, supervisor, a failed send and a close may each have done the removal; the
supervisor's own removal is what makes the end clean, and after it the registry refuses
the waiter of a session it no longer tracks. `LineInv` is about the line from the pipe
through the pump's hand and the mailbox to the batch: its packets are in the peer's
order and newer than what the handler saw (`LineInOrder`, `LineInBounds`), which is what
the contract's `Deliver` asks for. As long as nobody forces the end, the closed event
counts as the last packet; a close or a shutdown puts one in front of packets, so the
order is stated for the kinds that still matter (`Live`), and `ForcedShape` says that
whatever breaks into the line is on record. `NothingLost` then carries each packet from
sent to settled: a pump that has finished has passed the closed event on, so an actor
whose senders are all gone and that has not met it is an actor whose end was forced.
Each step is one of a few moves along the line (`LineJoins`, `LineTaken`,
`LineForwarded`, `LineReceived`, `LineWorked`, `LineDropped`) or leaves it alone
(`Quiet`).

`ConnectionLoopProofs` proves, for any timeouts, queue sizes and numbers of packets and
frames (`LoopAssumption`: positive sizes and timeouts, known protocols and roles):

* `TimeoutIsDeserved`: `Spec => TimeoutDeserved`;
* `LoopInvariant`: `Spec => []LoopInv`, on which it rests.

`LoopInv` ties the timers of a TCP or WebSocket loop to what the peer did. The reader of a
running loop is alive (`ReaderRuns`), and a tick passes only when nobody in the loop can go
on, so a frame that lies on the wire through a tick lies behind a consumer that holds the
reader up (`Unread`). The idle clock therefore never runs ahead of the peer's silence
(`QuietIsSilence`): reads and writes set it back, ticks move both. A pending ping has no
pong that was read, because the ping is pending before it is written and a pong clears it,
and the writer that waits for it has the rest of the pong timeout left (`PongDeadline`),
because the deadline is computed anew at every return to the top of the write loop. Only
`PongOverdue` and `IdleWakes` publish a timeout; every other end gives another reason.

`FramingProofs` proves, for any header size, limits and wire fields, any packets with any
bodies, anything that may follow them, and any cut of the stream into reads
(`FramingAssumption`: a positive header, natural limits, a scan of at least two bytes,
known protocols and policies):

* `ReaderWaitsWithinBound`: `Spec => []WaitsWithinBound`;
* `ReadsDoNotMatter`: `Spec => []ChunkingIrrelevant`;
* `ReceiverDeliversWhatWasSent`: `Spec => []DeliversWhatWasSent`;
* `FramingInvariant`: `Spec => []FramingInv`, on which they rest.

The receiver's limits need not fit the encoder's fields; the encoder refuses what its
fields do not hold, which is what makes a header tell the truth about its body
(`EncodeLayout`).

The stream is a flattened sequence of messages, and the theorem about it,
`FlattenPlaces`, says where each message lies: it is proved by induction over the number
of messages flattened, as a set of naturals that holds 0 and every successor. Then
`FrameInPlace` finds the frame of the next packet in the stream, `LayoutOfFrame` and
`PacketOfFrame` say what the decoder makes of it, and `LayoutOfBytes` that a decision
about the front of the buffer is not changed by bytes that arrive later, which is why
reading less at a time cannot matter. `FramingInv` says where the parser stands: at the
start of the frame of the next packet as long as one is missing (`AtTheNext`), waiting
only for the rest of a frame (`WaitsForMore`), with what was delivered plus what the
reference decoder makes of the rest equal to what it makes of the whole (`RestAgrees`).
That the recursive reference decoder is what its definition says (`DecodeUnfolds`) is
proved too, by induction from the end of the stream. A lenient parser that resyncs has
delivered every packet that was sent before, so what a resync skips is the tail's.

`ServerLifecycleProofs` proves, for any sets of protocols, connections, calls of
serve and of shutdown, any cap, with or without failures:

* `StoppedIsFinal`: `Spec => []StoppedMeansJoined`;
* `CleanReportHolds`: `Spec => []CleanReportIsTrue`;
* `PhaseMovesForward`: `Spec => PhaseForward`;
* `LifecycleInvariant`: `Spec => []LifecycleInv`, on which they rest.

Assumption: `LifecycleAssumption` (the cap and the number of connections are naturals).
Neither invariant is
inductive by itself. That Stopped means joined has two authors to check, the
startup task after its join and a shutdown of a server it takes for never served;
`NeverServed` says that the second is right from its compare-and-swap on, because
nothing but `serve` leaves Idle and only from Idle, and `StartupMatchesPhase` and
`TasksMatchStartup` tie phase, startup task and infra tasks together. That a clean
report is true needs `StoppedSeen` and `OwnerInv`: a connection that is in no map yet is
in the hands of exactly one listener (`OwnerShape`, `OwnersDiffer`, `GrantedOwned`), so a
stopped server has none. That every permit is back does not rest on the report's own
look at the semaphore, which an unlimited server skips, but on `PermitsCounted`: the free
permits and the connections that hold one, also while their refusal waits, make up the
cap. It stays true because a stopped server has no listener left to accept. The proof has one lemma per part of the invariant and
group of actions, with one case per action.

Each inductive invariant was model-checked before it was proved, on the constants of
the runs or smaller ones.

Only model-checked: the liveness properties and the fairness they need, which are out of
the prover's reach. Every invariant and every safety property of a step that a run
checks, and both refinements, are theorems.

## 5. Not modelled

* Compression and TLS themselves, sockets, certificate loading, configuration and
  its validation (plain values, no state changes after construction), the C FFI,
  examples and benchmarks, statistics that nothing reads, logging.
* The outgoing `connect` of each adapter beyond "it succeeds, fails or is
  dropped"; the matching of path and subprotocol in the WebSocket upgrade.
* Registry: `abort_waiter`, `abort_all`, `record_response_send_failed` (no
  callers), `duplicate_response_total`, session-less keys (unit tests only), and
  the arithmetic of the timeout wheel: a scheduled key may be visited at any time,
  a due one eventually is.
* `on_message_sent` and `on_error`, which are lossy by design; the delays of the
  client's retry loop.
* The memory pool (counters) and the concurrent map (a wrapper over a sharded map,
  whose operations are the atomic steps of `RequestRegistry`).

## 6. Finding and observations

Finding. `session_close_in_handler`: `close_session` offers the actor a closed event
and waits for room in its mailbox without a bound (`transport_server.rs:835`). Called
from a callback, as the documentation of `on_connected` advises
(`session_actor.rs:75`), it waits for the mailbox that only the same actor empties;
if the mailbox is full at that moment, the actor waits for itself for good. A shutdown
does not release it: the actor sees its cancel only at the mailbox wait (`:524`).

Observations: behaviour met while modelling that no documentation contradicts, or
that the models take into account. Line numbers are those of the source.

* A peer that reuses an id as soon as its previous request has ended can lose the
  new request's index entry (`request_registry.rs:977` removes the key one step
  after the entry), so that the session's close does not drain it and only its
  timeout ends it. `NoneOutlivesSession` has an exception for it (`KeptItsKey`);
  without the exception TLC shows the case.
* With such a peer `mark_timed_out` (`:962`), which looks the key up again without
  a generation, can time out a request before its own deadline.
* A deadline's bucket is computed from a tick that a concurrent scan may advance
  (`:992`), so a visit can come one turn of the wheel late. Not modelled.
* A `connect` future dropped before the client has learnt its session leaves the
  connection installed: `connect` refuses to replace it and `disconnect` does not know
  it (`Abandoned` in `DisconnectCanFollow`). Dropped while `set_connection` waits for
  room in the client's queue (`client.rs:354`) it has no consumer either, which
  `DeadIsRetired` excepts; dropped at the two locks behind (`client.rs:285`, `:288`) it
  has one.
* A `connect` dropped before the forwarding task has the client's queue (up to
  `client.rs:710`) leaves a queue nobody reads. It fills, consumers and a later
  `connect` wait for room for good, and a consumer that waits there keeps the Transport
  after the client is gone (`Stranded`).
* A `connect` dropped at `client.rs:874` loses the `JoinHandle` of the forwarding task:
  `shutdown` takes the `AbortHandle` without using it and leaves the task running.
* A `disconnect` dropped between the state and the slot (`transport.rs:255`) leaves the
  connection installed and Closing, with nobody to close it: `connect` refuses,
  `disconnect` answers "Not connected", and `shutdown` takes it for closed
  (`transport.rs:229`) and leaves it up. Dropping the client releases it. These three are
  what `Leftover` allows in `EndReleasesEverything`.
* A `SendWithReply` still in the mailbox when the actor's loop ends is never answered:
  the "Actor dropped before reply" of `session_actor.rs:408` needs the reply sender to
  be dropped, and the queued message that owns it lives as long as the waiting caller's
  own handle. The caller waits for good and keeps the Transport (`"left"`, the exception
  in `CallsReturn`). This rests on how flume treats queued messages.
* Nobody joins the consumer task of a connection (`transport.rs:420`,
  `client.rs:468`): it may outlive the return of `shutdown` for a moment. It does
  end (`EndReleasesEverything`).
* Under the lenient frame policy what a resync skips depends on how the stream is
  cut into reads, which is why `ChunkingIrrelevant` is about the strict one.
* The lenient policy of WebSocket and QUIC delivers a well-formed packet that exceeds
  only the limit on the extension header as a raw one, header bytes and all
  (`websocket.rs:493`), where TCP closes the connection under either policy.
* The builder documents its frame policy as "default Lenient"
  (`transport/server.rs:44`); the default it uses is strict (`:29`, `packet.rs:91`).
* A TCP stream that ends inside a frame closes with reason Normal.
* The age of a ping is counted from before it is written, and a pong that waits
  behind a consumer that does not keep up counts as missing; `TimeoutDeserved`
  says exactly how far this goes.
* A QUIC connection told to close while its stream is being opened does not notice
  before that ends (`quic.rs:583`): the exception in `TeardownCompletes`.
* A listener waits for the close of a connection it turns away, at the cap
  (`transport_server.rs:1308`) and at the closed gate (`:535`, permit in hand); a mute
  QUIC peer can hold it there, so that later peers wait, the listener does not stop and
  `serve` does not return: `Stuck` in `AcceptPump`, `Holds` in `ServerLifecycle`.

## 7. Plan

The arithmetic of the timeout wheel and of the retry delays, as operators against
reference definitions.
