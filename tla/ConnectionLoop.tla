--------------------------- MODULE ConnectionLoop ---------------------------
(***************************************************************************)
(* The event loop of one connection (adapters/tcp.rs, adapters/websocket.rs*)
(* and adapters/quic.rs): how it reads, writes, keeps alive, notices that  *)
(* it is idle, and ends.  For TCP and WebSocket reader, writer and clocks  *)
(* are futures of one task, and the end of any of them drops the others.   *)
(* For QUIC reader and writer are tasks of their own under a supervisor.   *)
(*                                                                         *)
(* Time is counted in ticks.  A future that can go on is polled within the *)
(* tick, in any order; only what waits for the peer, for the consumer or   *)
(* for time itself lets a tick pass.  What bytes make a frame is in        *)
(* Framing, the queue and its budget in Outbound, the event queue and its  *)
(* close cell in EventPipe.                                                *)
(***************************************************************************)
EXTENDS Naturals, Sequences, FiniteSets, SequencesExt

CONSTANTS
    Protocols,     \* a subset of {"tcp", "websocket", "quic"}
    Packets,       \* bound, per protocol: the packets sent on the connection
    QueueCap,      \* outbound_capacity
    PipeCap,       \* pipe_capacity
    BatchSize,     \* WRITE_BATCH_SIZE of QUIC
    MaxWire,       \* bound, per protocol: frames on the way to this end
    Idling,        \* the roles whose configuration has an idle_timeout
    Pinging,       \* the roles whose configuration has a ping_interval
    Idle,          \* idle_timeout, in ticks
    PingEvery,     \* ping_interval
    Pong,          \* pong_timeout
    WriteDeadline  \* write_deadline

ASSUME LoopAssumption ==
    /\ Protocols \subseteq {"tcp", "websocket", "quic"}
    /\ {QueueCap, PipeCap, BatchSize, Idle, PingEvery, Pong, WriteDeadline}
         \subseteq Nat \ {0}
    /\ MaxWire \in [Protocols -> Nat \ {0}]
    /\ DOMAIN Packets = Protocols
    /\ Idling \subseteq {"server"} /\ Pinging \subseteq {"server", "client"}

VARIABLES
    proto,    \* the protocol of the connection
    role,     \* "server" or "client"
    loop,     \* "opening" (QUIC), "running", "closing" (WebSocket), "grace" (QUIC), "ended"
    status,   \* ConnState: "connecting", "connected" or "closed"
    signal,   \* shutdown was sent, or its sender dropped
    closer,   \* of the adapter: "none", "joining" (in close()), "returned", "dropped"
    peer,     \* "up" or "gone"
    wire,     \* frames on the way: "data", "bad", "ping", "pong"
    reader,   \* "reading", "parsing" or "done"
    buf,      \* what was read and is not handed over
    pipe,     \* events in the queue
    consumer, \* the event queue has its receiver
    cell,     \* the close cell: "open", "Normal", "Error" or "Timeout"
    writer,   \* "waiting", "sending", "pinging", "flushing" or "done"
    outq,     \* the outbound queue
    batch,    \* what is being written
    receipt,  \* per packet: "unsent", "pending", "ok", "err" or "dropped"
    control,  \* the Notify of the WebSocket loop holds a permit
    clock,    \* the timers
    flag,     \* shutdown_flag of QUIC
    aborted,  \* abort_all was called
    history   \* what the timers are judged by

Msgs == Packets[proto]

\* idle_timeout of TCP and WebSocket; ping_interval of WebSocket.
IdleOn == proto # "quic" /\ role \in Idling
PingOn == proto = "websocket" /\ role \in Pinging

given == <<proto, role>>
life == <<loop, status, cell>>
owners == <<signal, closer>>
reading == <<reader, buf, pipe>>
writing == <<writer, outq, batch, receipt>>
quic == <<flag, aborted>>
held == <<wire, control, clock, history>>
vars == <<given, life, owners, peer, reading, consumer, writing, held, quic>>

Outcomes == {"unsent", "pending", "ok", "err", "dropped"}

TypeOK ==
    /\ proto \in Protocols
    /\ role \in {"server", "client"}
    /\ loop \in {"opening", "running", "closing", "grace", "ended"}
    /\ status \in {"connecting", "connected", "closed"}
    /\ signal \in BOOLEAN /\ consumer \in BOOLEAN
    /\ closer \in {"none", "joining", "returned", "dropped"}
    /\ peer \in {"up", "gone"}
    /\ wire \in Seq({"data", "bad", "ping", "pong"})
    /\ reader \in {"reading", "parsing", "done"}
    /\ buf \in Seq({"data", "bad", "ping", "pong"})
    /\ pipe \in 0 .. PipeCap
    /\ cell \in {"open", "Normal", "Error", "Timeout"}
    /\ writer \in {"waiting", "sending", "pinging", "flushing", "done"}
    /\ outq \in Seq(Msgs) /\ batch \in Seq(Msgs)
    /\ receipt \in [Msgs -> Outcomes]
    /\ control \in BOOLEAN /\ flag \in BOOLEAN /\ aborted \in BOOLEAN
    /\ clock \in [quiet : Nat, nap : Nat, pinged : BOOLEAN, age : Nat, next : Nat,
                  armed : Nat, writing : Nat]
    /\ history \in [silent : Nat, choked : BOOLEAN, ponged : BOOLEAN]

\* The timers of a connection that just started.
Fresh ==
    [quiet |-> 0, nap |-> Idle, pinged |-> FALSE, age |-> 0, next |-> PingEvery,
     armed |-> PingEvery, writing |-> 0]

Calm == [silent |-> 0, choked |-> FALSE, ponged |-> FALSE]

\* The adapters are made on a stream that is up, except QUIC's, which has yet to open
\* its one stream.
TcpNew == [loop |-> "running", status |-> "connected"]
WebSocketNew == [loop |-> "running", status |-> "connected"]
QuicNew == [loop |-> "opening", status |-> "connecting"]

New == [tcp |-> TcpNew, websocket |-> WebSocketNew, quic |-> QuicNew]

Init ==
    /\ proto \in Protocols
    /\ role \in {"server", "client"}
    /\ loop = New[proto].loop
    /\ status = New[proto].status
    /\ signal = FALSE /\ closer = "none"
    /\ peer = "up" /\ wire = <<>>
    /\ reader = "reading" /\ buf = <<>> /\ pipe = 0
    /\ consumer = TRUE
    /\ cell = "open"
    /\ writer = "waiting" /\ outq = <<>> /\ batch = <<>>
    /\ receipt = [m \in Msgs |-> "unsent"]
    /\ control = FALSE
    /\ clock = Fresh
    /\ flag = FALSE /\ aborted = FALSE
    /\ history = Calm

-----------------------------------------------------------------------------
(* How a loop ends.                                                        *)

\* WriteCompletion: complete() or drop of those of s that nobody resolved yet.
Resolve(rs, s, v) ==
    [m \in Msgs |-> IF m \in ToSet(s) /\ rs[m] = "pending" THEN v ELSE rs[m]]

\* EventPipe::close: the first reason wins.
Publish(r) == cell' = IF cell = "open" THEN r ELSE cell

\* The select of TCP and WebSocket returns: the other futures are dropped with what
\* they hold, timers included, and the reason is published; socket and queue go with
\* the task, for a local close of a WebSocket only after the farewell.
EndLoop(r, local, rs) ==
    /\ Publish(r)
    /\ wire' = <<>> /\ control' = FALSE /\ clock' = Fresh /\ history' = Calm
    /\ status' = "closed"
    /\ reader' = "done" /\ buf' = <<>>
    /\ writer' = "done" /\ batch' = <<>>
    /\ IF local /\ proto = "websocket"
         THEN /\ loop' = "closing"
              /\ receipt' = Resolve(rs, batch, "dropped")
              /\ UNCHANGED outq
         ELSE /\ loop' = "ended"
              /\ receipt' = Resolve(rs, batch \o outq, "dropped")
              /\ outq' = <<>>

\* The end of the read future, or of QUIC's read task (which publishes r unless none).
ReaderEnds(r) ==
    IF proto = "quic"
      THEN /\ reader' = "done" /\ buf' = <<>>
           /\ IF r = "none" THEN UNCHANGED cell ELSE Publish(r)
           /\ UNCHANGED <<loop, status, writing, held>>
      ELSE EndLoop(IF r = "none" THEN "Normal" ELSE r, FALSE, receipt)

\* The end of the write future, or of QUIC's write task, whose queue goes with it.
WriterEnds(r, rs) ==
    IF proto = "quic"
      THEN /\ writer' = "done" /\ batch' = <<>> /\ outq' = <<>>
           /\ receipt' = Resolve(rs, batch \o outq, "dropped")
           /\ IF r = "none" THEN UNCHANGED cell ELSE Publish(r)
           /\ UNCHANGED <<loop, status, reader, buf, held>>
      ELSE EndLoop(IF r = "none" THEN "Normal" ELSE r, FALSE, rs)

\* Reader and writer are being polled.
Polled == IF proto = "quic" THEN loop # "opening" ELSE loop = "running"

-----------------------------------------------------------------------------
(* The peer, the consumer of the events, the senders, while it matters.    *)

PeerSends(f) ==
    /\ peer = "up" /\ loop \notin {"closing", "ended"}
    /\ Len(wire) < MaxWire[proto]
    /\ f \in {"ping", "pong"} => proto = "websocket"
    /\ wire' = Append(wire, f)
    /\ history' = [history EXCEPT !.silent = 0]
    /\ UNCHANGED <<given, life, owners, peer, reading, consumer, writing, control, clock, quic>>

PeerLost ==
    /\ peer = "up" /\ loop # "ended"
    /\ peer' = "gone"
    /\ UNCHANGED <<given, life, owners, reading, consumer, writing, held, quic>>

Drain ==
    /\ consumer /\ pipe > 0 /\ loop # "ended"
    /\ pipe' = pipe - 1
    /\ UNCHANGED <<given, life, owners, peer, wire, reader, buf, consumer, writing, control,
                   clock, quic, history>>

ConsumerDrops ==
    /\ consumer /\ loop # "ended"
    /\ consumer' = FALSE
    /\ UNCHANGED <<given, life, owners, peer, wire, reading, writing, control, clock, quic,
                   history>>

\* The queue's receiver exists: in the task, or in QUIC's write task.
QueueAlive == IF proto = "quic" THEN writer # "done" ELSE loop # "ended"

Enqueue(m) ==
    /\ QueueAlive
    /\ receipt[m] = "unsent"
    /\ Len(outq) < QueueCap
    /\ outq' = Append(outq, m)
    /\ receipt' = [receipt EXCEPT ![m] = "pending"]
    /\ UNCHANGED <<given, life, owners, peer, wire, reading, consumer, writer, batch, control,
                   clock, quic, history>>

\* Connection::close: signal, then join the task.
StartClose ==
    /\ closer = "none"
    /\ closer' = "joining"
    /\ signal' = TRUE
    /\ UNCHANGED <<given, life, peer, wire, reading, consumer, writing, control, clock,
                   quic, history>>

CloseReturns ==
    /\ closer = "joining" /\ loop = "ended"
    /\ closer' = "returned"
    /\ status' = IF proto = "quic" THEN status ELSE "closed"
    /\ UNCHANGED <<given, loop, cell, signal, peer, wire, reading, consumer, writing,
                   control, clock, quic, history>>

\* Dropping the adapter drops the shutdown sender: recv() returns too.
AdapterDrops ==
    /\ closer = "none"
    /\ closer' = "dropped"
    /\ signal' = TRUE
    /\ UNCHANGED <<given, life, peer, wire, reading, consumer, writing, control, clock,
                   quic, history>>

-----------------------------------------------------------------------------
(* Reading.                                                                *)

\* deliver() waits for room in the event queue.
Parked ==
    /\ reader = "parsing" /\ Head(buf) = "data"
    /\ pipe = PipeCap /\ consumer /\ cell = "open"

\* A TCP read may return any number of frames, the others read one at a time.
Fill(k) ==
    /\ Polled
    /\ reader = "reading"
    /\ k <= Len(wire) /\ (proto # "tcp" => k = 1)
    /\ buf' = SubSeq(wire, 1, k)
    /\ wire' = SubSeq(wire, k + 1, Len(wire))
    /\ reader' = "parsing"
    /\ clock' = [clock EXCEPT !.quiet = 0]
    /\ history' = [history EXCEPT !.choked = @ /\ Len(wire) > k]
    /\ UNCHANGED <<given, life, owners, peer, pipe, consumer, writing, control, quic>>

\* The next frame: QUIC looks at the shutdown flag before it reads on.
ReadOn ==
    /\ buf' = Tail(buf)
    /\ reader' = IF Tail(buf) # <<>> THEN "parsing"
                 ELSE IF proto = "quic" /\ flag THEN "done" ELSE "reading"

HandOver ==
    /\ Polled
    /\ reader = "parsing" /\ Head(buf) = "data" /\ ~Parked
    /\ IF consumer /\ cell = "open"
         THEN pipe' = pipe + 1 /\ ReadOn /\ UNCHANGED <<life, writing, held>>
         ELSE ReaderEnds("none") /\ UNCHANGED pipe
    /\ UNCHANGED <<given, owners, peer, consumer, quic>>

RefuseFrame ==
    /\ Polled
    /\ reader = "parsing" /\ Head(buf) = "bad"
    /\ ReaderEnds("Error")
    /\ UNCHANGED <<given, owners, peer, pipe, consumer, quic>>

\* A pong clears the pending ping; both wake the writer.
Heartbeat ==
    /\ Polled
    /\ reader = "parsing" /\ Head(buf) \in {"ping", "pong"}
    /\ control' = TRUE
    /\ clock' = IF Head(buf) = "pong" THEN [clock EXCEPT !.pinged = FALSE, !.age = 0] ELSE clock
    /\ history' = [history EXCEPT
         !.ponged = @ \/ (Head(buf) = "pong" /\ (clock.pinged \/ writer = "pinging"))]
    /\ ReadOn
    /\ UNCHANGED <<given, life, owners, peer, wire, pipe, consumer, writing, quic>>

\* The stream ends, in order or with an error.
ReadEnds(r) ==
    /\ Polled
    /\ reader = "reading" /\ wire = <<>> /\ peer = "gone"
    /\ proto = "quic" => r = "Normal"
    /\ ReaderEnds(r)
    /\ UNCHANGED <<given, owners, peer, pipe, consumer, quic>>

-----------------------------------------------------------------------------
(* Writing.                                                                *)

\* At the top of the WebSocket write loop the deadline of the select is computed.
Armed(c) ==
    [c EXCEPT !.writing = 0, !.armed = IF c.pinged THEN Pong - c.age ELSE c.next]

\* Back at the top after a write, which counts as activity; QUIC looks at the shutdown
\* flag there.
WriteOn(rs) ==
    IF proto = "quic" /\ flag
      THEN WriterEnds("none", rs)
      ELSE /\ writer' = "waiting" /\ batch' = <<>> /\ receipt' = rs
           /\ clock' = Armed([clock EXCEPT !.quiet = 0])
           /\ UNCHANGED <<outq, life, reader, buf, wire, control, history>>

\* A packet that does not encode (odd) fails its own receipt and is left out.
PrepareBatch(taken, odd) ==
    [good |-> SelectSeq(taken, LAMBDA m : m \notin odd),
     receipts |-> Resolve(receipt, SelectSeq(taken, LAMBDA m : m \in odd), "err")]

\* The next packet, for QUIC the next batch; for TCP one that does not encode ends the
\* connection.
TakeNext(n, odd) ==
    /\ Polled
    /\ writer = "waiting" /\ outq # <<>>
    /\ n = (IF proto = "quic" THEN IF Len(outq) < BatchSize THEN Len(outq) ELSE BatchSize ELSE 1)
    /\ LET prepared == PrepareBatch(SubSeq(outq, 1, n), odd)
           good == prepared.good
           rs == prepared.receipts
       IN  IF good = <<>> /\ proto = "tcp"
             THEN WriterEnds("Error", rs)
             ELSE /\ outq' = SubSeq(outq, n + 1, Len(outq))
                  /\ receipt' = rs
                  /\ batch' = good
                  /\ IF good = <<>> /\ proto = "websocket"
                       THEN writer' = "waiting" /\ clock' = Armed(clock)
                       ELSE writer' = "sending" /\ clock' = [clock EXCEPT !.writing = 0]
                  /\ UNCHANGED <<life, reader, buf, wire, control, history>>
    /\ UNCHANGED <<given, owners, peer, pipe, consumer, quic>>

\* The write ends well.
WriteDone ==
    /\ Polled
    /\ writer = "sending"
    /\ WriteOn(Resolve(receipt, batch, "ok"))
    /\ UNCHANGED <<given, owners, peer, pipe, consumer, quic>>

\* A write of a packet, a ping or a flush fails, or overruns the deadline.
WriteFails ==
    /\ Polled
    /\ writer \in {"sending", "pinging", "flushing"}
    /\ peer = "gone" \/ clock.writing >= WriteDeadline
    /\ WriterEnds("Error", Resolve(receipt, batch, "err"))
    /\ UNCHANGED <<given, owners, peer, pipe, consumer, quic>>

\* No sender is left: the adapter, which has one, and every QueueWriter are dropped.
QueueCloses ==
    /\ Polled
    /\ writer = "waiting" /\ outq = <<>>
    /\ closer = "dropped"
    /\ WriterEnds("none", receipt)
    /\ UNCHANGED <<given, owners, peer, pipe, consumer, quic>>

Notified ==
    /\ proto = "websocket" /\ Polled
    /\ writer = "waiting" /\ control
    /\ control' = FALSE
    /\ writer' = "flushing"
    /\ clock' = [clock EXCEPT !.writing = 0]
    /\ UNCHANGED <<given, life, owners, peer, wire, reading, consumer, outq, batch, receipt, quic,
                   history>>

Flushed ==
    /\ Polled
    /\ writer = "flushing"
    /\ writer' = "waiting"
    /\ clock' = Armed(clock)
    /\ UNCHANGED <<given, life, owners, peer, wire, reading, consumer, outq, batch, receipt,
                   control, quic, history>>

\* The deadline of the select passes: the next ping, published before it is written.
PingDue ==
    /\ PingOn /\ Polled
    /\ writer = "waiting" /\ clock.armed = 0 /\ ~clock.pinged
    /\ writer' = "pinging"
    /\ clock' = [clock EXCEPT !.pinged = TRUE, !.age = 0, !.writing = 0]
    /\ history' = [history EXCEPT !.ponged = FALSE]
    /\ UNCHANGED <<given, life, owners, peer, wire, reading, consumer, outq, batch, receipt,
                   control, quic>>

\* Mutant: the ping becomes pending only after its write.
PingedLate ==
    /\ Polled
    /\ writer = "pinging"
    /\ writer' = "waiting"
    /\ clock' = Armed([clock EXCEPT !.next = PingEvery, !.pinged = TRUE])
    /\ UNCHANGED <<given, life, owners, peer, wire, reading, consumer, outq, batch, receipt,
                   control, quic, history>>

Pinged ==
    /\ Polled
    /\ writer = "pinging"
    /\ writer' = "waiting"
    /\ clock' = Armed([clock EXCEPT !.next = PingEvery])
    /\ UNCHANGED <<given, life, owners, peer, wire, reading, consumer, outq, batch, receipt,
                   control, quic, history>>

\* The deadline passes with a ping still pending.
PongOverdue ==
    /\ PingOn /\ Polled
    /\ writer = "waiting" /\ clock.armed = 0 /\ clock.pinged
    /\ EndLoop("Timeout", FALSE, receipt)
    /\ UNCHANGED <<given, owners, peer, pipe, consumer, quic>>

-----------------------------------------------------------------------------
(* The idle clock, and the other ends of the select.                       *)

\* The sleep ends: the connection is idle, or was used meanwhile.
IdleWakes ==
    /\ IdleOn /\ Polled
    /\ clock.nap = 0
    /\ IF clock.quiet >= Idle
         THEN EndLoop("Timeout", FALSE, receipt)
         ELSE /\ clock' = [clock EXCEPT !.nap = Idle - clock.quiet]
              /\ UNCHANGED <<life, reader, buf, writing, wire, control, history>>
    /\ UNCHANGED <<given, owners, peer, pipe, consumer, quic>>

Shutdown ==
    /\ proto # "quic" /\ Polled
    /\ signal
    /\ EndLoop("Normal", TRUE, receipt)
    /\ UNCHANGED <<given, owners, peer, pipe, consumer, quic>>

\* writer.close(), within the write deadline.
Farewell ==
    /\ loop = "closing"
    /\ loop' = "ended"
    /\ outq' = <<>>
    /\ receipt' = Resolve(receipt, outq, "dropped")
    /\ UNCHANGED <<given, status, cell, owners, peer, wire, reading, consumer, writer, batch,
                   control, clock, quic, history>>

-----------------------------------------------------------------------------
(* QUIC: opening the stream, and the supervisor of the two tasks.          *)

\* open_bi of a client; accept_bi of a server returns when the peer has written.
StreamReady ==
    /\ loop = "opening" /\ peer = "up"
    /\ role = "server" => wire # <<>>
    /\ loop' = "running"
    /\ status' = "connected"
    /\ UNCHANGED <<given, cell, owners, peer, wire, reading, consumer, writing, control, clock,
                   quic, history>>

StreamFails ==
    /\ loop = "opening" /\ peer = "gone"
    /\ loop' = "ended"
    /\ Publish("Error")
    /\ reader' = "done" /\ writer' = "done"
    /\ outq' = <<>> /\ receipt' = Resolve(receipt, outq, "dropped")
    /\ UNCHANGED <<given, status, owners, peer, wire, buf, pipe, consumer, batch, control, clock,
                   quic, history>>

\* The supervisor's select: the signal, or the end of a task.
Supervise(cause) ==
    /\ proto = "quic" /\ loop = "running"
    /\ \/ cause = "signal" /\ signal /\ Publish("Normal")
       \/ cause = "reader" /\ reader = "done" /\ UNCHANGED cell
       \/ cause = "writer" /\ writer = "done" /\ UNCHANGED cell
    /\ flag' = TRUE
    /\ loop' = "grace"
    /\ UNCHANGED <<given, status, owners, peer, wire, reading, consumer, writing, control, clock,
                   aborted, history>>

\* Mutant: the tasks that overrun the window are left alone.
GraceOrphans ==
    /\ loop = "grace"
    /\ loop' = "ended"
    /\ status' = "closed"
    /\ UNCHANGED <<given, cell, owners, peer, wire, reading, consumer, writing, control, clock,
                   quic, history>>

\* Both tasks ended within the window, or it is over: abort_all.
GraceEnds ==
    /\ loop = "grace"
    /\ aborted' = TRUE
    /\ loop' = "ended"
    /\ status' = "closed"
    /\ UNCHANGED <<given, cell, owners, peer, wire, reading, consumer, writing, control, clock,
                   flag, history>>

\* An aborted task ends at its await.
ReaderAborted ==
    /\ aborted /\ reader # "done"
    /\ ReaderEnds("none")
    /\ UNCHANGED <<given, owners, peer, pipe, consumer, quic>>

WriterAborted ==
    /\ aborted /\ writer # "done"
    /\ WriterEnds("none", receipt)
    /\ UNCHANGED <<given, owners, peer, pipe, consumer, quic>>

-----------------------------------------------------------------------------
(* Time.                                                                   *)

\* Some part of the loop has something to do that does not wait for the peer.
Urgent ==
    /\ Polled
    /\ \/ reader = "reading" /\ wire # <<>>
       \/ reader = "parsing" /\ ~Parked
       \/ writer = "waiting" /\ (outq # <<>> \/ control)
       \/ PingOn /\ writer = "waiting" /\ clock.armed = 0
       \/ writer # "waiting" /\ clock.writing >= WriteDeadline
       \/ clock.nap = 0

Up(n, max) == IF n < max THEN n + 1 ELSE n
Down(n) == IF n > 0 THEN n - 1 ELSE n

Tick ==
    /\ loop \notin {"closing", "ended"} /\ ~Urgent
    /\ clock' =
         [clock EXCEPT !.quiet = IF IdleOn THEN Up(@, Idle) ELSE @,
                       !.nap = IF IdleOn THEN Down(@) ELSE @,
                       !.age = IF clock.pinged THEN Up(@, Pong) ELSE @,
                       !.next = IF PingOn THEN Down(@) ELSE @,
                       !.armed = IF PingOn THEN Down(@) ELSE @,
                       !.writing = IF writer \in {"sending", "pinging", "flushing"}
                                     THEN Up(@, WriteDeadline) ELSE @]
    /\ history' = IF proto = "quic" THEN history
                  ELSE [history EXCEPT !.silent = Up(@, IF IdleOn THEN Idle ELSE 1),
                                       !.choked = @ \/ Parked]
    /\ UNCHANGED <<given, life, owners, peer, wire, reading, consumer, writing, control, quic>>

-----------------------------------------------------------------------------
Read ==
    \/ \E k \in 1 .. MaxWire[proto] : Fill(k)
    \/ HandOver
    \/ RefuseFrame
    \/ Heartbeat
    \/ \E r \in {"Normal", "Error"} : ReadEnds(r)

\* The steps of the writer that do not wait for the peer.
Write ==
    \/ \E n \in 1 .. BatchSize, odd \in SUBSET Msgs : TakeNext(n, odd)
    \/ WriteFails
    \/ QueueCloses
    \/ Notified
    \/ PingDue
    \/ PongOverdue

Finish ==
    \/ Shutdown
    \/ Farewell
    \/ StreamFails
    \/ \E c \in {"signal", "reader", "writer"} : Supervise(c)
    \/ GraceEnds
    \/ CloseReturns

Next ==
    \/ \E f \in {"data", "bad", "ping", "pong"} : PeerSends(f)
    \/ PeerLost
    \/ Drain
    \/ ConsumerDrops
    \/ \E m \in Msgs : Enqueue(m)
    \/ StartClose
    \/ AdapterDrops
    \/ Read
    \/ Write
    \/ WriteDone
    \/ Flushed
    \/ Pinged
    \/ IdleWakes
    \/ Finish
    \/ StreamReady
    \/ ReaderAborted
    \/ WriterAborted
    \/ Tick

Spec == Init /\ [][Next]_vars

\* Tasks are polled, timers fire and the consumer takes events; the peer owes nothing.
FairSpec ==
    /\ Spec
    /\ WF_vars(Read) /\ WF_vars(Write) /\ WF_vars(Finish)
    /\ WF_vars(ReaderAborted) /\ WF_vars(WriterAborted)
    /\ WF_vars(Tick) /\ WF_vars(Drain)

-----------------------------------------------------------------------------
(* Properties.                                                             *)

\* The peer was silent for the idle timeout, or what it sent waited behind a consumer
\* that did not keep up, or arrived just now.
IdleDeserved ==
    /\ clock.quiet >= Idle
    /\ history.silent >= Idle \/ history.choked \/ (history.silent = 0 /\ wire # <<>>)

\* No pong was read since the ping, and none waited for a reader that could read.
PongMissed ==
    /\ clock.pinged /\ clock.age >= Pong
    /\ ~history.ponged
    /\ "pong" \notin ToSet(wire) \/ history.choked \/ history.silent = 0

\* A connection is given up as timed out only for the peer's silence: nothing was read
\* or written for the whole idle timeout, or a ping went unanswered for the whole pong
\* timeout, and in neither case was the answer there for the reader to see.
TimeoutDeserved ==
    [][cell = "open" /\ cell' = "Timeout" => IdleDeserved \/ PongMissed]_vars

\* A connection whose peer is gone, or that was told to close, ends for good, however
\* little the peer reads or writes: no task of it is left, every packet handed to it has
\* its result, and close() returns.  Only a QUIC stream that is still being opened
\* cannot be told.
TeardownCompletes ==
    peer = "gone" \/ (signal /\ loop # "opening") ~>
        /\ loop = "ended" /\ reader = "done" /\ writer = "done"
        /\ \A m \in Msgs : receipt[m] # "pending"
        /\ closer # "joining"
=============================================================================
