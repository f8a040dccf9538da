------------------------ MODULE ConnectionLoopProofs ------------------------
(***************************************************************************)
(* Theorems about ConnectionLoop, for any timeouts, queue sizes and        *)
(* numbers of packets and frames: a connection that is given up as timed   *)
(* out had a peer that was silent.                                         *)
(*                                                                         *)
(* LoopInv is the inductive invariant.  It ties the clocks of the loop to  *)
(* the history of the peer: what lies on the wire unread for a tick lies   *)
(* there because the consumer holds up the reader (Unread), the idle clock *)
(* has not run longer than the peer was silent (QuietIsSilence), and the   *)
(* deadline of a writer that waits for a pong is the rest of the pong      *)
(* timeout, counted from the ping (PongDeadline).                          *)
(***************************************************************************)
EXTENDS ConnectionLoop, TLAPS

Frames == {"data", "bad", "ping", "pong"}

Clocks ==
    [quiet : 0 .. Idle, nap : Nat, pinged : BOOLEAN, age : 0 .. Pong, next : Nat,
     armed : Nat, writing : Nat]

Histories == [silent : Nat, choked : BOOLEAN, ponged : BOOLEAN]

ClocksTyped ==
    /\ proto \in Protocols
    /\ clock \in Clocks
    /\ history \in Histories
    /\ wire \in Seq(Frames)

\* The loop of TCP or WebSocket, where the timers are.
Timed == loop = "running" /\ proto # "quic"

\* The reader of such a loop runs as long as the loop, which does not start twice.
ReaderRuns ==
    /\ Timed => reader \in {"reading", "parsing"}
    /\ proto # "quic" => loop # "opening"

\* What is unread came just now, or waits behind a consumer that does not keep up.
Unread ==
    Timed /\ wire # <<>> => history.choked \/ history.silent = 0

\* As long as the connection was quiet the peer was silent, or what it sent is unread.
QuietIsSilence ==
    Timed /\ IdleOn => clock.quiet <= history.silent \/ history.choked \/ wire # <<>>

\* A ping is pending until its pong is read, and the writer waits for the rest of the
\* pong timeout.
PongDeadline ==
    Timed /\ clock.pinged =>
        /\ PingOn
        /\ ~ history.ponged
        /\ writer = "waiting" => Pong <= clock.armed + clock.age

\* The inductive invariant.
LoopInv == ClocksTyped /\ ReaderRuns /\ Unread /\ QuietIsSilence /\ PongDeadline

-----------------------------------------------------------------------------
\* The numbers of the configuration.
LEMMA Numbers ==
    /\ Idle \in Nat \ {0} /\ Pong \in Nat \ {0} /\ PingEvery \in Nat \ {0}
    /\ WriteDeadline \in Nat \ {0} /\ PipeCap \in Nat \ {0}
    /\ Protocols \subseteq {"tcp", "websocket", "quic"}
BY LoopAssumption

\* A step that touches neither the loop, its reader and writer, nor the timers.
LEMMA RestKeeps ==
    ASSUME LoopInv, UNCHANGED <<given, loop, reader, writer, wire, clock, history>>
    PROVE  LoopInv'
BY DEF LoopInv, ClocksTyped, ReaderRuns, Unread, QuietIsSilence, PongDeadline, Timed,
       IdleOn, PingOn, given

\* The select returns: the timers go with it.
LEMMA EndKeeps ==
    ASSUME LoopInv, NEW r, NEW local, NEW rs, EndLoop(r, local, rs), UNCHANGED given
    PROVE  LoopInv'
<1>1. /\ loop' \in {"closing", "ended"} /\ wire' = <<>> /\ clock' = Fresh /\ history' = Calm
      /\ proto' = proto /\ ~ Timed'
  BY DEF EndLoop, given, Timed
<1>2. Fresh \in Clocks /\ Calm \in Histories /\ <<>> \in Seq(Frames)
  BY Numbers DEF Fresh, Calm, Clocks, Histories
<1> QED BY <1>1, <1>2
     DEF LoopInv, ClocksTyped, ReaderRuns, Unread, QuietIsSilence, PongDeadline

\* Of a QUIC connection only the types are at stake.
LEMMA QuicKeeps ==
    ASSUME LoopInv, proto = "quic", UNCHANGED <<given, wire, history>>, clock' \in Clocks
    PROVE  LoopInv'
BY DEF LoopInv, ClocksTyped, ReaderRuns, Unread, QuietIsSilence, PongDeadline, Timed, given

\* The end of a reader, as a future or as a task.
LEMMA ReaderEndKeeps ==
    ASSUME LoopInv, NEW r, ReaderEnds(r), UNCHANGED given
    PROVE  LoopInv'
<1>1. CASE proto = "quic"
  BY <1>1, QuicKeeps DEF ReaderEnds, held, LoopInv, ClocksTyped
<1>2. CASE proto # "quic"
  BY <1>2, EndKeeps DEF ReaderEnds
<1> QED BY <1>1, <1>2

\* The end of a writer.
LEMMA WriterEndKeeps ==
    ASSUME LoopInv, NEW r, NEW rs, WriterEnds(r, rs), UNCHANGED given
    PROVE  LoopInv'
<1>1. CASE proto = "quic"
  BY <1>1, QuicKeeps DEF WriterEnds, held, LoopInv, ClocksTyped
<1>2. CASE proto # "quic"
  BY <1>2, EndKeeps DEF WriterEnds
<1> QED BY <1>1, <1>2

-----------------------------------------------------------------------------
(* The clock, by its fields.                                               *)

\* At the top of the write loop the clock keeps its types, and the deadline is set.
LEMMA ArmedClock ==
    ASSUME NEW c \in Clocks
    PROVE  /\ Armed(c) \in Clocks
           /\ Armed(c).quiet = c.quiet /\ Armed(c).pinged = c.pinged /\ Armed(c).age = c.age
           /\ c.pinged => Pong <= Armed(c).armed + Armed(c).age
<1>1. c.age \in 0 .. Pong /\ c.next \in Nat /\ Pong \in Nat
  BY Numbers DEF Clocks
<1>2. Pong - c.age \in Nat /\ Pong <= (Pong - c.age) + c.age
  BY <1>1
<1>3. (IF c.pinged THEN Pong - c.age ELSE c.next) \in Nat
  BY <1>1, <1>2
<1> QED BY <1>2, <1>3 DEF Armed, Clocks

\* Other uses of the clock.
LEMMA ClockUpdates ==
    ASSUME NEW c \in Clocks
    PROVE  /\ [c EXCEPT !.quiet = 0] \in Clocks
           /\ [c EXCEPT !.quiet = 0].quiet = 0
           /\ [c EXCEPT !.quiet = 0].pinged = c.pinged
           /\ [c EXCEPT !.quiet = 0].age = c.age
           /\ [c EXCEPT !.quiet = 0].armed = c.armed
           /\ [c EXCEPT !.writing = 0] \in Clocks
           /\ [c EXCEPT !.writing = 0].quiet = c.quiet
           /\ [c EXCEPT !.writing = 0].pinged = c.pinged
           /\ [c EXCEPT !.next = PingEvery] \in Clocks
           /\ [c EXCEPT !.next = PingEvery].quiet = c.quiet
           /\ [c EXCEPT !.next = PingEvery].pinged = c.pinged
BY Numbers DEF Clocks

\* A pong that arrives, and a ping that goes out.
LEMMA PingUpdates ==
    ASSUME NEW c \in Clocks
    PROVE  /\ [c EXCEPT !.pinged = FALSE, !.age = 0] \in Clocks
           /\ [c EXCEPT !.pinged = FALSE, !.age = 0].quiet = c.quiet
           /\ ~ [c EXCEPT !.pinged = FALSE, !.age = 0].pinged
           /\ [c EXCEPT !.pinged = TRUE, !.age = 0, !.writing = 0] \in Clocks
           /\ [c EXCEPT !.pinged = TRUE, !.age = 0, !.writing = 0].quiet = c.quiet
<1> DEFINE a == [c EXCEPT !.age = 0]
           f == [a EXCEPT !.pinged = FALSE]
           w == [a EXCEPT !.writing = 0]
           t == [w EXCEPT !.pinged = TRUE]
<1>1. a \in Clocks /\ a.quiet = c.quiet
  BY Numbers DEF Clocks
<1>2. w \in Clocks /\ w.quiet = c.quiet
  BY <1>1 DEF Clocks
<1> HIDE DEF a, w
<1>3. f \in Clocks /\ f.quiet = c.quiet /\ ~ f.pinged
  BY <1>1 DEF Clocks
<1>4. t \in Clocks /\ t.quiet = c.quiet
  BY <1>2 DEF Clocks
<1>5. f = [c EXCEPT !.pinged = FALSE, !.age = 0]
  BY Zenon DEF Clocks, a
<1>6. t = [c EXCEPT !.pinged = TRUE, !.age = 0, !.writing = 0]
  BY Zenon DEF Clocks, w, a
<1> QED BY <1>3, <1>4, <1>5, <1>6

-----------------------------------------------------------------------------
(* The steps of the loop.                                                  *)

\* A step that at most winds the timers back, and sets the deadline with them.
LEMMA ClockKeeps ==
    ASSUME LoopInv, UNCHANGED <<given, loop, reader, wire, history>>, clock' \in Clocks,
           clock'.quiet <= clock.quiet, clock'.pinged => clock.pinged,
           clock'.pinged /\ writer' = "waiting" => Pong <= clock'.armed + clock'.age
    PROVE  LoopInv'
<1>1. /\ ClocksTyped' /\ ReaderRuns' /\ Unread' /\ PongDeadline'
  BY DEF LoopInv, ClocksTyped, ReaderRuns, Unread, PongDeadline, Timed, PingOn, given
<1>2. clock.quiet \in Nat /\ clock'.quiet \in Nat /\ history.silent \in Nat
  BY Numbers DEF LoopInv, ClocksTyped, Clocks, Histories
<1>3. QuietIsSilence'
  BY <1>2 DEF LoopInv, QuietIsSilence, Timed, IdleOn, given
<1> QED BY <1>1, <1>3 DEF LoopInv

\* A step after which the loop no longer runs.
LEMMA StopKeeps ==
    ASSUME LoopInv, UNCHANGED <<given, wire, clock, history>>,
           loop' \notin {"running", "opening"}
    PROVE  LoopInv'
BY DEF LoopInv, ClocksTyped, ReaderRuns, Unread, QuietIsSilence, PongDeadline, Timed, given

\* Steps of the peer, of the consumer, of the senders and of the owner.
LEMMA OthersKeep ==
    ASSUME LoopInv,
           \/ PeerLost \/ Drain \/ ConsumerDrops \/ StartClose \/ AdapterDrops \/ CloseReturns
           \/ \E m \in Msgs : Enqueue(m)
    PROVE  LoopInv'
<1>1. UNCHANGED <<given, loop, reader, writer, wire, clock, history>>
  BY DEF PeerLost, Drain, ConsumerDrops, StartClose, AdapterDrops, CloseReturns, Enqueue,
         life, reading, writing, held
<1> QED BY <1>1, RestKeeps

\* A frame arrives.
LEMMA PeerSendsKeeps ==
    ASSUME LoopInv, NEW f \in Frames, PeerSends(f)
    PROVE  LoopInv'
<1>1. /\ wire \in Seq(Frames) /\ history \in Histories /\ clock \in Clocks
      /\ wire' = Append(wire, f) /\ history' = [history EXCEPT !.silent = 0]
      /\ UNCHANGED <<given, loop, reader, writer, clock>>
  BY DEF PeerSends, life, reading, writing, LoopInv, ClocksTyped
<1>2. /\ wire' \in Seq(Frames) /\ wire' # <<>>
      /\ history' \in Histories /\ history'.silent = 0 /\ history'.ponged = history.ponged
  BY <1>1 DEF Histories
<1> QED BY <1>1, <1>2
     DEF LoopInv, ClocksTyped, ReaderRuns, Unread, QuietIsSilence, PongDeadline, Timed,
         IdleOn, PingOn, given

\* The reader takes frames off the wire: what it leaves is as old as before.
LEMMA FillKeeps ==
    ASSUME LoopInv, NEW k \in Nat \ {0}, Fill(k)
    PROVE  LoopInv'
<1>1. /\ wire \in Seq(Frames) /\ history \in Histories /\ clock \in Clocks
      /\ k <= Len(wire) /\ Len(wire) \in Nat
      /\ wire' = SubSeq(wire, k + 1, Len(wire)) /\ reader' = "parsing"
      /\ clock' = [clock EXCEPT !.quiet = 0]
      /\ history' = [history EXCEPT !.choked = @ /\ Len(wire) > k]
      /\ UNCHANGED <<given, loop, writer>>
  BY DEF Fill, life, writing, LoopInv, ClocksTyped
<1>2. wire' \in Seq(Frames) /\ wire # <<>>
  BY <1>1
<1>3. wire' # <<>> => Len(wire) > k
  BY <1>1
<1>4. /\ history' \in Histories /\ history'.silent = history.silent
      /\ history'.ponged = history.ponged /\ history.silent \in Nat
      /\ Len(wire) > k => history'.choked = history.choked
  BY <1>1 DEF Histories
<1>5. /\ clock' \in Clocks /\ clock'.quiet = 0 /\ clock'.pinged = clock.pinged
      /\ clock'.age = clock.age /\ clock'.armed = clock.armed
  BY <1>1, ClockUpdates
<1>6. ClocksTyped' /\ ReaderRuns'
  BY <1>1, <1>2, <1>4, <1>5 DEF LoopInv, ClocksTyped, ReaderRuns, Timed, given
<1>7. Unread'
  BY <1>1, <1>2, <1>3, <1>4 DEF LoopInv, Unread, Timed, given
<1>8. QuietIsSilence'
  BY <1>4, <1>5 DEF QuietIsSilence
<1>9. PongDeadline'
  BY <1>1, <1>4, <1>5 DEF LoopInv, PongDeadline, Timed, PingOn, given
<1> QED BY <1>6, <1>7, <1>8, <1>9 DEF LoopInv

\* The reader goes on to the next frame.
LEMMA ReadOnKeeps ==
    ASSUME LoopInv, ReadOn, UNCHANGED <<given, loop, writer, wire, clock, history>>
    PROVE  LoopInv'
BY DEF ReadOn, LoopInv, ClocksTyped, ReaderRuns, Unread, QuietIsSilence, PongDeadline, Timed,
       IdleOn, PingOn, given

\* A packet goes to the consumer, or there is none and the reader ends.
LEMMA HandOverKeeps ==
    ASSUME LoopInv, HandOver
    PROVE  LoopInv'
<1>1. CASE consumer /\ cell = "open"
  BY <1>1, ReadOnKeeps DEF HandOver, life, writing, held
<1>2. CASE ~(consumer /\ cell = "open")
  BY <1>2, ReaderEndKeeps DEF HandOver
<1> QED BY <1>1, <1>2

\* A pong answers the pending ping, or is counted as read.
LEMMA HeartbeatKeeps ==
    ASSUME LoopInv, Heartbeat
    PROVE  LoopInv'
<1>1. /\ history \in Histories /\ clock \in Clocks /\ Pong \in Nat
      /\ UNCHANGED <<given, loop, wire, writer>>
      /\ clock' = IF Head(buf) = "pong" THEN [clock EXCEPT !.pinged = FALSE, !.age = 0] ELSE clock
      /\ history' = [history EXCEPT
            !.ponged = @ \/ (Head(buf) = "pong" /\ (clock.pinged \/ writer = "pinging"))]
      /\ reader' = IF Tail(buf) # <<>> THEN "parsing"
                   ELSE IF proto = "quic" /\ flag THEN "done" ELSE "reading"
  BY Numbers DEF Heartbeat, ReadOn, life, writing, LoopInv, ClocksTyped
<1>2. /\ clock' \in Clocks /\ clock'.quiet = clock.quiet
      /\ Head(buf) = "pong" => ~ clock'.pinged
      /\ Head(buf) # "pong" => clock' = clock
  <2>1. CASE Head(buf) = "pong"
    BY <1>1, <2>1, PingUpdates
  <2>2. CASE Head(buf) # "pong"
    BY <1>1, <2>2
  <2> QED BY <2>1, <2>2
<1>3. /\ history' \in Histories /\ history'.silent = history.silent
      /\ history'.choked = history.choked
      /\ Head(buf) # "pong" => history'.ponged = history.ponged
  BY <1>1 DEF Histories
<1> QED BY <1>1, <1>2, <1>3
     DEF LoopInv, ClocksTyped, ReaderRuns, Unread, QuietIsSilence, PongDeadline, Timed,
         IdleOn, PingOn, given

\* The writer, for which a write counts as use of the connection.
LEMMA WriteOnKeeps ==
    ASSUME LoopInv, NEW rs, WriteOn(rs), UNCHANGED given
    PROVE  LoopInv'
<1>1. CASE proto = "quic" /\ flag
  BY <1>1, WriterEndKeeps DEF WriteOn
<1>2. CASE ~(proto = "quic" /\ flag)
  <2> DEFINE c == [clock EXCEPT !.quiet = 0]
  <2>1. /\ clock \in Clocks /\ clock' = Armed(c)
        /\ UNCHANGED <<given, loop, reader, wire, history>>
    BY <1>2 DEF WriteOn, LoopInv, ClocksTyped, life
  <2>2. c \in Clocks /\ c.quiet = 0 /\ c.pinged = clock.pinged
    BY <2>1, ClockUpdates
  <2>3. /\ clock' \in Clocks /\ clock'.quiet = 0 /\ clock'.pinged = clock.pinged
        /\ clock'.pinged => Pong <= clock'.armed + clock'.age
    BY <2>1, <2>2, ArmedClock
  <2>4. clock'.quiet <= clock.quiet
    BY <2>1, <2>3 DEF Clocks
  <2> QED BY <2>1, <2>3, <2>4, ClockKeeps
<1> QED BY <1>1, <1>2

\* The writer takes packets off the queue, and is waiting again if none encodes.
LEMMA TakeNextKeeps ==
    ASSUME LoopInv, NEW n, NEW odd, TakeNext(n, odd)
    PROVE  LoopInv'
<1> DEFINE prepared == PrepareBatch(SubSeq(outq, 1, n), odd)
<1>1. CASE prepared.good = <<>> /\ proto = "tcp"
  BY <1>1, WriterEndKeeps DEF TakeNext
<1>2. CASE ~(prepared.good = <<>> /\ proto = "tcp")
  <2>1. /\ UNCHANGED <<given, loop, reader, wire, history>> /\ clock \in Clocks
        /\ \/ writer' = "waiting" /\ clock' = Armed(clock)
           \/ writer' = "sending" /\ clock' = [clock EXCEPT !.writing = 0]
    BY <1>2 DEF TakeNext, life, LoopInv, ClocksTyped
  <2>2. /\ clock' \in Clocks /\ clock'.quiet = clock.quiet /\ clock'.pinged = clock.pinged
        /\ clock'.pinged /\ writer' = "waiting" => Pong <= clock'.armed + clock'.age
    <3>1. CASE writer' = "waiting" /\ clock' = Armed(clock)
      BY <2>1, <3>1, ArmedClock
    <3>2. CASE writer' = "sending" /\ clock' = [clock EXCEPT !.writing = 0]
      BY <2>1, <3>2, ClockUpdates
    <3> QED BY <2>1, <3>1, <3>2
  <2>3. clock'.quiet <= clock.quiet
    BY <2>1, <2>2 DEF Clocks
  <2> QED BY <2>1, <2>2, <2>3, ClockKeeps
<1> QED BY <1>1, <1>2

\* The flush of what the reader answered, and the end of a flush or of a ping.
LEMMA FlushKeeps ==
    ASSUME LoopInv, Notified \/ Flushed \/ Pinged
    PROVE  LoopInv'
<1> DEFINE c == [clock EXCEPT !.next = PingEvery]
<1>1. /\ UNCHANGED <<given, loop, reader, wire, history>> /\ clock \in Clocks
      /\ \/ writer' = "flushing" /\ clock' = [clock EXCEPT !.writing = 0]
         \/ clock' = Armed(clock)
         \/ clock' = Armed(c)
  BY DEF Notified, Flushed, Pinged, life, reading, LoopInv, ClocksTyped
<1>2. c \in Clocks /\ c.quiet = clock.quiet /\ c.pinged = clock.pinged
  BY <1>1, ClockUpdates
<1>3. /\ clock' \in Clocks /\ clock'.quiet = clock.quiet /\ clock'.pinged = clock.pinged
      /\ clock'.pinged /\ writer' = "waiting" => Pong <= clock'.armed + clock'.age
  <2>1. CASE writer' = "flushing" /\ clock' = [clock EXCEPT !.writing = 0]
    BY <1>1, <2>1, ClockUpdates
  <2>2. CASE clock' = Armed(clock)
    BY <1>1, <2>2, ArmedClock
  <2>3. CASE clock' = Armed(c)
    BY <1>2, <2>3, ArmedClock
  <2> QED BY <1>1, <2>1, <2>2, <2>3
<1>4. clock'.quiet <= clock.quiet
  BY <1>1, <1>3 DEF Clocks
<1> QED BY <1>1, <1>3, <1>4, ClockKeeps

\* The next ping: from here on its pong counts.
LEMMA PingDueKeeps ==
    ASSUME LoopInv, PingDue
    PROVE  LoopInv'
<1>1. /\ PingOn /\ history \in Histories /\ clock \in Clocks /\ Pong \in Nat
      /\ UNCHANGED <<given, loop, reader, wire>> /\ writer' = "pinging"
      /\ clock' = [clock EXCEPT !.pinged = TRUE, !.age = 0, !.writing = 0]
      /\ history' = [history EXCEPT !.ponged = FALSE]
  BY Numbers DEF PingDue, life, reading, LoopInv, ClocksTyped
<1>2. clock' \in Clocks /\ clock'.quiet = clock.quiet
  BY <1>1, PingUpdates
<1>3. /\ history' \in Histories /\ history'.silent = history.silent
      /\ history'.choked = history.choked /\ ~ history'.ponged
  BY <1>1 DEF Histories
<1> QED BY <1>1, <1>2, <1>3
     DEF LoopInv, ClocksTyped, ReaderRuns, Unread, QuietIsSilence, PongDeadline, Timed,
         IdleOn, PingOn, given

\* The idle clock wakes: the end, or another nap.
LEMMA IdleWakesKeeps ==
    ASSUME LoopInv, IdleWakes
    PROVE  LoopInv'
<1>1. clock \in Clocks /\ Idle \in Nat
  BY Numbers DEF LoopInv, ClocksTyped
<1>2. CASE clock.quiet >= Idle
  BY <1>2, EndKeeps DEF IdleWakes
<1>3. CASE ~(clock.quiet >= Idle)
  <2>1. /\ UNCHANGED <<given, loop, reader, writer, wire, history>>
        /\ clock' = [clock EXCEPT !.nap = Idle - clock.quiet]
    BY <1>3 DEF IdleWakes, life, writing
  <2>2. clock.quiet \in 0 .. Idle /\ Idle - clock.quiet \in Nat
    BY <1>1 DEF Clocks
  <2>3. /\ clock' \in Clocks /\ clock'.quiet = clock.quiet /\ clock'.pinged = clock.pinged
        /\ clock'.armed = clock.armed /\ clock'.age = clock.age
    BY <1>1, <2>1, <2>2 DEF Clocks
  <2> QED BY <2>1, <2>3
       DEF LoopInv, ClocksTyped, ReaderRuns, Unread, QuietIsSilence, PongDeadline, Timed,
           IdleOn, PingOn, given
<1> QED BY <1>2, <1>3

\* The supervisor of QUIC, and the ends of a loop that already left its select.
LEMMA SuperviseKeeps ==
    ASSUME LoopInv, \/ StreamReady \/ StreamFails \/ GraceEnds \/ Farewell
                    \/ \E c \in {"signal", "reader", "writer"} : Supervise(c)
    PROVE  LoopInv'
<1>1. CASE StreamReady
  <2>1. proto = "quic"
    BY <1>1 DEF StreamReady, LoopInv, ReaderRuns
  <2> QED BY <1>1, <2>1, QuicKeeps DEF StreamReady, LoopInv, ClocksTyped
<1>2. CASE \E c \in {"signal", "reader", "writer"} : Supervise(c)
  BY <1>2, QuicKeeps DEF Supervise, LoopInv, ClocksTyped
<1>3. CASE StreamFails \/ GraceEnds \/ Farewell
  BY <1>3, StopKeeps DEF StreamFails, GraceEnds, Farewell
<1> QED BY <1>1, <1>2, <1>3

-----------------------------------------------------------------------------
(* Time.                                                                   *)

\* Time passes only if the reader has read what is there, or is held up.
LEMMA UnreadWaits ==
    ASSUME LoopInv, Timed, wire # <<>>, ~Urgent
    PROVE  Parked
BY DEF LoopInv, ReaderRuns, Timed, Urgent, Polled

\* A tick of the clock, by its fields.
LEMMA TickedClock ==
    ASSUME ClocksTyped, Tick
    PROVE  /\ clock' \in Clocks
           /\ clock'.quiet = IF IdleOn THEN Up(clock.quiet, Idle) ELSE clock.quiet
           /\ clock'.pinged = clock.pinged
           /\ clock'.age = IF clock.pinged THEN Up(clock.age, Pong) ELSE clock.age
           /\ clock'.armed = IF PingOn THEN Down(clock.armed) ELSE clock.armed
<1> DEFINE q == IF IdleOn THEN Up(clock.quiet, Idle) ELSE clock.quiet
           n == IF IdleOn THEN Down(clock.nap) ELSE clock.nap
           a == IF clock.pinged THEN Up(clock.age, Pong) ELSE clock.age
           x == IF PingOn THEN Down(clock.next) ELSE clock.next
           d == IF PingOn THEN Down(clock.armed) ELSE clock.armed
           w == IF writer \in {"sending", "pinging", "flushing"}
                  THEN Up(clock.writing, WriteDeadline) ELSE clock.writing
<1>1. /\ clock \in Clocks
      /\ clock' = [clock EXCEPT !.quiet = q, !.nap = n, !.age = a, !.next = x, !.armed = d,
                                !.writing = w]
  BY DEF Tick, ClocksTyped
<1>2. /\ clock.quiet \in 0 .. Idle /\ clock.nap \in Nat /\ clock.age \in 0 .. Pong
      /\ clock.next \in Nat /\ clock.armed \in Nat /\ clock.writing \in Nat
      /\ Idle \in Nat /\ Pong \in Nat /\ WriteDeadline \in Nat
  BY <1>1, Numbers DEF Clocks
<1>3. q \in 0 .. Idle /\ n \in Nat /\ a \in 0 .. Pong /\ x \in Nat /\ d \in Nat /\ w \in Nat
  BY <1>2 DEF Up, Down
<1> HIDE DEF q, n, a, x, d, w
<1>4. /\ clock' \in Clocks /\ clock'.quiet = q /\ clock'.pinged = clock.pinged
      /\ clock'.age = a /\ clock'.armed = d
  BY <1>1, <1>3 DEF Clocks
<1> QED BY <1>4 DEF q, a, d

\* A tick of the history, by its fields.
LEMMA TickedHistory ==
    ASSUME ClocksTyped, Tick, proto # "quic"
    PROVE  /\ history' \in Histories
           /\ history'.silent = Up(history.silent, IF IdleOn THEN Idle ELSE 1)
           /\ history'.choked = (history.choked \/ Parked)
           /\ history'.ponged = history.ponged
<1> DEFINE s == Up(history.silent, IF IdleOn THEN Idle ELSE 1)
<1>1. /\ history \in Histories
      /\ history' = [history EXCEPT !.silent = s, !.choked = @ \/ Parked]
  BY DEF Tick, ClocksTyped
<1>2. history.silent \in Nat /\ Idle \in Nat
  BY <1>1, Numbers DEF Histories
<1>3. s \in Nat
  BY <1>2 DEF Up
<1>4. Parked \in BOOLEAN
  BY DEF Parked
<1> HIDE DEF s
<1>5. /\ history' \in Histories /\ history'.silent = s
      /\ history'.choked = (history.choked \/ Parked) /\ history'.ponged = history.ponged
  BY <1>1, <1>3, <1>4 DEF Histories
<1> QED BY <1>5 DEF s

\* Time passes for the timers as for the peer, and not past a deadline of the writer.
LEMMA TickKeeps ==
    ASSUME LoopInv, Tick
    PROVE  LoopInv'
<1>1. /\ UNCHANGED <<given, loop, reader, writer, wire>> /\ ~Urgent /\ ClocksTyped
      /\ clock \in Clocks /\ history \in Histories
  BY DEF Tick, life, reading, writing, LoopInv, ClocksTyped
<1>2. CASE proto = "quic"
  BY <1>1, <1>2, QuicKeeps, TickedClock DEF Tick
<1>3. CASE proto # "quic"
  <2>1. ClocksTyped' /\ ReaderRuns'
    BY <1>1, <1>3, TickedClock, TickedHistory
       DEF LoopInv, ClocksTyped, ReaderRuns, Timed, given
  <2>2. Timed' /\ wire' # <<>> => history'.choked
    BY <1>1, <1>3, UnreadWaits, TickedHistory DEF Timed, given
  <2>3. Unread'
    BY <2>2 DEF Unread
  <2>4. QuietIsSilence'
    <3>1. SUFFICES ASSUME Timed', IdleOn', wire' = <<>>, ~ history'.choked
                   PROVE  clock'.quiet <= history'.silent
      BY DEF QuietIsSilence
    <3>2. Timed /\ IdleOn /\ wire = <<>> /\ ~ history.choked
      BY <1>1, <1>3, <3>1, TickedHistory DEF Timed, IdleOn, given
    <3>3. clock.quiet <= history.silent
      BY <3>2 DEF LoopInv, QuietIsSilence
    <3>4. /\ clock.quiet \in 0 .. Idle /\ history.silent \in Nat /\ Idle \in Nat
      BY <1>1, Numbers DEF Clocks, Histories
    <3>5. clock'.quiet = Up(clock.quiet, Idle) /\ history'.silent = Up(history.silent, Idle)
      BY <1>1, <1>3, <3>2, TickedClock, TickedHistory
    <3> QED BY <3>3, <3>4, <3>5 DEF Up
  <2>5. PongDeadline'
    <3>1. SUFFICES ASSUME Timed', clock'.pinged
                   PROVE  /\ PingOn' /\ ~ history'.ponged
                          /\ writer' = "waiting" => Pong <= clock'.armed + clock'.age
      BY DEF PongDeadline
    <3>2. /\ Timed /\ clock.pinged /\ PingOn /\ ~ history.ponged
          /\ writer = "waiting" => Pong <= clock.armed + clock.age
      BY <1>1, <3>1, TickedClock DEF Timed, LoopInv, PongDeadline, given
    <3>3. PingOn' /\ ~ history'.ponged
      BY <1>1, <1>3, <3>2, TickedHistory DEF PingOn, given
    <3>4. ASSUME writer = "waiting"
          PROVE  Pong <= clock'.armed + clock'.age
      <4>1. clock.armed # 0
        BY <1>1, <3>2, <3>4 DEF Urgent, Polled, Timed
      <4>2. clock.armed \in Nat /\ clock.age \in 0 .. Pong /\ Pong \in Nat
        BY <1>1, Numbers DEF Clocks
      <4>3. clock'.armed = Down(clock.armed) /\ clock'.age = Up(clock.age, Pong)
        BY <1>1, <3>2, TickedClock
      <4> QED BY <3>2, <3>4, <4>1, <4>2, <4>3 DEF Up, Down
    <3> QED BY <1>1, <3>3, <3>4
  <2> QED BY <2>1, <2>3, <2>4, <2>5 DEF LoopInv
<1> QED BY <1>2, <1>3

-----------------------------------------------------------------------------
(* The theorems.                                                           *)

\* A connection that just started.
LEMMA InitLoop ==
    ASSUME Init
    PROVE  LoopInv
<1>1. proto \in {"tcp", "websocket", "quic"}
  BY Numbers DEF Init
<1>2. proto # "quic" => loop = "running"
  BY <1>1 DEF Init, New, TcpNew, WebSocketNew
<1>3. Fresh \in Clocks /\ Calm \in Histories /\ <<>> \in Seq(Frames)
  BY Numbers DEF Fresh, Calm, Clocks, Histories
<1>4. clock.quiet = 0 /\ ~ clock.pinged /\ history.silent = 0
  BY DEF Init, Fresh, Calm
<1> QED BY <1>2, <1>3, <1>4
     DEF Init, LoopInv, ClocksTyped, ReaderRuns, Unread, QuietIsSilence, PongDeadline, Timed

\* Every step of the connection keeps the inductive invariant.
LEMMA NextKeeps ==
    ASSUME LoopInv, [Next]_vars
    PROVE  LoopInv'
<1>1. CASE \E f \in {"data", "bad", "ping", "pong"} : PeerSends(f)
  BY <1>1, PeerSendsKeeps DEF Frames
<1>2. CASE \/ PeerLost \/ Drain \/ ConsumerDrops \/ StartClose \/ AdapterDrops \/ CloseReturns
           \/ \E m \in Msgs : Enqueue(m)
  BY <1>2, OthersKeep
<1>3. CASE Read
  <2>1. CASE \E k \in 1 .. MaxWire[proto] : Fill(k)
    <3>1. PICK k \in 1 .. MaxWire[proto] : Fill(k)
      BY <2>1
    <3>2. k \in Nat \ {0}
      BY LoopAssumption DEF LoopInv, ClocksTyped
    <3> QED BY <3>1, <3>2, FillKeeps
  <2>2. CASE HandOver
    BY <2>2, HandOverKeeps
  <2>3. CASE RefuseFrame
    BY <2>3, ReaderEndKeeps DEF RefuseFrame
  <2>4. CASE Heartbeat
    BY <2>4, HeartbeatKeeps
  <2>5. CASE \E r \in {"Normal", "Error"} : ReadEnds(r)
    BY <2>5, ReaderEndKeeps DEF ReadEnds
  <2> QED BY <1>3, <2>1, <2>2, <2>3, <2>4, <2>5 DEF Read
<1>4. CASE Write
  <2>1. CASE \E n \in 1 .. BatchSize, odd \in SUBSET Msgs : TakeNext(n, odd)
    BY <2>1, TakeNextKeeps
  <2>2. CASE WriteFails
    BY <2>2, WriterEndKeeps DEF WriteFails
  <2>3. CASE QueueCloses
    BY <2>3, WriterEndKeeps DEF QueueCloses
  <2>4. CASE Notified
    BY <2>4, FlushKeeps
  <2>5. CASE PingDue
    BY <2>5, PingDueKeeps
  <2>6. CASE PongOverdue
    BY <2>6, EndKeeps DEF PongOverdue
  <2> QED BY <1>4, <2>1, <2>2, <2>3, <2>4, <2>5, <2>6 DEF Write
<1>5. CASE WriteDone
  BY <1>5, WriteOnKeeps DEF WriteDone
<1>6. CASE Flushed \/ Pinged
  BY <1>6, FlushKeeps
<1>7. CASE IdleWakes
  BY <1>7, IdleWakesKeeps
<1>8. CASE Shutdown
  BY <1>8, EndKeeps DEF Shutdown
<1>9. CASE \/ StreamReady \/ StreamFails \/ GraceEnds \/ Farewell
           \/ \E c \in {"signal", "reader", "writer"} : Supervise(c)
  BY <1>9, SuperviseKeeps
<1>10. CASE ReaderAborted
  BY <1>10, ReaderEndKeeps DEF ReaderAborted
<1>11. CASE WriterAborted
  BY <1>11, WriterEndKeeps DEF WriterAborted
<1>12. CASE Tick
  BY <1>12, TickKeeps
<1>13. CASE UNCHANGED vars
  BY <1>13, RestKeeps DEF vars, life, reading, writing, held
<1> QED BY <1>1, <1>2, <1>3, <1>4, <1>5, <1>6, <1>7, <1>8, <1>9, <1>10, <1>11, <1>12, <1>13
     DEF Next, Finish

\* The timers of a TCP or WebSocket loop (adapters/tcp.rs and adapters/websocket.rs) tell
\* the truth about the peer: the inductive invariant, for all timeouts and queue sizes.
THEOREM LoopInvariant == Spec => []LoopInv
<1>1. Init => LoopInv
  BY InitLoop
<1>2. LoopInv /\ [Next]_vars => LoopInv'
  BY NextKeeps
<1> QED BY <1>1, <1>2, PTL DEF Spec

\* A pending ping whose deadline passed was never answered.
LEMMA PongWasMissed ==
    ASSUME LoopInv, PongOverdue
    PROVE  PongMissed
<1>1. /\ Timed /\ clock.pinged /\ writer = "waiting" /\ clock.armed = 0
  BY DEF PongOverdue, Timed, PingOn, Polled
<1>2. ~ history.ponged /\ Pong <= 0 + clock.age
  BY <1>1 DEF LoopInv, PongDeadline
<1>3. clock.age >= Pong
  BY <1>2, Numbers DEF LoopInv, ClocksTyped, Clocks
<1>4. wire = <<>> => "pong" \notin ToSet(wire)
  BY DEF ToSet
<1> QED BY <1>1, <1>2, <1>3, <1>4 DEF LoopInv, Unread, PongMissed

\* An idle clock that ran out measured the silence of the peer.
LEMMA IdleWasDeserved ==
    ASSUME LoopInv, IdleWakes, clock.quiet >= Idle
    PROVE  IdleDeserved
<1>1. Timed /\ IdleOn
  BY DEF IdleWakes, Timed, IdleOn, Polled
<1>2. clock.quiet <= history.silent => history.silent >= Idle
  BY Numbers DEF LoopInv, ClocksTyped, Clocks, Histories
<1> QED BY <1>1, <1>2 DEF LoopInv, QuietIsSilence, Unread, IdleDeserved

\* Every other end of the connection gives another reason, or leaves the cell alone.
LEMMA OtherReasons ==
    ASSUME [Next]_vars, ~PongOverdue, ~IdleWakes, cell = "open"
    PROVE  cell' # "Timeout"
<1>1. ASSUME NEW r \in {"none", "Normal", "Error"}, ReaderEnds(r)
      PROVE  cell' # "Timeout"
  BY <1>1 DEF ReaderEnds, EndLoop, Publish
<1>2. ASSUME NEW r \in {"none", "Normal", "Error"}, NEW rs, WriterEnds(r, rs)
      PROVE  cell' # "Timeout"
  BY <1>2 DEF WriterEnds, EndLoop, Publish
<1>3. CASE \E f \in {"data", "bad", "ping", "pong"} : PeerSends(f)
  BY <1>3 DEF PeerSends, life
<1>4. CASE \/ PeerLost \/ Drain \/ ConsumerDrops \/ StartClose \/ AdapterDrops \/ CloseReturns
           \/ \E m \in Msgs : Enqueue(m)
  BY <1>4 DEF PeerLost, Drain, ConsumerDrops, StartClose, AdapterDrops, CloseReturns, Enqueue,
              life
<1>5. CASE Read
  <2>1. CASE \E k \in 1 .. MaxWire[proto] : Fill(k)
    BY <2>1 DEF Fill, life
  <2>2. CASE HandOver
    BY <2>2, <1>1 DEF HandOver, life
  <2>3. CASE RefuseFrame \/ \E r \in {"Normal", "Error"} : ReadEnds(r)
    BY <2>3, <1>1 DEF RefuseFrame, ReadEnds
  <2>4. CASE Heartbeat
    BY <2>4 DEF Heartbeat, life
  <2> QED BY <1>5, <2>1, <2>2, <2>3, <2>4 DEF Read
<1>6. CASE Write
  <2>1. CASE \E n \in 1 .. BatchSize, odd \in SUBSET Msgs : TakeNext(n, odd)
    BY <2>1, <1>2 DEF TakeNext, life
  <2>2. CASE WriteFails
    BY <2>2, <1>2 DEF WriteFails
  <2>3. CASE QueueCloses
    BY <2>3, <1>2 DEF QueueCloses
  <2>4. CASE Notified \/ PingDue
    BY <2>4 DEF Notified, PingDue, life
  <2> QED BY <1>6, <2>1, <2>2, <2>3, <2>4 DEF Write
<1>7. CASE WriteDone
  BY <1>7, <1>2 DEF WriteDone, WriteOn, life
<1>8. CASE Flushed \/ Pinged \/ StreamReady \/ GraceEnds \/ Farewell \/ Tick
  BY <1>8 DEF Flushed, Pinged, StreamReady, GraceEnds, Farewell, Tick, life
<1>9. CASE Shutdown
  BY <1>9 DEF Shutdown, EndLoop, Publish
<1>10. CASE StreamFails \/ \E c \in {"signal", "reader", "writer"} : Supervise(c)
  BY <1>10 DEF StreamFails, Supervise, Publish
<1>11. CASE ReaderAborted
  BY <1>11, <1>1 DEF ReaderAborted
<1>12. CASE WriterAborted
  BY <1>12, <1>2 DEF WriterAborted
<1>13. CASE UNCHANGED vars
  BY <1>13 DEF vars, life
<1> QED BY <1>3, <1>4, <1>5, <1>6, <1>7, <1>8, <1>9, <1>10, <1>11, <1>12, <1>13
     DEF Next, Finish

\* The loops of TCP and WebSocket give a connection up as timed out only for the silence
\* of the peer (idle_timeout, ping_interval and pong_timeout of adapters/tcp.rs and
\* adapters/websocket.rs), however reads, writes, heartbeats and timers interleave.
THEOREM TimeoutIsDeserved == Spec => TimeoutDeserved
<1>1. ASSUME LoopInv, [Next]_vars, cell = "open", cell' = "Timeout"
      PROVE  IdleDeserved \/ PongMissed
  <2>1. PongOverdue \/ IdleWakes
    BY <1>1, OtherReasons
  <2>2. CASE PongOverdue
    BY <1>1, <2>2, PongWasMissed
  <2>3. CASE IdleWakes
    <3>1. clock.quiet >= Idle
      BY <1>1, <2>3 DEF IdleWakes, life
    <3> QED BY <1>1, <2>3, <3>1, IdleWasDeserved
  <2> QED BY <2>1, <2>2, <2>3
<1>2. LoopInv /\ [Next]_vars
        => [cell = "open" /\ cell' = "Timeout" => IdleDeserved \/ PongMissed]_vars
  BY <1>1
<1> QED BY <1>2, LoopInvariant, PTL DEF Spec, TimeoutDeserved
=============================================================================
