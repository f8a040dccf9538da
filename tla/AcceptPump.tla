----------------------------- MODULE AcceptPump -----------------------------
(***************************************************************************)
(* How one listener of the server turns peers into connections: the accept *)
(* pumps of TCP with TLS (adapters/tcp.rs) and of WebSocket                *)
(* (adapters/websocket.rs), the direct accept of plain TCP and the inline  *)
(* handshake of QUIC (adapters/quic.rs), and the listener task that takes  *)
(* what they deliver (TransportServer::start_protocol_listener).           *)
(*                                                                         *)
(* A peer completes its handshake, or fails it, or opens a connection and  *)
(* never speaks; a mute peer completes it, keeps the connection alive and  *)
(* sends nothing.  What becomes of an admitted connection is in            *)
(* ServerSession, of the task when the server stops in ServerLifecycle.    *)
(***************************************************************************)
EXTENDS Naturals, Sequences, FiniteSets, SequencesExt

CONSTANTS
    Protocols,   \* a subset of {"tcp", "tls", "websocket", "quic"}
    Peers,       \* the peers that may connect
    NoPeer,      \* none of them
    Silent,      \* those that never speak
    Bad,         \* those whose handshake fails
    Mute,        \* those that complete it and then send nothing
    MaxPending,  \* MAX_PENDING_HANDSHAKES, also the length of the accept queue
    Cap          \* max_connections

ASSUME PumpAssumption ==
    /\ Protocols \subseteq {"tcp", "tls", "websocket", "quic"}
    /\ NoPeer \notin Peers
    /\ Silent \subseteq Peers /\ Bad \subseteq Peers \ Silent
    /\ Mute \subseteq Peers \ (Silent \cup Bad)
    /\ MaxPending \in Nat \ {0} /\ Cap \in Nat \ {0}

VARIABLES
    proto,     \* the protocol of the listener
    at,        \* per peer: "away", "backlog", "shaking", "ready", "held" (by the
               \* listener), "admitted" or "gone"
    pump,      \* "off", "running" or "aborted"
    queue,     \* completed handshakes for accept()
    open,      \* the accept queue has its receiver, the socket its listener
    listener,  \* "selecting", "shaking" (QUIC), "rejecting" (at the cap), "refusing" (at
               \* the closed gate), "sleeping", "stopping" or "stopped"
    subject,   \* the peer the listener deals with, or NoPeer
    gate,      \* admission_open
    cancel     \* infra_cancel

vars == <<proto, at, pump, queue, open, listener, subject, gate, cancel>>

States == {"away", "backlog", "shaking", "ready", "held", "admitted", "gone"}

TypeOK ==
    /\ proto \in Protocols
    /\ at \in [Peers -> States]
    /\ pump \in {"off", "running", "aborted"}
    /\ queue \in Seq(Peers)
    /\ open \in BOOLEAN /\ gate \in BOOLEAN /\ cancel \in BOOLEAN
    /\ listener \in {"selecting", "shaking", "rejecting", "refusing", "sleeping",
                      "stopping", "stopped"}
    /\ subject \in Peers \cup {NoPeer}

\* The TLS pump starts when the server is built, the WebSocket one with the first accept.
Init ==
    /\ proto \in Protocols
    /\ at = [p \in Peers |-> "away"]
    /\ pump = IF proto = "tls" THEN "running" ELSE "off"
    /\ queue = <<>>
    /\ open = TRUE
    /\ listener = "selecting"
    /\ subject = NoPeer
    /\ gate = TRUE
    /\ cancel = FALSE

In(s) == {p \in Peers : at[p] = s}

Move(p, s) == at' = [at EXCEPT ![p] = s]

-----------------------------------------------------------------------------
(* The peers and the pump.                                                 *)

\* A connection reaches the socket; one that is not listened on refuses it.
Arrive(p) ==
    /\ at[p] = "away"
    /\ Move(p, IF open /\ (proto = "websocket" => pump = "running") THEN "backlog" ELSE "gone")
    /\ UNCHANGED <<proto, pump, queue, open, listener, subject, gate, cancel>>

\* The listener binds the WebSocket port in accept(), and tries again when it cannot.
StartPump ==
    /\ proto = "websocket" /\ pump = "off"
    /\ listener = "selecting"
    /\ pump' = "running"
    /\ UNCHANGED <<proto, at, queue, open, listener, subject, gate, cancel>>

BindFails ==
    /\ proto = "websocket" /\ pump = "off"
    /\ listener = "selecting"
    /\ listener' = IF cancel THEN "stopping" ELSE "sleeping"
    /\ UNCHANGED <<proto, at, pump, queue, open, subject, gate, cancel>>

\* The pump accepts a socket: a handshake of its own if a permit is free.
PumpAccepts(p) ==
    /\ pump = "running" /\ open
    /\ at[p] = "backlog"
    /\ Move(p, IF Cardinality(In("shaking")) < MaxPending THEN "shaking" ELSE "gone")
    /\ UNCHANGED <<proto, pump, queue, open, listener, subject, gate, cancel>>

\* A handshake of the pump ends well: into the accept queue, or shed.
ShakeDone(p) ==
    /\ proto # "quic" /\ at[p] = "shaking"
    /\ p \notin Silent \cup Bad
    /\ IF open /\ Len(queue) < MaxPending
         THEN Move(p, "ready") /\ queue' = Append(queue, p)
         ELSE Move(p, "gone") /\ UNCHANGED queue
    /\ UNCHANGED <<proto, pump, open, listener, subject, gate, cancel>>

ShakeFails(p) ==
    /\ proto # "quic" /\ at[p] = "shaking"
    /\ p \in Bad
    /\ Move(p, "gone")
    /\ UNCHANGED <<proto, pump, queue, open, listener, subject, gate, cancel>>

\* Mutant: a handshake may take as long as it likes.
ShakeUnlimited(p) ==
    /\ proto # "quic" /\ at[p] = "shaking"
    /\ p \in Silent /\ cancel
    /\ Move(p, "gone")
    /\ UNCHANGED <<proto, pump, queue, open, listener, subject, gate, cancel>>

\* TLS_HANDSHAKE_TIMEOUT, WS_HANDSHAKE_TIMEOUT.
ShakeTimesOut(p) ==
    /\ proto # "quic" /\ at[p] = "shaking"
    /\ p \in Silent
    /\ Move(p, "gone")
    /\ UNCHANGED <<proto, pump, queue, open, listener, subject, gate, cancel>>

-----------------------------------------------------------------------------
(* The listener task.                                                      *)

\* A connection in hand takes a connection permit and is added; without one, or when
\* the gate is found closed, it is closed first, which the listener awaits.
Admit(p, rest) ==
    LET free == Cardinality(In("admitted")) < Cap
    IN  IF free /\ gate
          THEN /\ at' = [rest EXCEPT ![p] = "admitted"]
               /\ listener' = "selecting" /\ subject' = NoPeer
          ELSE /\ at' = [rest EXCEPT ![p] = "held"]
               /\ listener' = (IF free THEN "refusing" ELSE "rejecting") /\ subject' = p

\* accept() over a pump: the next completed handshake.
TakeReady(p) ==
    /\ queue # <<>> /\ p = Head(queue)
    /\ queue' = Tail(queue)

\* accept() of plain TCP, or of what a pump has ready.
Accept(p) ==
    /\ listener = "selecting"
    /\ \/ proto = "tcp" /\ at[p] = "backlog" /\ UNCHANGED queue
       \/ TakeReady(p)
    /\ Admit(p, at)
    /\ UNCHANGED <<proto, pump, open, gate, cancel>>

\* accept() of QUIC: one handshake at a time, awaited in place.
ShakeInline(p) ==
    /\ proto = "quic" /\ listener = "selecting"
    /\ at[p] = "backlog"
    /\ Move(p, "shaking")
    /\ listener' = "shaking" /\ subject' = p
    /\ UNCHANGED <<proto, pump, queue, open, gate, cancel>>

InlineDone ==
    /\ listener = "shaking"
    /\ subject \notin Silent \cup Bad
    /\ Admit(subject, at)
    /\ UNCHANGED <<proto, pump, queue, open, gate, cancel>>

\* The handshake fails, or the transport gives it up.
InlineFails ==
    /\ listener = "shaking"
    /\ subject \in Silent \cup Bad
    /\ Move(subject, "gone")
    /\ listener' = IF cancel THEN "stopping" ELSE "sleeping"
    /\ subject' = NoPeer
    /\ UNCHANGED <<proto, pump, queue, open, gate, cancel>>

\* Any other error of accept(): the socket of plain TCP, or a TCP adapter that cannot
\* be made, over TLS too.
AcceptFails(p) ==
    /\ listener = "selecting"
    /\ \/ proto = "tcp" /\ at[p] = "backlog" /\ UNCHANGED queue
       \/ proto = "tls" /\ TakeReady(p)
    /\ Move(p, "gone")
    /\ listener' = IF cancel THEN "stopping" ELSE "sleeping"
    /\ UNCHANGED <<proto, pump, open, subject, gate, cancel>>

\* LISTENER_POLL_INTERVAL.
Wake ==
    /\ listener = "sleeping"
    /\ listener' = "selecting"
    /\ UNCHANGED <<proto, at, pump, queue, open, subject, gate, cancel>>

\* The close of a QUIC connection waits for a stream that a mute peer never opens.
Stuck == proto = "quic" /\ listener \in {"rejecting", "refusing"} /\ subject \in Mute

\* Mutant: at capacity the listener waits for a connection to end.
RejectWaits ==
    /\ listener \in {"rejecting", "refusing"} /\ ~Stuck
    /\ Cardinality(In("admitted")) < Cap
    /\ Move(subject, "gone")
    /\ listener' = "selecting" /\ subject' = NoPeer
    /\ UNCHANGED <<proto, pump, queue, open, gate, cancel>>

\* The close of a connection that is not admitted returns.
Rejected ==
    /\ listener \in {"rejecting", "refusing"} /\ ~Stuck
    /\ Move(subject, "gone")
    /\ listener' = "selecting" /\ subject' = NoPeer
    /\ UNCHANGED <<proto, pump, queue, open, gate, cancel>>

\* An admitted connection ends and returns its permit.
SessionEnds(p) ==
    /\ at[p] = "admitted"
    /\ Move(p, "gone")
    /\ UNCHANGED <<proto, pump, queue, open, listener, subject, gate, cancel>>

\* A mute peer goes after all.
MuteLeaves ==
    /\ Stuck
    /\ Move(subject, "gone")
    /\ listener' = "selecting" /\ subject' = NoPeer
    /\ UNCHANGED <<proto, pump, queue, open, gate, cancel>>

\* A shutdown closes the gate and cancels; stop(), or another listener's failure,
\* cancels with the gate open.
CloseGate ==
    /\ gate
    /\ gate' = FALSE
    /\ UNCHANGED <<proto, at, pump, queue, open, listener, subject, cancel>>

Cancel ==
    /\ ~cancel
    /\ cancel' = TRUE
    /\ UNCHANGED <<proto, at, pump, queue, open, listener, subject, gate>>

\* The cancel arm of the select drops accept(), an inline handshake included.
Cancelled ==
    /\ cancel /\ listener \in {"selecting", "shaking"}
    /\ listener' = "stopping" /\ subject' = NoPeer
    /\ IF listener = "shaking" THEN Move(subject, "gone") ELSE UNCHANGED at
    /\ UNCHANGED <<proto, pump, queue, open, gate, cancel>>

\* The pump goes without being joined.
AbortPump == pump' = IF pump = "running" THEN "aborted" ELSE pump

\* Server::shutdown: receiver and socket go with what waits in them, the pump is
\* aborted; handshakes under way go on and find the queue closed.
ShutdownServer ==
    /\ listener = "stopping"
    /\ listener' = "stopped"
    /\ open' = FALSE
    /\ AbortPump
    /\ queue' = <<>>
    /\ at' = [p \in Peers |-> IF at[p] \in {"backlog", "ready"} THEN "gone" ELSE at[p]]
    /\ UNCHANGED <<proto, subject, gate, cancel>>

-----------------------------------------------------------------------------
Shake == \E p \in Peers : ShakeDone(p) \/ ShakeFails(p) \/ ShakeTimesOut(p)

Listen ==
    \/ StartPump \/ BindFails
    \/ \E p \in Peers : Accept(p) \/ ShakeInline(p) \/ AcceptFails(p)
    \/ InlineDone \/ InlineFails
    \/ Wake
    \/ Rejected
    \/ Cancelled
    \/ ShutdownServer

Next ==
    \/ \E p \in Peers : Arrive(p) \/ PumpAccepts(p) \/ SessionEnds(p)
    \/ Shake
    \/ Listen
    \/ MuteLeaves
    \/ CloseGate \/ Cancel

Spec == Init /\ [][Next]_vars

\* The tasks are scheduled, handshakes are bounded in time; no peer has to go.
FairSpec ==
    /\ Spec
    /\ WF_vars(Listen)
    /\ WF_vars(\E p \in Peers : PumpAccepts(p))
    /\ \A p \in Peers : WF_vars(ShakeDone(p) \/ ShakeFails(p) \/ ShakeTimesOut(p))

-----------------------------------------------------------------------------
(* Properties.                                                             *)

Waiting(p) == at[p] \in {"backlog", "shaking", "ready", "held"}

\* Whoever connects is served or let go, whatever the peers before it do: no silent
\* peer holds a permit for good or stalls the ones behind it.  The one exception is a
\* mute QUIC peer turned away, at the cap or at the closed gate, whose close the
\* listener awaits.
PeerAnswered == \A p \in Peers : Waiting(p) ~> ~Waiting(p) \/ Stuck

\* A cancelled listener stops, at capacity, at the closed gate and in the middle of a
\* handshake too, with nothing left in its socket or its queue (same exception).
ListenerStops ==
    cancel ~> (listener = "stopped" /\ In("backlog") = {} /\ In("ready") = {}) \/ Stuck
=============================================================================
