------------------------------ MODULE Framing ------------------------------
(***************************************************************************)
(* From packets to bytes and back: the encoder and the decoder             *)
(* (packet.rs), the read buffer that cuts frames out of a TCP byte stream  *)
(* (adapters/tcp.rs), the message readers of WebSocket and QUIC            *)
(* (adapters/websocket.rs, adapters/quic.rs), and the limits they share    *)
(* (transport/limits.rs).                                                  *)
(*                                                                         *)
(* A byte is represented by what the header starting at it would say:      *)
(* whether its version, type and compression are valid, and the lengths it *)
(* declares.  The bytes of a body may look like anything, a header too.    *)
(***************************************************************************)
EXTENDS Integers, Sequences, FiniteSets, SequencesExt

CONSTANTS
    HeaderSize,  \* FIXED_HEADER_SIZE
    MaxExt,      \* max_ext_header_size of the receiver
    MaxPay,      \* max_payload_size of the receiver
    WireExt,     \* the largest extension length the wire field holds (u16)
    WirePay,     \* the largest payload length the wire field holds (u32)
    Scan,        \* MAX_RESYNC_SCAN_DISTANCE
    Sources,     \* the sequences of packets an application may send
    Tails,       \* what may follow them on the wire that no encoder wrote
    Protocols,   \* a subset of {"tcp", "websocket", "quic"}
    Policies     \* a subset of {"strict", "lenient"}

\* decode_limits: the frame cap is derived from the other two.
MaxFrame == HeaderSize + MaxExt + MaxPay

Bytes == [ok : BOOLEAN, ext : Nat, pay : Nat, raw : Nat]

\* What an application sends: an extension header of ext bytes and a payload of raw bytes
\* that zip says to compress; body says what the bytes behind the first one look like.
Outgoing == [ext : Nat, raw : Nat, zip : BOOLEAN, body : Bytes]

ASSUME FramingAssumption ==
    /\ HeaderSize \in Nat \ {0}
    /\ MaxExt \in Nat /\ MaxPay \in Nat
    /\ WireExt \in Nat /\ WirePay \in Nat
    /\ Scan \in Nat \ {0, 1}
    /\ Sources \subseteq Seq(Outgoing)
    /\ Tails \subseteq Seq(Bytes)
    /\ Protocols \subseteq {"tcp", "websocket", "quic"}
    /\ Policies \subseteq {"strict", "lenient"}

-----------------------------------------------------------------------------
(* The encoder.                                                            *)

\* compress_payload, by its effect on the length.
WireLen(p) == IF p.zip THEN (p.raw + 1) \div 2 ELSE p.raw

\* Mutant: a length is cut to its wire field instead of being refused.
EncodableTruncated(p) == TRUE

\* try_encode fails on a length that its wire field cannot hold.
Encodable(p) == p.ext <= WireExt /\ WireLen(p) <= WirePay

\* FixedHeader::to_bytes: the fields are as wide as they are.
FirstByte(p) ==
    [ok |-> TRUE, ext |-> p.ext % (WireExt + 1), pay |-> WireLen(p) % (WirePay + 1),
     raw |-> p.raw]

\* The lengths in the header are those of the body that follows.
Encode(p) ==
    <<FirstByte(p)>> \o [i \in 1 .. HeaderSize - 1 + p.ext + WireLen(p) |-> p.body]

\* What the decoder must make of it.
Decoded(p) ==
    [ext |-> p.ext, raw |-> p.raw, bytes |-> [i \in 1 .. p.ext + WireLen(p) |-> p.body]]

-----------------------------------------------------------------------------
(* The decoder: frame_layout on the first n bytes of s from offset at.     *)

TooLarge(b) ==
    \/ b.pay > MaxPay
    \/ b.ext > MaxExt
    \/ HeaderSize + b.ext + b.pay > MaxFrame

Total(b) == HeaderSize + b.ext + b.pay

\* Mutant: the limits are looked at only when the frame is complete.
FrameLayoutLate(s, at, n) ==
    IF n < HeaderSize THEN "more"
    ELSE LET b == s[at + 1]
         IN  IF ~b.ok THEN "invalid"
             ELSE IF n < Total(b) THEN "more"
             ELSE IF TooLarge(b) THEN "large"
             ELSE "frame"

FrameLayout(s, at, n) ==
    IF n < HeaderSize THEN "more"
    ELSE LET b == s[at + 1]
         IN  IF ~b.ok THEN "invalid"
             ELSE IF TooLarge(b) THEN "large"
             ELSE IF n < Total(b) THEN "more"
             ELSE "frame"

\* decode_exact_from on the frame that starts at offset at.
PacketAt(s, at) ==
    [ext |-> s[at + 1].ext, raw |-> s[at + 1].raw,
     bytes |-> SubSeq(s, at + HeaderSize + 1, at + Total(s[at + 1]))]

\* A message of WebSocket or QUIC holds one packet and nothing else.
DecodesExactly(m) ==
    /\ FrameLayout(m, 0, Len(m)) = "frame"
    /\ Total(m[1]) = Len(m)

\* decompress_payload_with_limit, when the packet is delivered.
Expands(packet) == packet.raw <= MaxPay

\* The raw one-way packet that the lenient policy makes of a message.
RawPacket(m) == [ext |-> 0, raw |-> Len(m), bytes |-> m]

-----------------------------------------------------------------------------
VARIABLES
    proto,     \* the protocol of the connection
    policy,    \* its frame policy
    sent,      \* the packets the application sent
    messages,  \* what the peer wrote, one element per packet
    stream,    \* the same as one stream of bytes (TCP)
    filled,    \* bytes of the stream, or messages, that were read
    consumed,  \* bytes of the stream cut off the buffer
    parsedAny, \* ReadProgress
    phase,     \* "reading", "parsing" or "closed"
    reason,    \* of the close: "none", "Normal" or "Error"
    out        \* the packets delivered

given == <<proto, policy, sent, messages, stream>>
vars == <<given, filled, consumed, parsedAny, phase, reason, out>>

\* A packet that cannot be encoded ends a TCP connection, and is skipped by the
\* write loops of the others.
Written(ps) ==
    IF proto = "tcp"
      THEN LET bad == {i \in DOMAIN ps : ~Encodable(ps[i])}
           IN  SubSeq(ps, 1, IF bad = {} THEN Len(ps)
                             ELSE (CHOOSE i \in bad : \A j \in bad : i <= j) - 1)
      ELSE FlattenSeq([i \in DOMAIN ps |-> IF Encodable(ps[i]) THEN <<ps[i]>> ELSE <<>>])

Init ==
    /\ proto \in Protocols
    /\ policy \in Policies
    /\ sent \in Sources
    /\ \E tail \in Tails :
         messages = [i \in DOMAIN Written(sent) |-> Encode(Written(sent)[i])]
                      \o (IF tail = <<>> THEN <<>> ELSE <<tail>>)
    /\ stream = FlattenSeq(messages)
    /\ filled = 0
    /\ consumed = 0
    /\ parsedAny = FALSE
    /\ phase = "reading"
    /\ reason = "none"
    /\ out = <<>>

CloseWith(r) ==
    /\ phase' = "closed"
    /\ reason' = r

\* EventPipe::deliver, as far as it depends on the packet: one that does not
\* decompress within the limit closes the connection.
Deliver(packet, next) ==
    IF Expands(packet)
      THEN out' = Append(out, packet) /\ phase' = next /\ UNCHANGED reason
      ELSE CloseWith("Error") /\ UNCHANGED out

-----------------------------------------------------------------------------
(* TCP: OptimizedReadBuffer.                                               *)

Buffered == filled - consumed

\* fill_from_stream: any number of bytes arrives.
Fill(k) ==
    /\ proto = "tcp"
    /\ phase = "reading"
    /\ filled + k <= Len(stream)
    /\ filled' = filled + k
    /\ phase' = "parsing"
    /\ UNCHANGED <<given, consumed, parsedAny, reason, out>>

\* One turn of try_parse_next_packet, by what the front of the buffer is.
Turn(front) ==
    /\ proto = "tcp"
    /\ phase = "parsing"
    /\ FrameLayout(stream, consumed, Buffered) = front

\* Mutant: the whole buffer goes with the frame.
ParseFrameClears ==
    /\ Turn("frame")
    /\ consumed' = filled
    /\ parsedAny' = TRUE
    /\ Deliver(PacketAt(stream, consumed), "parsing")
    /\ UNCHANGED <<given, filled>>

ParseFrame ==
    /\ Turn("frame")
    /\ consumed' = consumed + Total(stream[consumed + 1])
    /\ parsedAny' = TRUE
    /\ Deliver(PacketAt(stream, consumed), "parsing")
    /\ UNCHANGED <<given, filled>>

ParseNeedsMore ==
    /\ Turn("more")
    /\ phase' = "reading"
    /\ UNCHANGED <<given, filled, consumed, parsedAny, reason, out>>

\* Both policies refuse an oversized frame on its header.
ParseTooLarge ==
    /\ Turn("large")
    /\ CloseWith("Error")
    /\ UNCHANGED <<given, filled, consumed, parsedAny, out>>

\* An invalid header closes under the strict policy, and as the first thing that
\* arrives under the lenient one.
ParseInvalid ==
    /\ Turn("invalid")
    /\ policy = "strict" \/ ~parsedAny
    /\ CloseWith("Error")
    /\ UNCHANGED <<given, filled, consumed, parsedAny, out>>

\* is_valid_header_at an offset into the buffer.
ValidHeaderAt(offset) ==
    /\ Buffered >= offset + HeaderSize
    /\ LET b == stream[consumed + offset + 1]
       IN  b.ok /\ b.ext <= MaxExt /\ b.pay <= MaxPay

\* Mutant: a resync that finds nothing asks for another turn.
ResyncSpins(found) ==
    CASE found # {}      -> /\ consumed' = consumed + (CHOOSE o \in found : \A q \in found : o <= q)
                            /\ UNCHANGED <<phase, reason>>
      [] found = {} /\ Buffered > Scan -> consumed' = consumed + Scan /\ UNCHANGED <<phase, reason>>
      [] OTHER           -> UNCHANGED <<consumed, phase, reason>>

\* try_resync_frame: drop what precedes the next valid header, or all that was
\* scanned; a short buffer without one closes the connection.
Resynced(found) ==
    CASE found # {}      -> /\ consumed' = consumed + (CHOOSE o \in found : \A q \in found : o <= q)
                            /\ UNCHANGED <<phase, reason>>
      [] found = {} /\ Buffered > Scan -> consumed' = consumed + Scan /\ UNCHANGED <<phase, reason>>
      [] OTHER           -> CloseWith("Error") /\ UNCHANGED consumed

Resync ==
    /\ Turn("invalid")
    /\ policy = "lenient" /\ parsedAny
    /\ Resynced({o \in 1 .. Min({Buffered, Scan}) - 1 : ValidHeaderAt(o)})
    /\ UNCHANGED <<given, filled, parsedAny, out>>

\* The stream ends: what is left in the buffer is dropped.
EndOfStream ==
    /\ proto = "tcp"
    /\ phase = "reading"
    /\ filled = Len(stream)
    /\ CloseWith("Normal")
    /\ UNCHANGED <<given, filled, consumed, parsedAny, out>>

-----------------------------------------------------------------------------
(* WebSocket and QUIC: process_websocket_message, and the read task that   *)
(* takes one length-prefixed frame at a time.                              *)

\* The next message, within the size the protocol layer lets through.
ReadMessage ==
    /\ proto # "tcp"
    /\ phase = "reading"
    /\ filled < Len(messages)
    /\ filled' = filled + 1
    /\ LET m == messages[filled + 1]
       IN  CASE Len(m) > MaxFrame -> CloseWith("Error") /\ UNCHANGED out
             [] Len(m) <= MaxFrame /\ DecodesExactly(m) -> Deliver(PacketAt(m, 0), "reading")
             [] OTHER -> IF policy = "strict"
                           THEN CloseWith("Error") /\ UNCHANGED out
                           ELSE Deliver(RawPacket(m), "reading")
    /\ UNCHANGED <<given, consumed, parsedAny>>

MessagesEnd ==
    /\ proto # "tcp"
    /\ phase = "reading"
    /\ filled = Len(messages)
    /\ CloseWith("Normal")
    /\ UNCHANGED <<given, filled, consumed, parsedAny, out>>

-----------------------------------------------------------------------------
Parse == ParseFrame \/ ParseNeedsMore \/ ParseTooLarge \/ ParseInvalid \/ Resync

Next ==
    \/ \E k \in 1 .. Len(stream) : Fill(k)
    \/ Parse
    \/ EndOfStream
    \/ ReadMessage
    \/ MessagesEnd

Spec == Init /\ [][Next]_vars

\* The read task is scheduled; the peer owes no bytes.
FairSpec == Spec /\ WF_vars(Parse)

-----------------------------------------------------------------------------
(* Properties.                                                             *)

\* The packets this receiver must deliver: those written before the first one that
\* exceeds its limits, on the wire or once decompressed.
Acceptable(p) == p.ext <= MaxExt /\ WireLen(p) <= MaxPay /\ p.raw <= MaxPay

Expected ==
    LET w == Written(sent)
        bad == {i \in DOMAIN w : ~Acceptable(w[i])}
    IN  SubSeq(w, 1, IF bad = {} THEN Len(w)
                     ELSE (CHOOSE i \in bad : \A j \in bad : i <= j) - 1)

\* The lenient policy of WebSocket and QUIC hands over what it cannot decode as it is.
HandedOverRaw(i) ==
    /\ policy = "lenient" /\ proto # "tcp"
    /\ ~Acceptable(Written(sent)[i])
    /\ out[i] = RawPacket(messages[i])

\* Under either policy and on every protocol the receiver delivers the packets that were
\* sent, in order and byte for byte, at least up to the first one its limits refuse: the
\* bytes of a body never count as a header, and no protocol refuses what another
\* accepts.  At a refused packet the connection ends with an error; only the lenient
\* policy of the message protocols may hand its frame over raw.
DeliversWhatWasSent ==
    /\ \A i \in 1 .. Min({Len(out), Len(Written(sent))}) :
         out[i] = Decoded(Written(sent)[i]) \/ HandedOverRaw(i)
    /\ phase = "closed" => Len(out) >= Len(Expected)
    /\ Expected # Written(sent) /\ (policy = "strict" \/ proto = "tcp") =>
         /\ Len(out) <= Len(Expected)
         /\ phase = "closed" => reason = "Error"

\* What a strict decoder that sees the whole stream makes of it from each offset on: the
\* packets, and whether it ends for an error or with at most an incomplete frame.
DecodeFrom[at \in 0 .. Len(stream)] ==
    LET front == FrameLayout(stream, at, Len(stream) - at)
    IN  IF front = "frame" /\ Expands(PacketAt(stream, at))
          THEN LET rest == DecodeFrom[at + Total(stream[at + 1])]
               IN  [packets |-> <<PacketAt(stream, at)>> \o rest.packets, end |-> rest.end]
          ELSE [packets |-> <<>>, end |-> IF front = "more" THEN "Normal" ELSE "Error"]

Reference == DecodeFrom[0]

\* How TCP cuts the stream into reads changes nothing: under the strict policy the
\* packets delivered, and the reason of the close, are those of one decoder that sees
\* the whole stream.
ChunkingIrrelevant ==
    proto = "tcp" /\ policy = "strict" =>
        /\ IsPrefix(out, Reference.packets)
        /\ phase = "closed" => out = Reference.packets /\ reason = Reference.end

\* The read buffer waits for more bytes only with less than one legal frame in it,
\* whatever lengths the peer declares and whatever a resync left behind.
WaitsWithinBound ==
    proto = "tcp" /\ phase = "reading" => Buffered < MaxFrame

\* The parse loop always hands back to the reader, however the stream is corrupted.
ParserReturns == phase = "parsing" ~> phase # "parsing"
=============================================================================
