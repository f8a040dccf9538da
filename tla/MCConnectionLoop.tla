--------------------------- MODULE MCConnectionLoop ---------------------------
(* ConnectionLoop for TLC.                                                   *)
EXTENDS ConnectionLoop

CONSTANTS m1, m2

\* A TCP read may find two frames; behind a held frame the others need one.
MCMaxWire == [p \in Protocols |-> IF p = "tcp" THEN 2 ELSE 1]
\* A batch of QUIC has two packets to tell apart.
MCPackets == [p \in Protocols |-> IF p = "quic" THEN {m1, m2} ELSE {m1}]
=============================================================================
