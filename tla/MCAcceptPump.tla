---------------------------- MODULE MCAcceptPump ----------------------------
(* AcceptPump for TLC: two good peers, a silent, a bad and a mute one.      *)
EXTENDS AcceptPump

CONSTANTS g1, g2, s1, b1, u1
=============================================================================
