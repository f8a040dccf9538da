------------------------- MODULE MCServerSession -------------------------
(* ServerSession for TLC: two packets, a mailbox and a batch of two, one    *)
(* caller of each kind in the passing run.                                  *)
EXTENDS ServerSession, TLC

CONSTANTS s1, r1, b1, c1

=============================================================================
