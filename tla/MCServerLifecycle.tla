------------------------ MODULE MCServerLifecycle ------------------------
(* ServerLifecycle for TLC.                                                 *)
EXTENDS ServerLifecycle

CONSTANTS p1, v1, d1, d2

=============================================================================
