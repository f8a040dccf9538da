----------------------------- MODULE MCOutbound -----------------------------
(***************************************************************************)
(* Outbound on small instances for TLC.                                    *)
(***************************************************************************)
EXTENDS Outbound

CONSTANTS i1, i2

\* The connection may rest when its loop has ended and every call has returned.
Rest ==
    /\ loop = "ended"
    /\ \A i \in Items : pc[i] = "done"
    /\ closing \notin {"waiting", "abandoned"}

MCNext == Next \/ (Rest /\ UNCHANGED vars)

MCFairSpec == Init /\ [][MCNext]_vars /\ Fairness

=============================================================================
