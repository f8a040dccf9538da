------------------------- MODULE MCClientTransport -------------------------
(***************************************************************************)
(* ClientTransport on small instances for TLC.                             *)
(***************************************************************************)
EXTENDS ClientTransport, TLC

\* The system may rest when no call and no task is under way and nothing is installed, or
\* with what dropped futures left behind.
Rest ==
    \/ /\ connect = "idle" /\ slot = None
       /\ \A c \in Closers : cpc[c] = "idle"
       /\ \A g \in Gens : consumer[g] \in {"none", "ended"} /\ conn[g] \in {"none", "down"}
    \/ Leftover

MCNext == Next \/ (Rest /\ UNCHANGED vars)

MCSpec     == Init /\ [][MCNext]_vars
MCFairSpec == MCSpec /\ Fairness

=============================================================================
