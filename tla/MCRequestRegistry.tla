------------------------- MODULE MCRequestRegistry -------------------------
(***************************************************************************)
(* RequestRegistry on small instances for TLC.                             *)
(***************************************************************************)
EXTENDS RequestRegistry

CONSTANTS s1, t1, t2

\* A behaviour that has used up its registrations may stop, but only when it is Done:
\* an operation that cannot finish is a deadlock.
MCNext == Next \/ (Done /\ UNCHANGED vars)

MCFairSpec == Init /\ [][MCNext]_vars /\ Fairness

=============================================================================
