---------------------------- MODULE MCEventPipe ----------------------------
(***************************************************************************)
(* EventPipe on small instances for TLC.                                   *)
(***************************************************************************)
EXTENDS EventPipe, TLC

\* The pipe may rest once both halves are gone; a party waiting for ever before that
\* is a deadlock.
Rest == ~ alive /\ (rx = "gone" \/ Emitted) /\ held = {}

MCNext == Next \/ (Rest /\ UNCHANGED vars)

MCSpec     == Init /\ [][MCNext]_vars
MCFairSpec == MCSpec /\ Fairness

=============================================================================
