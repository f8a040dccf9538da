-------------------------- MODULE SessionContract --------------------------
(***************************************************************************)
(* What a server promises the application about one session, whatever      *)
(* closes it: on_connected comes first, the peer's packets follow in the   *)
(* order it sent them, on_disconnected comes exactly once and last, and    *)
(* the connection permit returns only after that.  A connection refused at *)
(* the admission gate returns its permit and calls nothing.                *)
(***************************************************************************)
EXTENDS Naturals

CONSTANT MaxIn     \* bound: packets the peer sends

VARIABLES
    stage,         \* "accepted", "connected", "disconnected" or "released"
    last           \* the number of the last packet given to the handler

vars == <<stage, last>>

Init ==
    /\ stage = "accepted"
    /\ last = 0

\* The gate is closed: the connection never becomes a session.
Refuse ==
    /\ stage = "accepted"
    /\ stage' = "released"
    /\ UNCHANGED last

Connect ==
    /\ stage = "accepted"
    /\ stage' = "connected"
    /\ UNCHANGED last

Deliver ==
    /\ stage = "connected"
    /\ \E n \in last + 1 .. MaxIn : last' = n
    /\ UNCHANGED stage

Disconnect ==
    /\ stage = "connected"
    /\ stage' = "disconnected"
    /\ UNCHANGED last

Release ==
    /\ stage = "disconnected"
    /\ stage' = "released"
    /\ UNCHANGED last

Next ==
    \/ Refuse
    \/ Connect
    \/ Deliver
    \/ Disconnect
    \/ Release

Spec == Init /\ [][Next]_vars

=============================================================================
