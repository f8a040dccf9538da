-------------------------- MODULE RequestLifecycle --------------------------
(***************************************************************************)
(* What the request registry promises its users, with no maps, keys,       *)
(* threads or sessions: every registration has one outcome, chosen once;   *)
(* an inbound request is answered under an exclusive claim, and a caller   *)
(* gets a response only if its own request was responded to.               *)
(* RequestRegistry implements this specification.                          *)
(***************************************************************************)
CONSTANT Gens      \* the registrations

VARIABLES
    phase,         \* what became of the registration
    claims,        \* registrations with an unresolved claim to answer
    written,       \* registrations whose answer is on the wire
    delivered      \* registrations whose caller got the response

vars == <<phase, claims, written, delivered>>

Init ==
    /\ phase = [g \in Gens |-> "Unborn"]
    /\ claims = {}
    /\ written = {}
    /\ delivered = {}

Move(g, from, to) ==
    /\ phase[g] \in from
    /\ phase' = [phase EXCEPT ![g] = to]

Admit(g) ==
    /\ Move(g, {"Unborn"}, "Pending")
    /\ UNCHANGED <<claims, written, delivered>>

\* Only a pending request can be claimed, hence at most once.
Claim(g) ==
    /\ Move(g, {"Pending"}, "Responding")
    /\ claims' = claims \cup {g}
    /\ UNCHANGED <<written, delivered>>

Write(g) ==
    /\ g \in claims \ written
    /\ written' = written \cup {g}
    /\ UNCHANGED <<phase, claims, delivered>>

\* A claim is resolved once.  Responded means that the answer was written; a request
\* whose session closed meanwhile keeps that outcome.
Resolve(g) ==
    /\ g \in claims
    /\ claims' = claims \ {g}
    /\ \/ g \in written /\ Move(g, {"Responding"}, "Responded")
       \/ Move(g, {"Responding"}, "SendFailed")
       \/ phase[g] = "SessionClosed" /\ UNCHANGED phase
    /\ UNCHANGED <<written, delivered>>

\* The peer answered an outbound request; its caller may have stopped listening.
Complete(g) ==
    /\ Move(g, {"Pending"}, "Responded")
    /\ UNCHANGED <<claims, written, delivered>>

Deliver(g) ==
    /\ phase[g] = "Responded"
    /\ g \notin delivered
    /\ delivered' = delivered \cup {g}
    /\ UNCHANGED <<phase, claims, written>>

\* A request that is being answered cannot be given up.
GiveUp(g) ==
    /\ \E outcome \in {"TimedOut", "Dropped"} : Move(g, {"Pending"}, outcome)
    /\ UNCHANGED <<claims, written, delivered>>

CloseSession(g) ==
    /\ Move(g, {"Pending", "Responding"}, "SessionClosed")
    /\ UNCHANGED <<claims, written, delivered>>

Next == \E g \in Gens :
    \/ Admit(g) \/ Claim(g) \/ Write(g) \/ Resolve(g) \/ Complete(g)
    \/ Deliver(g) \/ GiveUp(g) \/ CloseSession(g)

Spec == Init /\ [][Next]_vars

=============================================================================
