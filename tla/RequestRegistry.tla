-------------------------- MODULE RequestRegistry --------------------------
(***************************************************************************)
(* The request registry of msgtrans (transport/request_registry.rs): the   *)
(* table that decides, for every request in either direction, who may      *)
(* answer it and how it ends.                                              *)
(*                                                                         *)
(* The registry has no lock of its own.  It is a handful of concurrent     *)
(* maps and atomics that any task may touch at any time: the session actor *)
(* registers inbound requests, handler tasks answer or drop them, write    *)
(* loops resolve the claims of queued responses, the pump completes        *)
(* outbound waiters, callers cancel, the scanner times out, and anybody    *)
(* may close a session.  An operation is therefore modelled as the         *)
(* sequence of its shared accesses, run by a thread t of a pool: pc[t] is  *)
(* the next access, and every access is one action.  An access that holds  *)
(* a DashMap guard across several reads and one compare-exchange is one    *)
(* step: the entry cannot leave the map while the guard is held.           *)
(*                                                                         *)
(* A registration is identified by its generation, which is also the       *)
(* identity of its RequestEntry object: state[g] is the object's AtomicU8  *)
(* and keeps the outcome after the object has left the map.                *)
(*                                                                         *)
(* Left out: the write-only diagnostic duplicate_response_total, biz_type, *)
(* keys without a session (unit tests only), and abort_waiter and          *)
(* abort_all, which nothing calls.                                         *)
(*                                                                         *)
(* An operator marked "Mutant" is the definition after it with a plausible *)
(* bug; nothing uses it but the check that the properties can fail.        *)
(***************************************************************************)
EXTENDS Integers, FiniteSets

CONSTANTS
    Sessions,    \* session ids; the accept/connect path never opens one twice
    Threads,     \* tasks that can be inside a registry operation at once
    MaxId,       \* the largest request id (u32::MAX in the code)
    MaxGen,      \* bound: number of registrations in a behaviour
    ReuseIds     \* does the peer use the id of a finished request again?

ASSUME ConstantsAssumption ==
    /\ MaxId \in Nat \ {0}
    /\ MaxGen \in Nat
    /\ ReuseIds \in BOOLEAN

None == 0
Gens == 1 .. MaxGen
Ids  == 1 .. MaxId
Directions == {"Inbound", "Outbound"}
Keys == [session : Sessions, id : Ids, dir : Directions]

Live == {"Pending", "Responding"}
Terminal == {"Responded", "TimedOut", "SessionClosed", "Dropped", "SendFailed"}

VARIABLES
    \* the registry
    sessions,    \* sessions map: runtimes that can still be found
    opened,      \* sessions whose runtime was ever created
    closing,     \* runtimes whose state is CLOSING
    requests,    \* SessionRuntime.requests, per session
    nextId,      \* SessionRuntime.next_request_id, per session
    nextGen,     \* next_generation
    entries,     \* entries map: key -> generation of the entry, or None
    state,       \* generation -> RequestEntry.state ("Unborn" before insertion)
    keyOf,       \* generation -> RequestEntry.key
    due,         \* generations with deadline_at <= now
    waiters,     \* waiters map: key -> generation whose oneshot sender it holds
    wheel,       \* timeout buckets: <<key, generation that was scheduled>>
    pending,     \* counters.pending_requests
    total,       \* the other counters
    \* what the registry's users hold
    responders,  \* inbound tokens inside a live Responder / ClientRequest
    claims,      \* inbound tokens inside an unresolved RespondClaim
    written,     \* registrations whose response bytes reached the socket
    guards,      \* outbound tokens inside an armed OutboundRequestGuard
    rx,          \* the caller's oneshot receiver, per registration
    \* threads
    pc, key, tok, via, sess, must, seen, count

registryVars == <<sessions, opened, closing, requests, nextId, nextGen, entries,
                  state, keyOf, due, waiters, wheel, pending, total>>
userVars     == <<responders, claims, written, guards, rx>>
threadVars   == <<pc, key, tok, via, sess, must, seen, count>>
vars         == <<registryVars, userVars, threadVars>>

NoKey == [session |-> None, id |-> None, dir |-> "none"]

Labels == {"idle", "haveId", "gauge", "insert", "refused", "index", "recheck",
           "undo", "schedule", "putWaiter", "verify", "dec", "rmEntry",
           "rmIndex", "rmWaiter", "deliver", "timeout", "beginClose", "drain"}

\* Which operation a removal tail (dec, rmEntry, ...) belongs to.
Tails == {"none", "undo", "complete", "responded", "sendFailed", "timedOut",
          "abort", "drain"}

TypeOK ==
    /\ sessions \in SUBSET Sessions
    /\ opened \in SUBSET Sessions
    /\ closing \in SUBSET Sessions
    /\ requests \in [Sessions -> SUBSET Keys]
    /\ nextId \in [Sessions -> Ids]
    /\ nextGen \in 1 .. MaxGen + 1
    /\ entries \in [Keys -> Gens \cup {None}]
    /\ state \in [Gens -> Live \cup Terminal \cup {"Unborn"}]
    /\ keyOf \in [Gens -> Keys \cup {NoKey}]
    /\ due \in SUBSET Gens
    /\ waiters \in [Keys -> Gens \cup {None}]
    /\ wheel \in SUBSET (Keys \X Gens)
    /\ pending \in Int
    /\ total \in [timedOut : Nat, sessionClosed : Nat, sendFailed : Nat]
    /\ responders \in SUBSET Gens
    /\ claims \in SUBSET Gens
    /\ written \in SUBSET Gens
    /\ guards \in SUBSET Gens
    /\ rx \in [Gens -> {"none", "open", "response", "closed"}]
    /\ pc \in [Threads -> Labels]
    /\ key \in [Threads -> Keys \cup {NoKey}]
    /\ tok \in [Threads -> Gens \cup {None}]
    /\ via \in [Threads -> Tails]
    /\ sess \in [Threads -> Sessions \cup {None}]
    /\ must \in [Threads -> SUBSET Keys]
    /\ seen \in [Threads -> SUBSET Keys]
    /\ count \in [Threads -> Nat]

Init ==
    /\ sessions = {}
    /\ opened = {}
    /\ closing = {}
    /\ requests = [s \in Sessions |-> {}]
    /\ nextId = [s \in Sessions |-> 1]
    /\ nextGen = 1
    /\ entries = [k \in Keys |-> None]
    /\ state = [g \in Gens |-> "Unborn"]
    /\ keyOf = [g \in Gens |-> NoKey]
    /\ due = {}
    /\ waiters = [k \in Keys |-> None]
    /\ wheel = {}
    /\ pending = 0
    /\ total = [timedOut |-> 0, sessionClosed |-> 0, sendFailed |-> 0]
    /\ responders = {}
    /\ claims = {}
    /\ written = {}
    /\ guards = {}
    /\ rx = [g \in Gens |-> "none"]
    /\ pc = [t \in Threads |-> "idle"]
    /\ key = [t \in Threads |-> NoKey]
    /\ tok = [t \in Threads |-> None]
    /\ via = [t \in Threads |-> "none"]
    /\ sess = [t \in Threads |-> None]
    /\ must = [t \in Threads |-> {}]
    /\ seen = [t \in Threads |-> {}]
    /\ count = [t \in Threads |-> 0]

-----------------------------------------------------------------------------
(* Steps shared by several operations.                                     *)

Goto(t, l) ==
    /\ pc' = [pc EXCEPT ![t] = l]
    /\ UNCHANGED <<key, tok, via>>

\* The thread leaves the operation and forgets its locals.
Return(t) ==
    /\ pc' = [pc EXCEPT ![t] = "idle"]
    /\ key' = [key EXCEPT ![t] = NoKey]
    /\ tok' = [tok EXCEPT ![t] = None]
    /\ via' = [via EXCEPT ![t] = "none"]

\* entries.get(token.key()) finds the very registration the token was minted for.
Found(g) == entries[keyOf[g]] = g

\* entries.get(key) finds an entry in one of the states S.
FoundIn(k, S) == entries[k] # None /\ state[entries[k]] \in S

\* A winning try_transition: t moves g to outcome and owns g's removal.
Settle(t, g, outcome, tail) ==
    /\ state' = [state EXCEPT ![g] = outcome]
    /\ pc' = [pc EXCEPT ![t] = "dec"]
    /\ key' = [key EXCEPT ![t] = keyOf[g]]
    /\ tok' = [tok EXCEPT ![t] = g]
    /\ via' = [via EXCEPT ![t] = tail]

-----------------------------------------------------------------------------
(* Sessions.                                                               *)

\* open_session, called once per id by the accept/connect path.
OpenSession(s) ==
    /\ s \notin opened
    /\ opened' = opened \cup {s}
    /\ sessions' = sessions \cup {s}
    /\ UNCHANGED <<closing, requests, nextId, nextGen, entries, state, keyOf, due,
                   waiters, wheel, pending, total, userVars, threadVars>>

IsOpen(s) == s \notin closing

-----------------------------------------------------------------------------
(* Registration: register (inbound) and try_register_waiter (outbound).    *)

\* A key the peer may put on a request: one it has used before, if it reuses ids, or a
\* fresh one.  The registry does not compare ids, so the fresh one is the next number.
PeerMayUse(k) ==
    LET used == {keyOf[g] : g \in {h \in Gens : h < nextGen}}
    IN  \/ ReuseIds /\ k \in used
        \/ k.id = 1 + Cardinality({u \in used : u.session = k.session /\ u.dir = k.dir})

\* Inbound requests of a session are registered by one task, one at a time.
Registering == {"gauge", "insert", "refused", "index", "recheck", "undo", "schedule"}

DispatcherFree(s) ==
    \A t \in Threads : ~ (/\ pc[t] \in Registering
                          /\ key[t].dir = "Inbound"
                          /\ key[t].session = s)

\* register_impl up to the generation: the runtime must be found and open.
\* The entry object is private until Insert publishes it.
EnterRegister(t, k) ==
    /\ k.session \in sessions
    /\ IsOpen(k.session)
    /\ nextGen <= MaxGen
    /\ nextGen' = nextGen + 1
    /\ keyOf' = [keyOf EXCEPT ![nextGen] = k]
    /\ pc' = [pc EXCEPT ![t] = "gauge"]
    /\ key' = [key EXCEPT ![t] = k]
    /\ tok' = [tok EXCEPT ![t] = nextGen]
    /\ UNCHANGED <<sessions, opened, closing, requests, nextId, entries, state, due,
                   waiters, wheel, pending, total, userVars, via, sess, must, seen,
                   count>>

\* The actor (server) or pipe consumer (client) takes a Request off the wire.
RegisterInbound(t, k) ==
    /\ pc[t] = "idle"
    /\ k.dir = "Inbound"
    /\ PeerMayUse(k)
    /\ DispatcherFree(k.session)
    /\ EnterRegister(t, k)

\* fetch_update refuses at u32::MAX.
IdLeft(s) == nextId[s] # MaxId

AllocateId(s) == nextId' = [nextId EXCEPT ![s] = @ + 1]

\* next_request_id: strictly monotonic per session, refuses to wrap.
NextRequestId(t, s) ==
    /\ pc[t] = "idle"
    /\ s \in sessions
    /\ IsOpen(s)
    /\ nextGen <= MaxGen
    /\ IdLeft(s)
    /\ AllocateId(s)
    /\ key' = [key EXCEPT ![t] = [session |-> s, id |-> nextId[s], dir |-> "Outbound"]]
    /\ pc' = [pc EXCEPT ![t] = "haveId"]
    /\ UNCHANGED <<sessions, opened, closing, requests, nextGen, entries, state, keyOf,
                   due, waiters, wheel, pending, total, userVars, tok, via, sess, must,
                   seen, count>>

RegisterOutbound(t) ==
    /\ pc[t] = "haveId"
    /\ EnterRegister(t, key[t])

\* The session was closed since the id was allocated: Err(DuplicateRequest).
RegisterOutboundRefused(t) ==
    /\ pc[t] = "haveId"
    /\ key[t].session \notin sessions \/ ~ IsOpen(key[t].session)
    /\ Return(t)
    /\ UNCHANGED <<registryVars, userVars, sess, must, seen, count>>

\* Mutant: the gauge is not raised.
GaugeForgotten(t) ==
    /\ pc[t] = "gauge"
    /\ Goto(t, "insert")
    /\ UNCHANGED <<registryVars, userVars, sess, must, seen, count>>

\* The gauge goes up before the entry becomes visible.
Gauge(t) ==
    /\ pc[t] = "gauge"
    /\ pending' = pending + 1
    /\ Goto(t, "insert")
    /\ UNCHANGED <<sessions, opened, closing, requests, nextId, nextGen, entries, state,
                   keyOf, due, waiters, wheel, total, userVars, sess, must, seen, count>>

\* entries.entry(key): refuse a duplicate, never replace.
Insert(t) ==
    /\ pc[t] = "insert"
    /\ \/ /\ entries[key[t]] = None
          /\ entries' = [entries EXCEPT ![key[t]] = tok[t]]
          /\ state' = [state EXCEPT ![tok[t]] = "Pending"]
          /\ Goto(t, "index")
       \/ /\ entries[key[t]] # None
          /\ Goto(t, "refused")
          /\ UNCHANGED <<entries, state>>
    /\ UNCHANGED <<sessions, opened, closing, requests, nextId, nextGen, keyOf, due,
                   waiters, wheel, pending, total, userVars, sess, must, seen, count>>

Refused(t) ==
    /\ pc[t] = "refused"
    /\ pending' = pending - 1
    /\ Return(t)
    /\ UNCHANGED <<sessions, opened, closing, requests, nextId, nextGen, entries, state,
                   keyOf, due, waiters, wheel, total, userVars, sess, must, seen, count>>

\* rt.requests.insert(key), on the runtime found at entry (it may be closed by now).
Index(t) ==
    /\ pc[t] = "index"
    /\ requests' = [requests EXCEPT ![key[t].session] = @ \cup {key[t]}]
    /\ Goto(t, "recheck")
    /\ UNCHANGED <<sessions, opened, closing, nextId, nextGen, entries, state, keyOf, due,
                   waiters, wheel, pending, total, userVars, sess, must, seen, count>>

\* Mutant: the runtime is not looked at again.
RecheckSkipped(t) ==
    /\ pc[t] = "recheck"
    /\ Goto(t, IF key[t].dir = "Inbound" THEN "schedule" ELSE "putWaiter")
    /\ UNCHANGED <<registryVars, userVars, sess, must, seen, count>>

\* A close that marked the runtime before this point may have drained without our key.
Recheck(t) ==
    /\ pc[t] = "recheck"
    /\ \/ ~ IsOpen(key[t].session) /\ Goto(t, "undo")
       \/ /\ IsOpen(key[t].session)
          /\ Goto(t, IF key[t].dir = "Inbound" THEN "schedule" ELSE "putWaiter")
    /\ UNCHANGED <<registryVars, userVars, sess, must, seen, count>>

\* Undo the registration unless somebody else has already settled it.
Undo(t) ==
    /\ pc[t] = "undo"
    /\ \/ /\ FoundIn(key[t], {"Pending"})
          /\ Settle(t, entries[key[t]], "SessionClosed", "undo")
       \/ /\ ~ FoundIn(key[t], {"Pending"})
          /\ Goto(t, "rmWaiter")
          /\ UNCHANGED state
    /\ UNCHANGED <<sessions, opened, closing, requests, nextId, nextGen, entries, keyOf,
                   due, waiters, wheel, pending, total, userVars, sess, must, seen, count>>

\* Mutant: the key is not put on the wheel.
ScheduleForgotten(t) ==
    /\ pc[t] = "schedule"
    /\ responders' = responders \cup {tok[t]}
    /\ Return(t)
    /\ UNCHANGED <<registryVars, claims, written, guards, rx, sess, must, seen, count>>

\* schedule_for_deadline; the token goes into the Responder handed to the handler.
Schedule(t) ==
    /\ pc[t] = "schedule"
    /\ wheel' = wheel \cup {<<key[t], tok[t]>>}
    /\ responders' = responders \cup {tok[t]}
    /\ Return(t)
    /\ UNCHANGED <<sessions, opened, closing, requests, nextId, nextGen, entries, state,
                   keyOf, due, waiters, pending, total, claims, written, guards, rx, sess,
                   must, seen, count>>

\* Dropping a oneshot sender closes its receiver unless it already has the response.
CloseRx(w) ==
    rx' = IF w # None /\ rx[w] = "open" THEN [rx EXCEPT ![w] = "closed"] ELSE rx

\* waiters.insert(key, tx): a sender already there is dropped.
PutWaiter(t) ==
    /\ pc[t] = "putWaiter"
    /\ waiters' = [waiters EXCEPT ![key[t]] = tok[t]]
    /\ rx' = [g \in Gens |->
                CASE g = tok[t] -> "open"
                  [] g # tok[t] /\ g = waiters[key[t]] /\ rx[g] = "open" -> "closed"
                  [] OTHER -> rx[g]]
    /\ Goto(t, "verify")
    /\ UNCHANGED <<sessions, opened, closing, requests, nextId, nextGen, entries, state,
                   keyOf, due, wheel, pending, total, responders, claims, written, guards,
                   sess, must, seen, count>>

\* Transport::request holds the receiver and an armed guard until it returns.
ArmGuard(t) == guards' = guards \cup {tok[t]}

\* Mutant: the entry is not looked for again.
VerifySkipped(t) ==
    /\ pc[t] = "verify"
    /\ ArmGuard(t)
    /\ Return(t)
    /\ UNCHANGED <<registryVars, responders, claims, written, rx, sess, must, seen, count>>

\* If the entry is gone the drain could not see our waiter: take it back, Err.
Verify(t) ==
    /\ pc[t] = "verify"
    /\ \/ /\ entries[key[t]] # None
          /\ ArmGuard(t)
          /\ Return(t)
       \/ /\ entries[key[t]] = None
          /\ Goto(t, "rmWaiter")
          /\ UNCHANGED guards
    /\ UNCHANGED <<registryVars, responders, claims, written, rx, sess, must, seen, count>>

-----------------------------------------------------------------------------
(* Winning transitions.  Each is the first access of an operation whose    *)
(* remaining accesses are the removal tail.                                *)

\* begin_respond: the token's own registration, and only while it is Pending.
BeginRespond(g) ==
    /\ Found(g) /\ state[g] = "Pending"
    /\ state' = [state EXCEPT ![g] = "Responding"]

\* Responder::respond: the claim rides the queued write; options that cannot be
\* applied drop it, which FinishRespond does.  The Responder's own Drop afterwards
\* finds no Pending entry and does nothing.
Respond(g) ==
    /\ g \in responders
    /\ responders' = responders \ {g}
    /\ \/ /\ BeginRespond(g)
          /\ claims' = claims \cup {g}
       \/ /\ ~ (Found(g) /\ state[g] = "Pending")
          /\ UNCHANGED <<state, claims>>
    /\ UNCHANGED <<sessions, opened, closing, requests, nextId, nextGen, entries, keyOf,
                   due, waiters, wheel, pending, total, written, guards, rx, threadVars>>

\* abort_request_token on behalf of a dropped Responder or OutboundRequestGuard.
AbortRequestToken(t, g) ==
    \/ /\ Found(g) /\ state[g] = "Pending"
       /\ Settle(t, g, "Dropped", "abort")
    \/ /\ ~ (Found(g) /\ state[g] = "Pending")
       /\ UNCHANGED <<state, pc, key, tok, via>>

\* The handler drops the Responder without answering.
DropResponder(t, g) ==
    /\ pc[t] = "idle"
    /\ g \in responders
    /\ responders' = responders \ {g}
    /\ AbortRequestToken(t, g)
    /\ UNCHANGED <<sessions, opened, closing, requests, nextId, nextGen, entries, keyOf,
                   due, waiters, wheel, pending, total, claims, written, guards, rx, sess,
                   must, seen, count>>

\* The write loop puts the queued response on the socket.
WriteResponse(g) ==
    /\ g \in claims \ written
    /\ written' = written \cup {g}
    /\ UNCHANGED <<registryVars, responders, claims, guards, rx, threadVars>>

\* Mutant: the write is confirmed when the response is queued.
ConfirmedWhenQueued(g, writeConfirmed) == TRUE

\* The write loop confirms a write only after it.
Confirmed(g, writeConfirmed) == writeConfirmed => g \in written

\* finish_respond: RespondClaim::resolve(true) after a write, resolve(false) on a
\* failed one, and the claim's Drop, wherever the queued response dies, as false.
FinishRespond(t, g, writeConfirmed) ==
    /\ pc[t] = "idle"
    /\ g \in claims
    /\ Confirmed(g, writeConfirmed)
    /\ claims' = claims \ {g}
    /\ \/ /\ Found(g) /\ state[g] = "Responding"
          /\ IF writeConfirmed THEN Settle(t, g, "Responded", "responded")
                               ELSE Settle(t, g, "SendFailed", "sendFailed")
       \/ /\ ~ (Found(g) /\ state[g] = "Responding")
          /\ UNCHANGED <<state, pc, key, tok, via>>
    /\ UNCHANGED <<sessions, opened, closing, requests, nextId, nextGen, entries, keyOf,
                   due, waiters, wheel, pending, total, responders, written, guards, rx,
                   sess, must, seen, count>>

\* complete_waiter: a Response whose id matches a pending outbound request.
CompleteWaiter(t, k) ==
    /\ pc[t] = "idle"
    /\ k.dir = "Outbound"
    /\ FoundIn(k, {"Pending"})
    /\ Settle(t, entries[k], "Responded", "complete")
    /\ UNCHANGED <<sessions, opened, closing, requests, nextId, nextGen, entries, keyOf,
                   due, waiters, wheel, pending, total, userVars, sess, must, seen, count>>

\* The caller got the response and disarms its guard.
CallerReceives(g) ==
    /\ g \in guards
    /\ rx[g] = "response"
    /\ guards' = guards \ {g}
    /\ UNCHANGED <<registryVars, responders, claims, written, rx, threadVars>>

\* Timeout, send error, closed receiver or cancellation: the armed guard drops.
CallerGivesUp(t, g) ==
    /\ pc[t] = "idle"
    /\ g \in guards
    /\ guards' = guards \ {g}
    /\ AbortRequestToken(t, g)
    /\ CloseRx(g)
    /\ UNCHANGED <<sessions, opened, closing, requests, nextId, nextGen, entries, keyOf,
                   due, waiters, wheel, pending, total, responders, claims, written, sess,
                   must, seen, count>>

-----------------------------------------------------------------------------
(* The timeout scanner: one task per registry.                             *)

DeadlinePasses(g) ==
    /\ state[g] = "Pending"
    /\ keyOf[g].dir = "Inbound"
    /\ g \notin due
    /\ due' = due \cup {g}
    /\ UNCHANGED <<sessions, opened, closing, requests, nextId, nextGen, entries, state,
                   keyOf, waiters, wheel, pending, total, userVars, threadVars>>

ScannerFree == \A t \in Threads : pc[t] # "timeout" /\ via[t] # "timedOut"

\* entry.deadline_at <= now
Expired(k) == entries[k] \in due

\* One key w[1] of a drained bucket (w[2], the registration that scheduled it, is not
\* looked at).  A key whose entry is pending and not due is scheduled again: no change.
ScanTimeoutBucket(t, w) ==
    /\ pc[t] = "idle"
    /\ ScannerFree
    /\ w \in wheel
    /\ wheel' = wheel \ {w}
    /\ \/ /\ ~ FoundIn(w[1], {"Pending"})
          /\ UNCHANGED <<pc, key>>
       \/ /\ FoundIn(w[1], {"Pending"})
          /\ Expired(w[1])
          /\ pc' = [pc EXCEPT ![t] = "timeout"]
          /\ key' = [key EXCEPT ![t] = w[1]]
    /\ UNCHANGED <<sessions, opened, closing, requests, nextId, nextGen, entries, state,
                   keyOf, due, waiters, pending, total, userVars, tok, via, sess, must,
                   seen, count>>

\* Mutant: a request that is being answered is timed out too.
MarkTimedOutLive(t) ==
    /\ pc[t] = "timeout"
    /\ \/ /\ FoundIn(key[t], Live)
          /\ Settle(t, entries[key[t]], "TimedOut", "timedOut")
       \/ /\ ~ FoundIn(key[t], Live)
          /\ Return(t)
          /\ UNCHANGED state
    /\ UNCHANGED <<sessions, opened, closing, requests, nextId, nextGen, entries, keyOf,
                   due, waiters, wheel, pending, total, userVars, sess, must, seen, count>>

\* mark_timed_out looks the key up again; it has no generation to compare.
MarkTimedOut(t) ==
    /\ pc[t] = "timeout"
    /\ \/ /\ FoundIn(key[t], {"Pending"})
          /\ Settle(t, entries[key[t]], "TimedOut", "timedOut")
       \/ /\ ~ FoundIn(key[t], {"Pending"})
          /\ Return(t)
          /\ UNCHANGED state
    /\ UNCHANGED <<sessions, opened, closing, requests, nextId, nextGen, entries, keyOf,
                   due, waiters, wheel, pending, total, userVars, sess, must, seen, count>>

-----------------------------------------------------------------------------
(* The removal tail: what the winner of a transition still has to do.      *)

\* The gauge goes down, and the counter of the outcome up.
Dec(t) ==
    /\ pc[t] = "dec"
    /\ pending' = pending - 1
    /\ total' = CASE via[t] = "timedOut"   -> [total EXCEPT !.timedOut = @ + 1]
                  [] via[t] = "sendFailed" -> [total EXCEPT !.sendFailed = @ + 1]
                  [] OTHER                 -> total
    /\ Goto(t, "rmEntry")
    /\ UNCHANGED <<sessions, opened, closing, requests, nextId, nextGen, entries, state,
                   keyOf, due, waiters, wheel, userVars, sess, must, seen, count>>

\* Mutant: the drain leaves the entry behind.
RmEntryNotOnDrain(t) ==
    /\ pc[t] = "rmEntry"
    /\ entries' = IF via[t] = "drain" THEN entries ELSE [entries EXCEPT ![key[t]] = None]
    /\ Goto(t, IF via[t] = "drain" THEN "rmWaiter" ELSE "rmIndex")
    /\ UNCHANGED <<sessions, opened, closing, requests, nextId, nextGen, state, keyOf, due,
                   waiters, wheel, pending, total, userVars, sess, must, seen, count>>

\* entries.remove(key)
RmEntry(t) ==
    /\ pc[t] = "rmEntry"
    /\ entries' = [entries EXCEPT ![key[t]] = None]
    /\ Goto(t, IF via[t] = "drain" THEN "rmWaiter" ELSE "rmIndex")
    /\ UNCHANGED <<sessions, opened, closing, requests, nextId, nextGen, state, keyOf, due,
                   waiters, wheel, pending, total, userVars, sess, must, seen, count>>

\* The rest of remove_terminal_entry: forget the key if the runtime can be found.
RmIndex(t) ==
    /\ pc[t] = "rmIndex"
    /\ requests' = IF key[t].session \in sessions
                    THEN [requests EXCEPT ![key[t].session] = @ \ {key[t]}]
                    ELSE requests
    /\ CASE via[t] = "complete"                  -> Goto(t, "deliver")
         [] via[t] \in {"responded", "sendFailed"} -> Return(t)
         [] OTHER                                -> Goto(t, "rmWaiter")
    /\ UNCHANGED <<sessions, opened, closing, nextId, nextGen, entries, state, keyOf, due,
                   waiters, wheel, pending, total, userVars, sess, must, seen, count>>

\* waiters.remove(key): the sender is dropped.  A drain goes on with its next key.
RmWaiter(t) ==
    /\ pc[t] = "rmWaiter"
    /\ waiters' = [waiters EXCEPT ![key[t]] = None]
    /\ CloseRx(waiters[key[t]])
    /\ pc' = [pc EXCEPT ![t] = IF via[t] = "drain" THEN "drain" ELSE "idle"]
    /\ key' = [key EXCEPT ![t] = NoKey]
    /\ tok' = [tok EXCEPT ![t] = None]
    /\ via' = [via EXCEPT ![t] = "none"]
    /\ UNCHANGED <<sessions, opened, closing, requests, nextId, nextGen, entries, state,
                   keyOf, due, wheel, pending, total, responders, claims, written, guards,
                   sess, must, seen, count>>

\* complete_waiter takes the sender out and sends; the receiver may be gone.
Deliver(t) ==
    /\ pc[t] = "deliver"
    /\ waiters' = [waiters EXCEPT ![key[t]] = None]
    /\ rx' = LET w == waiters[key[t]]
             IN  IF w # None /\ rx[w] = "open" THEN [rx EXCEPT ![w] = "response"] ELSE rx
    /\ Return(t)
    /\ UNCHANGED <<sessions, opened, closing, requests, nextId, nextGen, entries, state,
                   keyOf, due, wheel, pending, total, responders, claims, written, guards,
                   sess, must, seen, count>>

-----------------------------------------------------------------------------
(* close_session_pending.                                                  *)

\* sessions.remove(session_id): only one closer gets the runtime.
CloseSessionPending(t, s) ==
    /\ pc[t] = "idle"
    /\ s \in sessions
    /\ sessions' = sessions \ {s}
    /\ sess' = [sess EXCEPT ![t] = s]
    /\ Goto(t, "beginClose")
    /\ UNCHANGED <<opened, closing, requests, nextId, nextGen, entries, state, keyOf, due,
                   waiters, wheel, pending, total, userVars, must, seen, count>>

\* runtime.begin_close(), and the iteration over runtime.requests starts: it visits
\* the keys present now, and may or may not visit one inserted from now on.
BeginClose(t) ==
    /\ pc[t] = "beginClose"
    /\ closing' = closing \cup {sess[t]}
    /\ must' = [must EXCEPT ![t] = requests[sess[t]]]
    /\ Goto(t, "drain")
    /\ UNCHANGED <<sessions, opened, requests, nextId, nextGen, entries, state, keyOf, due,
                   waiters, wheel, pending, total, userVars, sess, seen, count>>

\* The loop body: Pending and Responding both die with the session.
Drain(t, k) ==
    /\ pc[t] = "drain"
    /\ k \in requests[sess[t]] \ seen[t]
    /\ seen' = [seen EXCEPT ![t] = @ \cup {k}]
    /\ \/ /\ FoundIn(k, Live)
          /\ Settle(t, entries[k], "SessionClosed", "drain")
          /\ count' = [count EXCEPT ![t] = @ + 1]
       \/ /\ ~ FoundIn(k, Live)
          /\ UNCHANGED <<state, pc, key, tok, via, count>>
    /\ UNCHANGED <<sessions, opened, closing, requests, nextId, nextGen, entries, keyOf,
                   due, waiters, wheel, pending, total, userVars, sess, must>>

\* runtime.requests.clear(), and the counter is brought up to date.
DrainEnd(t) ==
    /\ pc[t] = "drain"
    /\ must[t] \subseteq seen[t]
    /\ requests' = [requests EXCEPT ![sess[t]] = {}]
    /\ total' = [total EXCEPT !.sessionClosed = @ + count[t]]
    /\ sess' = [sess EXCEPT ![t] = None]
    /\ must' = [must EXCEPT ![t] = {}]
    /\ seen' = [seen EXCEPT ![t] = {}]
    /\ count' = [count EXCEPT ![t] = 0]
    /\ Return(t)
    /\ UNCHANGED <<sessions, opened, closing, nextId, nextGen, entries, state, keyOf, due,
                   waiters, wheel, pending, userVars>>

-----------------------------------------------------------------------------

\* The steps of an operation t has started.
Continue(t) ==
    \/ RegisterOutbound(t) \/ RegisterOutboundRefused(t)
    \/ Gauge(t) \/ Insert(t) \/ Refused(t) \/ Index(t) \/ Recheck(t) \/ Undo(t)
    \/ Schedule(t) \/ PutWaiter(t) \/ Verify(t)
    \/ MarkTimedOut(t)
    \/ Dec(t) \/ RmEntry(t) \/ RmIndex(t) \/ RmWaiter(t) \/ Deliver(t)
    \/ BeginClose(t) \/ (\E k \in Keys : Drain(t, k)) \/ DrainEnd(t)

\* The operations an idle thread may start.
Start(t) ==
    \/ \E k \in Keys : RegisterInbound(t, k) \/ CompleteWaiter(t, k)
    \/ \E s \in Sessions : NextRequestId(t, s) \/ CloseSessionPending(t, s)
    \/ \E g \in Gens : \/ DropResponder(t, g)
                        \/ CallerGivesUp(t, g)
                        \/ \E ok \in BOOLEAN : FinishRespond(t, g, ok)
    \/ \E w \in wheel : ScanTimeoutBucket(t, w)

\* Single accesses by the registry's users, and the passage of time.
Environment ==
    \/ \E s \in Sessions : OpenSession(s)
    \/ \E g \in Gens : \/ Respond(g) \/ WriteResponse(g)
                        \/ CallerReceives(g) \/ DeadlinePasses(g)

Next == Environment \/ \E t \in Threads : Start(t) \/ Continue(t)

Spec == Init /\ [][Next]_vars

\* Every task the runtime has started makes progress; time passes; the scanner comes
\* round; a queued response is written or dropped (the write deadline sees to it); a
\* caller stops waiting (its own timeout).  Handlers need not answer nor drop.
Fairness ==
    /\ WF_vars(\E t \in Threads : Continue(t))
    /\ WF_vars(\E t \in Threads, w \in wheel : ScanTimeoutBucket(t, w))
    /\ WF_vars(\E g \in Gens : DeadlinePasses(g))
    /\ WF_vars(\E t \in Threads, g \in Gens, ok \in BOOLEAN : FinishRespond(t, g, ok))
    /\ WF_vars(\E t \in Threads, g \in Gens : CallerGivesUp(t, g))

FairSpec == Spec /\ Fairness

\* Nothing is left to do: no session, no operation, nothing in a user's hands.
Done ==
    /\ opened = Sessions /\ sessions = {}
    /\ \A t \in Threads : pc[t] = "idle"
    /\ responders = {} /\ claims = {} /\ guards = {} /\ wheel = {}

-----------------------------------------------------------------------------
(* Properties.                                                             *)

\* The thread has won g's transition and not yet taken g out of the map.
Owns(t, g) == pc[t] \in {"dec", "rmEntry"} /\ tok[t] = g

\* Removal is by key alone (entries.remove(&key)), yet it always takes out the very
\* registration its thread settled, and a settled entry that is still in the map has
\* exactly one thread that will remove it: no entry is stuck, none is removed twice.
RemovalOwned ==
    /\ \A t \in Threads, g \in Gens :
         Owns(t, g) => /\ Found(g) /\ key[t] = keyOf[g] /\ state[g] \in Terminal
                       /\ \A u \in Threads : Owns(u, g) => u = t
    /\ \A g \in Gens : state[g] \in Terminal /\ Found(g) => \E t \in Threads : Owns(t, g)

\* pending_requests counts the live registrations, give or take the threads that have
\* raised it for an entry not yet visible or not yet lowered it for one just settled.
\* In particular it never goes below zero (an AtomicU64 would wrap).
GaugeExact ==
    pending = Cardinality({g \in Gens : state[g] \in Live})
              + Cardinality({t \in Threads : pc[t] \in {"insert", "refused", "dec"}})

\* No other request of the peer was given g's key.
KeptItsKey(g) == \A h \in Gens \ {g} : h < nextGen => keyOf[h] # keyOf[g]

\* No live request outlives its session, unless its id was reused: once close_session_pending has returned, a
\* request of that session is live only while the thread registering it has not yet
\* re-checked the runtime.
NoneOutlivesSession ==
    \A g \in Gens :
        /\ state[g] \in Live
        /\ KeptItsKey(g)
        /\ keyOf[g].session \in opened \ sessions
        /\ \A t \in Threads : sess[t] # keyOf[g].session
        => \E t \in Threads : tok[t] = g /\ pc[t] \in {"index", "recheck", "undo"}

\* A caller waiting for a response is never forgotten: its sender is in the waiters
\* map, and if its request is settled some thread is on the way to that sender.
WaiterNeverLost ==
    \A g \in Gens : rx[g] = "open" =>
        /\ waiters[keyOf[g]] = g
        /\ \/ state[g] \in Live
           \/ \E t \in Threads :
                /\ key[t] = keyOf[g]
                /\ pc[t] \in {"verify", "dec", "rmEntry", "rmIndex", "rmWaiter", "deliver"}

\* What the peer was sent and what the registry says agree: an answer is written only
\* for a request that was claimed in time, never for one given up, and an inbound
\* request counts as Responded only if its answer was written.
AnswerMatchesOutcome ==
    \A g \in Gens :
        /\ g \in written => state[g] \notin {"Unborn", "Pending", "TimedOut", "Dropped"}
        /\ keyOf[g].dir = "Inbound" /\ state[g] = "Responded" => g \in written

\* Every request ends, and its entry leaves the map.
EveryRequestEnds ==
    \A g \in Gens : state[g] \in Live ~> (state[g] \in Terminal /\ ~ Found(g))

\* The registry keeps the promises of RequestLifecycle.
Lifecycle == INSTANCE RequestLifecycle WITH
    phase <- state,
    delivered <- {g \in Gens : rx[g] = "response"}

ImplementsLifecycle == Lifecycle!Spec

=============================================================================
