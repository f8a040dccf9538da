------------------------ MODULE ClientTransportProofs ------------------------
(***************************************************************************)
(* Theorems about ClientTransport, for any number of connections, messages *)
(* and queue slots, whatever futures the application drops.                *)
(*                                                                         *)
(* ClientInv is the inductive invariant about the slot.  A task of an old  *)
(* generation leaves a new connection alone because the slot, when it is   *)
(* filled, holds the newest generation (SlotIsNewest), because a consumer  *)
(* that has retired its generation never finds it in the slot again        *)
(* (RetiredIsGone), and because an installed connection that is not        *)
(* Connected is on its way to the closer that moved it, or was left by a   *)
(* dropped one (SlotIsKnown).                                              *)
(*                                                                         *)
(* EventInv is the one about the events on their way to the application:   *)
(* the stream, the forwarder's hand and the application's queue are in     *)
(* order (InOrder), everything in them is newer than what the application  *)
(* has seen (SeenBehind) and older than what the consumer of its           *)
(* generation has yet to take from the pipe (ConsumerAhead).               *)
(***************************************************************************)
EXTENDS ClientTransport, TLAPS

\* A call of connect has a generation to install, or has installed one; a closer that
\* works has a generation to close.
CallsShape ==
    /\ connect = "building" => slot = None /\ epoch < MaxGen
    /\ connect \in {"announce", "policy", "stream", "handle"} => epoch \in Gens
    /\ connect # "idle" => phase = "Active"
    /\ cpc["teardown"] # "idle" => phase # "Active"
    /\ connect = "announce" => consumer[epoch] = "none"
    /\ \A c \in Closers :
          cpc[c] \in {"taking", "mark"} => cgen[c] \in Gens /\ cgen[c] <= epoch
    /\ cpc["disconnect"] = "begin" => cgen["disconnect"] \in Gens

\* The installed connection is the newest, and nothing is known of later ones.
SlotIsNewest ==
    /\ slot # None => slot = epoch
    /\ \A g \in Gens : g > epoch => consumer[g] = "none" /\ st[g] = "none" /\ reg[g] = "none"

\* A consumer that retires its generation for its close event finds the adapter down; one
\* that has retired it will not find it in the slot again.
RetiredIsGone ==
    \A g \in Gens :
        /\ consumer[g] = "retire" => conn[g] = "down"
        /\ consumer[g] \in {"mark", "lastForward", "teardown", "teardownMark", "drain"} => slot # g
        /\ consumer[g] = "drain" => st[g] = "none"

\* A closer that has taken the slot will not find its generation there again.
TakenIsGone == \A c \in Closers : cpc[c] = "mark" => slot # cgen[c]

\* Closer c is about to take g out of the slot.
Takes(c, g) == cpc[c] = "taking" /\ cgen[c] = g

\* An installed connection is Connected, or on its way to the closer that moved it, unless
\* that closer was dropped before it had the slot.
SlotIsKnown ==
    slot # None =>
        \/ st[slot] = "Connected" /\ \A c \in Closers : ~ Takes(c, slot)
        \/ /\ st[slot] = "Closing"
           /\ (\E c \in Closers : Takes(c, slot)) \/ <<"take", slot>> \in dropped

\* disconnect has forgotten g and is about to close it.
Begins(g) == cpc["disconnect"] = "begin" /\ cgen["disconnect"] = g

\* Once connect has told the client, it knows the installed connection, unless that is being
\* closed or the call that had to do with it was dropped.
ClientKnowsSlot ==
    slot # None /\ connect \in {"idle", "stream", "handle"} =>
        current = slot \/ Begins(slot) \/ (\E c \in Closers : Takes(c, slot)) \/ Abandoned(slot)

\* The forwarding task is started once, by the connect that claimed it.
HandleShape ==
    /\ handles \in {"none", "claimed"} => forwarding = "none"
    /\ connect = "stream" => handles = "claimed"

\* What has been taken out of the pipe of g.
Taken(g) == sent[g] - Len(pipe[g])

\* The pipe holds the last messages the peer has sent.
PipeShape ==
    \A g \in Gens :
        /\ Len(pipe[g]) <= sent[g]
        /\ \A i \in DOMAIN pipe[g] :
              /\ pipe[g][i].gen = g /\ pipe[g][i].kind \in Kinds
              /\ pipe[g][i].n = Taken(g) + i

\* A consumer has in hand the message it took last, or the close of its connection.
InHand ==
    \A g \in Gens :
        /\ consumer[g] = "forward" =>
              ev[g] \in Events /\ ev[g].gen = g /\ ev[g].n = Taken(g) /\ ev[g].n > 0
        /\ consumer[g] \in {"retire", "mark", "lastForward"} => ev[g] = Closed(g)

\* The inductive invariant.
ClientInv ==
    /\ TypeOK
    /\ CallsShape
    /\ PipeShape
    /\ InHand
    /\ SlotIsNewest
    /\ RetiredIsGone
    /\ TakenIsGone
    /\ SlotIsKnown
    /\ ClientKnowsSlot
    /\ HandleShape
    /\ NothingLeftBehind

-----------------------------------------------------------------------------
(* The order of events.                                                    *)

\* Of two events of one connection, e comes first.
Before(e, f) == e.gen = f.gen => e.n < f.n

Ordered(q) == \A i, j \in DOMAIN q : i < j => Before(q[i], q[j])

\* The events on their way to the application.
Travelling(e) ==
    \/ \E i \in DOMAIN stream : stream[i] = e
    \/ hand # NoEvent /\ hand = e
    \/ \E i \in DOMAIN queue : queue[i] = e

\* What travels is in order, along stream, hand and queue.
InOrder ==
    /\ Ordered(stream) /\ Ordered(queue)
    /\ hand # NoEvent => /\ \A i \in DOMAIN stream : Before(stream[i], hand)
                         /\ \A j \in DOMAIN queue : Before(hand, queue[j])
    /\ \A i \in DOMAIN stream, j \in DOMAIN queue : Before(stream[i], queue[j])

\* What a consumer has in hand comes after everything that travels and everything the
\* application has seen, and so will what it takes next.
ConsumerAhead ==
    \A g \in Gens :
        /\ consumer[g] = "polling" => seen[g] <= Taken(g)
        /\ consumer[g] = "forward" => seen[g] < Taken(g)
        /\ consumer[g] \in {"retire", "mark", "lastForward"} => seen[g] <= MaxMsgs
        /\ \A e \in Events : Travelling(e) /\ e.gen = g =>
              /\ consumer[g] # "none"
              /\ consumer[g] = "polling" => e.n <= Taken(g)
              /\ consumer[g] = "forward" => e.n < Taken(g)
              /\ consumer[g] \in {"retire", "mark", "lastForward"} => e.n <= MaxMsgs

\* The application has seen less than what travels, and of a connection it has seen
\* nothing of, ConnectionEstablished travels as long as anything can.
SeenBehind ==
    /\ \A g \in Gens : consumer[g] = "none" => seen[g] = -1
    /\ \A e \in Events : Travelling(e) =>
          /\ seen[e.gen] < e.n
          /\ listening /\ seen[e.gen] = -1 => Travelling(Connected(e.gen))
    /\ \A g \in Gens :
          consumer[g] # "none" /\ seen[g] = -1 /\ listening /\ receiver # "gone" =>
              Travelling(Connected(g))

\* The forwarding task owns the receiver while it runs; a receiver that is gone is gone
\* for good.
ReceiverShape ==
    /\ receiver = "gone" => forwarding = "ended" \/ ~ Strong
    /\ receiver = "transport" => forwarding = "none"
    /\ forwarding # "running" => hand = NoEvent
    /\ forwarding = "none" => stream = <<>>
    /\ receiver = "gone" => queue = <<>>

\* The inductive invariant about events, on top of ClientInv.
EventInv == InOrder /\ ConsumerAhead /\ SeenBehind /\ ReceiverShape

-----------------------------------------------------------------------------
(* Types, in the groups of variables the actions change or leave alone.    *)

TransportType ==
    /\ slot \in Gens \cup {None} /\ epoch \in 0 .. MaxGen
    /\ st \in [Gens -> {"none", "Connected", "Closing"}]
    /\ reg \in [Gens -> {"none", "open", "closed"}]
QueueType ==
    /\ queue \in Seq(Events) /\ Len(queue) <= Capacity
    /\ receiver \in {"transport", "task", "gone"}
ConnType ==
    /\ conn \in [Gens -> {"none", "up", "stopping", "down"}]
    /\ pipe \in [Gens -> Seq(Events)]
    /\ sent \in [Gens -> 0 .. MaxMsgs]
ConsumerType ==
    /\ consumer \in [Gens -> {"none", "polling", "forward", "retire", "mark", "lastForward",
                              "teardown", "teardownMark", "drain", "ended"}]
    /\ ev \in [Gens -> Events \cup {NoEvent}]
ClientType ==
    /\ phase \in {"Active", "ShuttingDown", "Stopped", "Dropped"}
    /\ current \in Gens \cup {None}
    /\ connect \in {"idle", "building", "announce", "policy", "stream", "handle"}
CloseType ==
    /\ cpc \in [Closers -> {"idle", "begin", "taking", "mark", "join"}]
    /\ cgen \in [Closers -> Gens \cup {None}]
    /\ dropped \in SUBSET ({"learn", "forward", "take"} \X Gens)
TaskType ==
    /\ handles \in {"none", "claimed", "abort", "both", "taken"}
    /\ forwarding \in {"none", "running", "ended"}
    /\ hand \in Events \cup {NoEvent}
    /\ scanner \in BOOLEAN
AppType ==
    /\ stream \in Seq(Events) /\ Len(stream) <= Capacity
    /\ listening \in BOOLEAN
    /\ seen \in [Gens -> -1 .. MaxMsgs + 1]
RespondType ==
    /\ held \in SUBSET Events /\ claimed \in SUBSET Events
    /\ written \in SUBSET (Events \X Gens)

Types ==
    /\ TransportType /\ QueueType /\ ConnType /\ ConsumerType /\ ClientType
    /\ CloseType /\ TaskType /\ AppType /\ RespondType

\* The parts of the type invariant make it up.
LEMMA TypesAreTypeOK == Types <=> TypeOK
BY DEF Types, TypeOK, TransportType, QueueType, ConnType, ConsumerType, ClientType,
       CloseType, TaskType, AppType, RespondType

\* A group whose variables do not change keeps its type.
LEMMA TypesStay ==
    /\ UNCHANGED transportVars /\ TransportType => TransportType'
    /\ UNCHANGED queueVars /\ QueueType => QueueType'
    /\ UNCHANGED connVars /\ ConnType => ConnType'
    /\ UNCHANGED consumerVars /\ ConsumerType => ConsumerType'
    /\ UNCHANGED clientVars /\ ClientType => ClientType'
    /\ UNCHANGED closeVars /\ CloseType => CloseType'
    /\ UNCHANGED taskVars /\ TaskType => TaskType'
    /\ UNCHANGED appVars /\ AppType => AppType'
    /\ UNCHANGED respondVars /\ RespondType => RespondType'
<1>1. UNCHANGED transportVars /\ TransportType => TransportType'
  BY DEF transportVars, TransportType
<1>2. UNCHANGED queueVars /\ QueueType => QueueType'
  BY DEF queueVars, QueueType
<1>3. UNCHANGED connVars /\ ConnType => ConnType'
  BY DEF connVars, ConnType
<1>4. UNCHANGED consumerVars /\ ConsumerType => ConsumerType'
  BY DEF consumerVars, ConsumerType
<1>5. UNCHANGED clientVars /\ ClientType => ClientType'
  BY DEF clientVars, ClientType
<1>6. UNCHANGED closeVars /\ CloseType => CloseType'
  BY DEF closeVars, CloseType
<1>7. UNCHANGED taskVars /\ TaskType => TaskType'
  BY DEF taskVars, TaskType
<1>8. UNCHANGED appVars /\ AppType => AppType'
  BY DEF appVars, AppType
<1>9. UNCHANGED respondVars /\ RespondType => RespondType'
  BY DEF respondVars, RespondType
<1> QED BY <1>1, <1>2, <1>3, <1>4, <1>5, <1>6, <1>7, <1>8, <1>9

\* The steps of Next that change neither the slot and its generations nor the calls.
AppSteps ==
    \/ \E g \in Gens : \E k \in Kinds : PeerSends(g, k)
    \/ ForwardingTakes \/ ForwardingSends \/ ForwardingEnds \/ AppTakes \/ AppLeaves
    \/ Respond

\* The steps of the tasks of a generation.
GenSteps(g) == ConnEnds(g) \/ Consumer(g)

\* The steps of connect, and of what closes a connection.
CallSteps ==
    \/ Connect \/ ConnectFails \/ Install \/ Announce
    \/ LearnSession \/ StartForwarding \/ ConnectReturns \/ CancelConnect
    \/ Disconnect \/ DisconnectBegins \/ CancelDisconnect
    \/ \E c \in Closers : Closing(c)
    \/ Shutdown \/ TeardownBegins \/ TeardownEnds \/ DropClient \/ FreeTransport

\* Next, sorted: the proofs below go through it in this order.
LEMMA NextSorted ==
    Next <=> AppSteps \/ CallSteps \/ \E g \in Gens : GenSteps(g)
BY DEF Next, AppSteps, CallSteps, GenSteps

\* The events the model puts together are events.
LEMMA EventTypes ==
    ASSUME NEW g \in Gens
    PROVE  /\ Connected(g) \in Events /\ Closed(g) \in Events
           /\ \A k \in Kinds, n \in 1 .. MaxMsgs : Message(g, k, n) \in Events
BY ClientAssumption DEF Connected, Closed, Message, Events, Gens

\* A send into client_events leaves a queue of events within its capacity.
LEMMA SendTypes ==
    ASSUME QueueType, NEW e \in Events, SendEvent(e)
    PROVE  QueueType'
BY ClientAssumption DEF SendEvent, QueueType

\* Aborting the tasks leaves their types.
LEMMA AbortTypes ==
    ASSUME QueueType, TaskType, NEW by, AbortTasks(by)
    PROVE  QueueType' /\ TaskType'
<1>1. CASE handles \in by /\ forwarding = "running"
  <2>1. queue' = <<>> /\ receiver' = "gone" /\ forwarding' = "ended" /\ hand' = NoEvent
    BY <1>1 DEF AbortTasks
  <2>2. QueueType'
    BY <2>1, ClientAssumption DEF QueueType
  <2>3. TaskType'
    BY <2>1 DEF AbortTasks, TaskType
  <2> QED BY <2>2, <2>3
<1>2. CASE ~ (handles \in by /\ forwarding = "running")
  BY <1>2 DEF AbortTasks, QueueType, TaskType
<1> QED BY <1>1, <1>2

\* The peer, the forwarding task and the application keep the types.
LEMMA TypeApp == Types /\ AppSteps => Types'
<1> SUFFICES ASSUME Types, AppSteps PROVE Types'
  OBVIOUS
<1>a. TransportType /\ QueueType /\ ConnType /\ ConsumerType /\ ClientType
      /\ CloseType /\ TaskType /\ AppType /\ RespondType
  BY DEF Types
<1> USE ClientAssumption
<1>1. ASSUME NEW g \in Gens, NEW k \in Kinds, PeerSends(g, k) PROVE Types'
  <2>1. sent[g] + 1 \in 1 .. MaxMsgs
    BY <1>1, <1>a DEF PeerSends, ConnType
  <2>2. Message(g, k, sent[g] + 1) \in Events
    BY <2>1, EventTypes
  <2>3. ConnType'
    BY <1>a, <1>1, <2>1, <2>2 DEF PeerSends, connVars, ConnType
  <2>4. UNCHANGED <<transportVars, queueVars, consumerVars, clientVars, closeVars,
                    taskVars, appVars, respondVars>>
    BY <1>1 DEF PeerSends
  <2> QED BY <1>a, <2>3, <2>4, TypesStay DEF Types
<1>2. CASE ForwardingTakes
  <2>1. QueueType'
    BY <1>a, <1>2 DEF ForwardingTakes, QueueType
  <2>2. TaskType'
    <3>1. hand' \in Events \cup {NoEvent}
      BY <1>a, <1>2 DEF ForwardingTakes, QueueType
    <3> QED BY <1>a, <1>2, <3>1 DEF ForwardingTakes, TaskType
  <2>3. UNCHANGED <<transportVars, connVars, consumerVars, clientVars, closeVars, appVars,
                    respondVars>>
    BY <1>2 DEF ForwardingTakes
  <2> QED BY <1>a, <2>1, <2>2, <2>3, TypesStay DEF Types
<1>3. CASE ForwardingSends
  <2>1. TaskType'
    BY <1>a, <1>3 DEF ForwardingSends, TaskType
  <2>2. AppType'
    <3>1. hand \in Events
      BY <1>a, <1>3 DEF ForwardingSends, TaskType
    <3>2. stream' \in Seq(Events) /\ Len(stream') <= Capacity
      BY <1>a, <1>3, <3>1 DEF ForwardingSends, AppType
    <3> QED BY <1>a, <1>3, <3>2 DEF ForwardingSends, AppType
  <2>3. UNCHANGED <<transportVars, queueVars, connVars, consumerVars, clientVars,
                    closeVars, respondVars>>
    BY <1>3 DEF ForwardingSends
  <2> QED BY <1>a, <2>1, <2>2, <2>3, TypesStay DEF Types
<1>4. CASE AppTakes
  <2>1. Head(stream) \in Events /\ Tail(stream) \in Seq(Events) /\ Len(Tail(stream)) <= Capacity
    BY <1>4, <1>a DEF AppTakes, AppType
  <2>2. Head(stream).gen \in Gens /\ Head(stream).n \in 0 .. MaxMsgs + 1
    BY <2>1 DEF Events
  <2>3. AppType'
    BY <1>a, <1>4, <2>1, <2>2 DEF AppTakes, AppType
  <2>4. RespondType'
    BY <1>a, <1>4, <2>1, <2>2 DEF AppTakes, RespondType
  <2>5. UNCHANGED <<transportVars, queueVars, connVars, consumerVars, clientVars,
                    closeVars, taskVars>>
    BY <1>4 DEF AppTakes
  <2> QED BY <1>a, <2>3, <2>4, <2>5, TypesStay DEF Types
<1>5. CASE AppLeaves
  <2>1. AppType'
    <3>1. stream' \in Seq(Events) /\ Len(stream') <= Capacity
      BY <1>5 DEF AppLeaves
    <3>2. listening' \in BOOLEAN
      BY <1>5 DEF AppLeaves
    <3> QED BY <1>a, <1>5, <3>1, <3>2 DEF AppLeaves, AppType
  <2>2. UNCHANGED <<transportVars, queueVars, connVars, consumerVars, clientVars,
                    closeVars, taskVars, respondVars>>
    BY <1>5 DEF AppLeaves
  <2> QED BY <1>a, <2>1, <2>2, TypesStay DEF Types
<1>6. ASSUME NEW r \in held, BeginRespond(r) PROVE Types'
  <2>1. RespondType'
    BY <1>a, <1>6 DEF BeginRespond, RespondType
  <2>2. UNCHANGED <<transportVars, queueVars, connVars, consumerVars, clientVars,
                    closeVars, taskVars, appVars>>
    BY <1>6 DEF BeginRespond
  <2> QED BY <1>a, <2>1, <2>2, TypesStay DEF Types
<1>7. ASSUME NEW r \in claimed, BindWriter(r) PROVE Types'
  <2>1. WriterFor(r) \in SUBSET (Events \X Gens)
    BY <1>a, <1>7 DEF WriterFor, RespondType, Events
  <2>2. RespondType'
    BY <1>a, <1>7, <2>1 DEF BindWriter, RespondType
  <2>3. UNCHANGED <<transportVars, queueVars, connVars, consumerVars, clientVars,
                    closeVars, taskVars, appVars>>
    BY <1>7 DEF BindWriter
  <2> QED BY <1>a, <2>2, <2>3, TypesStay DEF Types
<1>8. CASE ForwardingEnds
  <2>1. QueueType' /\ TaskType'
    BY <1>a, <1>8 DEF ForwardingEnds, QueueType, TaskType
  <2>2. UNCHANGED <<transportVars, connVars, consumerVars, clientVars, closeVars, appVars,
                    respondVars>>
    BY <1>8 DEF ForwardingEnds
  <2> QED BY <1>a, <2>1, <2>2, TypesStay DEF Types
<1> QED BY <1>1, <1>2, <1>3, <1>4, <1>5, <1>6, <1>7, <1>8 DEF AppSteps, Respond

\* The tasks of a generation keep the types.
LEMMA TypeGen == ASSUME Types, InHand, NEW g \in Gens, GenSteps(g) PROVE Types'
<1>a. TransportType /\ QueueType /\ ConnType /\ ConsumerType /\ ClientType
      /\ CloseType /\ TaskType /\ AppType /\ RespondType
  BY DEF Types
<1> USE ClientAssumption
<1>1. CASE ConnEnds(g)
  <2>1. ConnType'
    BY <1>a, <1>1 DEF ConnEnds, connVars, ConnType
  <2>2. UNCHANGED <<transportVars, queueVars, consumerVars, clientVars, closeVars,
                    taskVars, appVars, respondVars>>
    BY <1>1 DEF ConnEnds
  <2> QED BY <1>a, <2>1, <2>2, TypesStay DEF Types
<1>2. CASE Consume(g)
  <2> DEFINE e == IF pipe[g] = <<>> THEN Closed(g) ELSE Head(pipe[g])
  <2>1. e \in Events
    BY <1>a, EventTypes DEF ConnType
  <2> HIDE DEF e
  <2>2. ConnType'
    BY <1>2, <1>a DEF Consume, ConnType
  <2>3. TransportType' /\ ConsumerType'
    <3>1. CASE OnEvent(g, e)
      <4>1. ConsumerType'
        BY <1>a, <3>1, <2>1 DEF OnEvent, ConsumerType, consumerVars
      <4>2. TransportType'
        BY <1>a, <1>2, <3>1 DEF Consume, OnEvent, TransportType
      <4> QED BY <4>1, <4>2
    <3>2. CASE /\ UNCHANGED <<reg, ev>>
               /\ \/ consumer' = [consumer EXCEPT ![g] = "ended"]
                  \/ consumer' = [consumer EXCEPT ![g] = "teardown"]
      <4>1. ConsumerType'
        BY <1>a, <3>2 DEF ConsumerType
      <4>2. TransportType'
        BY <1>a, <1>2, <3>2 DEF Consume, TransportType
      <4> QED BY <4>1, <4>2
    <3> QED BY <1>2, <3>1, <3>2 DEF Consume, e
  <2>4. UNCHANGED <<queueVars, clientVars, closeVars, taskVars, appVars, respondVars>>
    BY <1>2 DEF Consume
  <2> QED BY <1>a, <2>2, <2>3, <2>4, TypesStay DEF Types
<1>3. CASE Forward(g)
  <2>1. ev[g] \in Events
    BY <1>3, EventTypes DEF Forward, InHand
  <2>2. QueueType'
    BY <1>a, <1>3, <2>1, SendTypes DEF Forward
  <2>3. ConsumerType'
    BY <1>a, <1>3 DEF Forward, ConsumerType
  <2>4. UNCHANGED <<transportVars, connVars, clientVars, closeVars, taskVars, appVars,
                    respondVars>>
    BY <1>3 DEF Forward
  <2> QED BY <1>a, <2>2, <2>3, <2>4, TypesStay DEF Types
<1>4. CASE Retire(g)
  <2>1. TransportType'
    BY <1>a, <1>4 DEF Retire, RetireSlot, Release, TransportType
  <2>2. ConnType'
    BY <1>a, <1>4 DEF Retire, RetireSlot, Release, ConnType
  <2>3. ConsumerType'
    BY <1>a, <1>4 DEF Retire, RetireSlot, Release, ConsumerType
  <2>4. UNCHANGED <<queueVars, clientVars, closeVars, taskVars, appVars, respondVars>>
    BY <1>4 DEF Retire
  <2> QED BY <1>a, <2>1, <2>2, <2>3, <2>4, TypesStay DEF Types
<1>5. CASE Mark(g)
  <2>1. TransportType'
    BY <1>a, <1>5 DEF Mark, Forget, TransportType
  <2>2. ConsumerType'
    BY <1>a, <1>5 DEF Mark, Forget, ConsumerType
  <2>3. UNCHANGED <<queueVars, connVars, clientVars, closeVars, taskVars, appVars, respondVars>>
    BY <1>5 DEF Mark
  <2> QED BY <1>a, <2>1, <2>2, <2>3, TypesStay DEF Types
<1>6. CASE ConsumerEnds(g)
  <2>1. TransportType'
    BY <1>a, <1>6 DEF ConsumerEnds, TransportType
  <2>2. ConsumerType'
    BY <1>a, <1>6 DEF ConsumerEnds, ConsumerType
  <2>3. UNCHANGED <<queueVars, connVars, clientVars, closeVars, taskVars, appVars, respondVars>>
    BY <1>6 DEF ConsumerEnds
  <2> QED BY <1>a, <2>1, <2>2, <2>3, TypesStay DEF Types
<1>7. CASE NothingToTearDown(g)
  <2>1. ConsumerType'
    BY <1>a, <1>7 DEF NothingToTearDown, ConsumerType
  <2>2. UNCHANGED <<transportVars, queueVars, connVars, clientVars, closeVars, taskVars,
                    appVars, respondVars>>
    BY <1>7 DEF NothingToTearDown
  <2> QED BY <1>a, <2>1, <2>2, TypesStay DEF Types
<1> QED BY <1>1, <1>2, <1>3, <1>4, <1>5, <1>6, <1>7 DEF GenSteps, Consumer

\* connect, disconnect, shutdown and drop keep the types.
LEMMA TypeCalls == Types /\ CallsShape /\ CallSteps => Types'
<1> SUFFICES ASSUME Types, CallsShape, CallSteps PROVE Types'
  OBVIOUS
<1>a. TransportType /\ QueueType /\ ConnType /\ ConsumerType /\ ClientType
      /\ CloseType /\ TaskType /\ AppType /\ RespondType
  BY DEF Types
<1> USE ClientAssumption
<1>1. CASE Connect
  <2>1. ClientType'
    BY <1>a, <1>1 DEF Connect, ClientType
  <2>2. UNCHANGED <<transportVars, queueVars, connVars, consumerVars, closeVars, taskVars,
                    appVars, respondVars>>
    BY <1>1 DEF Connect
  <2> QED BY <1>a, <2>1, <2>2, TypesStay DEF Types
<1>2. CASE ConnectFails
  <2>1. ClientType'
    BY <1>a, <1>2 DEF ConnectFails, ClientType
  <2>2. UNCHANGED <<transportVars, queueVars, connVars, consumerVars, closeVars, taskVars,
                    appVars, respondVars>>
    BY <1>2 DEF ConnectFails
  <2> QED BY <1>a, <2>1, <2>2, TypesStay DEF Types
<1>3. CASE Install
  <2>1. epoch + 1 \in Gens
    BY <1>3, <1>a DEF Install, TransportType, CallsShape, Gens
  <2>2. TransportType'
    BY <1>a, <1>3, <2>1 DEF Install, Gens, TransportType
  <2>3. ConnType'
    BY <1>a, <1>3, <2>1 DEF Install, Gens, ConnType
  <2>4. ClientType'
    BY <1>a, <1>3, <2>1 DEF Install, Gens, ClientType
  <2>5. UNCHANGED <<queueVars, consumerVars, closeVars, taskVars, appVars, respondVars>>
    BY <1>3 DEF Install
  <2> QED BY <1>a, <2>2, <2>3, <2>4, <2>5, TypesStay DEF Types
<1>4. CASE Announce
  <2>1. epoch \in Gens /\ Connected(epoch) \in Events
    BY <1>4, EventTypes DEF Announce, CallsShape
  <2>2. QueueType'
    BY <1>a, <1>4, <2>1, SendTypes DEF Announce
  <2>3. ConsumerType'
    BY <1>a, <1>4 DEF Announce, ConsumerType
  <2>4. ClientType'
    BY <1>a, <1>4 DEF Announce, ClientType
  <2>5. UNCHANGED <<transportVars, connVars, closeVars, taskVars, appVars, respondVars>>
    BY <1>4 DEF Announce
  <2> QED BY <1>a, <2>2, <2>3, <2>4, <2>5, TypesStay DEF Types
<1>5. CASE ConnectReturns
  <2>1. ClientType'
    BY <1>a, <1>5 DEF ConnectReturns, ClientType
  <2>2. TaskType'
    BY <1>a, <1>5 DEF ConnectReturns, TaskType
  <2>3. UNCHANGED <<transportVars, queueVars, connVars, consumerVars, closeVars, appVars,
                    respondVars>>
    BY <1>5 DEF ConnectReturns
  <2> QED BY <1>a, <2>1, <2>2, <2>3, TypesStay DEF Types
<1>6. CASE CancelConnect
  <2>1. ClientType'
    BY <1>a, <1>6 DEF CancelConnect, ClientType
  <2>2. CloseType'
    <3>1. Undone(connect) \X {epoch} \subseteq {"learn", "forward", "take"} \X Gens
      <4>1. CASE connect \in {"announce", "policy", "stream", "handle"}
        BY <4>1 DEF CallsShape, Undone
      <4>2. CASE connect = "building"
        BY <4>2 DEF Undone
      <4> QED BY <1>a, <1>6, <4>1, <4>2 DEF CancelConnect, ClientType
    <3> QED BY <1>a, <1>6, <3>1 DEF CancelConnect, CloseType
  <2>3. UNCHANGED <<transportVars, queueVars, connVars, consumerVars, taskVars,
                    appVars, respondVars>>
    BY <1>6 DEF CancelConnect
  <2> QED BY <1>a, <2>1, <2>2, <2>3, TypesStay DEF Types
<1>7. CASE Disconnect
  <2>1. ClientType'
    BY <1>a, <1>7 DEF Disconnect, ClientType
  <2>2. CloseType'
    BY <1>a, <1>7 DEF Disconnect, Closers, CloseType, ClientType
  <2>3. UNCHANGED <<transportVars, queueVars, connVars, consumerVars, taskVars, appVars,
                    respondVars>>
    BY <1>7 DEF Disconnect
  <2> QED BY <1>a, <2>1, <2>2, <2>3, TypesStay DEF Types
<1>8. CASE CancelDisconnect
  <2>1. CloseType'
    <3> DEFINE pc == cpc["disconnect"]
    <3>1. Undone(pc) \X {cgen["disconnect"]} \subseteq {"learn", "forward", "take"} \X Gens
      <4>1. CASE pc \in {"begin", "taking"}
        BY <4>1 DEF CallsShape, Closers, Undone
      <4>2. CASE pc \in {"mark", "join"}
        BY <4>2 DEF Undone
      <4> QED BY <1>a, <1>8, <4>1, <4>2 DEF CancelDisconnect, CloseType, Closers
    <3> QED BY <1>a, <1>8, <3>1 DEF CancelDisconnect, CloserEnds, Closers, CloseType
  <2>2. UNCHANGED <<transportVars, queueVars, connVars, consumerVars, clientVars, taskVars,
                    appVars, respondVars>>
    BY <1>8 DEF CancelDisconnect
  <2> QED BY <1>a, <2>1, <2>2, TypesStay DEF Types
<1>9. ASSUME NEW c \in Closers, TakeSlot(c) PROVE Types'
  <2>1. TransportType'
    BY <1>a, <1>9 DEF TakeSlot, RetireSlot, Release, TransportType
  <2>2. ConnType'
    BY <1>a, <1>9 DEF TakeSlot, RetireSlot, Release, ConnType
  <2>3. CloseType'
    BY <1>a, <1>9 DEF TakeSlot, RetireSlot, Release, CloseType
  <2>4. UNCHANGED <<queueVars, consumerVars, clientVars, taskVars, appVars, respondVars>>
    BY <1>9 DEF TakeSlot
  <2> QED BY <1>a, <2>1, <2>2, <2>3, <2>4, TypesStay DEF Types
<1>10. CASE DisconnectBegins
  <2>1. TransportType'
    BY <1>a, <1>10 DEF DisconnectBegins, StartClosing, TransportType
  <2>2. CloseType'
    BY <1>a, <1>10 DEF DisconnectBegins, StartClosing, CloserEnds, Closers, CloseType,
          CallsShape
  <2>3. UNCHANGED <<queueVars, connVars, consumerVars, clientVars, taskVars, appVars,
                    respondVars>>
    BY <1>10 DEF DisconnectBegins
  <2> QED BY <1>a, <2>1, <2>2, <2>3, TypesStay DEF Types
<1>11. ASSUME NEW c \in Closers, MarkClosed(c) PROVE Types'
  <2>1. TransportType'
    BY <1>a, <1>11 DEF MarkClosed, Forget, CloserEnds, TransportType
  <2>2. CloseType'
    BY <1>a, <1>11 DEF MarkClosed, Forget, CloserEnds, CloseType
  <2>3. UNCHANGED <<queueVars, connVars, consumerVars, clientVars, taskVars, appVars,
                    respondVars>>
    BY <1>11 DEF MarkClosed
  <2> QED BY <1>a, <2>1, <2>2, <2>3, TypesStay DEF Types
<1>12. CASE Shutdown
  <2>1. ClientType'
    BY <1>a, <1>12 DEF Shutdown, Closers, ClientType
  <2>2. CloseType'
    BY <1>a, <1>12 DEF Shutdown, Closers, CloseType
  <2>3. UNCHANGED <<transportVars, queueVars, connVars, consumerVars, taskVars, appVars,
                    respondVars>>
    BY <1>12 DEF Shutdown
  <2> QED BY <1>a, <2>1, <2>2, <2>3, TypesStay DEF Types
<1>13. CASE TeardownBegins
  <2>1. TransportType'
    BY <1>a, <1>13 DEF TeardownBegins, StartClosing, CloserEnds, Closers, TransportType
  <2>2. CloseType'
    BY <1>a, <1>13 DEF TeardownBegins, StartClosing, CloserEnds, Closers, CloseType,
           TransportType
  <2>3. UNCHANGED <<queueVars, connVars, consumerVars, clientVars, taskVars, appVars,
                    respondVars>>
    BY <1>13 DEF TeardownBegins
  <2> QED BY <1>a, <2>1, <2>2, <2>3, TypesStay DEF Types
<1>14. CASE TeardownEnds
  <2>1. QueueType'
    BY <1>a, <1>14, AbortTypes DEF TeardownEnds
  <2>2. ClientType'
    BY <1>a, <1>14 DEF TeardownEnds, AbortTasks, Closers, ClientType
  <2>3. CloseType'
    BY <1>a, <1>14 DEF TeardownEnds, AbortTasks, Closers, CloseType
  <2>4. TaskType'
    BY <1>a, <1>14, AbortTypes DEF TeardownEnds
  <2>5. UNCHANGED <<transportVars, connVars, consumerVars, appVars, respondVars>>
    BY <1>14 DEF TeardownEnds
  <2> QED BY <1>a, <2>1, <2>2, <2>3, <2>4, <2>5, TypesStay DEF Types
<1>15. CASE DropClient
  <2>1. QueueType'
    BY <1>a, <1>15, AbortTypes DEF DropClient
  <2>2. ClientType'
    BY <1>a, <1>15 DEF DropClient, AbortTasks, ClientType
  <2>3. TaskType'
    BY <1>a, <1>15, AbortTypes DEF DropClient
  <2>4. UNCHANGED <<transportVars, connVars, consumerVars, closeVars, appVars, respondVars>>
    BY <1>15 DEF DropClient
  <2> QED BY <1>a, <2>1, <2>2, <2>3, <2>4, TypesStay DEF Types
<1>16. CASE FreeTransport
  <2>1. TransportType'
    BY <1>a, <1>16 DEF FreeTransport, Release, TransportType
  <2>2. QueueType'
    BY <1>a, <1>16 DEF FreeTransport, Release, QueueType
  <2>3. ConnType'
    BY <1>a, <1>16 DEF FreeTransport, Release, ConnType
  <2>4. UNCHANGED <<consumerVars, clientVars, closeVars, taskVars, appVars, respondVars>>
    BY <1>16 DEF FreeTransport
  <2> QED BY <1>a, <2>1, <2>2, <2>3, <2>4, TypesStay DEF Types
<1>17. CASE LearnSession
  <2>1. ClientType'
    BY <1>a, <1>17 DEF LearnSession, ClientType, CallsShape
  <2>2. TaskType'
    BY <1>a, <1>17 DEF LearnSession, TaskType
  <2>3. UNCHANGED <<transportVars, queueVars, connVars, consumerVars, closeVars, appVars,
                    respondVars>>
    BY <1>17 DEF LearnSession
  <2> QED BY <1>a, <2>1, <2>2, <2>3, TypesStay DEF Types
<1>18. CASE StartForwarding
  <2>1. ClientType'
    BY <1>a, <1>18 DEF StartForwarding, ClientType
  <2>2. QueueType' /\ TaskType'
    BY <1>a, <1>18 DEF StartForwarding, QueueType, TaskType
  <2>3. UNCHANGED <<transportVars, connVars, consumerVars, closeVars, appVars, respondVars>>
    BY <1>18 DEF StartForwarding
  <2> QED BY <1>a, <2>1, <2>2, <2>3, TypesStay DEF Types
<1> QED BY <1>1, <1>2, <1>3, <1>4, <1>5, <1>6, <1>7, <1>8, <1>9, <1>10, <1>11, <1>12,
           <1>13, <1>14, <1>15, <1>16, <1>17, <1>18 DEF CallSteps, Closing

-----------------------------------------------------------------------------
(* The Transport, once gone, does not come back.                           *)

\* No step brings a reference to the Transport back.
LEMMA StrongShrinks ==
    ASSUME TypeOK, [Next]_vars, ~ Strong
    PROVE  ~ Strong'
<1> USE ClientAssumption DEF transportVars, queueVars, connVars, consumerVars, clientVars,
        closeVars, taskVars, appVars, respondVars
<1>a. phase = "Dropped" /\ cpc["teardown"] = "idle" /\ \A h \in Gens : ~ InHandler(h)
  BY DEF Strong
<1>b. SUFFICES phase' = "Dropped" /\ cpc'["teardown"] = "idle" /\ \A h \in Gens : ~ InHandler(h)'
  BY DEF Strong
<1>c. /\ consumer \in [Gens -> {"none", "polling", "forward", "retire", "mark", "lastForward",
                                "teardown", "teardownMark", "drain", "ended"}]
      /\ cpc \in [Closers -> {"idle", "begin", "taking", "mark", "join"}]
  BY DEF TypeOK
<1>d. CASE UNCHANGED vars
  BY <1>a, <1>d DEF vars, InHandler
<1>e. CASE AppSteps
  BY <1>a, <1>e DEF AppSteps, PeerSends, ForwardingTakes, ForwardingSends, ForwardingEnds,
        AppTakes, AppLeaves, Respond, BeginRespond, BindWriter, InHandler
<1>f. ASSUME NEW g \in Gens, GenSteps(g)
      PROVE  phase' = "Dropped" /\ cpc'["teardown"] = "idle" /\ \A h \in Gens : ~ InHandler(h)'
  <2>1. UNCHANGED <<phase, cpc>>
    BY <1>f DEF GenSteps, Consumer, ConnEnds, Consume, Forward, Retire, Mark, ConsumerEnds,
                NothingToTearDown
  <2>2. UNCHANGED consumer \/ consumer' = [consumer EXCEPT ![g] = "ended"]
    <3>1. CASE ConnEnds(g)
      BY <3>1 DEF ConnEnds
    <3>2. CASE Consume(g)
      BY <3>2 DEF Consume
    <3>3. CASE Forward(g)
      BY <1>a, <3>3 DEF Forward, InHandler
    <3>4. CASE Retire(g)
      BY <3>4 DEF Retire
    <3>5. CASE Mark(g)
      BY <1>a, <3>5 DEF Mark, InHandler
    <3>6. CASE ConsumerEnds(g)
      BY <3>6 DEF ConsumerEnds
    <3>7. CASE NothingToTearDown(g)
      BY <3>7 DEF NothingToTearDown
    <3> QED BY <1>f, <3>1, <3>2, <3>3, <3>4, <3>5, <3>6, <3>7 DEF GenSteps, Consumer
  <2>3. \A h \in Gens : consumer'[h] = consumer[h] \/ consumer'[h] = "ended"
    BY <1>c, <2>2
  <2> QED BY <1>a, <2>1, <2>3 DEF InHandler
<1>g. CASE CallSteps
  <2>1. phase' = "Dropped"
    BY <1>a, <1>g DEF CallSteps, Closing, Connect, ConnectFails, Install, Announce,
          LearnSession, StartForwarding, ConnectReturns, CancelConnect, Disconnect,
          DisconnectBegins, CancelDisconnect, TakeSlot, MarkClosed, Shutdown, TeardownBegins,
          TeardownEnds, DropClient, FreeTransport
  <2>2. UNCHANGED consumer \/ consumer' = [consumer EXCEPT ![epoch] = "polling"]
    BY <1>g DEF CallSteps, Closing, Connect, ConnectFails, Install, Announce, LearnSession,
          StartForwarding, ConnectReturns, CancelConnect, Disconnect, DisconnectBegins,
          CancelDisconnect, TakeSlot, MarkClosed, Shutdown, TeardownBegins, TeardownEnds,
          DropClient, FreeTransport
  <2>3. \A h \in Gens : consumer'[h] = consumer[h] \/ consumer'[h] = "polling"
    BY <1>c, <2>2
  <2>4. cpc'["teardown"] = "idle"
    BY <1>a, <1>c, <1>g DEF CallSteps, Closing, Connect, ConnectFails, Install, Announce,
          LearnSession, StartForwarding, ConnectReturns, CancelConnect, Disconnect,
          DisconnectBegins, CancelDisconnect, TakeSlot, MarkClosed, Shutdown, TeardownBegins,
          TeardownEnds, DropClient, FreeTransport, StartClosing, CloserEnds, Closers
  <2> QED BY <1>a, <2>1, <2>3, <2>4 DEF InHandler
<1> QED BY <1>d, <1>e, <1>f, <1>g, NextSorted

-----------------------------------------------------------------------------
(* The pipe and what a consumer has in hand.                               *)

\* PipeShape and InHand only look at what the connections and their consumers do.
LEMMA HandStays ==
    ASSUME PipeShape, InHand, UNCHANGED <<pipe, sent, ev>>,
           \A h \in Gens :
              \/ consumer'[h] = consumer[h]
              \/ consumer'[h] \in {"polling", "teardown", "ended", "teardownMark", "drain"}
    PROVE  PipeShape' /\ InHand'
BY DEF PipeShape, InHand, Taken, Closed

\* A message of g joins its pipe.
LEMMA HandPeerSends ==
    ASSUME TypeOK, PipeShape, InHand, NEW g \in Gens, NEW k \in Kinds, PeerSends(g, k)
    PROVE  PipeShape' /\ InHand'
<1> USE ClientAssumption
<1>1. /\ pipe \in [Gens -> Seq(Events)] /\ sent \in [Gens -> 0 .. MaxMsgs]
      /\ sent[g] < MaxMsgs
      /\ sent' = [sent EXCEPT ![g] = @ + 1]
      /\ pipe' = [pipe EXCEPT ![g] = Append(@, Message(g, k, sent[g] + 1))]
      /\ UNCHANGED <<consumer, ev>>
  BY DEF PeerSends, TypeOK, consumerVars
<1>2. sent[g] + 1 \in 1 .. MaxMsgs
  BY <1>1
<1>3. Message(g, k, sent[g] + 1) \in Events
  BY <1>2, EventTypes
<1>4. /\ sent'[g] = sent[g] + 1 /\ Len(pipe'[g]) = Len(pipe[g]) + 1
      /\ \A i \in DOMAIN pipe'[g] :
            pipe'[g][i] = IF i = Len(pipe[g]) + 1 THEN Message(g, k, sent[g] + 1) ELSE pipe[g][i]
      /\ DOMAIN pipe'[g] = 1 .. Len(pipe[g]) + 1 /\ DOMAIN pipe[g] = 1 .. Len(pipe[g])
      /\ Len(pipe[g]) \in Nat
  BY <1>1, <1>3
<1>5. \A h \in Gens \ {g} : sent'[h] = sent[h] /\ pipe'[h] = pipe[h]
  BY <1>1
<1>7. \A h \in Gens : Taken(h)' = Taken(h)
  <2>1. \A h \in Gens \ {g} : Taken(h)' = Taken(h)
    BY <1>5 DEF Taken
  <2>2. sent[g] \in Nat /\ Len(pipe[g]) \in Nat
    BY <1>1, <1>4
  <2>3. (sent[g] + 1) - (Len(pipe[g]) + 1) = sent[g] - Len(pipe[g])
    BY <2>2
  <2>4. Taken(g)' = Taken(g)
    BY <1>4, <2>3 DEF Taken
  <2> QED BY <2>1, <2>4
<1>6. PipeShape'
  <2> SUFFICES ASSUME NEW h \in Gens
               PROVE  /\ Len(pipe'[h]) <= sent'[h]
                      /\ \A i \in DOMAIN pipe'[h] :
                            /\ pipe'[h][i].gen = h /\ pipe'[h][i].kind \in Kinds
                            /\ pipe'[h][i].n = Taken(h)' + i
    BY DEF PipeShape
  <2>1. CASE h # g
    BY <2>1, <1>5, <1>7 DEF PipeShape
  <2>2. CASE h = g
    <3>1. Len(pipe[g]) <= sent[g] /\ sent[g] \in Nat
      BY <1>1 DEF PipeShape
    <3>2. ASSUME NEW i \in DOMAIN pipe'[g], i # Len(pipe[g]) + 1
          PROVE  /\ pipe'[g][i].gen = g /\ pipe'[g][i].kind \in Kinds
                 /\ pipe'[g][i].n = Taken(g)' + i
      <4>1. i \in DOMAIN pipe[g] /\ pipe'[g][i] = pipe[g][i]
        BY <1>4, <3>2
      <4>2. pipe[g][i].gen = g /\ pipe[g][i].kind \in Kinds /\ pipe[g][i].n = Taken(g) + i
        BY <4>1 DEF PipeShape
      <4> QED BY <4>1, <4>2, <1>7
    <3>4. Taken(g)' + (Len(pipe[g]) + 1) = sent[g] + 1
      BY <1>7, <1>4, <3>1 DEF Taken
    <3>5. Len(pipe'[g]) <= sent'[g]
      BY <1>4, <3>1
    <3>3. LET m == Message(g, k, sent[g] + 1)
          IN  m.gen = g /\ m.kind \in Kinds /\ m.n = sent[g] + 1
      BY DEF Message
    <3> QED BY <2>2, <3>2, <3>3, <3>4, <3>5, <1>4
  <2> QED BY <2>1, <2>2
<1>8. InHand'
  BY <1>1, <1>7 DEF InHand, Closed
<1> QED BY <1>6, <1>8

\* A consumer takes the oldest event of its pipe in hand, or drops it.
LEMMA HandConsume ==
    ASSUME TypeOK, PipeShape, InHand, NEW g \in Gens, Consume(g)
    PROVE  PipeShape' /\ InHand'
<1> USE ClientAssumption
<1>1. /\ pipe \in [Gens -> Seq(Events)] /\ sent \in [Gens -> 0 .. MaxMsgs]
      /\ pipe' = [pipe EXCEPT ![g] = IF @ = <<>> THEN @ ELSE Tail(@)]
      /\ UNCHANGED sent
      /\ consumer \in [Gens -> {"none", "polling", "forward", "retire", "mark", "lastForward",
                                "teardown", "teardownMark", "drain", "ended"}]
      /\ ev \in [Gens -> Events \cup {NoEvent}]
      /\ consumer[g] = "polling"
  BY DEF Consume, TypeOK
<1>2. \A h \in Gens \ {g} : pipe'[h] = pipe[h] /\ consumer'[h] = consumer[h] /\ ev'[h] = ev[h]
  BY <1>1 DEF Consume, OnEvent, consumerVars
<1>3. /\ Len(pipe[g]) \in Nat /\ sent[g] \in Nat
      /\ Len(pipe[g]) <= sent[g] /\ DOMAIN pipe[g] = 1 .. Len(pipe[g])
  BY <1>1 DEF PipeShape
<1>4. CASE pipe[g] = <<>>
  <2>1. pipe' = pipe
    BY <1>1, <1>4
  <2>2. PipeShape'
    BY <1>1, <2>1 DEF PipeShape, Taken
  <2>3. /\ consumer'[g] \in {"retire", "ended", "teardown"}
        /\ consumer'[g] = "retire" => ev'[g] = Closed(g)
    BY <1>1, <1>4 DEF Consume, OnEvent, Closed
  <2>4. InHand'
    BY <1>1, <1>2, <2>1, <2>3 DEF InHand, Taken, Closed
  <2> QED BY <2>2, <2>4
<1>5. CASE pipe[g] # <<>>
  <2>1. /\ pipe'[g] = Tail(pipe[g]) /\ Len(pipe[g]) > 0
        /\ Len(pipe'[g]) = Len(pipe[g]) - 1 /\ DOMAIN pipe'[g] = 1 .. Len(pipe[g]) - 1
        /\ \A i \in DOMAIN pipe'[g] : i + 1 \in DOMAIN pipe[g] /\ pipe'[g][i] = pipe[g][i + 1]
        /\ Head(pipe[g]) = pipe[g][1] /\ pipe[g][1] \in Events
    BY <1>1, <1>3, <1>5
  <2>2. Taken(g)' = Taken(g) + 1 /\ \A h \in Gens \ {g} : Taken(h)' = Taken(h)
    <3>1. \A h \in Gens \ {g} : Taken(h)' = Taken(h)
      BY <1>1, <1>2 DEF Taken
    <3>2. sent'[g] = sent[g] /\ Len(pipe'[g]) = Len(pipe[g]) - 1
      BY <1>1, <2>1
    <3>3. \A m, n \in Nat : m - (n - 1) = m - n + 1
      OBVIOUS
    <3> QED BY <1>3, <3>1, <3>2, <3>3 DEF Taken
  <2>3. PipeShape'
    <3>1. Taken(g) \in Int /\ Len(pipe'[g]) <= sent[g]
      BY <1>3, <2>1 DEF Taken
    <3>2. ASSUME NEW i \in DOMAIN pipe'[g]
          PROVE  /\ pipe'[g][i].gen = g /\ pipe'[g][i].kind \in Kinds
                 /\ pipe'[g][i].n = Taken(g)' + i
      <4>1. i \in Int /\ pipe'[g][i] = pipe[g][i + 1] /\ i + 1 \in DOMAIN pipe[g]
        BY <2>1, <1>3
      <4>2. /\ pipe[g][i + 1].gen = g /\ pipe[g][i + 1].kind \in Kinds
            /\ pipe[g][i + 1].n = Taken(g) + (i + 1)
        BY <4>1 DEF PipeShape
      <4>3. Taken(g) + (i + 1) = (Taken(g) + 1) + i
        BY <3>1, <4>1
      <4> QED BY <4>1, <4>2, <4>3, <2>2
    <3>3. ASSUME NEW h \in Gens \ {g}
          PROVE  /\ Len(pipe'[h]) <= sent'[h]
                 /\ \A i \in DOMAIN pipe'[h] :
                       /\ pipe'[h][i].gen = h /\ pipe'[h][i].kind \in Kinds
                       /\ pipe'[h][i].n = Taken(h)' + i
      BY <1>1, <1>2, <2>2 DEF PipeShape
    <3> QED BY <1>1, <3>1, <3>2, <3>3 DEF PipeShape
  <2>4. /\ Head(pipe[g]) \in Events /\ Head(pipe[g]).gen = g
        /\ Head(pipe[g]).kind \in Kinds /\ Head(pipe[g]).n = Taken(g) + 1
    BY <1>3, <2>1 DEF PipeShape, Taken
  <2>5. Taken(g) \in Nat
    BY <1>3 DEF Taken
  <2>6. \/ consumer'[g] \in {"ended", "teardown", "polling"}
        \/ consumer'[g] = "forward" /\ ev'[g] = Head(pipe[g])
    BY <1>1, <1>5, <2>4 DEF Consume, OnEvent, consumerVars
  <2>7. InHand'
    <3>1. \A h \in Gens \ {g} :
             /\ consumer'[h] = "forward" =>
                  ev'[h] \in Events /\ ev'[h].gen = h /\ ev'[h].n = Taken(h)' /\ ev'[h].n > 0
             /\ consumer'[h] \in {"retire", "mark", "lastForward"} => ev'[h] = Closed(h)
      BY <1>2, <2>2 DEF InHand
    <3>2. /\ consumer'[g] = "forward" =>
                  ev'[g] \in Events /\ ev'[g].gen = g /\ ev'[g].n = Taken(g)' /\ ev'[g].n > 0
          /\ consumer'[g] \in {"retire", "mark", "lastForward"} => ev'[g] = Closed(g)
      BY <2>2, <2>4, <2>5, <2>6
    <3>3. \A h \in Gens : Closed(h)' = Closed(h)
      BY DEF Closed
    <3> QED BY <3>1, <3>2, <3>3 DEF InHand
  <2> QED BY <2>3, <2>7
<1> QED BY <1>4, <1>5

\* PipeShape and InHand are kept by every step.
LEMMA HandStep ==
    ASSUME TypeOK, PipeShape, InHand, [Next]_vars
    PROVE  PipeShape' /\ InHand'
<1> USE DEF transportVars, queueVars, connVars, consumerVars, clientVars, closeVars, taskVars,
        appVars, respondVars
<1>1. consumer \in [Gens -> {"none", "polling", "forward", "retire", "mark", "lastForward",
                             "teardown", "teardownMark", "drain", "ended"}]
      /\ ev \in [Gens -> Events \cup {NoEvent}]
  BY DEF TypeOK
<1>2. CASE UNCHANGED vars
  <2>1. UNCHANGED <<pipe, sent, ev, consumer>>
    BY <1>2 DEF vars
  <2> QED BY <2>1, HandStays
<1>3. CASE AppSteps
  <2>1. CASE \E g \in Gens : \E k \in Kinds : PeerSends(g, k)
    BY <2>1, HandPeerSends
  <2>2. CASE ~ \E g \in Gens : \E k \in Kinds : PeerSends(g, k)
    <3>1. UNCHANGED <<pipe, sent, ev, consumer>>
      BY <1>3, <2>2 DEF AppSteps, ForwardingTakes, ForwardingSends, ForwardingEnds, AppTakes,
            AppLeaves, Respond, BeginRespond, BindWriter
    <3> QED BY <3>1, HandStays
  <2> QED BY <2>1, <2>2
<1>4. CASE CallSteps
  <2>1. UNCHANGED <<pipe, sent, ev>>
    BY <1>4 DEF CallSteps, Closing, Connect, ConnectFails, Install, Announce, LearnSession,
          StartForwarding, ConnectReturns, CancelConnect, Disconnect, DisconnectBegins,
          CancelDisconnect, TakeSlot, MarkClosed, Shutdown, TeardownBegins, TeardownEnds,
          DropClient, FreeTransport
  <2>2. UNCHANGED consumer \/ consumer' = [consumer EXCEPT ![epoch] = "polling"]
    BY <1>4 DEF CallSteps, Closing, Connect, ConnectFails, Install, Announce, LearnSession,
          StartForwarding, ConnectReturns, CancelConnect, Disconnect, DisconnectBegins,
          CancelDisconnect, TakeSlot, MarkClosed, Shutdown, TeardownBegins, TeardownEnds,
          DropClient, FreeTransport
  <2>3. \A h \in Gens : consumer'[h] = consumer[h] \/ consumer'[h] = "polling"
    BY <1>1, <2>2
  <2> QED BY <2>1, <2>3, HandStays
<1>5. ASSUME NEW g \in Gens, GenSteps(g) PROVE PipeShape' /\ InHand'
  <2>1. CASE ConnEnds(g) \/ ConsumerEnds(g) \/ NothingToTearDown(g)
    <3>1. /\ UNCHANGED <<pipe, sent, ev>>
          /\ UNCHANGED consumer \/ consumer' = [consumer EXCEPT ![g] = "ended"]
      BY <2>1 DEF ConnEnds, ConsumerEnds, NothingToTearDown
    <3>2. \A h \in Gens : consumer'[h] = consumer[h] \/ consumer'[h] = "ended"
      BY <1>1, <3>1
    <3> QED BY <3>1, <3>2, HandStays
  <2>2. CASE Consume(g)
    BY <2>2, HandConsume
  <2>3. CASE Forward(g)
    <3>1. /\ UNCHANGED <<pipe, sent>>
          /\ ev' = [ev EXCEPT ![g] = NoEvent]
          /\ consumer'[g] \in {"polling", "teardown"}
          /\ \A h \in Gens \ {g} : consumer'[h] = consumer[h] /\ ev'[h] = ev[h]
      BY <1>1, <2>3 DEF Forward
    <3> QED BY <3>1 DEF PipeShape, InHand, Taken, Closed
  <2>4. CASE Retire(g) \/ Mark(g)
    <3>1. /\ UNCHANGED <<pipe, sent, ev>>
          /\ \A h \in Gens \ {g} : consumer'[h] = consumer[h]
          /\ \/ consumer[g] = "retire" /\ consumer'[g] = "mark"
             \/ consumer[g] = "mark" /\ consumer'[g] = "lastForward"
             \/ consumer'[g] \in {"teardownMark", "drain"}
      BY <1>1, <2>4 DEF Retire, Mark
    <3> QED BY <3>1 DEF PipeShape, InHand, Taken, Closed
  <2> QED BY <1>5, <2>1, <2>2, <2>3, <2>4 DEF GenSteps, Consumer
<1> QED BY <1>2, <1>3, <1>4, <1>5, NextSorted

-----------------------------------------------------------------------------
(* The slot.                                                               *)

\* What ClientInv says of the slot and of the calls.
Core ==
    /\ CallsShape /\ SlotIsNewest /\ RetiredIsGone
    /\ TakenIsGone /\ SlotIsKnown /\ ClientKnowsSlot

\* The types that the proofs about the slot rest on.
SlotTypes ==
    /\ MaxGen \in Nat /\ Gens = 1 .. MaxGen /\ None = 0 /\ Closers = {"disconnect", "teardown"}
    /\ slot \in 0 .. MaxGen /\ epoch \in 0 .. MaxGen /\ current \in 0 .. MaxGen
    /\ st \in [Gens -> {"none", "Connected", "Closing"}]
    /\ reg \in [Gens -> {"none", "open", "closed"}]
    /\ conn \in [Gens -> {"none", "up", "stopping", "down"}]
    /\ consumer \in [Gens -> {"none", "polling", "forward", "retire", "mark", "lastForward",
                              "teardown", "teardownMark", "drain", "ended"}]
    /\ cpc \in [Closers -> {"idle", "begin", "taking", "mark", "join"}]
    /\ cgen \in [Closers -> 0 .. MaxGen]

\* They follow from the type invariant.
LEMMA SlotTypesHold == TypeOK => SlotTypes
<1> SUFFICES ASSUME TypeOK PROVE SlotTypes
  OBVIOUS
<1>1. Gens \cup {None} = 0 .. MaxGen
  BY ClientAssumption DEF Gens, None
<1>2. /\ slot \in 0 .. MaxGen /\ epoch \in 0 .. MaxGen /\ current \in 0 .. MaxGen
      /\ cgen \in [Closers -> 0 .. MaxGen]
  BY <1>1 DEF TypeOK
<1>3. MaxGen \in Nat /\ Gens = 1 .. MaxGen /\ None = 0 /\ Closers = {"disconnect", "teardown"}
  BY ClientAssumption DEF Gens, None, Closers
<1> QED BY <1>2, <1>3 DEF TypeOK, SlotTypes

\* Core only looks at the slot, the generations and the calls.
LEMMA CoreStays ==
    ASSUME Core, UNCHANGED <<slot, epoch, st, reg, conn, consumer, phase, current, connect,
                             cpc, cgen, dropped>>
    PROVE  Core'
BY DEF Core, CallsShape, SlotIsNewest, RetiredIsGone, TakenIsGone, SlotIsKnown,
       ClientKnowsSlot, Takes, Begins, Abandoned

\* The tasks of a generation leave the slot of a newer one alone.
LEMMA CoreGen ==
    ASSUME TypeOK, PipeShape, Core, NEW g \in Gens, GenSteps(g)
    PROVE  Core'
<1>0. SlotTypes
  BY SlotTypesHold
<1> USE DEF transportVars, queueVars, connVars, consumerVars, clientVars, closeVars, taskVars,
        appVars, respondVars, SlotTypes
<1>1. CASE ConnEnds(g)
  <2>1. CallsShape'
    BY <1>0, <1>1 DEF Core, ConnEnds, CallsShape
  <2>2. SlotIsNewest'
    BY <1>0, <1>1 DEF Core, ConnEnds, SlotIsNewest
  <2>3. RetiredIsGone'
    BY <1>0, <1>1 DEF Core, ConnEnds, RetiredIsGone
  <2>4. TakenIsGone'
    BY <1>0, <1>1 DEF Core, ConnEnds, TakenIsGone
  <2>5. SlotIsKnown'
    BY <1>0, <1>1 DEF Core, ConnEnds, SlotIsKnown, Takes
  <2>6. ClientKnowsSlot'
    BY <1>0, <1>1 DEF Core, ConnEnds, ClientKnowsSlot, Takes, Begins, Abandoned
  <2> QED BY <2>1, <2>2, <2>3, <2>4, <2>5, <2>6 DEF Core
<1>2. CASE Consume(g)
  <2>1. CallsShape'
    BY <1>0, <1>2 DEF Core, Consume, OnEvent, Closed, CallsShape
  <2>2. SlotIsNewest'
    BY <1>0, <1>2 DEF Core, Consume, OnEvent, Closed, SlotIsNewest
  <2>3. RetiredIsGone'
    <3>1. /\ UNCHANGED <<slot, epoch, st, conn>> /\ RetiredIsGone /\ SlotIsNewest
          /\ \A h \in Gens \ {g} : consumer'[h] = consumer[h]
      BY <1>0, <1>2 DEF Core, Consume, OnEvent
    <3>2. consumer'[g] \in {"ended", "teardown", "retire", "polling", "forward"}
      BY <1>0, <1>2 DEF Consume, OnEvent
    <3>3. consumer'[g] = "teardown" => slot # g
      BY <1>0, <1>2, <3>1 DEF Consume, OnEvent, SlotIsNewest
    <3>4. consumer'[g] = "retire" => conn[g] = "down"
      <4>1. PICK e : e = IF pipe[g] = <<>> THEN Closed(g) ELSE Head(pipe[g])
        OBVIOUS
      <4>2. consumer'[g] = "retire" => e.kind = "closed"
        <5>1. consumer'[g] \in {"ended", "teardown"} \/ OnEvent(g, e)
          BY <1>0, <1>2, <4>1 DEF Consume
        <5>2. consumer[g] = "polling"
          BY <1>2 DEF Consume
        <5>3. OnEvent(g, e) /\ e.kind # "closed" => consumer'[g] \in {"polling", "forward"}
          BY <1>0, <5>2 DEF OnEvent
        <5> QED BY <5>1, <5>3
      <4>3. pipe[g] # <<>> => e.kind # "closed"
        <5>1. pipe[g] \in Seq(Events)
          BY DEF TypeOK
        <5>2. pipe[g] # <<>> => Head(pipe[g]) = pipe[g][1] /\ 1 \in DOMAIN pipe[g]
          BY <5>1
        <5> QED BY <4>1, <5>2, ClientAssumption DEF PipeShape
      <4>4. pipe[g] # <<>> \/ conn[g] = "down"
        BY <1>2 DEF Consume
      <4> QED BY <4>2, <4>3, <4>4
    <3> QED BY <3>1, <3>2, <3>3, <3>4 DEF RetiredIsGone
  <2>4. TakenIsGone'
    BY <1>0, <1>2 DEF Core, Consume, OnEvent, Closed, TakenIsGone
  <2>5. SlotIsKnown'
    BY <1>0, <1>2 DEF Core, Consume, OnEvent, Closed, SlotIsKnown, Takes
  <2>6. ClientKnowsSlot'
    BY <1>0, <1>2 DEF Core, Consume, OnEvent, Closed, ClientKnowsSlot, Takes, Begins, Abandoned
  <2> QED BY <2>1, <2>2, <2>3, <2>4, <2>5, <2>6 DEF Core
<1>3. CASE Forward(g)
  <2>1. CallsShape'
    BY <1>0, <1>3 DEF Core, Forward, CallsShape
  <2>2. SlotIsNewest'
    BY <1>0, <1>3 DEF Core, Forward, SlotIsNewest
  <2>3. RetiredIsGone'
    BY <1>0, <1>3 DEF Core, Forward, RetiredIsGone
  <2>4. TakenIsGone'
    BY <1>0, <1>3 DEF Core, Forward, TakenIsGone
  <2>5. SlotIsKnown'
    BY <1>0, <1>3 DEF Core, Forward, SlotIsKnown, Takes
  <2>6. ClientKnowsSlot'
    BY <1>0, <1>3 DEF Core, Forward, ClientKnowsSlot, Takes, Begins, Abandoned
  <2> QED BY <2>1, <2>2, <2>3, <2>4, <2>5, <2>6 DEF Core
<1>4. CASE Retire(g)
  <2>1. CallsShape'
    BY <1>0, <1>4 DEF Core, Retire, RetireSlot, Release, CallsShape
  <2>2. SlotIsNewest'
    BY <1>0, <1>4 DEF Core, Retire, RetireSlot, Release, SlotIsNewest
  <2>3. RetiredIsGone'
    BY <1>0, <1>4 DEF Core, Retire, RetireSlot, Release, RetiredIsGone
  <2>4. TakenIsGone'
    BY <1>0, <1>4 DEF Core, Retire, RetireSlot, Release, TakenIsGone, CallsShape
  <2>5. SlotIsKnown'
    BY <1>0, <1>4 DEF Core, Retire, RetireSlot, Release, SlotIsKnown, Takes
  <2>6. ClientKnowsSlot'
    BY <1>0, <1>4 DEF Core, Retire, RetireSlot, Release, ClientKnowsSlot, Takes, Begins,
          Abandoned
  <2> QED BY <2>1, <2>2, <2>3, <2>4, <2>5, <2>6 DEF Core
<1>5. CASE Mark(g)
  <2>1. CallsShape'
    BY <1>0, <1>5 DEF Core, Mark, Forget, CallsShape
  <2>2. SlotIsNewest'
    BY <1>0, <1>5 DEF Core, Mark, Forget, SlotIsNewest
  <2>3. RetiredIsGone'
    BY <1>0, <1>5 DEF Core, Mark, Forget, RetiredIsGone
  <2>4. TakenIsGone'
    BY <1>0, <1>5 DEF Core, Mark, Forget, TakenIsGone
  <2>5. SlotIsKnown'
    BY <1>0, <1>5 DEF Core, Mark, Forget, SlotIsKnown, Takes, RetiredIsGone
  <2>6. ClientKnowsSlot'
    BY <1>0, <1>5 DEF Core, Mark, Forget, ClientKnowsSlot, Takes, Begins, Abandoned
  <2> QED BY <2>1, <2>2, <2>3, <2>4, <2>5, <2>6 DEF Core
<1>6. CASE ConsumerEnds(g)
  <2>1. CallsShape'
    BY <1>0, <1>6 DEF Core, ConsumerEnds, CallsShape
  <2>2. SlotIsNewest'
    BY <1>0, <1>6 DEF Core, ConsumerEnds, SlotIsNewest
  <2>3. RetiredIsGone'
    BY <1>0, <1>6 DEF Core, ConsumerEnds, RetiredIsGone
  <2>4. TakenIsGone'
    BY <1>0, <1>6 DEF Core, ConsumerEnds, TakenIsGone
  <2>5. SlotIsKnown'
    BY <1>0, <1>6 DEF Core, ConsumerEnds, SlotIsKnown, Takes
  <2>6. ClientKnowsSlot'
    BY <1>0, <1>6 DEF Core, ConsumerEnds, ClientKnowsSlot, Takes, Begins, Abandoned
  <2> QED BY <2>1, <2>2, <2>3, <2>4, <2>5, <2>6 DEF Core
<1>7. CASE NothingToTearDown(g)
  <2>1. CallsShape'
    BY <1>0, <1>7 DEF Core, NothingToTearDown, CallsShape
  <2>2. SlotIsNewest'
    BY <1>0, <1>7 DEF Core, NothingToTearDown, SlotIsNewest
  <2>3. RetiredIsGone'
    BY <1>0, <1>7 DEF Core, NothingToTearDown, RetiredIsGone
  <2>4. TakenIsGone'
    BY <1>0, <1>7 DEF Core, NothingToTearDown, TakenIsGone
  <2>5. SlotIsKnown'
    BY <1>0, <1>7 DEF Core, NothingToTearDown, SlotIsKnown, Takes
  <2>6. ClientKnowsSlot'
    BY <1>0, <1>7 DEF Core, NothingToTearDown, ClientKnowsSlot, Takes, Begins, Abandoned
  <2> QED BY <2>1, <2>2, <2>3, <2>4, <2>5, <2>6 DEF Core
<1> QED BY <1>1, <1>2, <1>3, <1>4, <1>5, <1>6, <1>7 DEF GenSteps, Consumer

\* connect, disconnect, shutdown and drop keep what is known of the slot.
LEMMA CoreCalls ==
    ASSUME TypeOK, Core, CallSteps
    PROVE  Core'
<1>0. SlotTypes
  BY SlotTypesHold
<1> USE DEF transportVars, queueVars, connVars, consumerVars, clientVars, closeVars, taskVars,
        appVars, respondVars, SlotTypes
<1>1. CASE Connect
  <2>1. CallsShape'
    BY <1>0, <1>1 DEF Core, Connect, Exclusive, CallsShape
  <2>2. SlotIsNewest'
    BY <1>0, <1>1 DEF Core, Connect, Exclusive, SlotIsNewest
  <2>3. RetiredIsGone'
    BY <1>0, <1>1 DEF Core, Connect, Exclusive, RetiredIsGone
  <2>4. TakenIsGone'
    BY <1>0, <1>1 DEF Core, Connect, Exclusive, TakenIsGone
  <2>5. SlotIsKnown'
    BY <1>0, <1>1 DEF Core, Connect, Exclusive, SlotIsKnown, Takes
  <2>6. ClientKnowsSlot'
    BY <1>0, <1>1 DEF Core, Connect, Exclusive, ClientKnowsSlot, Takes, Begins, Abandoned
  <2> QED BY <2>1, <2>2, <2>3, <2>4, <2>5, <2>6 DEF Core
<1>2. CASE ConnectFails
  <2>1. CallsShape'
    BY <1>0, <1>2 DEF Core, ConnectFails, CallsShape
  <2>2. SlotIsNewest'
    BY <1>0, <1>2 DEF Core, ConnectFails, SlotIsNewest
  <2>3. RetiredIsGone'
    BY <1>0, <1>2 DEF Core, ConnectFails, RetiredIsGone
  <2>4. TakenIsGone'
    BY <1>0, <1>2 DEF Core, ConnectFails, TakenIsGone
  <2>5. SlotIsKnown'
    BY <1>0, <1>2 DEF Core, ConnectFails, SlotIsKnown, Takes
  <2>6. ClientKnowsSlot'
    BY <1>0, <1>2 DEF Core, ConnectFails, ClientKnowsSlot, Takes, Begins, Abandoned, CallsShape
  <2> QED BY <2>1, <2>2, <2>3, <2>4, <2>5, <2>6 DEF Core
<1>3. CASE Install
  <2>1. CallsShape'
    BY <1>0, <1>3 DEF Core, Install, CallsShape, SlotIsNewest
  <2>2. SlotIsNewest'
    BY <1>0, <1>3 DEF Core, Install, SlotIsNewest
  <2>3. RetiredIsGone'
    BY <1>0, <1>3 DEF Core, Install, RetiredIsGone, SlotIsNewest
  <2>4. TakenIsGone'
    BY <1>0, <1>3 DEF Core, Install, TakenIsGone, CallsShape
  <2>5. SlotIsKnown'
    BY <1>0, <1>3 DEF Core, Install, SlotIsKnown, Takes, CallsShape
  <2>6. ClientKnowsSlot'
    BY <1>0, <1>3 DEF Core, Install, ClientKnowsSlot, Takes, Begins, Abandoned
  <2> QED BY <2>1, <2>2, <2>3, <2>4, <2>5, <2>6 DEF Core
<1>4. CASE Announce
  <2>1. CallsShape'
    BY <1>0, <1>4 DEF Core, Announce, SendEvent, CallsShape
  <2>2. SlotIsNewest'
    BY <1>0, <1>4 DEF Core, Announce, SendEvent, SlotIsNewest
  <2>3. RetiredIsGone'
    BY <1>0, <1>4 DEF Core, Announce, SendEvent, RetiredIsGone
  <2>4. TakenIsGone'
    BY <1>0, <1>4 DEF Core, Announce, SendEvent, TakenIsGone
  <2>5. SlotIsKnown'
    BY <1>0, <1>4 DEF Core, Announce, SendEvent, SlotIsKnown, Takes
  <2>6. ClientKnowsSlot'
    BY <1>0, <1>4 DEF Core, Announce, SendEvent, ClientKnowsSlot, Takes, Begins, Abandoned
  <2> QED BY <2>1, <2>2, <2>3, <2>4, <2>5, <2>6 DEF Core
<1>5. CASE ConnectReturns
  <2>1. CallsShape'
    BY <1>0, <1>5 DEF Core, ConnectReturns, CallsShape
  <2>2. SlotIsNewest'
    BY <1>0, <1>5 DEF Core, ConnectReturns, SlotIsNewest
  <2>3. RetiredIsGone'
    BY <1>0, <1>5 DEF Core, ConnectReturns, RetiredIsGone
  <2>4. TakenIsGone'
    BY <1>0, <1>5 DEF Core, ConnectReturns, TakenIsGone
  <2>5. SlotIsKnown'
    BY <1>0, <1>5 DEF Core, ConnectReturns, SlotIsKnown, Takes
  <2>6. ClientKnowsSlot'
    BY <1>0, <1>5 DEF Core, ConnectReturns, ClientKnowsSlot, Takes, Begins, Abandoned,
          SlotIsNewest
  <2> QED BY <2>1, <2>2, <2>3, <2>4, <2>5, <2>6 DEF Core
<1>6. CASE CancelConnect
  <2>1. CallsShape'
    BY <1>0, <1>6 DEF Core, CancelConnect, CallsShape
  <2>2. SlotIsNewest'
    BY <1>0, <1>6 DEF Core, CancelConnect, SlotIsNewest
  <2>3. RetiredIsGone'
    BY <1>0, <1>6 DEF Core, CancelConnect, RetiredIsGone
  <2>4. TakenIsGone'
    BY <1>0, <1>6 DEF Core, CancelConnect, TakenIsGone
  <2>5. SlotIsKnown'
    BY <1>0, <1>6 DEF Core, CancelConnect, SlotIsKnown, Takes
  <2>6. ClientKnowsSlot'
    <3>1. /\ UNCHANGED <<slot, current, cpc, cgen>> /\ connect' = "idle"
          /\ \A g : Abandoned(g) => Abandoned(g)'
      BY <1>6 DEF CancelConnect, Abandoned
    <3>2. CASE connect \in {"announce", "policy"}
      <4>1. <<"learn", epoch>> \in dropped'
        BY <1>6, <3>2 DEF CancelConnect, Undone
      <4> QED BY <3>1, <4>1 DEF Core, SlotIsNewest, ClientKnowsSlot, Abandoned
    <3>3. CASE connect \in {"stream", "handle"}
      BY <3>1, <3>3 DEF Core, ClientKnowsSlot, Takes, Begins
    <3>4. CASE connect = "building"
      BY <3>1, <3>4 DEF Core, CallsShape, ClientKnowsSlot
    <3> QED BY <1>6, <3>2, <3>3, <3>4 DEF TypeOK, CancelConnect
  <2> QED BY <2>1, <2>2, <2>3, <2>4, <2>5, <2>6 DEF Core
<1>7. CASE Disconnect
  <2>1. CallsShape'
    BY <1>0, <1>7 DEF Core, Disconnect, Exclusive, StartClosing, CloserEnds, CallsShape,
                       SlotIsNewest
  <2>2. SlotIsNewest'
    BY <1>0, <1>7 DEF Core, Disconnect, Exclusive, StartClosing, CloserEnds, SlotIsNewest
  <2>3. RetiredIsGone'
    BY <1>0, <1>7 DEF Core, Disconnect, Exclusive, StartClosing, CloserEnds, RetiredIsGone
  <2>4. TakenIsGone'
    BY <1>0, <1>7 DEF Core, Disconnect, Exclusive, StartClosing, CloserEnds, TakenIsGone
  <2>5. SlotIsKnown'
    BY <1>0, <1>7 DEF Core, Disconnect, Exclusive, StartClosing, CloserEnds, SlotIsKnown, Takes
  <2>6. ClientKnowsSlot'
    BY <1>0, <1>7 DEF Core, Disconnect, Exclusive, StartClosing, CloserEnds, ClientKnowsSlot,
                       Takes, Begins, Abandoned, SlotIsKnown
  <2> QED BY <2>1, <2>2, <2>3, <2>4, <2>5, <2>6 DEF Core
<1>8. CASE CancelDisconnect
  <2>1. CallsShape'
    BY <1>0, <1>8 DEF Core, CancelDisconnect, CloserEnds, CallsShape
  <2>2. SlotIsNewest'
    BY <1>0, <1>8 DEF Core, CancelDisconnect, CloserEnds, SlotIsNewest
  <2>3. RetiredIsGone'
    BY <1>0, <1>8 DEF Core, CancelDisconnect, CloserEnds, RetiredIsGone
  <2>4. TakenIsGone'
    BY <1>0, <1>8 DEF Core, CancelDisconnect, CloserEnds, TakenIsGone
  <2>5. SlotIsKnown'
    BY <1>0, <1>8 DEF Core, CancelDisconnect, CloserEnds, Undone, SlotIsKnown, Takes
  <2>6. ClientKnowsSlot'
    BY <1>0, <1>8 DEF Core, CancelDisconnect, CloserEnds, Undone, ClientKnowsSlot,
                       Takes, Begins, Abandoned, TakenIsGone
  <2> QED BY <2>1, <2>2, <2>3, <2>4, <2>5, <2>6 DEF Core
<1>9. ASSUME NEW c \in Closers, TakeSlot(c) PROVE Core'
  <2>1. CallsShape'
    BY <1>0, <1>9 DEF Core, TakeSlot, RetireSlot, Release, CallsShape
  <2>2. SlotIsNewest'
    BY <1>0, <1>9 DEF Core, TakeSlot, RetireSlot, Release, SlotIsNewest
  <2>3. RetiredIsGone'
    BY <1>0, <1>9 DEF Core, TakeSlot, RetireSlot, Release, RetiredIsGone
  <2>4. TakenIsGone'
    BY <1>0, <1>9 DEF Core, TakeSlot, RetireSlot, Release, TakenIsGone, CallsShape
  <2>5. SlotIsKnown'
    BY <1>0, <1>9 DEF Core, TakeSlot, RetireSlot, Release, SlotIsKnown, Takes
  <2>6. ClientKnowsSlot'
    BY <1>0, <1>9 DEF Core, TakeSlot, RetireSlot, Release, ClientKnowsSlot, Takes, Begins,
          Abandoned
  <2> QED BY <2>1, <2>2, <2>3, <2>4, <2>5, <2>6 DEF Core
<1>10. CASE DisconnectBegins
  <2>1. CallsShape'
    BY <1>0, <1>10 DEF Core, DisconnectBegins, StartClosing, CloserEnds, CallsShape,
          SlotIsNewest
  <2>2. SlotIsNewest'
    BY <1>0, <1>10 DEF Core, DisconnectBegins, StartClosing, CloserEnds, SlotIsNewest
  <2>3. RetiredIsGone'
    BY <1>0, <1>10 DEF Core, DisconnectBegins, StartClosing, CloserEnds, RetiredIsGone
  <2>4. TakenIsGone'
    BY <1>0, <1>10 DEF Core, DisconnectBegins, StartClosing, CloserEnds, TakenIsGone
  <2>5. SlotIsKnown'
    BY <1>0, <1>10 DEF Core, DisconnectBegins, StartClosing, CloserEnds, SlotIsKnown, Takes
  <2>6. ClientKnowsSlot'
    BY <1>0, <1>10 DEF Core, DisconnectBegins, StartClosing, CloserEnds, ClientKnowsSlot,
          SlotIsKnown, Takes, Begins, Abandoned
  <2> QED BY <2>1, <2>2, <2>3, <2>4, <2>5, <2>6 DEF Core
<1>11. ASSUME NEW c \in Closers, MarkClosed(c) PROVE Core'
  <2>1. CallsShape'
    BY <1>0, <1>11 DEF Core, MarkClosed, Forget, CloserEnds, CallsShape
  <2>2. SlotIsNewest'
    BY <1>0, <1>11 DEF Core, MarkClosed, Forget, CloserEnds, SlotIsNewest
  <2>3. RetiredIsGone'
    BY <1>0, <1>11 DEF Core, MarkClosed, Forget, CloserEnds, RetiredIsGone
  <2>4. TakenIsGone'
    BY <1>0, <1>11 DEF Core, MarkClosed, Forget, CloserEnds, TakenIsGone
  <2>5. SlotIsKnown'
    BY <1>0, <1>11 DEF Core, MarkClosed, Forget, CloserEnds, SlotIsKnown, Takes, TakenIsGone
  <2>6. ClientKnowsSlot'
    BY <1>0, <1>11 DEF Core, MarkClosed, Forget, CloserEnds, ClientKnowsSlot, Takes, Begins,
          Abandoned
  <2> QED BY <2>1, <2>2, <2>3, <2>4, <2>5, <2>6 DEF Core
<1>12. CASE Shutdown
  <2>1. CallsShape'
    BY <1>0, <1>12 DEF Core, Shutdown, CallsShape
  <2>2. SlotIsNewest'
    BY <1>0, <1>12 DEF Core, Shutdown, SlotIsNewest
  <2>3. RetiredIsGone'
    BY <1>0, <1>12 DEF Core, Shutdown, RetiredIsGone
  <2>4. TakenIsGone'
    BY <1>0, <1>12 DEF Core, Shutdown, TakenIsGone
  <2>5. SlotIsKnown'
    BY <1>0, <1>12 DEF Core, Shutdown, SlotIsKnown, Takes, CallsShape
  <2>6. ClientKnowsSlot'
    BY <1>0, <1>12 DEF Core, Shutdown, ClientKnowsSlot, Takes, Begins, Abandoned, CallsShape
  <2> QED BY <2>1, <2>2, <2>3, <2>4, <2>5, <2>6 DEF Core
<1>13. CASE TeardownBegins
  <2>1. CallsShape'
    BY <1>0, <1>13 DEF Core, TeardownBegins, StartClosing, CloserEnds, CallsShape,
                       SlotIsNewest
  <2>2. SlotIsNewest'
    BY <1>0, <1>13 DEF Core, TeardownBegins, StartClosing, CloserEnds, SlotIsNewest
  <2>3. RetiredIsGone'
    BY <1>0, <1>13 DEF Core, TeardownBegins, StartClosing, CloserEnds, RetiredIsGone
  <2>4. TakenIsGone'
    BY <1>0, <1>13 DEF Core, TeardownBegins, StartClosing, CloserEnds, TakenIsGone
  <2>5. SlotIsKnown'
    BY <1>0, <1>13 DEF Core, TeardownBegins, StartClosing, CloserEnds, SlotIsKnown, Takes
  <2>6. ClientKnowsSlot'
    BY <1>0, <1>13 DEF Core, TeardownBegins, StartClosing, CloserEnds, ClientKnowsSlot, Takes,
          Begins, Abandoned
  <2> QED BY <2>1, <2>2, <2>3, <2>4, <2>5, <2>6 DEF Core
<1>14. CASE TeardownEnds
  <2>1. CallsShape'
    BY <1>0, <1>14 DEF Core, TeardownEnds, CallsShape
  <2>2. SlotIsNewest'
    BY <1>0, <1>14 DEF Core, TeardownEnds, SlotIsNewest
  <2>3. RetiredIsGone'
    BY <1>0, <1>14 DEF Core, TeardownEnds, RetiredIsGone
  <2>4. TakenIsGone'
    BY <1>0, <1>14 DEF Core, TeardownEnds, TakenIsGone
  <2>5. SlotIsKnown'
    BY <1>0, <1>14 DEF Core, TeardownEnds, SlotIsKnown, Takes
  <2>6. ClientKnowsSlot'
    BY <1>0, <1>14 DEF Core, TeardownEnds, ClientKnowsSlot, Takes, Begins, Abandoned
  <2> QED BY <2>1, <2>2, <2>3, <2>4, <2>5, <2>6 DEF Core
<1>15. CASE DropClient
  <2>1. CallsShape'
    BY <1>0, <1>15 DEF Core, DropClient, Exclusive, CallsShape
  <2>2. SlotIsNewest'
    BY <1>0, <1>15 DEF Core, DropClient, Exclusive, SlotIsNewest
  <2>3. RetiredIsGone'
    BY <1>0, <1>15 DEF Core, DropClient, Exclusive, RetiredIsGone
  <2>4. TakenIsGone'
    BY <1>0, <1>15 DEF Core, DropClient, Exclusive, TakenIsGone
  <2>5. SlotIsKnown'
    BY <1>0, <1>15 DEF Core, DropClient, Exclusive, SlotIsKnown, Takes
  <2>6. ClientKnowsSlot'
    BY <1>0, <1>15 DEF Core, DropClient, Exclusive, ClientKnowsSlot, Takes, Begins, Abandoned
  <2> QED BY <2>1, <2>2, <2>3, <2>4, <2>5, <2>6 DEF Core
<1>16. CASE FreeTransport
  <2>1. CallsShape'
    BY <1>0, <1>16 DEF Core, FreeTransport, Release, CallsShape
  <2>2. SlotIsNewest'
    BY <1>0, <1>16 DEF Core, FreeTransport, Release, SlotIsNewest
  <2>3. RetiredIsGone'
    BY <1>0, <1>16 DEF Core, FreeTransport, Release, RetiredIsGone
  <2>4. TakenIsGone'
    BY <1>0, <1>16 DEF Core, FreeTransport, Release, TakenIsGone, CallsShape
  <2>5. SlotIsKnown'
    BY <1>0, <1>16 DEF Core, FreeTransport, Release, SlotIsKnown, Takes
  <2>6. ClientKnowsSlot'
    BY <1>0, <1>16 DEF Core, FreeTransport, Release, ClientKnowsSlot, Takes, Begins, Abandoned
  <2> QED BY <2>1, <2>2, <2>3, <2>4, <2>5, <2>6 DEF Core
<1>17. CASE LearnSession
  <2>1. CallsShape'
    BY <1>0, <1>17 DEF Core, LearnSession, CallsShape
  <2>2. SlotIsNewest'
    BY <1>0, <1>17 DEF Core, LearnSession, SlotIsNewest
  <2>3. RetiredIsGone'
    BY <1>0, <1>17 DEF Core, LearnSession, RetiredIsGone
  <2>4. TakenIsGone'
    BY <1>0, <1>17 DEF Core, LearnSession, TakenIsGone
  <2>5. SlotIsKnown'
    BY <1>0, <1>17 DEF Core, LearnSession, SlotIsKnown, Takes
  <2>6. ClientKnowsSlot'
    BY <1>0, <1>17 DEF Core, LearnSession, ClientKnowsSlot, Takes, Begins, Abandoned,
          SlotIsNewest
  <2> QED BY <2>1, <2>2, <2>3, <2>4, <2>5, <2>6 DEF Core
<1>18. CASE StartForwarding
  <2>1. CallsShape'
    BY <1>0, <1>18 DEF Core, StartForwarding, CallsShape
  <2>2. SlotIsNewest'
    BY <1>0, <1>18 DEF Core, StartForwarding, SlotIsNewest
  <2>3. RetiredIsGone'
    BY <1>0, <1>18 DEF Core, StartForwarding, RetiredIsGone
  <2>4. TakenIsGone'
    BY <1>0, <1>18 DEF Core, StartForwarding, TakenIsGone
  <2>5. SlotIsKnown'
    BY <1>0, <1>18 DEF Core, StartForwarding, SlotIsKnown, Takes
  <2>6. ClientKnowsSlot'
    BY <1>0, <1>18 DEF Core, StartForwarding, ClientKnowsSlot, Takes, Begins, Abandoned,
          SlotIsNewest
  <2> QED BY <2>1, <2>2, <2>3, <2>4, <2>5, <2>6 DEF Core
<1> QED BY <1>1, <1>2, <1>3, <1>4, <1>5, <1>6, <1>7, <1>8,
           <1>9, <1>10, <1>11, <1>12, <1>13, <1>14, <1>15, <1>16,
           <1>17, <1>18 DEF CallSteps, Closing

\* The forwarding task is started once, whatever is dropped or aborted.
LEMMA HandleStep ==
    ASSUME CallsShape, HandleShape, [Next]_vars
    PROVE  HandleShape'
<1> USE DEF clientVars, taskVars, HandleShape
<1>1. CASE UNCHANGED vars
  BY <1>1 DEF vars
<1>2. CASE AppSteps
  BY <1>2 DEF AppSteps, PeerSends, ForwardingTakes, ForwardingSends, ForwardingEnds, AppTakes,
              AppLeaves, Respond, BeginRespond, BindWriter
<1>3. CASE CallSteps
  <2>1. CASE LearnSession \/ StartForwarding \/ ConnectReturns \/ CancelConnect
    BY <2>1 DEF LearnSession, StartForwarding, ConnectReturns, CancelConnect
  <2>2. CASE TeardownEnds \/ DropClient
    BY <2>2 DEF TeardownEnds, DropClient, AbortTasks
  <2>3. CASE Connect \/ ConnectFails \/ Install \/ Announce
    BY <2>3 DEF Connect, ConnectFails, Install, Announce
  <2>4. CASE \/ Disconnect \/ DisconnectBegins \/ CancelDisconnect
             \/ (\E c \in Closers : Closing(c)) \/ Shutdown \/ TeardownBegins \/ FreeTransport
    BY <2>4 DEF Disconnect, DisconnectBegins, CancelDisconnect, Closing, TakeSlot, MarkClosed,
                Shutdown, TeardownBegins, FreeTransport
  <2> QED BY <1>3, <2>1, <2>2, <2>3, <2>4 DEF CallSteps
<1>4. ASSUME NEW g \in Gens, GenSteps(g) PROVE HandleShape'
  BY <1>4 DEF GenSteps, Consumer, ConnEnds, Consume, Forward, Retire, Mark, ConsumerEnds,
              NothingToTearDown
<1> QED BY <1>1, <1>2, <1>3, <1>4, NextSorted

-----------------------------------------------------------------------------
(* What a finished consumer leaves.                                        *)

\* A finished consumer left nothing behind, and nothing of its generation comes back.
LEMMA LeftBehindStep ==
    ASSUME TypeOK, Core, NothingLeftBehind, [Next]_vars
    PROVE  NothingLeftBehind'
<1>0. SlotTypes
  BY SlotTypesHold
<1> USE DEF transportVars, queueVars, connVars, consumerVars, clientVars, closeVars, taskVars,
        appVars, respondVars, SlotTypes
<1> SUFFICES ASSUME Strong', NEW h \in Gens, consumer'[h] = "ended"
             PROVE  slot' # h /\ st'[h] = "none" /\ reg'[h] = "closed"
  BY DEF NothingLeftBehind
<1>a. Strong
  BY StrongShrinks
<1>b. consumer[h] = "ended" => slot # h /\ st[h] = "none" /\ reg[h] = "closed" /\ h <= epoch
  BY <1>0, <1>a DEF NothingLeftBehind, Core, SlotIsNewest
<1>1. CASE UNCHANGED vars
  BY <1>1, <1>b DEF vars
<1>2. CASE AppSteps
  BY <1>2, <1>b DEF AppSteps, PeerSends, ForwardingTakes, ForwardingSends, ForwardingEnds,
        AppTakes, AppLeaves, Respond, BeginRespond, BindWriter
<1>3. CASE CallSteps
  <2>1. consumer[h] = "ended"
    <3>1. UNCHANGED consumer \/ consumer' = [consumer EXCEPT ![epoch] = "polling"]
      BY <1>3 DEF CallSteps, Closing, Connect, ConnectFails, Install, Announce, LearnSession,
            StartForwarding, ConnectReturns, CancelConnect, Disconnect, DisconnectBegins,
            CancelDisconnect, TakeSlot, MarkClosed, Shutdown, TeardownBegins, TeardownEnds,
            DropClient, FreeTransport
    <3> QED BY <1>0, <3>1
  <2>2. slot' \in {slot, None, epoch + 1}
    BY <1>3 DEF CallSteps, Closing, Connect, ConnectFails, Install, Announce, LearnSession,
          StartForwarding, ConnectReturns, CancelConnect, Disconnect, DisconnectBegins,
          CancelDisconnect, TakeSlot, MarkClosed, Shutdown, TeardownBegins, TeardownEnds,
          DropClient, FreeTransport, RetireSlot, Release
  <2>3. st'[h] = "none"
    BY <1>0, <1>b, <2>1, <1>3 DEF CallSteps, Closing, Connect, ConnectFails, Install,
          Announce, LearnSession, StartForwarding, ConnectReturns, CancelConnect, Disconnect,
          DisconnectBegins, CancelDisconnect, TakeSlot, MarkClosed, Shutdown, TeardownBegins,
          TeardownEnds, DropClient, FreeTransport, StartClosing, Forget
  <2>4. reg'[h] = "closed"
    BY <1>0, <1>b, <2>1, <1>3 DEF CallSteps, Closing, Connect, ConnectFails, Install,
          Announce, LearnSession, StartForwarding, ConnectReturns, CancelConnect, Disconnect,
          DisconnectBegins, CancelDisconnect, TakeSlot, MarkClosed, Shutdown, TeardownBegins,
          TeardownEnds, DropClient, FreeTransport, StartClosing
  <2> QED BY <1>0, <1>b, <2>1, <2>2, <2>3, <2>4
<1>4. ASSUME NEW g \in Gens, GenSteps(g)
      PROVE  slot' # h /\ st'[h] = "none" /\ reg'[h] = "closed"
  <2>1. CASE ConnEnds(g)
    BY <1>b, <2>1 DEF ConnEnds
  <2>2. CASE Consume(g)
    <3>1. g # h /\ consumer[h] = "ended"
      BY <1>0, <1>a, <2>2 DEF Consume, OnEvent
    <3>2. slot' = slot /\ st' = st /\ (reg' = reg \/ reg' = [reg EXCEPT ![g] = "closed"])
      BY <2>2 DEF Consume, OnEvent
    <3> QED BY <1>0, <1>b, <3>1, <3>2
  <2>3. CASE Forward(g)
    <3>1. consumer[h] = "ended"
      BY <1>0, <2>3 DEF Forward
    <3> QED BY <1>b, <2>3, <3>1 DEF Forward
  <2>4. CASE Retire(g)
    <3>1. consumer[h] = "ended"
      BY <1>0, <2>4 DEF Retire
    <3> QED BY <1>0, <1>b, <2>4, <3>1 DEF Retire, RetireSlot, Release
  <2>5. CASE Mark(g)
    <3>1. consumer[h] = "ended"
      BY <1>0, <2>5 DEF Mark
    <3> QED BY <1>0, <1>b, <2>5, <3>1 DEF Mark, Forget
  <2>6. CASE ConsumerEnds(g)
    <3>1. CASE g = h
      BY <1>0, <2>6, <3>1 DEF ConsumerEnds, Core, RetiredIsGone
    <3>2. CASE g # h
      BY <1>0, <1>b, <2>6, <3>2 DEF ConsumerEnds
    <3> QED BY <3>1, <3>2
  <2>7. CASE NothingToTearDown(g)
    BY <1>a, <2>7 DEF NothingToTearDown
  <2> QED BY <1>4, <2>1, <2>2, <2>3, <2>4, <2>5, <2>6, <2>7 DEF GenSteps, Consumer
<1> QED BY <1>1, <1>2, <1>3, <1>4, NextSorted

-----------------------------------------------------------------------------
(* The theorems about the slot.                                            *)

\* The inductive invariant, by its parts.
LEMMA ClientInvIs ==
    ClientInv <=> TypeOK /\ PipeShape /\ InHand /\ Core /\ HandleShape /\ NothingLeftBehind
BY DEF ClientInv, Core

\* A client starts with an empty slot, which satisfies the invariant.
LEMMA ClientInit == Init => ClientInv
<1> SUFFICES ASSUME Init PROVE ClientInv
  OBVIOUS
<1> USE ClientAssumption
<1>1. Types
  <2>1. TransportType /\ QueueType
    BY DEF Init, TransportType, QueueType, None
  <2>2. ConnType
    BY DEF Init, ConnType
  <2>3. ConsumerType
    BY DEF Init, ConsumerType
  <2>4. ClientType /\ CloseType
    BY DEF Init, ClientType, CloseType, None
  <2>5. TaskType
    BY DEF Init, TaskType
  <2>6. AppType
    BY DEF Init, AppType
  <2>7. RespondType
    BY DEF Init, RespondType
  <2> QED BY <2>1, <2>2, <2>3, <2>4, <2>5, <2>6, <2>7 DEF Types
<1>2. PipeShape
  <2>1. \A g \in Gens : pipe[g] = <<>> /\ sent[g] = 0
    BY DEF Init
  <2> QED BY <2>1 DEF PipeShape
<1>3. \A g \in Gens : consumer[g] = "none"
  BY DEF Init
<1>4. InHand /\ NothingLeftBehind /\ HandleShape
  BY <1>3 DEF Init, InHand, NothingLeftBehind, HandleShape
<1>5. Core
  <2>1. CallsShape
    BY DEF Init, CallsShape, Closers
  <2>2. SlotIsNewest /\ RetiredIsGone
    BY <1>3 DEF Init, SlotIsNewest, RetiredIsGone
  <2>3. TakenIsGone /\ SlotIsKnown /\ ClientKnowsSlot
    BY DEF Init, TakenIsGone, SlotIsKnown, ClientKnowsSlot, Closers
  <2> QED BY <2>1, <2>2, <2>3 DEF Core
<1> QED BY <1>1, <1>2, <1>4, <1>5, ClientInvIs, TypesAreTypeOK

\* Every step of the client keeps the invariant.
LEMMA ClientStep == ClientInv /\ [Next]_vars => ClientInv'
<1> SUFFICES ASSUME ClientInv, [Next]_vars PROVE ClientInv'
  OBVIOUS
<1>0. /\ TypeOK /\ Types /\ CallsShape /\ PipeShape /\ InHand /\ Core
      /\ HandleShape /\ NothingLeftBehind
  BY ClientInvIs, TypesAreTypeOK DEF Core
<1>1. TypeOK'
  <2>1. Types' => TypeOK'
    BY TypesAreTypeOK, PTL
  <2>2. CASE UNCHANGED vars
    BY <1>0, <2>1, <2>2, TypesStay DEF vars, Types
  <2>3. CASE Next
    BY <1>0, <2>1, <2>3, NextSorted, TypeApp, TypeGen, TypeCalls
  <2> QED BY <2>2, <2>3
<1>2. PipeShape' /\ InHand'
  BY <1>0, HandStep
<1>3. Core'
  <2>1. CASE UNCHANGED vars
    BY <1>0, <2>1, CoreStays DEF vars, transportVars, connVars, consumerVars, clientVars,
                                 closeVars
  <2>2. CASE AppSteps
    <3>1. UNCHANGED <<slot, epoch, st, reg, conn, consumer, phase, current, connect, cpc, cgen,
                      dropped>>
      BY <2>2 DEF AppSteps, PeerSends, ForwardingTakes, ForwardingSends, ForwardingEnds,
            AppTakes, AppLeaves, Respond, BeginRespond, BindWriter, transportVars, connVars,
            consumerVars, clientVars, closeVars
    <3> QED BY <1>0, <3>1, CoreStays
  <2> QED BY <1>0, <2>1, <2>2, CoreGen, CoreCalls, NextSorted
<1>4. NothingLeftBehind'
  BY <1>0, LeftBehindStep
<1>5. HandleShape'
  BY <1>0, HandleStep
<1>6. TypeOK' /\ PipeShape' /\ InHand' /\ Core' /\ HandleShape' /\ NothingLeftBehind' => ClientInv'
  BY ClientInvIs, PTL
<1> QED BY <1>1, <1>2, <1>3, <1>4, <1>5, <1>6

\* The inductive invariant about the slot holds for any number of connections, messages
\* and queue slots, at whatever awaits the application drops its calls of connect and
\* disconnect; what a drop may leave is part of it (SlotIsKnown, ClientKnowsSlot).
THEOREM ClientInvariant == Spec => []ClientInv
BY ClientInit, ClientStep, PTL DEF Spec

\* A finished consumer task (consume_events in transport.rs) leaves nothing of its
\* generation in the slot, the state manager or the registry.
THEOREM ConsumersCleanUp == Spec => []NothingLeftBehind
<1>1. ClientInv => NothingLeftBehind
  BY DEF ClientInv
<1> QED BY <1>1, ClientInvariant, PTL

\* When connect refuses because a connection is installed, disconnect knows that
\* connection, unless it is being closed, or its connect was dropped before the client had
\* learnt the session, or its disconnect before it had taken the slot.
THEOREM DisconnectKnowsTheSlot == Spec => []DisconnectCanFollow
<1>1. ClientInv => DisconnectCanFollow
  BY DEF ClientInv, DisconnectCanFollow, ClientKnowsSlot, Takes, Begins, Closers
<1> QED BY <1>1, ClientInvariant, PTL

\* A response is only ever given to the writer of the connection its request came from.
THEOREM ResponsesStayOnTheirConnection == Spec => []ResponseOnItsConnection
<1>1. Init => ResponseOnItsConnection
  BY DEF Init, ResponseOnItsConnection
<1>2. ResponseOnItsConnection /\ [Next]_vars => ResponseOnItsConnection'
  <2> SUFFICES ASSUME ResponseOnItsConnection, [Next]_vars PROVE ResponseOnItsConnection'
    OBVIOUS
  <2>1. CASE \E r \in claimed : BindWriter(r)
    BY <2>1 DEF BindWriter, WriterFor, ResponseOnItsConnection
  <2>2. CASE ~ \E r \in claimed : BindWriter(r)
    <3>1. UNCHANGED written
      <4>1. CASE UNCHANGED vars
        BY <4>1 DEF vars, respondVars
      <4>2. CASE AppSteps
        BY <2>2, <4>2 DEF AppSteps, PeerSends, ForwardingTakes, ForwardingSends,
              ForwardingEnds, AppTakes, AppLeaves, Respond, BeginRespond, respondVars
      <4>3. ASSUME NEW g \in Gens, GenSteps(g) PROVE UNCHANGED written
        BY <4>3 DEF GenSteps, Consumer, ConnEnds, Consume, Forward, Retire, Mark, ConsumerEnds,
              NothingToTearDown, respondVars
      <4>4. CASE CallSteps
        BY <4>4 DEF CallSteps, Closing, Connect, ConnectFails, Install, Announce,
              LearnSession, StartForwarding, ConnectReturns, CancelConnect, Disconnect,
              DisconnectBegins, CancelDisconnect, TakeSlot, MarkClosed, Shutdown,
              TeardownBegins, TeardownEnds, DropClient, FreeTransport, respondVars
      <4> QED BY <4>1, <4>2, <4>3, <4>4, NextSorted
    <3> QED BY <3>1 DEF ResponseOnItsConnection
  <2> QED BY <2>1, <2>2
<1> QED BY <1>1, <1>2, PTL DEF Spec

\* The slot is emptied only when its own connection has ended or is being closed, or with
\* the client: no consumer or closer of an older generation takes a working connection.
THEOREM WorkingSlotIsKept == Spec => LiveSlotKept
<1>1. ClientInv /\ [Next]_vars =>
        [slot # None /\ slot' # slot =>
           conn[slot] = "down" \/ st[slot] = "Closing" \/ ~ Strong]_vars
  <2> SUFFICES ASSUME ClientInv, Next, slot # None, slot' # slot
               PROVE  conn[slot] = "down" \/ st[slot] = "Closing" \/ ~ Strong
    OBVIOUS
  <2>0. SlotTypes /\ Core
    BY SlotTypesHold, ClientInvIs
  <2>1. ~ AppSteps
    BY DEF AppSteps, PeerSends, ForwardingTakes, ForwardingSends, ForwardingEnds, AppTakes,
          AppLeaves, Respond, BeginRespond, BindWriter, transportVars
  <2>2. ASSUME NEW g \in Gens, GenSteps(g) PROVE conn[slot] = "down"
    <3>1. Retire(g)
      BY <2>2 DEF GenSteps, Consumer, ConnEnds, Consume, Forward, Mark, ConsumerEnds,
                  NothingToTearDown, transportVars
    <3>2. slot = g /\ consumer[g] \in {"retire", "teardown"}
      BY <3>1 DEF Retire, RetireSlot
    <3> QED BY <2>0, <3>2 DEF Core, RetiredIsGone
  <2>3. CASE CallSteps
    <3>1. Install \/ (\E c \in Closers : TakeSlot(c)) \/ FreeTransport
      BY <2>3 DEF CallSteps, Closing, Connect, ConnectFails, Announce, LearnSession,
            StartForwarding, ConnectReturns, CancelConnect, Disconnect, DisconnectBegins,
            CancelDisconnect, MarkClosed, Shutdown, TeardownBegins, TeardownEnds, DropClient,
            transportVars
    <3>2. ~ Install
      BY <2>0 DEF Install, Core, CallsShape
    <3>3. ASSUME NEW c \in Closers, TakeSlot(c) PROVE st[slot] = "Closing"
      <4>1. Takes(c, slot)
        BY <3>3 DEF TakeSlot, RetireSlot, Takes
      <4> QED BY <2>0, <4>1 DEF Core, SlotIsKnown
    <3>4. CASE FreeTransport
      BY <3>4 DEF FreeTransport
    <3> QED BY <3>1, <3>2, <3>3, <3>4
  <2> QED BY <2>1, <2>2, <2>3, NextSorted
<1> QED BY <1>1, ClientInvariant, PTL DEF Spec, LiveSlotKept

-----------------------------------------------------------------------------
(* How the steps move the events that travel.                              *)

\* A hand that is empty holds no event.
LEMMA NoEventIsNone == NoEvent \notin Events
BY ClientAssumption DEF NoEvent, Events

\* The types that the proofs about events rest on.
LineTypes ==
    /\ stream \in Seq(Events) /\ queue \in Seq(Events) /\ hand \in Events \cup {NoEvent}
    /\ seen \in [Gens -> -1 .. MaxMsgs + 1]
    /\ sent \in [Gens -> 0 .. MaxMsgs]
    /\ consumer \in [Gens -> {"none", "polling", "forward", "retire", "mark", "lastForward",
                              "teardown", "teardownMark", "drain", "ended"}]
    /\ \A e \in Events : e.gen \in Gens /\ e.n \in 0 .. MaxMsgs + 1
    /\ MaxMsgs \in Nat

\* They follow from the type invariant.
LEMMA LineTypesHold == TypeOK => LineTypes
<1>1. \A e \in Events : e.gen \in Gens /\ e.n \in 0 .. MaxMsgs + 1
  BY DEF Events
<1>2. MaxMsgs \in Nat
  BY ClientAssumption
<1> QED BY <1>1, <1>2 DEF TypeOK, LineTypes

\* What travels to the application is an event.
LEMMA TravellersAreEvents ==
    ASSUME LineTypes, NEW e, Travelling(e)
    PROVE  e \in Events
BY DEF LineTypes, Travelling

\* What is taken from its pipe is counted.
LEMMA TakenInRange ==
    ASSUME TypeOK, PipeShape, NEW g \in Gens
    PROVE  Taken(g) \in 0 .. MaxMsgs
<1>1. Len(pipe[g]) \in Nat /\ sent[g] \in 0 .. MaxMsgs /\ Len(pipe[g]) <= sent[g]
  BY DEF TypeOK, PipeShape
<1> QED BY <1>1, ClientAssumption DEF Taken

\* A send puts its event behind everything that travels.
LEMMA AppendKeepsOrder ==
    ASSUME LineTypes, InOrder, NEW e \in Events,
           \A f \in Events : Travelling(f) => Before(f, e),
           queue' = Append(queue, e), UNCHANGED <<stream, hand>>
    PROVE  InOrder' /\ \A f : Travelling(f)' <=> Travelling(f) \/ f = e
<1>1. /\ Len(queue) \in Nat /\ DOMAIN queue = 1 .. Len(queue)
      /\ DOMAIN queue' = 1 .. Len(queue) + 1
      /\ \A i \in DOMAIN queue : queue'[i] = queue[i] /\ queue[i] \in Events
      /\ queue'[Len(queue) + 1] = e
  BY DEF LineTypes
<1>2. /\ \A i \in DOMAIN queue : Before(queue[i], e)
      /\ \A i \in DOMAIN stream : Before(stream[i], e)
      /\ hand # NoEvent => Before(hand, e)
  BY DEF Travelling, LineTypes
<1>3. \A j \in DOMAIN queue' : j \in DOMAIN queue \/ j = Len(queue) + 1
  BY <1>1
<1>4. Ordered(queue)'
  <2> SUFFICES ASSUME NEW i \in DOMAIN queue', NEW j \in DOMAIN queue', i < j
               PROVE  Before(queue'[i], queue'[j])
    BY DEF Ordered, Before
  <2>1. i \in DOMAIN queue
    BY <1>1
  <2>2. CASE j \in DOMAIN queue
    BY <1>1, <2>1, <2>2 DEF InOrder, Ordered
  <2>3. CASE j = Len(queue) + 1
    BY <1>1, <1>2, <2>1, <2>3
  <2> QED BY <1>3, <2>2, <2>3
<1>5. \A j \in DOMAIN queue' : \A i \in DOMAIN stream : Before(stream[i], queue'[j])
  BY <1>1, <1>2, <1>3 DEF InOrder
<1>6. hand # NoEvent => \A j \in DOMAIN queue' : Before(hand, queue'[j])
  BY <1>1, <1>2, <1>3 DEF InOrder
<1>7. InOrder'
  BY <1>4, <1>5, <1>6 DEF InOrder, Ordered, Before
<1>8. ASSUME NEW f PROVE Travelling(f)' <=> Travelling(f) \/ f = e
  <2>1. (\E i \in DOMAIN queue' : queue'[i] = f) <=> (\E i \in DOMAIN queue : queue[i] = f) \/ f = e
    BY <1>1, <1>3
  <2> QED BY <2>1 DEF Travelling
<1> QED BY <1>7, <1>8

\* The forwarding task takes the oldest event of the queue in hand.
LEMMA TakeKeepsOrder ==
    ASSUME LineTypes, InOrder, hand = NoEvent, queue # <<>>,
           hand' = Head(queue), queue' = Tail(queue), UNCHANGED stream
    PROVE  InOrder' /\ \A f : Travelling(f)' <=> Travelling(f)
<1>1. /\ Len(queue) \in Nat \ {0} /\ DOMAIN queue = 1 .. Len(queue)
      /\ DOMAIN queue' = 1 .. Len(queue) - 1
      /\ \A i \in DOMAIN queue' : i + 1 \in DOMAIN queue /\ queue'[i] = queue[i + 1]
      /\ hand' = queue[1] /\ queue[1] \in Events
  BY DEF LineTypes
<1>2. hand' # NoEvent
  BY <1>1, NoEventIsNone
<1>3. \A i, j \in DOMAIN queue' : i < j => Before(queue'[i], queue'[j])
  <2> SUFFICES ASSUME NEW i \in DOMAIN queue', NEW j \in DOMAIN queue', i < j
               PROVE  Before(queue'[i], queue'[j])
    OBVIOUS
  <2>1. i + 1 \in DOMAIN queue /\ j + 1 \in DOMAIN queue /\ i + 1 < j + 1
    BY <1>1
  <2> QED BY <1>1, <2>1 DEF InOrder, Ordered
<1>4. \A j \in DOMAIN queue' : Before(hand', queue'[j])
  <2> SUFFICES ASSUME NEW j \in DOMAIN queue' PROVE Before(queue[1], queue[j + 1])
    BY <1>1
  <2>1. 1 \in DOMAIN queue /\ j + 1 \in DOMAIN queue /\ 1 < j + 1
    BY <1>1
  <2> QED BY <2>1 DEF InOrder, Ordered
<1>5. /\ \A i \in DOMAIN stream : Before(stream[i], hand')
      /\ \A i \in DOMAIN stream, j \in DOMAIN queue' : Before(stream[i], queue'[j])
  <2>1. 1 \in DOMAIN queue
    BY <1>1
  <2> QED BY <1>1, <2>1 DEF InOrder
<1>6. InOrder'
  BY <1>3, <1>4, <1>5 DEF InOrder, Ordered, Before
<1>7. ASSUME NEW f PROVE Travelling(f)' <=> Travelling(f)
  <2>1. ASSUME NEW i \in DOMAIN queue, queue[i] = f
        PROVE  hand' = f \/ \E j \in DOMAIN queue' : queue'[j] = f
    <3>1. CASE i = 1
      BY <1>1, <2>1, <3>1
    <3>2. CASE i # 1
      <4>1. i - 1 \in DOMAIN queue' /\ (i - 1) + 1 = i
        BY <1>1, <3>2
      <4> QED BY <1>1, <2>1, <4>1
    <3> QED BY <3>1, <3>2
  <2>2. ASSUME NEW j \in DOMAIN queue', queue'[j] = f
        PROVE  \E i \in DOMAIN queue : queue[i] = f
    BY <1>1, <2>2
  <2>3. hand' = f => \E i \in DOMAIN queue : queue[i] = f
    <3>1. 1 \in DOMAIN queue
      BY <1>1
    <3> QED BY <1>1, <3>1
  <2> QED BY <1>2, <2>1, <2>2, <2>3 DEF Travelling
<1> QED BY <1>6, <1>7

\* The forwarding task drops the oldest event of the queue.
LEMMA SkipKeepsOrder ==
    ASSUME LineTypes, InOrder, hand = NoEvent, queue # <<>>,
           hand' = NoEvent, queue' = Tail(queue), UNCHANGED stream
    PROVE  /\ InOrder'
           /\ \A f : Travelling(f)' => Travelling(f)
           /\ \A f : Travelling(f) => Travelling(f)' \/ f = Head(queue)
<1>1. /\ Len(queue) \in Nat \ {0} /\ DOMAIN queue = 1 .. Len(queue)
      /\ DOMAIN queue' = 1 .. Len(queue) - 1
      /\ \A i \in DOMAIN queue' : i + 1 \in DOMAIN queue /\ queue'[i] = queue[i + 1]
      /\ Head(queue) = queue[1]
  BY DEF LineTypes
<1>2. ASSUME NEW i \in DOMAIN queue', NEW j \in DOMAIN queue', i < j
      PROVE  Before(queue'[i], queue'[j])
  <2>1. i + 1 \in DOMAIN queue /\ j + 1 \in DOMAIN queue /\ i + 1 < j + 1
    BY <1>1, <1>2
  <2> QED BY <1>1, <2>1 DEF InOrder, Ordered
<1>3. \A i \in DOMAIN stream, j \in DOMAIN queue' : Before(stream[i], queue'[j])
  BY <1>1 DEF InOrder
<1>4. InOrder'
  BY <1>2, <1>3 DEF InOrder, Ordered, Before
<1>5. ASSUME NEW f, Travelling(f)' PROVE Travelling(f)
  BY <1>1, <1>5 DEF Travelling
<1>6. ASSUME NEW f, Travelling(f) PROVE Travelling(f)' \/ f = Head(queue)
  <2>1. ASSUME NEW i \in DOMAIN queue, queue[i] = f, i # 1
        PROVE  \E j \in DOMAIN queue' : queue'[j] = f
    <3>1. i - 1 \in DOMAIN queue' /\ (i - 1) + 1 = i
      BY <1>1, <2>1
    <3> QED BY <1>1, <2>1, <3>1
  <2> QED BY <1>1, <1>6, <2>1 DEF Travelling
<1> QED BY <1>4, <1>5, <1>6

\* The event in hand joins the stream.
LEMMA PassKeepsOrder ==
    ASSUME LineTypes, InOrder, hand # NoEvent,
           stream' = Append(stream, hand), hand' = NoEvent, UNCHANGED queue
    PROVE  InOrder' /\ \A f : Travelling(f)' <=> Travelling(f)
<1>1. /\ Len(stream) \in Nat /\ DOMAIN stream = 1 .. Len(stream)
      /\ DOMAIN stream' = 1 .. Len(stream) + 1
      /\ \A i \in DOMAIN stream : stream'[i] = stream[i]
      /\ stream'[Len(stream) + 1] = hand
  BY DEF LineTypes
<1>2. \A j \in DOMAIN stream' : j \in DOMAIN stream \/ j = Len(stream) + 1
  BY <1>1
<1>3. ASSUME NEW i \in DOMAIN stream', NEW j \in DOMAIN stream', i < j
      PROVE  Before(stream'[i], stream'[j])
  <2>1. i \in DOMAIN stream
    BY <1>1, <1>3
  <2>2. CASE j \in DOMAIN stream
    BY <1>1, <1>3, <2>1, <2>2 DEF InOrder, Ordered
  <2>3. CASE j = Len(stream) + 1
    BY <1>1, <2>1, <2>3 DEF InOrder
  <2> QED BY <1>2, <2>2, <2>3
<1>4. \A i \in DOMAIN stream', j \in DOMAIN queue : Before(stream'[i], queue[j])
  BY <1>1, <1>2 DEF InOrder
<1>5. InOrder'
  BY <1>3, <1>4 DEF InOrder, Ordered, Before
<1>6. ASSUME NEW f PROVE Travelling(f)' <=> Travelling(f)
  <2>1. (\E i \in DOMAIN stream' : stream'[i] = f)
          <=> (\E i \in DOMAIN stream : stream[i] = f) \/ f = hand
    BY <1>1, <1>2
  <2> QED BY <2>1 DEF Travelling
<1> QED BY <1>5, <1>6

\* The application takes the oldest event: the others come after it.
LEMMA TakenFromStream ==
    ASSUME LineTypes, InOrder, stream # <<>>, stream' = Tail(stream), UNCHANGED <<hand, queue>>
    PROVE  /\ InOrder'
           /\ Head(stream) \in Events /\ Travelling(Head(stream))
           /\ \A f : Travelling(f)' => Travelling(f) /\ Before(Head(stream), f)
           /\ \A f : Travelling(f) => Travelling(f)' \/ f = Head(stream)
<1>1. /\ Len(stream) \in Nat \ {0} /\ DOMAIN stream = 1 .. Len(stream)
      /\ DOMAIN stream' = 1 .. Len(stream) - 1
      /\ \A i \in DOMAIN stream' : i + 1 \in DOMAIN stream /\ stream'[i] = stream[i + 1]
      /\ Head(stream) = stream[1] /\ stream[1] \in Events
  BY DEF LineTypes
<1>2. 1 \in DOMAIN stream
  BY <1>1
<1>3. ASSUME NEW i \in DOMAIN stream', NEW j \in DOMAIN stream', i < j
      PROVE  Before(stream'[i], stream'[j])
  <2>1. i + 1 \in DOMAIN stream /\ j + 1 \in DOMAIN stream /\ i + 1 < j + 1
    BY <1>1, <1>3
  <2> QED BY <1>1, <2>1 DEF InOrder, Ordered
<1>4. InOrder'
  BY <1>1, <1>3 DEF InOrder, Ordered, Before
<1>5. ASSUME NEW f, Travelling(f)' PROVE Travelling(f) /\ Before(Head(stream), f)
  <2>1. CASE \E i \in DOMAIN stream' : stream'[i] = f
    <3>1. PICK i \in DOMAIN stream' : stream'[i] = f
      BY <2>1
    <3>2. i + 1 \in DOMAIN stream /\ stream[i + 1] = f /\ 1 < i + 1
      BY <1>1, <3>1
    <3> QED BY <1>1, <1>2, <3>2 DEF Travelling, InOrder, Ordered
  <2>2. CASE hand # NoEvent /\ hand = f
    BY <1>1, <1>2, <2>2 DEF Travelling, InOrder
  <2>3. CASE \E i \in DOMAIN queue : queue[i] = f
    BY <1>1, <1>2, <2>3 DEF Travelling, InOrder
  <2> QED BY <1>5, <2>1, <2>2, <2>3 DEF Travelling
<1>6. ASSUME NEW f, Travelling(f) PROVE Travelling(f)' \/ f = Head(stream)
  <2>1. ASSUME NEW i \in DOMAIN stream, stream[i] = f, i # 1
        PROVE  \E j \in DOMAIN stream' : stream'[j] = f
    <3>1. i - 1 \in DOMAIN stream' /\ (i - 1) + 1 = i
      BY <1>1, <2>1
    <3> QED BY <1>1, <2>1, <3>1
  <2> QED BY <1>1, <1>6, <2>1 DEF Travelling
<1>7. Travelling(Head(stream))
  BY <1>1, <1>2 DEF Travelling
<1> QED BY <1>1, <1>4, <1>5, <1>6, <1>7

\* ConnectionEstablished is ahead of everything else of its connection, so if it travels
\* and something of its connection is in the stream, it is in the stream.
LEMMA ConnectedIsAhead ==
    ASSUME LineTypes, InOrder, NEW i \in DOMAIN stream, Travelling(Connected(stream[i].gen))
    PROVE  \E j \in DOMAIN stream : stream[j] = Connected(stream[i].gen)
<1>1. stream[i] \in Events /\ stream[i].n \in 0 .. MaxMsgs + 1
  BY DEF LineTypes
<1>2. ASSUME Before(stream[i], Connected(stream[i].gen)) PROVE FALSE
  BY <1>1, <1>2, ClientAssumption DEF Before, Connected
<1>3. CASE hand # NoEvent /\ hand = Connected(stream[i].gen)
  BY <1>2, <1>3 DEF InOrder
<1>4. CASE \E j \in DOMAIN queue : queue[j] = Connected(stream[i].gen)
  BY <1>2, <1>4 DEF InOrder
<1> QED BY <1>3, <1>4 DEF Travelling

-----------------------------------------------------------------------------
(* The invariant about events, step by step.                               *)

\* How the consumer of h may move while no event moves along the line.
Advances(h) ==
    \/ consumer'[h] = consumer[h] /\ Taken(h)' = Taken(h)
    \/ consumer[h] = "polling" /\ consumer'[h] \in {"polling", "forward"}
       /\ Taken(h)' = Taken(h) + 1
    \/ consumer[h] = "polling" /\ consumer'[h] = "retire"
    \/ consumer[h] \in {"retire", "mark"} /\ consumer'[h] \in {"mark", "lastForward"}
    \/ consumer[h] # "none" /\ consumer'[h] \in {"teardown", "teardownMark", "drain", "ended"}

\* While no event moves along the line, consumers stay ahead of it.
LEMMA QuietStep ==
    ASSUME TypeOK, PipeShape, InOrder, ConsumerAhead, SeenBehind, ReceiverShape,
           UNCHANGED <<stream, hand, queue, seen, listening, receiver, forwarding>>,
           ~ Strong => ~ Strong', \A h \in Gens : Advances(h)
    PROVE  EventInv'
<1>0. LineTypes /\ \A h \in Gens : Taken(h) \in 0 .. MaxMsgs
  BY LineTypesHold, TakenInRange
<1>1. InOrder'
  BY DEF InOrder, Ordered, Before
<1>2. \A f : Travelling(f)' <=> Travelling(f)
  BY DEF Travelling
<1>3. ConsumerAhead'
  <2> SUFFICES ASSUME NEW h \in Gens
               PROVE  /\ consumer'[h] = "polling" => seen[h] <= Taken(h)'
                      /\ consumer'[h] = "forward" => seen[h] < Taken(h)'
                      /\ consumer'[h] \in {"retire", "mark", "lastForward"} => seen[h] <= MaxMsgs
                      /\ \A e \in Events : Travelling(e) /\ e.gen = h =>
                            /\ consumer'[h] # "none"
                            /\ consumer'[h] = "polling" => e.n <= Taken(h)'
                            /\ consumer'[h] = "forward" => e.n < Taken(h)'
                            /\ consumer'[h] \in {"retire", "mark", "lastForward"} => e.n <= MaxMsgs
    BY <1>2 DEF ConsumerAhead
  <2>1. seen[h] \in Int /\ Taken(h) \in Int /\ Taken(h) <= MaxMsgs /\ MaxMsgs \in Int
        /\ \A e \in Events : e.n \in Int
    BY <1>0 DEF LineTypes
  <2>2. Advances(h)
    OBVIOUS
  <2> QED BY <2>1, <2>2 DEF ConsumerAhead, Advances
<1>4. SeenBehind'
  <2>1. \A h \in Gens : consumer'[h] = "none" <=> consumer[h] = "none"
    BY DEF Advances
  <2>2. \A h : Connected(h)' = Connected(h)
    BY DEF Connected
  <2> QED BY <1>2, <2>1 DEF SeenBehind
<1>5. ReceiverShape'
  BY DEF ReceiverShape
<1> QED BY <1>1, <1>3, <1>4, <1>5 DEF EventInv

\* A consumer moves an event into the queue, or finds that nobody can receive it.
LEMMA EventForward ==
    ASSUME ClientInv, EventInv, NEW g \in Gens, Forward(g), ~ Strong => ~ Strong'
    PROVE  EventInv'
<1>0. /\ TypeOK /\ PipeShape /\ InHand /\ LineTypes
      /\ InOrder /\ ConsumerAhead /\ SeenBehind /\ ReceiverShape
  BY LineTypesHold DEF ClientInv, EventInv
<1>1. /\ consumer[g] \in {"forward", "lastForward"} /\ SendEvent(ev[g])
      /\ consumer' = [consumer EXCEPT ![g] = IF @ = "forward" THEN "polling" ELSE "teardown"]
      /\ UNCHANGED <<stream, hand, seen, listening, receiver, forwarding, pipe, sent>>
  BY DEF Forward, SendEvent, connVars, taskVars, appVars
<1>2. /\ ev[g] \in Events /\ ev[g].gen = g
      /\ consumer[g] = "forward" => ev[g].n = Taken(g)
      /\ consumer[g] = "lastForward" => ev[g].n = MaxMsgs + 1
      /\ ev[g].n > 0
  <2>1. CASE consumer[g] = "forward"
    BY <1>0, <2>1 DEF InHand
  <2>2. CASE consumer[g] = "lastForward"
    <3>1. ev[g] = Closed(g) /\ Closed(g) \in Events
      BY <1>0, <2>2, EventTypes DEF InHand
    <3>2. Closed(g).gen = g /\ Closed(g).n = MaxMsgs + 1 /\ MaxMsgs + 1 > 0
      BY ClientAssumption DEF Closed
    <3> QED BY <2>2, <3>1, <3>2
  <2> QED BY <1>1, <2>1, <2>2
<1>3. /\ consumer'[g] = (IF consumer[g] = "forward" THEN "polling" ELSE "teardown")
      /\ \A h \in Gens \ {g} : consumer'[h] = consumer[h]
      /\ \A h \in Gens : consumer'[h] = "none" <=> consumer[h] = "none"
  BY <1>0, <1>1 DEF LineTypes
<1>4. \A h \in Gens : Taken(h)' = Taken(h)
  BY <1>1 DEF Taken
<1>5. /\ \A h \in Gens : seen[h] \in Int /\ Taken(h) \in Int
      /\ \A e \in Events : e.n \in Int /\ e.gen \in Gens
      /\ MaxMsgs \in Int
  BY <1>0, TakenInRange DEF LineTypes
<1>6. ReceiverShape' /\ (receiver # "gone" => queue' = Append(queue, ev[g]))
      /\ (receiver = "gone" => queue' = queue)
  BY <1>0, <1>1 DEF ReceiverShape, SendEvent
<1>7. CASE receiver = "gone"
  <2>1. queue' = queue
    BY <1>6, <1>7
  <2>2. InOrder' /\ \A f : Travelling(f)' <=> Travelling(f)
    BY <1>0, <1>1, <2>1 DEF InOrder, Ordered, Before, Travelling
  <2>3. ConsumerAhead'
    BY <1>0, <1>1, <1>3, <1>4, <1>5, <2>2 DEF ConsumerAhead
  <2>4. SeenBehind'
    BY <1>0, <1>1, <1>3, <2>2 DEF SeenBehind
  <2> QED BY <1>6, <2>2, <2>3, <2>4 DEF EventInv
<1>8. CASE receiver # "gone"
  <2>1. \A f \in Events : Travelling(f) /\ f.gen = g => f.n < ev[g].n
    BY <1>0, <1>1, <1>2, <1>5 DEF ConsumerAhead
  <2>2. \A f \in Events : Travelling(f) => Before(f, ev[g])
    BY <1>2, <2>1 DEF Before
  <2>3. InOrder' /\ \A f : Travelling(f)' <=> Travelling(f) \/ f = ev[g]
    BY <1>0, <1>1, <1>2, <1>6, <1>8, <2>2, AppendKeepsOrder
  <2>4. seen[g] < ev[g].n
    BY <1>0, <1>1, <1>2, <1>5 DEF ConsumerAhead
  <2>5. ConsumerAhead'
    <3> SUFFICES ASSUME NEW h \in Gens
                 PROVE  /\ consumer'[h] = "polling" => seen[h] <= Taken(h)
                        /\ consumer'[h] = "forward" => seen[h] < Taken(h)
                        /\ consumer'[h] \in {"retire", "mark", "lastForward"} => seen[h] <= MaxMsgs
                        /\ \A e \in Events : Travelling(e)' /\ e.gen = h =>
                              /\ consumer'[h] # "none"
                              /\ consumer'[h] = "polling" => e.n <= Taken(h)
                              /\ consumer'[h] = "forward" => e.n < Taken(h)
                              /\ consumer'[h] \in {"retire", "mark", "lastForward"} => e.n <= MaxMsgs
      BY <1>1, <1>4 DEF ConsumerAhead
    <3>1. CASE h = g
      BY <1>0, <1>1, <1>2, <1>3, <1>5, <2>3, <3>1 DEF ConsumerAhead
    <3>2. CASE h # g
      BY <1>0, <1>2, <1>3, <1>5, <2>3, <3>2 DEF ConsumerAhead
    <3> QED BY <3>1, <3>2
  <2>6. SeenBehind'
    <3>1. \A h \in Gens : consumer'[h] = "none" => seen[h] = -1
      BY <1>0, <1>3 DEF SeenBehind
    <3>2. \A e \in Events : Travelling(e)' => seen[e.gen] < e.n
      BY <1>0, <1>2, <2>3, <2>4 DEF SeenBehind
    <3>3. \A e \in Events : Travelling(e)' /\ listening /\ seen[e.gen] = -1 =>
              Travelling(Connected(e.gen))
      <4>1. listening /\ seen[g] = -1 => Travelling(Connected(g))
        BY <1>0, <1>1, <1>8 DEF SeenBehind
      <4> QED BY <1>0, <1>2, <2>3, <4>1 DEF SeenBehind
    <3>4. \A h \in Gens :
             consumer'[h] # "none" /\ seen[h] = -1 /\ listening /\ receiver # "gone" =>
                 Travelling(Connected(h))
      BY <1>0, <1>3 DEF SeenBehind
    <3> QED BY <1>1, <2>3, <3>1, <3>2, <3>3, <3>4 DEF SeenBehind
  <2> QED BY <1>6, <2>3, <2>5, <2>6 DEF EventInv
<1> QED BY <1>7, <1>8

\* connect queues ConnectionEstablished of a generation of which nothing travels yet.
LEMMA EventAnnounce ==
    ASSUME ClientInv, EventInv, Announce, ~ Strong => ~ Strong'
    PROVE  EventInv'
<1>0. /\ TypeOK /\ PipeShape /\ LineTypes /\ CallsShape
      /\ InOrder /\ ConsumerAhead /\ SeenBehind /\ ReceiverShape
  BY LineTypesHold DEF ClientInv, EventInv
<1>1. /\ connect = "announce" /\ SendEvent(Connected(epoch))
      /\ consumer' = [consumer EXCEPT ![epoch] = "polling"]
      /\ UNCHANGED <<stream, hand, seen, listening, receiver, forwarding, pipe, sent>>
  BY DEF Announce, SendEvent, connVars, taskVars, appVars
<1>2. /\ epoch \in Gens /\ consumer[epoch] = "none"
      /\ Connected(epoch) \in Events /\ Connected(epoch).gen = epoch /\ Connected(epoch).n = 0
  <2>1. epoch \in Gens /\ consumer[epoch] = "none"
    BY <1>0, <1>1 DEF CallsShape
  <2> QED BY <2>1, EventTypes DEF Connected
<1>3. /\ consumer'[epoch] = "polling"
      /\ \A h \in Gens \ {epoch} : consumer'[h] = consumer[h]
  BY <1>0, <1>1, <1>2 DEF LineTypes
<1>4. \A h \in Gens : Taken(h)' = Taken(h)
  BY <1>1 DEF Taken
<1>5. /\ \A h \in Gens : seen[h] \in Int /\ Taken(h) \in Int /\ 0 <= Taken(h)
      /\ \A e \in Events : e.n \in Int /\ e.gen \in Gens
      /\ MaxMsgs \in Int
  BY <1>0, TakenInRange DEF LineTypes
<1>6. ReceiverShape' /\ (receiver # "gone" => queue' = Append(queue, Connected(epoch)))
      /\ (receiver = "gone" => queue' = queue)
  BY <1>0, <1>1 DEF ReceiverShape, SendEvent
<1>7. seen[epoch] = -1 /\ \A f \in Events : Travelling(f) => f.gen # epoch
  BY <1>0, <1>2 DEF SeenBehind, ConsumerAhead
<1>8. CASE receiver = "gone"
  <2>1. queue' = queue
    BY <1>6, <1>8
  <2>2. InOrder' /\ \A f : Travelling(f)' <=> Travelling(f)
    BY <1>0, <1>1, <2>1 DEF InOrder, Ordered, Before, Travelling
  <2>3. ConsumerAhead'
    BY <1>0, <1>1, <1>3, <1>4, <1>5, <1>7, <2>2 DEF ConsumerAhead
  <2>4. SeenBehind'
    BY <1>0, <1>1, <1>3, <1>8, <2>2 DEF SeenBehind
  <2> QED BY <1>6, <2>2, <2>3, <2>4 DEF EventInv
<1>9. CASE receiver # "gone"
  <2>1. \A f \in Events : Travelling(f) => Before(f, Connected(epoch))
    BY <1>2, <1>7 DEF Before
  <2>2. InOrder' /\ \A f : Travelling(f)' <=> Travelling(f) \/ f = Connected(epoch)
    BY <1>0, <1>1, <1>2, <1>6, <1>9, <2>1, AppendKeepsOrder
  <2>3. ConsumerAhead'
    <3> SUFFICES ASSUME NEW h \in Gens
                 PROVE  /\ consumer'[h] = "polling" => seen[h] <= Taken(h)
                        /\ consumer'[h] = "forward" => seen[h] < Taken(h)
                        /\ consumer'[h] \in {"retire", "mark", "lastForward"} => seen[h] <= MaxMsgs
                        /\ \A e \in Events : Travelling(e)' /\ e.gen = h =>
                              /\ consumer'[h] # "none"
                              /\ consumer'[h] = "polling" => e.n <= Taken(h)
                              /\ consumer'[h] = "forward" => e.n < Taken(h)
                              /\ consumer'[h] \in {"retire", "mark", "lastForward"} => e.n <= MaxMsgs
      BY <1>1, <1>4 DEF ConsumerAhead
    <3>1. CASE h = epoch
      BY <1>2, <1>3, <1>5, <1>7, <2>2, <3>1
    <3>2. CASE h # epoch
      BY <1>0, <1>2, <1>3, <2>2, <3>2 DEF ConsumerAhead
    <3> QED BY <3>1, <3>2
  <2>4. SeenBehind'
    <3>1. \A h \in Gens : consumer'[h] = "none" => seen[h] = -1
      BY <1>0, <1>3 DEF SeenBehind
    <3>2. \A e \in Events : Travelling(e)' => seen[e.gen] < e.n
      BY <1>0, <1>2, <1>7, <2>2 DEF SeenBehind
    <3>3. \A e \in Events : Travelling(e)' /\ listening /\ seen[e.gen] = -1 =>
              Travelling(Connected(e.gen))'
      BY <1>0, <1>2, <2>2 DEF SeenBehind
    <3>4. \A h \in Gens :
             consumer'[h] # "none" /\ seen[h] = -1 /\ listening /\ receiver # "gone" =>
                 Travelling(Connected(h))'
      BY <1>0, <1>3, <2>2 DEF SeenBehind
    <3> QED BY <1>1, <3>1, <3>2, <3>3, <3>4 DEF SeenBehind
  <2> QED BY <1>6, <2>2, <2>3, <2>4 DEF EventInv
<1> QED BY <1>8, <1>9

\* The forwarding task takes an event from the queue, or hands one to the stream; a request
\* it can only drop is not what the application waits for first.
LEMMA EventForwarding ==
    ASSUME ClientInv, EventInv, ForwardingTakes \/ ForwardingSends, ~ Strong => ~ Strong'
    PROVE  EventInv'
<1>0. /\ TypeOK /\ PipeShape /\ LineTypes
      /\ InOrder /\ ConsumerAhead /\ SeenBehind /\ ReceiverShape
  BY LineTypesHold DEF ClientInv, EventInv
<1>1. /\ forwarding = "running"
      /\ UNCHANGED <<consumer, sent, pipe, seen, listening, receiver, forwarding>>
  BY DEF ForwardingTakes, ForwardingSends, connVars, consumerVars, queueVars, appVars
<1>2. \A h \in Gens : Taken(h)' = Taken(h)
  BY <1>1 DEF Taken
<1>3. InOrder' /\ ReceiverShape' /\ (\A f : Travelling(f)' => Travelling(f))
      /\ (listening => \A f : Travelling(f) => Travelling(f)' \/ f.kind = "request")
  <2>4. CASE ForwardingTakes /\ hand' # Head(queue)
    <3>1. /\ hand = NoEvent /\ queue # <<>> /\ hand' = NoEvent /\ queue' = Tail(queue)
          /\ UNCHANGED stream /\ Head(queue).kind = "request"
      BY <2>4 DEF ForwardingTakes, appVars
    <3>2. /\ InOrder' /\ \A f : Travelling(f)' => Travelling(f)
          /\ \A f : Travelling(f) => Travelling(f)' \/ f = Head(queue)
      BY <1>0, <3>1, SkipKeepsOrder
    <3>3. ReceiverShape'
      BY <1>0, <1>1, <3>1 DEF ReceiverShape
    <3> QED BY <3>1, <3>2, <3>3
  <2>1. CASE ForwardingTakes /\ hand' = Head(queue)
    <3>1. /\ hand = NoEvent /\ queue # <<>> /\ hand' = Head(queue) /\ queue' = Tail(queue)
          /\ UNCHANGED stream
      BY <2>1 DEF ForwardingTakes, appVars
    <3>2. InOrder' /\ \A f : Travelling(f)' <=> Travelling(f)
      BY <1>0, <3>1, TakeKeepsOrder
    <3>3. ReceiverShape'
      BY <1>0, <1>1, <3>1 DEF ReceiverShape
    <3> QED BY <3>2, <3>3
  <2>2. CASE ForwardingSends /\ listening
    <3>1. hand # NoEvent /\ stream' = Append(stream, hand) /\ hand' = NoEvent /\ UNCHANGED queue
      BY <2>2 DEF ForwardingSends, queueVars
    <3>2. InOrder' /\ \A f : Travelling(f)' <=> Travelling(f)
      BY <1>0, <3>1, PassKeepsOrder
    <3>3. ReceiverShape'
      BY <1>0, <1>1, <3>1 DEF ReceiverShape
    <3> QED BY <3>2, <3>3
  <2>3. CASE ForwardingSends /\ ~ listening
    <3>1. stream' = stream /\ hand' = NoEvent /\ UNCHANGED queue
      BY <2>3 DEF ForwardingSends, queueVars
    <3>2. InOrder' /\ \A f : Travelling(f)' => Travelling(f)
      BY <1>0, <3>1 DEF InOrder, Ordered, Before, Travelling
    <3>3. ReceiverShape'
      BY <1>0, <1>1, <3>1 DEF ReceiverShape
    <3> QED BY <2>3, <3>2, <3>3
  <2> QED BY <2>1, <2>2, <2>3, <2>4
<1>4. ConsumerAhead'
  BY <1>0, <1>1, <1>2, <1>3 DEF ConsumerAhead
<1>6. \A g : listening /\ Travelling(Connected(g)) => Travelling(Connected(g))'
  BY <1>3 DEF Connected
<1>5. SeenBehind'
  BY <1>0, <1>1, <1>3, <1>6 DEF SeenBehind
<1> QED BY <1>3, <1>4, <1>5 DEF EventInv

\* The application takes an event: it had seen less, and everything else comes later.
LEMMA EventAppTakes ==
    ASSUME ClientInv, EventInv, AppTakes, ~ Strong => ~ Strong'
    PROVE  EventInv'
<1>0. /\ TypeOK /\ PipeShape /\ LineTypes
      /\ InOrder /\ ConsumerAhead /\ SeenBehind /\ ReceiverShape
  BY LineTypesHold DEF ClientInv, EventInv
<1> DEFINE e == Head(stream)
<1>1. /\ listening /\ stream # <<>> /\ stream' = Tail(stream)
      /\ seen' = [seen EXCEPT ![e.gen] = e.n]
      /\ UNCHANGED <<consumer, sent, pipe, listening, receiver, forwarding, hand, queue>>
  BY DEF AppTakes, connVars, consumerVars, queueVars, taskVars
<1>2. /\ InOrder' /\ e \in Events /\ Travelling(e)
      /\ \A f : Travelling(f)' => Travelling(f) /\ Before(e, f)
      /\ \A f : Travelling(f) => Travelling(f)' \/ f = e
  BY <1>0, <1>1, TakenFromStream
<1> HIDE DEF e
<1>3. /\ \A h \in Gens : seen[h] \in Int /\ Taken(h) \in Int
      /\ \A f \in Events : f.n \in Int /\ f.gen \in Gens /\ f.n >= 0
      /\ MaxMsgs \in Int
  BY <1>0, TakenInRange DEF LineTypes
<1>4. /\ seen'[e.gen] = e.n /\ e.gen \in Gens
      /\ \A h \in Gens : h # e.gen => seen'[h] = seen[h]
  BY <1>0, <1>1, <1>2, <1>3 DEF LineTypes
<1>5. \A h \in Gens : Taken(h)' = Taken(h)
  BY <1>1 DEF Taken
<1>6. ConsumerAhead'
  <2> SUFFICES ASSUME NEW h \in Gens
               PROVE  /\ consumer[h] = "polling" => seen'[h] <= Taken(h)
                      /\ consumer[h] = "forward" => seen'[h] < Taken(h)
                      /\ consumer[h] \in {"retire", "mark", "lastForward"} => seen'[h] <= MaxMsgs
                      /\ \A f \in Events : Travelling(f)' /\ f.gen = h =>
                            /\ consumer[h] # "none"
                            /\ consumer[h] = "polling" => f.n <= Taken(h)
                            /\ consumer[h] = "forward" => f.n < Taken(h)
                            /\ consumer[h] \in {"retire", "mark", "lastForward"} => f.n <= MaxMsgs
    BY <1>1, <1>5 DEF ConsumerAhead
  <2>1. CASE h = e.gen
    BY <1>0, <1>2, <1>4, <2>1 DEF ConsumerAhead
  <2>2. CASE h # e.gen
    BY <1>0, <1>2, <1>4, <2>2 DEF ConsumerAhead
  <2> QED BY <2>1, <2>2
<1>7. SeenBehind'
  <2>1. \A h \in Gens : consumer[h] = "none" => seen'[h] = -1
    BY <1>0, <1>2, <1>4 DEF SeenBehind, ConsumerAhead
  <2>2. \A f \in Events : Travelling(f)' => seen'[f.gen] < f.n
    <3> SUFFICES ASSUME NEW f \in Events, Travelling(f)' PROVE seen'[f.gen] < f.n
      OBVIOUS
    <3>1. CASE f.gen = e.gen
      BY <1>2, <1>4, <3>1 DEF Before
    <3>2. CASE f.gen # e.gen
      BY <1>0, <1>2, <1>3, <1>4, <3>2 DEF SeenBehind
    <3> QED BY <3>1, <3>2
  <2>3. \A h \in Gens : seen'[h] = -1 => h # e.gen /\ seen[h] = -1 /\ Connected(h) # e
    <3> SUFFICES ASSUME NEW h \in Gens, seen'[h] = -1
                 PROVE  h # e.gen /\ seen[h] = -1 /\ Connected(h) # e
      OBVIOUS
    <3>1. h # e.gen
      BY <1>2, <1>3, <1>4
    <3>2. Connected(h).gen = h
      BY DEF Connected
    <3> QED BY <1>4, <3>1, <3>2
  <2>4. \A f \in Events : Travelling(f)' /\ listening /\ seen'[f.gen] = -1 =>
            Travelling(Connected(f.gen))'
    BY <1>0, <1>2, <1>3, <2>3 DEF SeenBehind
  <2>5. \A h \in Gens :
           consumer[h] # "none" /\ seen'[h] = -1 /\ listening /\ receiver # "gone" =>
               Travelling(Connected(h))'
    BY <1>0, <1>2, <2>3 DEF SeenBehind
  <2> QED BY <1>1, <2>1, <2>2, <2>4, <2>5 DEF SeenBehind
<1>8. ReceiverShape'
  <2>1. forwarding # "none"
    BY <1>0, <1>1 DEF ReceiverShape
  <2> QED BY <1>0, <1>1, <2>1 DEF ReceiverShape
<1> QED BY <1>2, <1>6, <1>7, <1>8 DEF EventInv

\* Steps that only drop events: the application leaves, or the receiver goes.
LEMMA EventDrops ==
    ASSUME ClientInv, EventInv, ~ Strong => ~ Strong',
           AppLeaves \/ ForwardingEnds \/ TeardownEnds \/ DropClient \/ FreeTransport
    PROVE  EventInv'
<1>0. /\ TypeOK /\ PipeShape /\ LineTypes
      /\ InOrder /\ ConsumerAhead /\ SeenBehind /\ ReceiverShape
  BY LineTypesHold DEF ClientInv, EventInv
<1>1. UNCHANGED <<consumer, sent, pipe, seen>>
  BY DEF AppLeaves, ForwardingEnds, TeardownEnds, DropClient, FreeTransport, consumerVars,
         connVars, appVars
<1>2. \A h \in Gens : Taken(h)' = Taken(h)
  BY <1>1 DEF Taken
<1>3. CASE AppLeaves
  <2>1. stream' = <<>> /\ listening' = FALSE /\ UNCHANGED <<hand, queue, receiver, forwarding>>
    BY <1>3 DEF AppLeaves, queueVars, taskVars
  <2>2. InOrder' /\ \A f : Travelling(f)' => Travelling(f)
    BY <1>0, <2>1 DEF InOrder, Ordered, Before, Travelling
  <2>3. ConsumerAhead'
    BY <1>0, <1>1, <1>2, <2>2 DEF ConsumerAhead
  <2>4. SeenBehind'
    BY <1>0, <1>1, <2>1, <2>2 DEF SeenBehind
  <2>5. ReceiverShape'
    BY <1>0, <2>1 DEF ReceiverShape
  <2> QED BY <2>2, <2>3, <2>4, <2>5 DEF EventInv
<1>4. CASE /\ UNCHANGED <<stream, hand, queue, listening, forwarding, receiver>>
  <2>1. \A h \in Gens : Advances(h)
    BY <1>1, <1>2 DEF Advances
  <2> QED BY <1>0, <1>1, <1>4, <2>1, QuietStep
<1>5. CASE /\ hand' = NoEvent /\ queue' = <<>> /\ receiver' = "gone"
           /\ \/ forwarding = "running" /\ forwarding' = "ended"
              \/ receiver = "transport" /\ UNCHANGED forwarding /\ ~ Strong
           /\ UNCHANGED <<stream, listening>>
  <2>1. InOrder' /\ \A f : Travelling(f)' => Travelling(f)
    BY <1>0, <1>5 DEF InOrder, Ordered, Before, Travelling
  <2>2. ConsumerAhead'
    BY <1>0, <1>1, <1>2, <2>1 DEF ConsumerAhead
  <2>3. SeenBehind'
    <3>1. \A f \in Events : Travelling(f)' => seen[f.gen] < f.n
      BY <1>0, <2>1 DEF SeenBehind
    <3>2. ASSUME NEW f \in Events, Travelling(f)', listening, seen[f.gen] = -1
          PROVE  Travelling(Connected(f.gen))'
      <4>1. PICK i \in DOMAIN stream : stream[i] = f
        BY <1>5, <3>2 DEF Travelling
      <4>2. Travelling(Connected(f.gen))
        BY <1>0, <2>1, <3>2 DEF SeenBehind
      <4>3. \E j \in DOMAIN stream : stream[j] = Connected(f.gen)
        BY <1>0, <4>1, <4>2, ConnectedIsAhead
      <4> QED BY <1>5, <4>3 DEF Travelling
    <3> QED BY <1>0, <1>1, <1>5, <3>1, <3>2 DEF SeenBehind
  <2>4. ReceiverShape'
    BY <1>0, <1>5 DEF ReceiverShape
  <2> QED BY <2>1, <2>2, <2>3, <2>4 DEF EventInv
<1>6. CASE TeardownEnds \/ DropClient
  <2>1. PICK by : AbortTasks(by) /\ UNCHANGED <<stream, listening>>
    BY <1>6 DEF TeardownEnds, DropClient, appVars
  <2> QED BY <1>0, <1>4, <1>5, <2>1 DEF AbortTasks, ReceiverShape
<1>7. CASE FreeTransport
  <2>1. UNCHANGED <<stream, listening, hand, forwarding>>
    BY <1>7 DEF FreeTransport, appVars, taskVars
  <2>2. CASE receiver # "transport"
    BY <1>4, <1>7, <2>1, <2>2 DEF FreeTransport
  <2>3. CASE receiver = "transport"
    <3>1. hand = NoEvent
      BY <1>0, <2>3 DEF ReceiverShape
    <3> QED BY <1>5, <1>7, <2>1, <2>3, <3>1 DEF FreeTransport
  <2> QED BY <2>2, <2>3
<1>8. CASE ForwardingEnds
  BY <1>5, <1>8 DEF ForwardingEnds, appVars
<1> QED BY <1>3, <1>6, <1>7, <1>8

\* connect hands the receiver to the forwarding task.
LEMMA EventStartForwarding ==
    ASSUME ClientInv, EventInv, StartForwarding, ~ Strong => ~ Strong'
    PROVE  EventInv'
<1>0. /\ TypeOK /\ PipeShape /\ LineTypes /\ CallsShape /\ HandleShape
      /\ InOrder /\ ConsumerAhead /\ SeenBehind /\ ReceiverShape
  BY LineTypesHold DEF ClientInv, EventInv
<1>1. /\ connect = "stream" /\ forwarding' = "running" /\ receiver' = "task"
      /\ UNCHANGED <<stream, hand, queue, listening, consumer, sent, pipe, seen>>
  BY DEF StartForwarding, connVars, consumerVars, appVars
<1>2. Strong
  BY <1>0, <1>1 DEF CallsShape, Strong
<1>3. InOrder' /\ (\A f : Travelling(f)' <=> Travelling(f)) /\ \A h \in Gens : Taken(h)' = Taken(h)
  BY <1>0, <1>1 DEF InOrder, Ordered, Before, Travelling, Taken
<1>4. ConsumerAhead'
  BY <1>0, <1>1, <1>3 DEF ConsumerAhead
<1>5. receiver # "gone"
  BY <1>0, <1>1, <1>2 DEF ReceiverShape, HandleShape
<1>6. SeenBehind'
  BY <1>0, <1>1, <1>3, <1>5 DEF SeenBehind
<1>7. ReceiverShape'
  BY <1>0, <1>1 DEF ReceiverShape
<1> QED BY <1>3, <1>4, <1>6, <1>7 DEF EventInv

\* EventInv is kept by every step.
LEMMA EventStep == ClientInv /\ EventInv /\ [Next]_vars => EventInv'
<1> SUFFICES ASSUME ClientInv, EventInv, [Next]_vars PROVE EventInv'
  OBVIOUS
<1>0. /\ TypeOK /\ PipeShape /\ SlotTypes /\ LineTypes
      /\ InOrder /\ ConsumerAhead /\ SeenBehind /\ ReceiverShape
  BY LineTypesHold, SlotTypesHold DEF ClientInv, EventInv
<1>a. ~ Strong => ~ Strong'
  BY <1>0, StrongShrinks
<1> USE DEF transportVars, queueVars, connVars, consumerVars, clientVars, closeVars, taskVars,
        appVars, respondVars
<1>b. ASSUME UNCHANGED <<stream, hand, queue, seen, listening, receiver, forwarding>>,
             \A h \in Gens : Advances(h)
      PROVE  EventInv'
  BY <1>0, <1>a, <1>b, QuietStep
<1>c. ASSUME UNCHANGED <<stream, hand, queue, seen, listening, receiver, forwarding>>,
             UNCHANGED <<consumer, pipe, sent>>
      PROVE  EventInv'
  <2>1. \A h \in Gens : Advances(h)
    BY <1>c DEF Advances, Taken
  <2> QED BY <1>b, <1>c, <2>1
<1>d. ASSUME NEW g \in Gens, UNCHANGED <<stream, hand, queue, seen, listening, receiver, forwarding>>,
             UNCHANGED <<pipe, sent>>, \A h \in Gens \ {g} : consumer'[h] = consumer[h],
             \/ consumer[g] \in {"retire", "mark"} /\ consumer'[g] \in {"mark", "lastForward"}
             \/ consumer[g] # "none" /\ consumer'[g] \in {"teardown", "teardownMark", "drain", "ended"}
      PROVE  EventInv'
  <2>1. \A h \in Gens : Advances(h)
    BY <1>d DEF Advances, Taken
  <2> QED BY <1>b, <1>d, <2>1
<1>1. CASE UNCHANGED vars
  BY <1>1, <1>c DEF vars
<1>2. CASE AppSteps
  <2>1. ASSUME NEW g \in Gens, NEW k \in Kinds, PeerSends(g, k) PROVE EventInv'
    <3>1. UNCHANGED <<stream, hand, queue, seen, listening, receiver, forwarding, consumer>>
      BY <2>1 DEF PeerSends
    <3>2. sent \in [Gens -> 0 .. MaxMsgs] /\ pipe \in [Gens -> Seq(Events)] /\ sent[g] < MaxMsgs
      BY <1>0, <2>1 DEF TypeOK, PeerSends
    <3>3. Message(g, k, sent[g] + 1) \in Events
      BY <3>2, EventTypes, ClientAssumption
    <3>4. \A h \in Gens : Taken(h)' = Taken(h)
      BY <2>1, <3>2, <3>3 DEF PeerSends, Taken
    <3>5. \A h \in Gens : Advances(h)
      BY <3>1, <3>4 DEF Advances
    <3> QED BY <1>b, <3>1, <3>5
  <2>2. CASE Respond
    BY <1>c, <2>2 DEF Respond, BeginRespond, BindWriter
  <2> QED BY <1>a, <1>2, <2>1, <2>2, EventForwarding, EventAppTakes, EventDrops DEF AppSteps
<1>3. CASE CallSteps
  <2>1. CASE \/ Connect \/ ConnectFails \/ Install \/ LearnSession \/ ConnectReturns
             \/ CancelConnect \/ Disconnect \/ DisconnectBegins \/ CancelDisconnect
             \/ (\E c \in Closers : Closing(c)) \/ Shutdown \/ TeardownBegins
    BY <1>c, <2>1 DEF Closing, Connect, ConnectFails, Install, LearnSession, ConnectReturns,
          CancelConnect, Disconnect, DisconnectBegins, CancelDisconnect, TakeSlot, MarkClosed,
          Shutdown, TeardownBegins
  <2> QED BY <1>a, <1>3, <2>1, EventAnnounce, EventStartForwarding, EventDrops DEF CallSteps
<1>4. ASSUME NEW g \in Gens, GenSteps(g) PROVE EventInv'
  <2>1. CASE ConnEnds(g)
    BY <1>c, <2>1 DEF ConnEnds
  <2>2. CASE Consume(g)
    <3>1. UNCHANGED <<stream, hand, queue, seen, listening, receiver, forwarding>>
      BY <2>2 DEF Consume
    <3>2. /\ consumer[g] = "polling" /\ UNCHANGED sent
          /\ pipe' = [pipe EXCEPT ![g] = IF @ = <<>> THEN @ ELSE Tail(@)]
      BY <2>2 DEF Consume
    <3>3. pipe \in [Gens -> Seq(Events)] /\ sent[g] \in Nat
      BY <1>0, ClientAssumption DEF TypeOK
    <3>4. /\ \A h \in Gens \ {g} : consumer'[h] = consumer[h]
          /\ consumer'[g] \in {"polling", "forward", "retire", "ended", "teardown"}
          /\ consumer'[g] \in {"polling", "forward"} => pipe[g] # <<>>
      <4>1. PICK e : e = IF pipe[g] = <<>> THEN Closed(g) ELSE Head(pipe[g])
        OBVIOUS
      <4>2. /\ \A h \in Gens \ {g} : consumer'[h] = consumer[h]
            /\ consumer'[g] \in {"polling", "forward", "retire", "ended", "teardown"}
        BY <1>0, <2>2 DEF Consume, OnEvent, SlotTypes
      <4>3. consumer'[g] \in {"polling", "forward"} => e.kind # "closed"
        <5>1. consumer \in [Gens -> {"none", "polling", "forward", "retire", "mark",
                              "lastForward", "teardown", "teardownMark", "drain", "ended"}]
          BY <1>0 DEF SlotTypes
        <5>2. consumer'[g] \in {"ended", "teardown"} \/ OnEvent(g, e)
          BY <2>2, <4>1, <5>1 DEF Consume
        <5>3. OnEvent(g, e) /\ e.kind = "closed" => consumer'[g] = "retire"
          BY <5>1 DEF OnEvent
        <5> QED BY <5>2, <5>3
      <4>4. e.kind # "closed" => pipe[g] # <<>>
        BY <4>1 DEF Closed
      <4> QED BY <4>2, <4>3, <4>4
    <3>5. \A h \in Gens \ {g} : Taken(h)' = Taken(h)
      BY <3>2, <3>3 DEF Taken
    <3>6. pipe[g] # <<>> => Taken(g)' = Taken(g) + 1
      <4> SUFFICES ASSUME pipe[g] # <<>> PROVE Taken(g)' = Taken(g) + 1
        OBVIOUS
      <4>1. Len(pipe[g]) \in Nat /\ Len(pipe'[g]) = Len(pipe[g]) - 1 /\ sent'[g] = sent[g]
        BY <3>2, <3>3
      <4>2. sent[g] - (Len(pipe[g]) - 1) = sent[g] - Len(pipe[g]) + 1
        BY <3>3, <4>1
      <4> QED BY <4>1, <4>2 DEF Taken
    <3>7. \A h \in Gens : Advances(h)
      BY <3>2, <3>4, <3>5, <3>6 DEF Advances
    <3> QED BY <1>b, <3>1, <3>7
  <2>3. CASE Forward(g)
    BY <1>a, <2>3, EventForward
  <2>4. CASE Retire(g) \/ Mark(g) \/ ConsumerEnds(g) \/ NothingToTearDown(g)
    <3>1. UNCHANGED <<stream, hand, queue, seen, listening, receiver, forwarding, pipe, sent>>
      BY <2>4 DEF Retire, Mark, ConsumerEnds, NothingToTearDown
    <3>2. /\ \A h \in Gens \ {g} : consumer'[h] = consumer[h]
          /\ \/ consumer[g] \in {"retire", "mark"} /\ consumer'[g] \in {"mark", "lastForward"}
             \/ consumer[g] # "none" /\ consumer'[g] \in {"teardown", "teardownMark", "drain", "ended"}
      BY <1>0, <2>4 DEF Retire, Mark, ConsumerEnds, NothingToTearDown, SlotTypes
    <3> QED BY <1>d, <3>1, <3>2
  <2> QED BY <1>4, <2>1, <2>2, <2>3, <2>4 DEF GenSteps, Consumer
<1> QED BY <1>1, <1>2, <1>3, <1>4, NextSorted

\* No event travels in the initial states.
LEMMA EventInit == Init => EventInv
<1> SUFFICES ASSUME Init PROVE EventInv
  OBVIOUS
<1>1. /\ stream = <<>> /\ queue = <<>> /\ hand = NoEvent
      /\ receiver = "transport" /\ forwarding = "none"
  BY DEF Init
<1>2. \A g \in Gens : consumer[g] = "none" /\ seen[g] = -1
  BY DEF Init
<1>3. \A f : ~ Travelling(f)
  BY <1>1 DEF Travelling
<1>4. InOrder /\ ReceiverShape
  BY <1>1 DEF InOrder, Ordered, ReceiverShape
<1>5. ConsumerAhead /\ SeenBehind
  BY <1>2, <1>3 DEF ConsumerAhead, SeenBehind
<1> QED BY <1>4, <1>5 DEF EventInv

\* What travels between the consumers and the application stays in order, for any number
\* of connections, messages and queue slots.
THEOREM EventInvariant == Spec => [](ClientInv /\ EventInv)
BY ClientInit, ClientStep, EventInit, EventStep, PTL DEF Spec

\* The application sees of each connection ConnectionEstablished first, then its messages
\* in the order they were sent, then at most one ConnectionClosed.
THEOREM ApplicationSeesOrder == Spec => EventsInOrder
<1>1. ClientInv /\ EventInv /\ [Next]_vars =>
        [\A g \in Gens : seen'[g] # seen[g] =>
            IF seen[g] = -1 THEN seen'[g] = 0 ELSE seen'[g] > seen[g]]_vars
  <2> SUFFICES ASSUME ClientInv, EventInv, Next, NEW g \in Gens, seen'[g] # seen[g]
               PROVE  IF seen[g] = -1 THEN seen'[g] = 0 ELSE seen'[g] > seen[g]
    OBVIOUS
  <2>0. LineTypes /\ InOrder /\ SeenBehind
    BY LineTypesHold DEF ClientInv, EventInv
  <2>1. AppTakes
    <3>1. ~ CallSteps
      BY DEF CallSteps, Closing, Connect, ConnectFails, Install, Announce, LearnSession,
            StartForwarding, ConnectReturns, CancelConnect, Disconnect, DisconnectBegins,
            CancelDisconnect, TakeSlot, MarkClosed, Shutdown, TeardownBegins, TeardownEnds,
            DropClient, FreeTransport, appVars
    <3>2. ~ \E h \in Gens : GenSteps(h)
      BY DEF GenSteps, Consumer, ConnEnds, Consume, Forward, Retire, Mark, ConsumerEnds,
             NothingToTearDown, appVars
    <3>3. AppSteps
      BY <3>1, <3>2, NextSorted
    <3> QED BY <3>3 DEF AppSteps, PeerSends, ForwardingTakes, ForwardingSends, ForwardingEnds,
          AppLeaves, Respond, BeginRespond, BindWriter, appVars
  <2>2. /\ listening /\ stream # <<>> /\ stream' = Tail(stream) /\ UNCHANGED <<hand, queue>>
        /\ seen' = [seen EXCEPT ![Head(stream).gen] = Head(stream).n]
    BY <2>1 DEF AppTakes, queueVars, taskVars
  <2>3. Head(stream) \in Events /\ Travelling(Head(stream)) /\ Head(stream) = stream[1]
        /\ 1 \in DOMAIN stream
    BY <2>0, <2>2, TakenFromStream DEF LineTypes
  <2>4. g = Head(stream).gen /\ seen'[g] = Head(stream).n
    BY <2>0, <2>2, <2>3 DEF LineTypes
  <2>5. seen[g] < Head(stream).n
    BY <2>0, <2>3, <2>4 DEF SeenBehind
  <2>6. CASE seen[g] = -1
    <3>1. Travelling(Connected(stream[1].gen))
      BY <2>0, <2>2, <2>3, <2>4, <2>6 DEF SeenBehind
    <3>2. PICK j \in DOMAIN stream : stream[j] = Connected(stream[1].gen)
      BY <2>0, <2>3, <3>1, ConnectedIsAhead
    <3>3. CASE j = 1
      BY <2>3, <2>4, <2>6, <3>2, <3>3 DEF Connected
    <3>4. CASE j # 1
      <4>1. 1 < j
        BY <2>0, <2>3, <3>4 DEF LineTypes
      <4>2. Before(stream[1], stream[j])
        BY <2>0, <2>3, <4>1 DEF InOrder, Ordered
      <4>3. stream[1].n < 0
        BY <3>2, <4>2 DEF Before, Connected
      <4>4. Head(stream).n \in 0 .. MaxMsgs + 1 /\ MaxMsgs \in Nat
        BY <2>0, <2>3 DEF LineTypes
      <4> QED BY <2>3, <4>3, <4>4
    <3> QED BY <3>3, <3>4
  <2>7. CASE seen[g] # -1
    BY <2>0, <2>3, <2>4, <2>5, <2>7 DEF LineTypes
  <2> QED BY <2>6, <2>7
<1> QED BY <1>1, EventInvariant, PTL DEF Spec, EventsInOrder

=============================================================================
