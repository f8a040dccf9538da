-------------------------- MODULE EventPipeProofs --------------------------
(***************************************************************************)
(* Theorems about EventPipe, for every queue capacity, budget, set of      *)
(* packet sizes and number of packets.                                     *)
(*                                                                         *)
(* PipeInv is the inductive invariant.  That no packet is lost needs to    *)
(* know that the packet being delivered is younger than all accepted ones  *)
(* (Younger); that the close comes last, that nothing is queued or can be  *)
(* once it is out (NothingAfterClose), and that an intake is shut only     *)
(* after a close (ShutByClose); that the budget is conserved, that no      *)
(* packet is charged for twice: what the application holds was returned    *)
(* (HeldWereReturned), so it is neither queued nor being sent.             *)
(***************************************************************************)
EXTENDS EventPipe, FiniteSetTheorems, TLAPS

\* The packet being delivered comes after every accepted one.
Younger ==
    /\ \A k \in 1 .. Len(accepted) : accepted[k] <= packet
    /\ reader \in {"charging", "sending"} =>
          packet # 0 /\ \A k \in 1 .. Len(accepted) : accepted[k] # packet

\* The application holds only what next() returned.
HeldWereReturned == \A p \in held : \E k \in 1 .. Len(got) : got[k] = p

\* A consumer that left took the queue with it.
GoneIsEmpty == rx = "gone" => queue = <<>>

\* The consumer shuts the intake only because of a close.
ShutByClose == ~ intake => cell # "open"

\* Once the close was returned, nothing is queued and nothing can be.
NothingAfterClose ==
    Emitted => /\ rx # "polling"
               /\ rx # "gone" => queue = <<>> /\ (~ alive \/ ~ intake)
               /\ closedWith = IF cell = "open" THEN "EndedWithoutClose" ELSE cell
               /\ cell = "open" => ~ alive

\* The inductive invariant, without the budget and with it.
FlowInv ==
    /\ TypeOK
    /\ NoLossNoReorder
    /\ Younger
    /\ HeldWereReturned
    /\ GoneIsEmpty
    /\ ShutByClose
    /\ NothingAfterClose

PipeInv == FlowInv /\ BudgetConserved

-----------------------------------------------------------------------------
(* Sums over finite sets, as the budget forms them (MapThenSumSet): a sum  *)
(* takes in and gives up one element at a time, in whatever order the fold *)
(* takes the elements.  The fold is a recursive function on sets; its      *)
(* equation, and what follows from it, is proved by induction in the form  *)
(* of the least counterexample (WFMin), which speaks of sets and not of    *)
(* predicates.                                                             *)

\* The sum of f over S.
SumOf(f, S) == MapThenSumSet(LAMBDA x : f[x], S)

\* The element the fold takes next, and its equation on the subsets of S.
Pick(S) == CHOOSE x \in S : TRUE

SumsOn(f, S, h) ==
    h = [s \in SUBSET S |-> IF s = {} THEN 0 ELSE f[Pick(s)] + h[s \ {Pick(s)}]]

\* Induction over the subsets of a finite set: a family G that contains a set as soon as
\* it contains the set without any one element contains the whole set.
LEMMA SubsetInduction ==
    ASSUME NEW S, IsFiniteSet(S), NEW G,
           \A T \in SUBSET S : (\A x \in T : T \ {x} \in G) => T \in G
    PROVE  S \in G
  <1> SUFFICES ASSUME S \notin G PROVE FALSE
    OBVIOUS
  <1> DEFINE B == (SUBSET S) \ G
  <1>1. B \subseteq FiniteSubsetsOf(S) /\ B # {}
    BY FS_Subset DEF FiniteSubsetsOf
  <1>2. PICK T \in B : \A U \in B : ~ (<<U, T>> \in StrictSubsetOrdering(S))
    <2>1. IsWellFoundedOn(StrictSubsetOrdering(S), FiniteSubsetsOf(S))
      BY FS_StrictSubsetOrderingWellFounded
    <2> HIDE DEF B
    <2> QED
      BY <1>1, <2>1, WFMin
  <1>3. ASSUME NEW x \in T PROVE T \ {x} \in G
    <2>1. <<T \ {x}, T>> \in StrictSubsetOrdering(S)
      BY <1>3 DEF StrictSubsetOrdering
    <2> QED
      BY <1>2, <2>1
  <1> QED
    BY <1>2, <1>3

\* Two solutions of the equation, on a set and on a larger one, agree.
LEMMA SumsAgree ==
    ASSUME NEW S, IsFiniteSet(S), NEW T \in SUBSET S, NEW f, NEW g, NEW h,
           SumsOn(f, S, h), SumsOn(f, T, g)
    PROVE  h[T] = g[T]
  <1> DEFINE G == {s \in SUBSET T : h[s] = g[s]}
  <1>1. ASSUME NEW s \in SUBSET T, \A x \in s : s \ {x} \in G PROVE s \in G
    <2>1. /\ h[s] = IF s = {} THEN 0 ELSE f[Pick(s)] + h[s \ {Pick(s)}]
          /\ g[s] = IF s = {} THEN 0 ELSE f[Pick(s)] + g[s \ {Pick(s)}]
      BY DEF SumsOn
    <2>2. s # {} => Pick(s) \in s
      BY DEF Pick
    <2> QED
      BY <1>1, <2>1, <2>2
  <1>2. IsFiniteSet(T)
    BY FS_Subset
  <1>3. T \in G
    <2> HIDE DEF G
    <2> QED
      BY <1>1, <1>2, SubsetInduction
  <1> QED
    BY <1>3

\* The fold on a set is its equation's solution there, if there is one.
LEMMA SumIsFold ==
    ASSUME NEW S, NEW f, \E h : SumsOn(f, S, h)
    PROVE  \E h : SumsOn(f, S, h) /\ SumOf(f, S) = h[S]
  <1> DEFINE h == CHOOSE g : SumsOn(f, S, g)
  <1>1. SumsOn(f, S, h)
    OBVIOUS
  <1>2. SumOf(f, S) = h[S]
    BY DEF SumOf, MapThenSumSet, MapThenFoldSet, SumsOn, Pick
  <1> QED
    BY <1>1, <1>2

\* The equation of a sum, with the element the fold takes: the fold is well defined.
LEMMA SumUnfolds ==
    ASSUME NEW S, IsFiniteSet(S), NEW f
    PROVE  /\ S = {} => SumOf(f, S) = 0
           /\ S # {} => Pick(S) \in S /\ SumOf(f, S) = f[Pick(S)] + SumOf(f, S \ {Pick(S)})
  <1> DEFINE Eq(s) == SumOf(f, s) = IF s = {} THEN 0 ELSE f[Pick(s)] + SumOf(f, s \ {Pick(s)})
             G == {T \in SUBSET S : \A s \in SUBSET T : Eq(s)}
  <1>1. ASSUME NEW T \in SUBSET S, \A x \in T : T \ {x} \in G PROVE T \in G
    <2>1. ASSUME NEW s \in SUBSET T, s # T PROVE Eq(s)
      <3>1. PICK x \in T : s \in SUBSET (T \ {x})
        BY <2>1
      <3> HIDE DEF Eq
      <3> QED
        BY <1>1, <3>1
    <2>2. T # {} => Pick(T) \in T /\ T \ {Pick(T)} # T /\ T \ {Pick(T)} \in SUBSET T
      BY DEF Pick
    <2>3. ASSUME NEW s \in SUBSET T, s # {} PROVE s \ {Pick(s)} \in SUBSET T /\ s \ {Pick(s)} # T
      BY <2>3 DEF Pick
    <2> DEFINE k == [s \in SUBSET T |->
                       IF s = T /\ T # {} THEN f[Pick(T)] + SumOf(f, T \ {Pick(T)})
                       ELSE IF s = {} THEN 0 ELSE SumOf(f, s)]
    <2>4. SumsOn(f, T, k)
      <3> SUFFICES ASSUME NEW s \in SUBSET T
                   PROVE  k[s] = IF s = {} THEN 0 ELSE f[Pick(s)] + k[s \ {Pick(s)}]
        BY DEF SumsOn
      <3>1. CASE s = {}
        BY <3>1
      <3>2. CASE s # {}
        <4>1. s \ {Pick(s)} \in SUBSET T /\ s \ {Pick(s)} # T
          BY <2>3, <3>2
        <4>2. k[s \ {Pick(s)}] = SumOf(f, s \ {Pick(s)})
          BY <2>1, <4>1
        <4> QED
          BY <2>1, <3>2, <4>2
      <3> QED
        BY <3>1, <3>2
    <2> HIDE DEF k
    <2>5. PICK h : SumsOn(f, T, h) /\ SumOf(f, T) = h[T]
      BY <2>4, SumIsFold
    <2>6. h[T] = k[T]
      BY <2>4, <2>5, SumsAgree, FS_Subset
    <2>7. Eq(T)
      BY <2>2, <2>5, <2>6 DEF k
    <2> HIDE DEF Eq
    <2> QED
      BY <2>1, <2>7
  <1>2. S \in G
    <2> HIDE DEF G
    <2> QED
      BY <1>1, SubsetInduction
  <1> QED
    BY <1>2 DEF Pick

\* A sum of integers is an integer, of naturals a natural.
LEMMA SumType ==
    ASSUME NEW S, IsFiniteSet(S), NEW f, NEW N, N = Nat \/ N = Int, \A x \in S : f[x] \in N
    PROVE  SumOf(f, S) \in N
  <1> DEFINE G == {s \in SUBSET S : SumOf(f, s) \in N}
  <1>1. ASSUME NEW s \in SUBSET S, \A x \in s : s \ {x} \in G PROVE s \in G
    <2>1. IsFiniteSet(s)
      BY FS_Subset
    <2>2. CASE s = {}
      BY <2>1, <2>2, SumUnfolds
    <2>3. CASE s # {}
      <3>1. Pick(s) \in s /\ SumOf(f, s) = f[Pick(s)] + SumOf(f, s \ {Pick(s)})
        BY <2>1, <2>3, SumUnfolds
      <3>2. SumOf(f, s \ {Pick(s)}) \in N /\ f[Pick(s)] \in N
        BY <1>1, <3>1
      <3> QED
        BY <3>1, <3>2
    <2> QED
      BY <2>2, <2>3
  <1>2. S \in G
    <2> HIDE DEF G
    <2> QED
      BY <1>1, SubsetInduction
  <1> QED
    BY <1>2

\* Any element may be taken out first.
LEMMA SumTakesOut ==
    ASSUME NEW S, IsFiniteSet(S), NEW f, \A x \in S : f[x] \in Int, NEW e \in S
    PROVE  SumOf(f, S) = f[e] + SumOf(f, S \ {e})
  <1> DEFINE G == {s \in SUBSET S : \A x \in s : SumOf(f, s) = f[x] + SumOf(f, s \ {x})}
  <1>1. ASSUME NEW s \in SUBSET S, \A x \in s : s \ {x} \in G PROVE s \in G
    <2> SUFFICES ASSUME NEW x \in s PROVE SumOf(f, s) = f[x] + SumOf(f, s \ {x})
      OBVIOUS
    <2> DEFINE c == Pick(s)
    <2>1. IsFiniteSet(s)
      BY FS_Subset
    <2>2. c \in s /\ SumOf(f, s) = f[c] + SumOf(f, s \ {c})
      BY <2>1, SumUnfolds
    <2> HIDE DEF c
    <2>3. CASE x = c
      BY <2>2, <2>3
    <2>4. CASE x # c
      <3>1. SumOf(f, s \ {c}) = f[x] + SumOf(f, (s \ {c}) \ {x})
        BY <1>1, <2>2, <2>4
      <3>2. SumOf(f, s \ {x}) = f[c] + SumOf(f, (s \ {x}) \ {c})
        BY <1>1, <2>2, <2>4
      <3>3. SumOf(f, (s \ {c}) \ {x}) = SumOf(f, (s \ {x}) \ {c})
        <4>1. (s \ {c}) \ {x} = (s \ {x}) \ {c}
          OBVIOUS
        <4> QED
          BY <4>1, Zenon
      <3>4. SumOf(f, (s \ {c}) \ {x}) \in Int
        <4>1. IsFiniteSet((s \ {c}) \ {x})
          BY <2>1, FS_RemoveElement
        <4> QED
          BY <4>1, SumType
      <3>5. f[x] \in Int /\ f[c] \in Int
        BY <2>2
      <3> QED
        BY <2>2, <3>1, <3>2, <3>3, <3>4, <3>5
    <2> QED
      BY <2>3, <2>4
  <1>2. S \in G
    <2> HIDE DEF G
    <2> QED
      BY <1>1, SubsetInduction
  <1> QED
    BY <1>2

\* A sum takes in one more element.
LEMMA SumTakesIn ==
    ASSUME NEW S, IsFiniteSet(S), NEW f, NEW e, e \notin S, f[e] \in Int,
           \A x \in S : f[x] \in Int
    PROVE  SumOf(f, S \cup {e}) = SumOf(f, S) + f[e]
  <1>1. IsFiniteSet(S \cup {e})
    BY FS_AddElement
  <1>2. \A x \in S \cup {e} : f[x] \in Int
    OBVIOUS
  <1>3. SumOf(f, S \cup {e}) = f[e] + SumOf(f, (S \cup {e}) \ {e})
    BY <1>1, <1>2, SumTakesOut
  <1>4. SumOf(f, (S \cup {e}) \ {e}) = SumOf(f, S)
    <2>1. (S \cup {e}) \ {e} = S
      OBVIOUS
    <2> QED
      BY <2>1, Zenon
  <1>5. SumOf(f, S) \in Int
    BY SumType
  <1> QED
    BY <1>3, <1>4, <1>5

\* The sum over two disjoint sets is the sum of their sums.
LEMMA SumOfUnion ==
    ASSUME NEW S, IsFiniteSet(S), NEW T, IsFiniteSet(T), S \cap T = {}, NEW f,
           \A x \in S \cup T : f[x] \in Int
    PROVE  SumOf(f, S \cup T) = SumOf(f, S) + SumOf(f, T)
  <1> DEFINE G == {t \in SUBSET T : SumOf(f, S \cup t) = SumOf(f, S) + SumOf(f, t)}
  <1>0. SumOf(f, S) \in Int
    BY SumType
  <1>1. ASSUME NEW t \in SUBSET T, \A x \in t : t \ {x} \in G PROVE t \in G
    <2>1. IsFiniteSet(t)
      BY FS_Subset
    <2>2. CASE t = {}
      <3>1. SumOf(f, t) = 0
        BY <2>1, <2>2, SumUnfolds
      <3>2. SumOf(f, S \cup t) = SumOf(f, S)
        <4>1. S \cup t = S
          BY <2>2
        <4> QED
          BY <4>1, Zenon
      <3> QED
        BY <1>0, <3>1, <3>2
    <2>3. CASE t # {}
      <3>1. PICK e \in t : TRUE
        BY <2>3
      <3>2. IsFiniteSet(S \cup t) /\ IsFiniteSet(t \ {e})
        BY <2>1, FS_Union, FS_RemoveElement
      <3>3. SumOf(f, S \cup t) = f[e] + SumOf(f, (S \cup t) \ {e})
        BY <3>2, SumTakesOut
      <3>4. SumOf(f, t) = f[e] + SumOf(f, t \ {e})
        BY <2>1, SumTakesOut
      <3>5. SumOf(f, (S \cup t) \ {e}) = SumOf(f, S \cup (t \ {e}))
        <4>1. (S \cup t) \ {e} = S \cup (t \ {e})
          OBVIOUS
        <4> QED
          BY <4>1, Zenon
      <3>6. SumOf(f, S \cup (t \ {e})) = SumOf(f, S) + SumOf(f, t \ {e})
        BY <1>1
      <3>7. SumOf(f, t \ {e}) \in Int /\ f[e] \in Int
        BY <3>2, SumType
      <3> QED
        BY <1>0, <3>3, <3>4, <3>5, <3>6, <3>7
    <2> QED
      BY <2>2, <2>3
  <1>2. T \in G
    <2> HIDE DEF G
    <2> QED
      BY <1>1, SubsetInduction
  <1> QED
    BY <1>2

\* A sum depends on nothing but the elements of its set.
LEMMA SumSame ==
    ASSUME NEW S, IsFiniteSet(S), NEW f, NEW g, \A x \in S : f[x] = g[x]
    PROVE  SumOf(f, S) = SumOf(g, S)
  <1> DEFINE G == {s \in SUBSET S : SumOf(f, s) = SumOf(g, s)}
  <1>1. ASSUME NEW s \in SUBSET S, \A x \in s : s \ {x} \in G PROVE s \in G
    <2>1. IsFiniteSet(s)
      BY FS_Subset
    <2> QED
      BY <1>1, <2>1, SumUnfolds
  <1>2. S \in G
    <2> HIDE DEF G
    <2> QED
      BY <1>1, SubsetInduction
  <1> QED
    BY <1>2

-----------------------------------------------------------------------------
(* What the invariant says of the sets that are charged for.               *)

\* The permits of a packet are a number of bytes.
LEMMA SizesAreBytes ==
    ASSUME TypeOK
    PROVE  \A p \in Packets : size[p] \in Nat
<1>1. size \in [Packets -> Sizes \cup {0}]
  BY DEF TypeOK
<1>2. Sizes \cup {0} \in SUBSET Nat
  BY PipeAssumption
<1> QED
  BY <1>1, <1>2

\* Packets form a finite set.
LEMMA PacketsFinite ==
    ASSUME NEW S \in SUBSET Packets
    PROVE  IsFiniteSet(S)
<1>1. IsFiniteSet(1 .. MaxPackets)
  BY PipeAssumption, FS_Interval
<1> QED
  BY <1>1, FS_Subset DEF Packets

\* Bytes is such a sum.
LEMMA BytesIsSum ==
    ASSUME NEW S
    PROVE  Bytes(S) = SumOf(size, S)
BY Zenon DEF Bytes, SumOf

\* Also in the next state.
LEMMA ChargedBytesNext == (Bytes(Charged) = SumOf(size, Charged))'
<1>1. Bytes(Charged) = SumOf(size, Charged)
  BY BytesIsSum
<1> QED
  BY <1>1, PTL

\* A packet is queued, held or being sent, and in only one of these ways; all of them
\* have been read.
LEMMA ChargedOnce ==
    ASSUME FlowInv
    PROVE  /\ Queued \in SUBSET (1 .. packet)
           /\ held \in SUBSET (1 .. packet)
           /\ Charged \in SUBSET (1 .. packet)
           /\ 1 .. packet \in SUBSET Packets
           /\ Queued \cap held = {}
           /\ reader \in {"charging", "sending"} =>
                 packet \in Packets /\ packet \notin Queued \cup held
<1> USE PipeAssumption DEF FlowInv
<1>1. 1 .. packet \in SUBSET Packets /\ packet \in Nat
  BY DEF TypeOK, Packets
<1>2. \A k \in 1 .. Len(accepted) : accepted[k] \in 1 .. packet
  <2> SUFFICES ASSUME NEW k \in 1 .. Len(accepted)
               PROVE  accepted[k] \in 1 .. packet
    OBVIOUS
  <2>1. accepted[k] \in Packets
    BY DEF TypeOK
  <2> QED
    BY <2>1, <1>1 DEF Younger, Packets
<1>3. \A p \in Queued : \E k \in Len(got) + 1 .. Len(accepted) : p = accepted[k]
  <2>1. CASE rx = "gone"
    <3>1. queue = <<>>
      BY <2>1 DEF GoneIsEmpty
    <3>2. Queued = {}
      BY <3>1 DEF Queued
    <3> QED
      BY <3>2
  <2>2. CASE rx # "gone"
    <3>1. Queued = {accepted[k] : k \in Len(got) + 1 .. Len(accepted)}
      BY <2>2 DEF NoLossNoReorder
    <3> QED
      BY <3>1
  <2> QED
    BY <2>1, <2>2
<1>4. \A p \in held : \E k \in 1 .. Len(got) : p = accepted[k] /\ k <= Len(accepted)
  BY DEF HeldWereReturned, NoLossNoReorder, TypeOK
<1>5. Len(got) \in Nat /\ Len(accepted) \in Nat
  BY DEF TypeOK
<1>6. Queued \in SUBSET (1 .. packet) /\ held \in SUBSET (1 .. packet)
  BY <1>2, <1>3, <1>4, <1>5
<1>7. Queued \cap held = {}
  <2> SUFFICES ASSUME NEW p \in Queued, p \in held
               PROVE  FALSE
    OBVIOUS
  <2>1. PICK k \in Len(got) + 1 .. Len(accepted) : p = accepted[k]
    BY <1>3
  <2>2. PICK m \in 1 .. Len(got) : p = accepted[m] /\ m <= Len(accepted)
    BY <1>4
  <2>3. k \in 1 .. Len(accepted) /\ m \in 1 .. Len(accepted) /\ m < k
    BY <2>1, <2>2, <1>5
  <2>4. p # Diag /\ p \in Int
    BY <1>6, <1>1 DEF Diag
  <2>5. accepted[m] < accepted[k]
    BY <2>1, <2>2, <2>3, <2>4 DEF NoLossNoReorder, InWireOrder
  <2> QED
    BY <2>1, <2>2, <2>4, <2>5
<1>8. ASSUME reader \in {"charging", "sending"}
      PROVE  packet \in 1 .. packet /\ packet \notin Queued \cup held
  <2>1. packet \in 1 .. packet
    BY <1>1, <1>8 DEF Younger
  <2>2. packet \notin Queued
    BY <1>3, <1>5, <1>8 DEF Younger
  <2>3. packet \notin held
    BY <1>4, <1>5, <1>8 DEF Younger
  <2> QED
    BY <2>1, <2>2, <2>3
<1> QED
  BY <1>1, <1>6, <1>7, <1>8 DEF Charged

\* Sending adds an event to what is queued.
LEMMA QueuedAfterSend ==
    ASSUME TypeOK, NEW e, queue' = Append(queue, e)
    PROVE  Queued' = (Queued \cup {e}) \ {Diag}
<1>1. /\ Len(queue') = Len(queue) + 1 /\ Len(queue) \in Nat
      /\ \A i \in 1 .. Len(queue) : queue'[i] = queue[i]
      /\ queue'[Len(queue) + 1] = e
  BY DEF TypeOK
<1> QED
  BY <1>1 DEF Queued

\* Receiving takes the head off what is queued.
LEMMA QueuedAfterRecv ==
    ASSUME TypeOK, queue # <<>>, queue' = Tail(queue)
    PROVE  /\ Queued' \in SUBSET Queued
           /\ Queued \in SUBSET (Queued' \cup {Head(queue)})
           /\ Head(queue) # Diag => Head(queue) \in Queued
<1>1. /\ Len(queue) \in Nat \ {0} /\ Len(queue') = Len(queue) - 1
      /\ \A i \in 1 .. Len(queue') : queue'[i] = queue[i + 1]
      /\ Head(queue) = queue[1]
  BY DEF TypeOK
<1>2. \A i \in 1 .. Len(queue) : i # 1 => i - 1 \in 1 .. Len(queue') /\ queue[i] = queue'[i - 1]
  BY <1>1
<1>3. \A i \in 1 .. Len(queue') : i + 1 \in 1 .. Len(queue)
  BY <1>1
<1>4. ASSUME NEW e \in Queued'
      PROVE  e \in Queued
  <2>1. PICK i \in 1 .. Len(queue') : queue'[i] = e
    BY DEF Queued
  <2> QED
    BY <2>1, <1>1, <1>3 DEF Queued
<1>5. ASSUME NEW e \in Queued, e # Head(queue)
      PROVE  e \in Queued'
  <2>1. PICK i \in 1 .. Len(queue) : queue[i] = e
    BY DEF Queued
  <2>2. i # 1
    BY <2>1, <1>1, <1>5
  <2> QED
    BY <2>1, <2>2, <1>2, <1>5 DEF Queued
<1>6. Head(queue) # Diag => Head(queue) \in Queued
  BY <1>1 DEF Queued
<1> QED
  BY <1>4, <1>5, <1>6

-----------------------------------------------------------------------------
(* The budget.                                                             *)

\* A step that moves as many bytes out of Charged as it frees keeps the budget.
LEMMA BudgetKept ==
    ASSUME PipeAssumption, Charged' \in SUBSET Packets,
           \A p \in Charged' : size'[p] \in Nat,
           avail' \in Nat, avail' + SumOf(size', Charged') = Budget
    PROVE  BudgetConserved' /\ avail' \in 0 .. Budget
<1>1. IsFiniteSet(Charged')
  BY PacketsFinite
<1>2. SumOf(size', Charged') \in Nat
  BY <1>1, SumType
<1>3. Bytes(Charged)' = SumOf(size', Charged')
  BY ChargedBytesNext
<1> QED
  BY <1>2, <1>3 DEF BudgetConserved

\* Permits leave the budget only with a packet and come back only with it.
LEMMA BudgetStep ==
    ASSUME PipeInv, [Next]_vars
    PROVE  BudgetConserved' /\ avail' \in 0 .. Budget
<1> USE PipeAssumption
<1> DEFINE C == Charged
<1>1. FlowInv /\ TypeOK
  BY DEF PipeInv, FlowInv
<1>2. /\ Queued \in SUBSET (1 .. packet) /\ held \in SUBSET (1 .. packet)
      /\ C \in SUBSET (1 .. packet) /\ 1 .. packet \in SUBSET Packets
      /\ Queued \cap held = {}
      /\ reader \in {"charging", "sending"} =>
            packet \in Packets /\ packet \notin Queued \cup held
  BY <1>1, ChargedOnce
<1>3. C \in SUBSET Packets /\ Queued \in SUBSET Packets
  BY <1>2
<1>4. \A p \in Packets : size[p] \in Nat
  BY <1>1, SizesAreBytes
<1>5. IsFiniteSet(C) /\ IsFiniteSet(Queued)
  BY <1>3, PacketsFinite
<1>6. SumOf(size, C) \in Nat
  BY <1>3, <1>4, <1>5, SumType
<1>7. avail + SumOf(size, C) = Budget
  BY BytesIsSum DEF PipeInv, BudgetConserved
<1>8. avail \in Nat /\ Budget \in Nat
  BY <1>1 DEF TypeOK
<1>9. C = Queued \cup held \cup (IF reader = "sending" THEN {packet} ELSE {})
  BY DEF Charged
\* What the steps that neither charge nor free have in common.
<1>10. ASSUME Charged' = C, avail' = avail, \A p \in C : size'[p] = size[p]
       PROVE  BudgetConserved' /\ avail' \in 0 .. Budget
  <2>1. SumOf(size', C) = SumOf(size, C)
    <3> HIDE DEF C
    <3> QED
      BY <1>5, <1>10, SumSame
  <2>2. SumOf(size', Charged') = SumOf(size, C)
    BY <2>1, <1>10, Zenon
  <2>3. Charged' \in SUBSET Packets /\ \A p \in Charged' : size'[p] \in Nat
    BY <1>3, <1>4, <1>10
  <2> QED
    BY <2>2, <2>3, <1>7, <1>8, <1>10, BudgetKept
\* And those that let go of one packet.
<1>11. ASSUME NEW e \in C, Charged' = C \ {e}, avail' = avail + size[e], size' = size
       PROVE  BudgetConserved' /\ avail' \in 0 .. Budget
  <2>1. SumOf(size, C) = size[e] + SumOf(size, C \ {e})
    <3> HIDE DEF C
    <3> QED
      BY <1>3, <1>4, <1>5, <1>11, SumTakesOut
  <2>2. SumOf(size', Charged') = SumOf(size, C \ {e})
    BY <1>11, Zenon
  <2>3. Charged' \in SUBSET Packets /\ \A p \in Charged' : size'[p] \in Nat
    BY <1>3, <1>4, <1>11
  <2>4. IsFiniteSet(C \ {e})
    BY <1>5, FS_Subset
  <2>5. SumOf(size, C \ {e}) \in Nat
    BY <2>4, <1>3, <1>4, SumType
  <2>6. size[e] \in Nat
    BY <1>3, <1>4
  <2> QED
    BY <2>1, <2>2, <2>3, <2>5, <2>6, <1>7, <1>8, <1>11, BudgetKept
<1> HIDE DEF C
<1>12. CASE \E n \in Sizes : Deliver(n)
  <2>1. Charged' = C
    BY <1>12, <1>9 DEF Deliver, Charged, Queued, consumerVars
  <2>2. \A p \in C : size'[p] = size[p]
    BY <1>12, <1>1, <1>2 DEF Deliver, TypeOK
  <2> QED
    BY <2>1, <2>2, <1>10, <1>12 DEF Deliver
<1>13. CASE DeliverUndecodable
  BY <1>13, <1>9, <1>10 DEF DeliverUndecodable, Charged, Queued, consumerVars
<1>14. CASE Charge
  <2>1. CASE avail' = avail /\ reader' = "stopped"
    BY <2>1, <1>14, <1>9, <1>10 DEF Charge, Charged, Queued, consumerVars
  <2>2. CASE size[packet] <= avail /\ avail' = avail - size[packet] /\ reader' = "sending"
    <3>1. Charged' = C \cup {packet} /\ packet \notin C
      BY <2>2, <1>14, <1>9, <1>2 DEF Charge, Charged, Queued, consumerVars
    <3>2. size' = size /\ packet \in Packets /\ size[packet] \in Nat
      BY <1>14, <1>2, <1>4 DEF Charge
    <3>3. SumOf(size, C \cup {packet}) = SumOf(size, C) + size[packet]
      <4>1. \A p \in C : size[p] \in Int
        BY <1>3, <1>4
      <4>2. size[packet] \in Int
        BY <3>2
      <4> QED
        BY <3>1, <4>1, <4>2, <1>5, SumTakesIn
    <3>4. SumOf(size', Charged') = SumOf(size, C \cup {packet})
      BY <3>1, <3>2, Zenon
    <3>5. Charged' \in SUBSET Packets /\ \A p \in Charged' : size'[p] \in Nat
      BY <3>1, <3>2, <1>3, <1>4
    <3> QED
      BY <3>2, <3>3, <3>4, <3>5, <2>2, <1>6, <1>7, <1>8, BudgetKept
  <2> QED
    BY <2>1, <2>2, <1>14 DEF Charge
<1>15. CASE Send
  <2>1. Queued' = Queued \cup {packet}
    BY <1>15, <1>1, <1>2, QueuedAfterSend DEF Send, Packets, Diag
  <2> QED
    BY <2>1, <1>15, <1>9, <1>10 DEF Send, Charged, consumerVars
<1>16. CASE (DeliverRefused \/ AdapterEnds)
  <2>0. /\ reader' = "stopped" /\ size' = size /\ Queued' = Queued /\ held' = held
        /\ avail' = avail + (IF reader = "sending" THEN size[packet] ELSE 0)
    BY <1>16 DEF DeliverRefused, AdapterEnds, Refund, Queued, consumerVars
  <2>1. CASE reader = "sending"
    <3>1. packet \in C /\ Charged' = C \ {packet}
      BY <2>0, <2>1, <1>9, <1>2 DEF Charged
    <3> QED
      BY <3>1, <2>0, <2>1, <1>11
  <2>2. CASE reader # "sending"
    BY <2>2, <2>0, <1>8, <1>9, <1>10 DEF Charged
  <2> QED
    BY <2>1, <2>2
<1>17. CASE Diagnostic
  <2>1. Queued' = Queued
    BY <1>17, <1>1, QueuedAfterSend DEF Diagnostic, Queued
  <2> QED
    BY <2>1, <1>17, <1>9, <1>10 DEF Diagnostic, Charged, readerVars, consumerVars
<1>18. CASE \E r \in Reasons : Close(r)
  BY <1>18, <1>9, <1>10 DEF Close, Charged, Queued, readerVars, consumerVars
<1>19. CASE NextEnters \/ CloseWakes \/ EmitClose \/ UNCHANGED vars
  BY <1>19, <1>9, <1>10
  DEF NextEnters, CloseWakes, EmitClose, vars, Charged, Queued, readerVars, consumerVars
<1>20. CASE Recv
  <2>1. Queued' \cup held' = Queued \cup held
    <3>1. CASE Head(queue) = Diag
      BY <3>1, <1>20, <1>1, QueuedAfterRecv DEF Recv, Queued
    <3>2. CASE Head(queue) # Diag
      BY <3>2, <1>20, <1>1, QueuedAfterRecv DEF Recv
    <3> QED
      BY <3>1, <3>2
  <2> QED
    BY <2>1, <1>20, <1>9, <1>10 DEF Recv, Charged, readerVars
<1>21. CASE \E p \in Packets : Release(p)
  <2>1. PICK p \in Packets : Release(p)
    BY <1>21
  <2>2. p \in C /\ Charged' = C \ {p}
    BY <2>1, <1>9, <1>2 DEF Release, Charged, Queued, readerVars
  <2> QED
    BY <2>1, <2>2, <1>11 DEF Release, readerVars
<1>22. CASE ConsumerGone
  <2> DEFINE R == held \cup (IF reader = "sending" THEN {packet} ELSE {})
  <2>1. Charged' = R
    BY <1>22 DEF ConsumerGone, Charged, Queued, readerVars
  <2>2. C = Queued \cup R /\ Queued \cap R = {}
    BY <1>9, <1>2
  <2>3. IsFiniteSet(R) /\ R \in SUBSET Packets
    BY <2>2, <1>3, <1>5, FS_Subset
  <2> HIDE DEF R
  <2>4. SumOf(size, Queued \cup R) = SumOf(size, Queued) + SumOf(size, R)
    BY <2>2, <2>3, <1>3, <1>4, <1>5, SumOfUnion
  <2>5. SumOf(size, C) = SumOf(size, Queued) + SumOf(size, R)
    BY <2>2, <2>4, Zenon
  <2>6. SumOf(size, Queued) \in Nat /\ SumOf(size, R) \in Nat
    BY <2>3, <1>3, <1>4, <1>5, SumType
  <2>7. size' = size /\ avail' = avail + SumOf(size, Queued)
    BY <1>22, BytesIsSum DEF ConsumerGone, readerVars
  <2>8. SumOf(size', Charged') = SumOf(size, R)
    BY <2>1, <2>7, Zenon
  <2>9. Charged' \in SUBSET Packets /\ \A p \in Charged' : size'[p] \in Nat
    BY <2>1, <2>3, <2>7, <1>4
  <2> QED
    BY <2>5, <2>6, <2>7, <2>8, <2>9, <1>7, <1>8, BudgetKept
<1> QED
  BY <1>12, <1>13, <1>14, <1>15, <1>16, <1>17, <1>18, <1>19, <1>20, <1>21, <1>22
  DEF Next, Reader, Consumer

-----------------------------------------------------------------------------
(* The flow of packets.                                                    *)

\* Steps after which the same packets are queued, accepted, returned and held.
LEMMA FlowKept ==
    ASSUME FlowInv, queue' = queue, accepted' = accepted, got' = got,
           held' \in SUBSET held, packet' \in Int, packet <= packet',
           reader' \in {"charging", "sending"} =>
              \/ reader \in {"charging", "sending"} /\ packet' = packet
              \/ packet < packet',
           rx' = "gone" <=> rx = "gone"
    PROVE  NoLossNoReorder' /\ Younger' /\ HeldWereReturned' /\ GoneIsEmpty'
<1>1. packet \in Nat /\ \A k \in 1 .. Len(accepted) : accepted[k] \in Nat
  BY PipeAssumption DEF FlowInv, TypeOK, Packets
<1>2. NoLossNoReorder'
  <2>1. Queued' = Queued
    BY DEF Queued
  <2>2. InWireOrder(accepted') /\ InWireOrder(queue')
    BY DEF FlowInv, NoLossNoReorder
  <2> QED
    BY <2>1, <2>2 DEF FlowInv, NoLossNoReorder
<1>3. Younger'
  <2>1. \A k \in 1 .. Len(accepted) : accepted[k] <= packet'
    BY <1>1 DEF FlowInv, Younger
  <2>2. ASSUME reader' \in {"charging", "sending"}
        PROVE  packet' # 0 /\ \A k \in 1 .. Len(accepted) : accepted[k] # packet'
    BY <1>1, <2>2 DEF FlowInv, Younger
  <2> QED
    BY <2>1, <2>2 DEF Younger
<1>4. HeldWereReturned'
  BY DEF FlowInv, HeldWereReturned
<1>5. GoneIsEmpty'
  BY DEF FlowInv, GoneIsEmpty
<1> QED
  BY <1>2, <1>3, <1>4, <1>5

\* A sequence stays in wire order when something younger, or a diagnostic, is appended.
LEMMA OrderAfterAppend ==
    ASSUME NEW s, NEW t, NEW x, InWireOrder(s), Len(s) \in Nat, Len(t) = Len(s) + 1,
           \A k \in 1 .. Len(s) : t[k] = s[k], t[Len(s) + 1] = x,
           x # Diag => \A k \in 1 .. Len(s) : s[k] # Diag => s[k] < x
    PROVE  InWireOrder(t)
<1> SUFFICES ASSUME NEW i \in 1 .. Len(t), NEW j \in 1 .. Len(t),
                    i < j, t[i] # Diag, t[j] # Diag
             PROVE  t[i] < t[j]
  BY DEF InWireOrder
<1>1. i \in 1 .. Len(s) /\ (j \in 1 .. Len(s) \/ j = Len(s) + 1)
  OBVIOUS
<1>2. t[i] = s[i]
  BY <1>1
<1>3. CASE j \in 1 .. Len(s)
  BY <1>1, <1>2, <1>3 DEF InWireOrder
<1>4. CASE j = Len(s) + 1
  BY <1>1, <1>2, <1>4
<1> QED
  BY <1>1, <1>3, <1>4

\* Send: the packet becomes the youngest accepted one, at the end of the queue.
LEMMA FlowAfterSend ==
    ASSUME FlowInv, Send
    PROVE  NoLossNoReorder' /\ Younger' /\ HeldWereReturned' /\ GoneIsEmpty'
<1> USE PipeAssumption
<1>1. TypeOK /\ queue' = Append(queue, packet) /\ accepted' = Append(accepted, packet)
      /\ got' = got /\ held' = held /\ packet' = packet /\ rx' = rx /\ rx # "gone"
      /\ reader' = "reading" /\ reader = "sending"
  BY DEF FlowInv, Send, consumerVars
<1>2. packet \in Packets /\ packet \in Nat \ {0} /\ Queued \in SUBSET (1 .. packet)
      /\ packet \notin Queued
  BY <1>1, ChargedOnce DEF Packets
<1>3. \A k \in 1 .. Len(accepted) : accepted[k] \in Packets /\ accepted[k] < packet
  <2>1. \A k \in 1 .. Len(accepted) : accepted[k] \in Packets /\ accepted[k] \in Int
    BY <1>1 DEF TypeOK, Packets
  <2>2. \A k \in 1 .. Len(accepted) : accepted[k] <= packet /\ accepted[k] # packet
    BY <1>1 DEF FlowInv, Younger
  <2> QED
    BY <2>1, <2>2, <1>2
<1>4. /\ Len(accepted') = Len(accepted) + 1 /\ Len(accepted) \in Nat
      /\ \A k \in 1 .. Len(accepted) : accepted'[k] = accepted[k]
      /\ accepted'[Len(accepted) + 1] = packet
  BY <1>1 DEF TypeOK
<1>5. /\ Len(queue') = Len(queue) + 1 /\ Len(queue) \in Nat
      /\ \A k \in 1 .. Len(queue) : queue'[k] = queue[k]
      /\ queue'[Len(queue) + 1] = packet
  BY <1>1 DEF TypeOK
<1>6. InWireOrder(accepted')
  <2>1. InWireOrder(accepted)
    BY DEF FlowInv, NoLossNoReorder
  <2> QED
    BY <2>1, <1>3, <1>4, OrderAfterAppend
<1>7. InWireOrder(queue')
  <2>1. \A k \in 1 .. Len(queue) : queue[k] # Diag => queue[k] < packet
    <3> SUFFICES ASSUME NEW k \in 1 .. Len(queue), queue[k] # Diag
                 PROVE  queue[k] < packet
      OBVIOUS
    <3>1. queue[k] \in Queued
      BY DEF Queued
    <3>2. queue[k] \in 1 .. packet /\ queue[k] # packet
      BY <3>1, <1>2
    <3> QED
      BY <3>2, <1>2
  <2>2. InWireOrder(queue)
    BY DEF FlowInv, NoLossNoReorder
  <2> QED
    BY <2>1, <2>2, <1>5, OrderAfterAppend
<1>8. Len(got) \in Nat /\ Len(got) <= Len(accepted)
  BY <1>1 DEF FlowInv, NoLossNoReorder, TypeOK
<1>9. Queued' = {accepted'[k] : k \in Len(got) + 1 .. Len(accepted')}
  <2>1. Queued' = Queued \cup {packet}
    BY <1>1, <1>2, QueuedAfterSend DEF Diag
  <2>2. Queued = {accepted[k] : k \in Len(got) + 1 .. Len(accepted)}
    BY <1>1 DEF FlowInv, NoLossNoReorder
  <2>3. \A k \in Len(got) + 1 .. Len(accepted) :
            k \in Len(got) + 1 .. Len(accepted') /\ accepted'[k] = accepted[k]
    BY <1>4, <1>8
  <2>4. Len(accepted) + 1 \in Len(got) + 1 .. Len(accepted')
    BY <1>4, <1>8
  <2>5. \A k \in Len(got) + 1 .. Len(accepted') :
            k \in Len(got) + 1 .. Len(accepted) \/ k = Len(accepted) + 1
    BY <1>4, <1>8
  <2> QED
    BY <2>1, <2>2, <2>3, <2>4, <2>5, <1>4
<1>10. NoLossNoReorder'
  <2>1. Len(got') <= Len(accepted') /\ \A k \in 1 .. Len(got') : got'[k] = accepted'[k]
    BY <1>1, <1>4, <1>8 DEF FlowInv, NoLossNoReorder
  <2> QED
    BY <2>1, <1>1, <1>6, <1>7, <1>9 DEF NoLossNoReorder
<1>11. Younger'
  <2>1. \A k \in 1 .. Len(accepted') : k = Len(accepted) + 1 \/ k \in 1 .. Len(accepted)
    BY <1>4
  <2>2. \A k \in 1 .. Len(accepted) : accepted[k] <= packet
    BY <1>1 DEF FlowInv, Younger
  <2>3. \A k \in 1 .. Len(accepted') : accepted'[k] <= packet'
    BY <2>1, <2>2, <1>1, <1>2, <1>4
  <2> QED
    BY <2>3, <1>1 DEF Younger
<1>12. HeldWereReturned'
  BY <1>1 DEF FlowInv, HeldWereReturned
<1>13. GoneIsEmpty'
  BY <1>1 DEF GoneIsEmpty
<1> QED
  BY <1>10, <1>11, <1>12, <1>13

\* Diagnostic: an event that is no packet, at the end of the queue or nowhere.
LEMMA FlowAfterDiagnostic ==
    ASSUME FlowInv, Diagnostic
    PROVE  NoLossNoReorder' /\ Younger' /\ HeldWereReturned' /\ GoneIsEmpty'
<1>1. TypeOK /\ UNCHANGED <<accepted, got, held, packet, rx, reader>>
  BY DEF FlowInv, Diagnostic, readerVars, consumerVars
<1>2. Queued' = Queued
  BY <1>1, QueuedAfterSend DEF Diagnostic, Queued
<1>3. InWireOrder(queue')
  <2>1. CASE queue' = Append(queue, Diag)
    <3>1. /\ Len(queue') = Len(queue) + 1 /\ Len(queue) \in Nat
          /\ \A k \in 1 .. Len(queue) : queue'[k] = queue[k]
          /\ queue'[Len(queue) + 1] = Diag
      BY <2>1, <1>1 DEF TypeOK
    <3>2. InWireOrder(queue)
      BY DEF FlowInv, NoLossNoReorder
    <3> QED
      BY <3>1, <3>2, OrderAfterAppend
  <2> QED
    BY <2>1 DEF Diagnostic, FlowInv, NoLossNoReorder
<1>4. NoLossNoReorder'
  BY <1>1, <1>2, <1>3 DEF FlowInv, NoLossNoReorder
<1>5. GoneIsEmpty'
  BY <1>1 DEF Diagnostic, FlowInv, GoneIsEmpty
<1> QED
  BY <1>1, <1>4, <1>5 DEF FlowInv, Younger, HeldWereReturned

\* Recv: the packet at the head of the queue is the oldest one not yet returned.
LEMMA FlowAfterRecv ==
    ASSUME FlowInv, Recv
    PROVE  NoLossNoReorder' /\ Younger' /\ HeldWereReturned' /\ GoneIsEmpty'
<1> USE PipeAssumption
<1>1. TypeOK /\ UNCHANGED <<accepted, packet, reader>> /\ queue' = Tail(queue)
      /\ queue # <<>> /\ rx = "polling" /\ rx' = "idle"
  BY DEF FlowInv, Recv, readerVars
<1>2. /\ Len(queue) \in Nat \ {0} /\ Len(queue') = Len(queue) - 1
      /\ \A i \in 1 .. Len(queue') : queue'[i] = queue[i + 1] /\ i + 1 \in 2 .. Len(queue)
      /\ Head(queue) = queue[1]
  BY <1>1 DEF TypeOK
<1>3. InWireOrder(queue) /\ InWireOrder(accepted)
  BY DEF FlowInv, NoLossNoReorder
<1>4. InWireOrder(queue')
  <2> SUFFICES ASSUME NEW i \in 1 .. Len(queue'), NEW j \in 1 .. Len(queue'),
                      i < j, queue'[i] # Diag, queue'[j] # Diag
               PROVE  queue'[i] < queue'[j]
    BY DEF InWireOrder
  <2>1. queue'[i] = queue[i + 1] /\ queue'[j] = queue[j + 1]
    BY <1>2
  <2>2. i + 1 \in 1 .. Len(queue) /\ j + 1 \in 1 .. Len(queue) /\ i + 1 < j + 1
    BY <1>2
  <2> QED
    BY <1>3, <2>1, <2>2 DEF InWireOrder
<1>5. Queued = {accepted[k] : k \in Len(got) + 1 .. Len(accepted)}
  BY <1>1 DEF FlowInv, NoLossNoReorder
<1>6. Len(got) \in Nat /\ Len(accepted) \in Nat
      /\ \A k \in 1 .. Len(accepted) : accepted[k] \in Nat \ {0}
  <2>1. got \in Seq(Packets) /\ accepted \in Seq(Packets)
    BY <1>1 DEF TypeOK
  <2>2. \A p \in Packets : p \in Nat \ {0}
    BY DEF Packets
  <2> QED
    BY <2>1, <2>2
<1>7. Younger' /\ GoneIsEmpty'
  BY <1>1 DEF FlowInv, Younger, GoneIsEmpty
<1>8. CASE Head(queue) = Diag
  <2>1. UNCHANGED <<got, held>> /\ Queued' = Queued
    BY <1>8, <1>1, QueuedAfterRecv DEF Recv, Queued
  <2> QED
    BY <2>1, <1>1, <1>4, <1>5, <1>7 DEF FlowInv, NoLossNoReorder, HeldWereReturned
<1>9. CASE Head(queue) # Diag
  <2> DEFINE p == Head(queue)
             n == Len(got) + 1
  <2>1. got' = Append(got, p) /\ held' = held \cup {p}
    BY <1>9 DEF Recv
  <2>2. p \in Queued
    BY <1>9, <1>1, QueuedAfterRecv
  <2>3. PICK k \in n .. Len(accepted) : p = accepted[k]
    BY <2>2, <1>5
  <2>4. n \in 1 .. Len(accepted) /\ k \in 1 .. Len(accepted) /\ p \in Nat \ {0}
    BY <2>3, <1>6
  <2>5. p = accepted[n]
    <3> SUFFICES ASSUME n < k
                 PROVE  FALSE
      BY <2>3, <1>6
    <3>1. accepted[n] < p /\ accepted[n] \in Nat \ {0}
      BY <2>3, <2>4, <1>3, <1>6 DEF InWireOrder, Diag
    <3>2. accepted[n] \in Queued
      BY <1>5, <2>4, <1>6
    <3>3. PICK i \in 1 .. Len(queue) : queue[i] = accepted[n]
      BY <3>2 DEF Queued
    <3>4. i # 1
      BY <3>1, <3>3, <1>2
    <3>5. queue[1] < queue[i]
      <4>1. queue[1] # Diag /\ queue[i] # Diag
        BY <3>1, <3>3, <2>4, <1>2 DEF Diag
      <4>2. 1 \in 1 .. Len(queue) /\ 1 < i
        BY <3>3, <3>4, <1>2
      <4> QED
        BY <4>1, <4>2, <1>3 DEF InWireOrder
    <3> QED
      BY <3>1, <3>3, <3>5, <2>4, <1>2
  <2>6. Queued' = Queued \ {p}
    <3>1. p \notin Queued'
      <4> SUFFICES ASSUME NEW i \in 1 .. Len(queue'), queue'[i] = p
                   PROVE  FALSE
        BY DEF Queued
      <4>1. queue[i + 1] = p /\ i + 1 \in 1 .. Len(queue) /\ 1 < i + 1 /\ 1 \in 1 .. Len(queue)
        BY <1>2
      <4>2. queue[1] < queue[i + 1]
        BY <4>1, <2>4, <1>2, <1>3 DEF InWireOrder, Diag
      <4> QED
        BY <4>1, <4>2, <2>4, <1>2
    <3> QED
      BY <3>1, <1>1, QueuedAfterRecv
  <2>7. Len(got') = n /\ got'[n] = p /\ \A j \in 1 .. Len(got) : got'[j] = got[j]
    BY <2>1, <1>1 DEF TypeOK
  <2> HIDE DEF p
  <2>8. \A j \in n + 1 .. Len(accepted) : accepted[j] # p
    <3> SUFFICES ASSUME NEW j \in n + 1 .. Len(accepted)
                 PROVE  accepted[j] # p
      OBVIOUS
    <3>1. j \in 1 .. Len(accepted) /\ n < j
      BY <1>6
    <3>2. accepted[n] < accepted[j]
      BY <3>1, <2>4, <1>3, <1>6 DEF InWireOrder, Diag
    <3> QED
      BY <3>1, <3>2, <2>5, <2>4, <1>6
  <2>9. Queued \ {p} = {accepted[j] : j \in n + 1 .. Len(accepted)}
    <3>1. \A j \in n .. Len(accepted) : j = n \/ j \in n + 1 .. Len(accepted)
      BY <1>6
    <3>2. \A j \in n + 1 .. Len(accepted) : j \in n .. Len(accepted)
      BY <1>6
    <3> QED
      BY <3>1, <3>2, <2>5, <2>8, <1>5
  <2>10. NoLossNoReorder'
    <3>1. Len(got') <= Len(accepted')
      BY <2>4, <2>7, <1>1
    <3>2. \A j \in 1 .. Len(got') : got'[j] = accepted'[j]
      <4>1. \A j \in 1 .. n : j = n \/ j \in 1 .. Len(got)
        BY <1>6
      <4>2. \A j \in 1 .. Len(got) : got[j] = accepted[j]
        BY DEF FlowInv, NoLossNoReorder
      <4> QED
        BY <4>1, <4>2, <2>5, <2>7, <1>1
    <3>3. Queued' = {accepted'[j] : j \in Len(got') + 1 .. Len(accepted')}
      BY <2>6, <2>7, <2>9, <1>1
    <3> QED
      BY <3>1, <3>2, <3>3, <1>1, <1>3, <1>4 DEF NoLossNoReorder
  <2>11. HeldWereReturned'
    <3>1. \A j \in 1 .. Len(got) : j \in 1 .. n
      BY <1>6
    <3>2. n \in 1 .. n
      BY <1>6
    <3> QED
      BY <3>1, <3>2, <2>1, <2>7 DEF FlowInv, HeldWereReturned
  <2> QED
    BY <2>10, <2>11, <1>7
<1> QED
  BY <1>8, <1>9

\* Every action keeps the packets in order and loses none.
LEMMA FlowStep ==
    ASSUME PipeInv, [Next]_vars
    PROVE  NoLossNoReorder' /\ Younger' /\ HeldWereReturned' /\ GoneIsEmpty'
<1> USE PipeAssumption
<1>1. FlowInv /\ TypeOK /\ packet \in Nat
  BY DEF PipeInv, FlowInv, TypeOK
<1>2. CASE \E n \in Sizes : Deliver(n)
  BY <1>2, <1>1, FlowKept DEF Deliver, consumerVars
<1>3. CASE DeliverUndecodable
  BY <1>3, <1>1, FlowKept DEF DeliverUndecodable, consumerVars
<1>4. CASE Charge
  BY <1>4, <1>1, FlowKept DEF Charge, consumerVars
<1>5. CASE Send
  BY <1>5, <1>1, FlowAfterSend
<1>6. CASE DeliverRefused \/ AdapterEnds
  BY <1>6, <1>1, FlowKept DEF DeliverRefused, AdapterEnds, consumerVars
<1>7. CASE Diagnostic
  BY <1>7, <1>1, FlowAfterDiagnostic
<1>8. CASE \E r \in Reasons : Close(r)
  BY <1>8, <1>1, FlowKept DEF Close, readerVars, consumerVars
<1>9. CASE NextEnters \/ CloseWakes \/ EmitClose \/ UNCHANGED vars
  BY <1>9, <1>1, FlowKept
  DEF NextEnters, CloseWakes, EmitClose, vars, readerVars, consumerVars
<1>10. CASE Recv
  BY <1>10, <1>1, FlowAfterRecv
<1>11. CASE \E p \in Packets : Release(p)
  BY <1>11, <1>1, FlowKept DEF Release, readerVars
<1>12. CASE ConsumerGone
  <2>1. UNCHANGED <<reader, packet, accepted, got, held>> /\ rx' = "gone" /\ queue' = <<>>
    BY <1>12 DEF ConsumerGone, readerVars
  <2>2. InWireOrder(queue')
    BY <2>1 DEF InWireOrder
  <2>3. NoLossNoReorder'
    BY <2>1, <2>2, <1>1 DEF FlowInv, NoLossNoReorder
  <2> QED
    BY <2>1, <2>3, <1>1 DEF FlowInv, Younger, HeldWereReturned, GoneIsEmpty
<1> QED
  BY <1>2, <1>3, <1>4, <1>5, <1>6, <1>7, <1>8, <1>9, <1>10, <1>11, <1>12
  DEF Next, Reader, Consumer

-----------------------------------------------------------------------------
(* Types and the close.                                                    *)

\* Every action keeps the types; the permits are the budget's business.
LEMMA TypesStep ==
    ASSUME PipeInv, [Next]_vars, avail' \in 0 .. Budget
    PROVE  TypeOK'
<1> USE PipeAssumption DEF Packets
<1>1. TypeOK
  BY DEF PipeInv, FlowInv
<1>2. CASE \E n \in Sizes : Deliver(n)
  BY <1>1, <1>2 DEF TypeOK, Deliver, consumerVars
<1>3. CASE DeliverUndecodable
  BY <1>1, <1>3 DEF TypeOK, DeliverUndecodable, Publish, Reasons, consumerVars
<1>4. CASE Charge
  BY <1>1, <1>4 DEF TypeOK, Charge, Publish, Reasons, consumerVars
<1>5. CASE Send
  <2>1. packet \in Packets
    BY <1>1, <1>5 DEF PipeInv, FlowInv, Younger, Send, TypeOK
  <2>2. accepted' \in Seq(Packets) /\ queue' \in Seq(Packets \cup {Diag})
    BY <2>1, <1>1, <1>5 DEF TypeOK, Send
  <2>3. Len(queue') <= Capacity
    BY <1>1, <1>5 DEF TypeOK, Send
  <2> QED
    BY <2>2, <2>3, <1>1, <1>5 DEF TypeOK, Send, consumerVars
<1>6. CASE DeliverRefused \/ AdapterEnds
  BY <1>1, <1>6 DEF TypeOK, DeliverRefused, AdapterEnds, consumerVars
<1>7. CASE Diagnostic
  <2>1. queue' \in Seq(Packets \cup {Diag}) /\ Len(queue') <= Capacity
    BY <1>1, <1>7 DEF TypeOK, Diagnostic
  <2> QED
    BY <2>1, <1>1, <1>7 DEF TypeOK, Diagnostic, readerVars, consumerVars
<1>8. CASE \E r \in Reasons : Close(r)
  BY <1>1, <1>8 DEF TypeOK, Close, Publish, readerVars, consumerVars
<1>9. CASE NextEnters \/ CloseWakes \/ UNCHANGED vars
  BY <1>1, <1>9 DEF TypeOK, NextEnters, CloseWakes, vars, readerVars, consumerVars
<1>10. CASE EmitClose
  BY <1>1, <1>10 DEF TypeOK, EmitClose, readerVars
<1>11. CASE Recv
  <2>1. /\ queue' \in Seq(Packets \cup {Diag}) /\ Len(queue') <= Capacity
        /\ Head(queue) \in Packets \cup {Diag}
    BY <1>1, <1>11 DEF TypeOK, Recv
  <2>2. got' \in Seq(Packets) /\ held' \in SUBSET Packets
    <3>1. CASE Head(queue) = Diag
      BY <3>1, <1>1, <1>11 DEF TypeOK, Recv
    <3>2. CASE Head(queue) \in Packets /\ Head(queue) # Diag
      <4>1. got' = Append(got, Head(queue)) /\ held' = held \cup {Head(queue)}
        BY <3>2, <1>11 DEF Recv
      <4>2. got \in Seq(Packets) /\ held \in SUBSET Packets
        BY <1>1 DEF TypeOK
      <4> HIDE DEF Packets
      <4> QED
        BY <3>2, <4>1, <4>2
    <3> QED
      BY <3>1, <3>2, <2>1
  <2> QED
    BY <2>1, <2>2, <1>1, <1>11 DEF TypeOK, Recv, readerVars
<1>12. CASE \E p \in Packets : Release(p)
  BY <1>1, <1>12 DEF TypeOK, Release, readerVars
<1>13. CASE ConsumerGone
  BY <1>1, <1>13 DEF TypeOK, ConsumerGone, readerVars
<1> QED
  BY <1>2, <1>3, <1>4, <1>5, <1>6, <1>7, <1>8, <1>9, <1>10, <1>11, <1>12, <1>13
  DEF Next, Reader, Consumer

\* Every action keeps what is known of a pipe that was closed or ended.
LEMMA CloseStep ==
    ASSUME PipeInv, [Next]_vars
    PROVE  ShutByClose' /\ NothingAfterClose'
<1>1. TypeOK /\ ShutByClose /\ NothingAfterClose /\ GoneIsEmpty
  BY DEF PipeInv, FlowInv
<1> USE <1>1 DEF ShutByClose, NothingAfterClose, Emitted
<1>2. CASE (\E n \in Sizes : Deliver(n)) \/ DeliverUndecodable
  BY <1>2 DEF Deliver, DeliverUndecodable, Publish, consumerVars
<1>3. CASE Charge
  BY <1>3 DEF Charge, Publish, consumerVars
<1>4. CASE Send
  BY <1>4 DEF Send, consumerVars
<1>5. CASE DeliverRefused \/ AdapterEnds
  BY <1>5 DEF DeliverRefused, AdapterEnds, consumerVars
<1>6. CASE Diagnostic
  BY <1>6 DEF Diagnostic, readerVars, consumerVars
<1>7. CASE \E r \in Reasons : Close(r)
  BY <1>7 DEF Close, Publish, readerVars, consumerVars, Reasons
<1>8. CASE NextEnters \/ CloseWakes \/ UNCHANGED vars
  BY <1>8 DEF NextEnters, CloseWakes, vars, readerVars, consumerVars, TypeOK
<1>9. CASE EmitClose
  BY <1>9 DEF EmitClose, Drained, readerVars
<1>10. CASE Recv
  BY <1>10 DEF Recv, readerVars
<1>11. CASE \E p \in Packets : Release(p)
  BY <1>11 DEF Release, readerVars
<1>12. CASE ConsumerGone
  BY <1>12 DEF ConsumerGone, readerVars
<1> QED
  BY <1>2, <1>3, <1>4, <1>5, <1>6, <1>7, <1>8, <1>9, <1>10, <1>11, <1>12
  DEF Next, Reader, Consumer

-----------------------------------------------------------------------------
(* The theorems.                                                           *)

\* PipeInv holds of an empty pipe, and every step keeps it: the adapter's tasks and the
\* consumer may interleave in any way.
THEOREM PipeInvariant == Spec => []PipeInv
<1>1. Init => PipeInv
  <2> SUFFICES ASSUME Init PROVE PipeInv
    OBVIOUS
  <2> USE PipeAssumption DEF Init
  <2>1. TypeOK
    BY DEF TypeOK, Packets, Reasons
  <2>2. Queued = {} /\ Charged = {}
    BY DEF Queued, Charged
  <2>3. BudgetConserved
    <3>1. SumOf(size, {}) = 0
      BY FS_EmptySet, SumUnfolds
    <3>2. Bytes(Charged) = SumOf(size, {})
      BY <2>2, BytesIsSum, Zenon
    <3> QED
      BY <3>1, <3>2 DEF BudgetConserved
  <2>4. NoLossNoReorder
    BY <2>2 DEF NoLossNoReorder, InWireOrder
  <2> QED
    BY <2>1, <2>3, <2>4 DEF PipeInv, FlowInv, Younger, HeldWereReturned, GoneIsEmpty,
       ShutByClose, NothingAfterClose, Emitted
<1>2. PipeInv /\ [Next]_vars => PipeInv'
  <2> SUFFICES ASSUME PipeInv, [Next]_vars PROVE PipeInv'
    OBVIOUS
  <2>1. BudgetConserved' /\ avail' \in 0 .. Budget
    BY BudgetStep
  <2>2. TypeOK'
    BY <2>1, TypesStep
  <2> QED
    BY <2>1, <2>2, FlowStep, CloseStep DEF PipeInv, FlowInv
<1> QED
  BY <1>1, <1>2, PTL DEF Spec

\* Every packet that deliver accepted is returned by next(), once and in wire order, or
\* is still queued behind those already returned.
THEOREM NothingLostOrReordered == Spec => []NoLossNoReorder
<1>1. PipeInv => NoLossNoReorder
  BY DEF PipeInv, FlowInv
<1> QED
  BY <1>1, PipeInvariant, PTL

\* ConnectionClosed comes after every accepted packet, none can be accepted once it is
\* out, and its reason is final.
THEOREM CloseComesLast == Spec => []ClosedIsLast
<1>1. PipeInv => ClosedIsLast
  <2> SUFFICES ASSUME PipeInv PROVE ClosedIsLast
    OBVIOUS
  <2>1. ASSUME Emitted, rx # "gone"
        PROVE  got = accepted
    <3>1. queue = <<>> /\ Queued = {accepted[k] : k \in Len(got) + 1 .. Len(accepted)}
      BY <2>1 DEF PipeInv, FlowInv, NothingAfterClose, NoLossNoReorder
    <3>2. Queued = {}
      BY <3>1 DEF Queued
    <3>3. got \in Seq(Packets) /\ accepted \in Seq(Packets) /\ Len(got) <= Len(accepted)
          /\ \A k \in 1 .. Len(got) : got[k] = accepted[k]
      BY DEF PipeInv, FlowInv, TypeOK, NoLossNoReorder
    <3>4. Len(got) = Len(accepted)
      <4> SUFFICES ASSUME Len(got) < Len(accepted) PROVE FALSE
        BY <3>3
      <4>1. Len(accepted) \in Len(got) + 1 .. Len(accepted)
        BY <3>3
      <4> QED
        BY <4>1, <3>1, <3>2
    <3> QED
      BY <3>3, <3>4
  <2> QED
    BY <2>1 DEF ClosedIsLast, PipeInv, FlowInv, NothingAfterClose
<1> QED
  BY <1>1, PipeInvariant, PTL

\* No permit of the byte budget is ever lost or made up, whichever way a packet leaves.
THEOREM BudgetIsConserved == Spec => []BudgetConserved
<1>1. PipeInv => BudgetConserved
  BY DEF PipeInv
<1> QED
  BY <1>1, PipeInvariant, PTL

=============================================================================
