--------------------------- MODULE FramingProofs ---------------------------
(***************************************************************************)
(* Theorems about Framing, for any limits, packets and bytes, and any cut  *)
(* of the stream into reads: what was sent is what is delivered, the cut   *)
(* does not matter, and the reader waits with less than a frame.           *)
(*                                                                         *)
(* FramingInv is the inductive invariant.  As long as packets are missing, *)
(* the parser stands where the frame of the next one starts (AtTheNext);   *)
(* what was delivered and what a decoder of the whole stream makes of the  *)
(* rest is what it makes of the stream (RestAgrees); the reader waits only *)
(* when the layout of the front asks for more (WaitsForMore).              *)
(***************************************************************************)
EXTENDS Framing, SequenceTheorems, WellFoundedInduction, TLAPS

\* The packets the receiver makes.
Delivered == [ext : Nat, raw : Nat, bytes : Seq(Bytes)]

\* FlattenSeq: the messages up to the k-th one after another, as a recursive function,
\* and the offset at which the k-th one ends.
FlatOn(ss, n, f) == f = [i \in 1 .. n |-> IF i = 1 THEN ss[i] ELSE f[i - 1] \o ss[i]]
Flat(ss) == CHOOSE f : FlatOn(ss, Len(ss), f)
EndOf(ss, k) == IF k = 0 THEN 0 ELSE Len(Flat(ss)[k])

\* What the peer wrote: the frames of the packets it could encode, and at most one
\* message more.
GivenTyped ==
    /\ proto \in Protocols
    /\ policy \in Policies
    /\ Written(sent) \in Seq({p \in Outgoing : Encodable(p)})
    /\ messages \in Seq(Seq(Bytes))
    /\ stream = FlattenSeq(messages)
    /\ Len(Written(sent)) <= Len(messages)
    /\ \A i \in 1 .. Len(Written(sent)) : messages[i] = Encode(Written(sent)[i])

CursorTyped ==
    /\ filled \in Nat /\ consumed \in Nat /\ parsedAny \in BOOLEAN
    /\ phase \in {"reading", "parsing", "closed"}
    /\ out \in Seq(Delivered)
    /\ proto = "tcp" => consumed <= filled /\ filled <= Len(stream)
    /\ proto # "tcp" => filled <= Len(messages) /\ phase # "parsing"

\* The reader waits only for the rest of a frame.
WaitsForMore ==
    proto = "tcp" /\ phase = "reading" => FrameLayout(stream, consumed, Buffered) = "more"

\* What was delivered, and what the reference makes of the rest, is the reference.
RestAgrees ==
    proto = "tcp" /\ policy = "strict" =>
        IF phase = "closed"
          THEN out = Reference.packets /\ reason = Reference.end
          ELSE /\ Reference.packets = out \o DecodeFrom[consumed].packets
               /\ Reference.end = DecodeFrom[consumed].end

\* As long as packets are missing, the parser stands where the frame of the next one
\* starts.
AtTheNext ==
    phase # "closed" /\ Len(out) < Len(Written(sent)) =>
        IF proto = "tcp" THEN consumed = EndOf(messages, Len(out)) ELSE filled = Len(out)

\* DeliversWhatWasSent, with the range of its first part spelled out.
Delivers ==
    /\ \A i \in 1 .. Len(out) :
         i <= Len(Written(sent)) => out[i] = Decoded(Written(sent)[i]) \/ HandedOverRaw(i)
    /\ phase = "closed" => Len(out) >= Len(Expected)
    /\ Expected # Written(sent) /\ (policy = "strict" \/ proto = "tcp") =>
         /\ Len(out) <= Len(Expected)
         /\ phase = "closed" => reason = "Error"

FramingInv ==
    GivenTyped /\ CursorTyped /\ WaitsForMore /\ RestAgrees /\ AtTheNext /\ Delivers

-----------------------------------------------------------------------------
\* Induction over the naturals, for a set.
LEMMA NatSetInduction ==
    ASSUME NEW G, 0 \in G, \A n \in Nat : n \in G => n + 1 \in G
    PROVE  Nat \subseteq G
  <1> SUFFICES ASSUME NEW n \in Nat, n \notin G PROVE FALSE
    OBVIOUS
  <1> DEFINE R == {ss \in Nat \X Nat : ss[1] < ss[2]}
             B == Nat \ G
  <1>1. IsWellFoundedOn(R, Nat)
    BY NatLessThanWellFounded DEF OpToRel
  <1>2. PICK m \in B : \A k \in B : ~ (<<k, m>> \in R)
    <2>1. B \subseteq Nat /\ B # {}
      OBVIOUS
    <2> HIDE DEF B, R
    <2> QED
      BY <1>1, <2>1, WFMin
  <1>3. m - 1 \in Nat \ G
    BY <1>2
  <1>4. <<m - 1, m>> \in R
    BY <1>3
  <1> QED
    BY <1>2, <1>3, <1>4

-----------------------------------------------------------------------------
(* One message after another.                                              *)

\* The recursion of FlattenSeq is well defined.
LEMMA FlatExists ==
    ASSUME NEW ss, NEW n \in Nat
    PROVE  \E f : FlatOn(ss, n, f)
<1> DEFINE G == {k \in Nat : \E f : FlatOn(ss, k, f)}
<1>1. 0 \in G
  <2>1. FlatOn(ss, 0, [i \in 1 .. 0 |-> 0])
    BY DEF FlatOn
  <2> QED BY <2>1
<1>2. ASSUME NEW k \in Nat, k \in G PROVE k + 1 \in G
  <2>1. PICK f : FlatOn(ss, k, f)
    BY <1>2
  <2> DEFINE g == [i \in 1 .. k + 1 |->
                     IF i \in 1 .. k THEN f[i] ELSE IF i = 1 THEN ss[i] ELSE f[i - 1] \o ss[i]]
  <2>2. ASSUME NEW i \in 1 .. k + 1
        PROVE  g[i] = IF i = 1 THEN ss[i] ELSE g[i - 1] \o ss[i]
    <3>1. \A j \in 1 .. k : f[j] = IF j = 1 THEN ss[j] ELSE f[j - 1] \o ss[j]
      BY <2>1 DEF FlatOn
    <3>2. CASE i \in 1 .. k
      <4>1. i # 1 => i - 1 \in 1 .. k
        BY <3>2
      <4> QED BY <3>1, <3>2, <4>1
    <3>3. CASE i \notin 1 .. k
      <4>1. i # 1 => i - 1 \in 1 .. k
        BY <3>3
      <4> QED BY <3>3, <4>1
    <3> QED BY <3>2, <3>3
  <2>3. FlatOn(ss, k + 1, g)
    BY <2>2 DEF FlatOn
  <2> HIDE DEF g
  <2> QED BY <2>3
<1> HIDE DEF G
<1>3. n \in G
  BY <1>1, <1>2, NatSetInduction
<1> QED BY <1>3 DEF G

\* Its equation.
LEMMA FlatUnfolds ==
    ASSUME NEW S, NEW ss \in Seq(S)
    PROVE  /\ \A i \in 1 .. Len(ss) :
                Flat(ss)[i] = IF i = 1 THEN ss[i] ELSE Flat(ss)[i - 1] \o ss[i]
           /\ ss # <<>> => FlattenSeq(ss) = Flat(ss)[Len(ss)]
           /\ ss = <<>> => FlattenSeq(ss) = <<>>
<1>1. Len(ss) \in Nat /\ (Len(ss) = 0 <=> ss = <<>>)
  OBVIOUS
<1>2. FlatOn(ss, Len(ss), Flat(ss))
  BY <1>1, FlatExists DEF Flat
<1>3. \A i \in 1 .. Len(ss) :
        Flat(ss)[i] = IF i = 1 THEN ss[i] ELSE Flat(ss)[i - 1] \o ss[i]
  BY <1>2 DEF FlatOn
<1>4. ss # <<>> => FlattenSeq(ss) = Flat(ss)[Len(ss)]
  BY <1>1 DEF FlattenSeq, Flat, FlatOn
<1>5. ss = <<>> => FlattenSeq(ss) = <<>>
  BY <1>1 DEF FlattenSeq
<1> QED BY <1>3, <1>4, <1>5

\* One sequence after another.
LEMMA Joined ==
    ASSUME NEW S, NEW a \in Seq(S), NEW b \in Seq(S), NEW c, c = a \o b
    PROVE  /\ c \in Seq(S) /\ Len(a) \in Nat /\ Len(b) \in Nat
           /\ Len(c) = Len(a) + Len(b) /\ Len(a) <= Len(c)
           /\ \A j \in 1 .. Len(a) : c[j] = a[j]
           /\ \A j \in 1 .. Len(b) : c[Len(a) + j] = b[j] /\ Len(a) + j \in 1 .. Len(c)
OBVIOUS

\* Sequence c starts with a.
Extends(S, a, c) ==
    /\ a \in Seq(S) /\ c \in Seq(S) /\ Len(a) <= Len(c)
    /\ \A j \in 1 .. Len(a) : c[j] = a[j]

LEMMA ExtendsJoined ==
    ASSUME NEW S, NEW a, NEW c, NEW d, NEW b \in Seq(S), Extends(S, a, c), d = c \o b
    PROVE  Extends(S, a, d)
<1>1. /\ a \in Seq(S) /\ c \in Seq(S) /\ Len(a) <= Len(c)
      /\ \A j \in 1 .. Len(a) : c[j] = a[j]
  BY DEF Extends
<1>2. /\ d \in Seq(S) /\ Len(c) <= Len(d) /\ Len(c) \in Nat /\ Len(d) \in Nat
      /\ \A j \in 1 .. Len(c) : d[j] = c[j]
  BY <1>1, Joined
<1>3. Len(a) \in Nat
  BY <1>1
<1>4. \A j \in 1 .. Len(a) : j \in 1 .. Len(c)
  BY <1>1, <1>2, <1>3
<1>5. \A j \in 1 .. Len(a) : d[j] = a[j]
  BY <1>1, <1>2, <1>4
<1>6. Len(a) <= Len(d)
  BY <1>1, <1>2, <1>3
<1> QED BY <1>1, <1>2, <1>5, <1>6 DEF Extends

\* Longer prefixes extend shorter ones.
LEMMA FlatGrows ==
    ASSUME NEW S, NEW ss \in Seq(Seq(S)), NEW n \in 1 .. Len(ss), NEW f,
           f[1] = ss[1], \A i \in 1 .. Len(ss) - 1 : f[i + 1] = f[i] \o ss[i + 1]
    PROVE  \A k \in 1 .. n : Extends(S, f[k], f[n])
<1> DEFINE G == {m \in Nat : m \in 1 .. Len(ss) => \A k \in 1 .. m : Extends(S, f[k], f[m])}
<1>1. 0 \in G
  OBVIOUS
<1>2. ASSUME NEW m \in Nat, m \in G PROVE m + 1 \in G
  <2> SUFFICES ASSUME m + 1 \in 1 .. Len(ss)
               PROVE  \A k \in 1 .. m + 1 : Extends(S, f[k], f[m + 1])
    OBVIOUS
  <2>1. ss[m + 1] \in Seq(S)
    OBVIOUS
  <2>2. CASE m = 0
    <3>1. Extends(S, f[1], f[1])
      BY <2>1, <2>2 DEF Extends
    <3> QED BY <2>2, <3>1
  <2>3. CASE m # 0
    <3>1. m \in 1 .. Len(ss) - 1
      BY <2>3
    <3>2. f[m + 1] = f[m] \o ss[m + 1]
      BY <3>1
    <3>3. \A k \in 1 .. m : Extends(S, f[k], f[m])
      BY <1>2, <3>1
    <3>4. \A k \in 1 .. m : Extends(S, f[k], f[m + 1])
      <4> SUFFICES ASSUME NEW k \in 1 .. m PROVE Extends(S, f[k], f[m + 1])
        OBVIOUS
      <4>1. Extends(S, f[k], f[m])
        BY <3>3
      <4>2. PICK a, b, c, d : a = f[k] /\ b = ss[m + 1] /\ c = f[m] /\ d = f[m + 1]
        OBVIOUS
      <4>3. b \in Seq(S) /\ Extends(S, a, c) /\ d = c \o b
        BY <4>1, <4>2, <3>2, <2>1
      <4>4. Extends(S, a, d)
        BY <4>3, ExtendsJoined
      <4> QED BY <4>2, <4>4
    <3>5. f[m] \in Seq(S)
      <4>1. m \in 1 .. m
        BY <3>1
      <4> QED BY <4>1, <3>3 DEF Extends
    <3>6. Extends(S, f[m + 1], f[m + 1])
      <4>1. f[m + 1] \in Seq(S)
        BY <3>2, <3>5, <2>1, Joined
      <4> QED BY <4>1 DEF Extends
    <3>7. \A k \in 1 .. m + 1 : k \in 1 .. m \/ k = m + 1
      OBVIOUS
    <3> QED BY <3>4, <3>6, <3>7
  <2> QED BY <2>2, <2>3
<1> HIDE DEF G
<1>3. n \in Nat
  OBVIOUS
<1>4. n \in G
  BY <1>3, <1>1, <1>2, NatSetInduction
<1> QED BY <1>4 DEF G

\* Where each message stands in the stream.
LEMMA FlattenPlaces ==
    ASSUME NEW S, NEW ss \in Seq(Seq(S))
    PROVE  /\ FlattenSeq(ss) \in Seq(S)
           /\ \A k \in 1 .. Len(ss) :
                /\ EndOf(ss, k - 1) \in Nat
                /\ EndOf(ss, k) = EndOf(ss, k - 1) + Len(ss[k])
                /\ EndOf(ss, k) <= Len(FlattenSeq(ss))
                /\ \A j \in 1 .. Len(ss[k]) : FlattenSeq(ss)[EndOf(ss, k - 1) + j] = ss[k][j]
<1> DEFINE n == Len(ss)
<1>0. PICK f :
      /\ f = Flat(ss)
      /\ \A i \in 1 .. n : f[i] = IF i = 1 THEN ss[i] ELSE f[i - 1] \o ss[i]
      /\ \A i \in 1 .. n : ss[i] \in Seq(S)
      /\ n \in Nat
      /\ ss # <<>> => FlattenSeq(ss) = f[n]
      /\ ss = <<>> => FlattenSeq(ss) = <<>>
      /\ ss = <<>> <=> n = 0
  BY FlatUnfolds
<1> HIDE DEF n
<1>1. \A i \in 1 .. n - 1 : f[i + 1] = f[i] \o ss[i + 1]
  <2> SUFFICES ASSUME NEW i \in 1 .. n - 1 PROVE f[i + 1] = f[i] \o ss[i + 1]
    OBVIOUS
  <2>1. i + 1 \in 1 .. n /\ i + 1 # 1 /\ (i + 1) - 1 = i
    BY <1>0
  <2>2. f[i + 1] = IF i + 1 = 1 THEN ss[i + 1] ELSE f[(i + 1) - 1] \o ss[i + 1]
    BY <1>0, <2>1
  <2> QED BY <2>1, <2>2
<1>2. n # 0 => f[1] = ss[1] /\ n \in 1 .. n /\ 1 \in 1 .. n
  BY <1>0
<1>3. \A k \in 1 .. n : Extends(S, f[k], f[n])
  <2>1. CASE n = 0
    BY <2>1
  <2>2. CASE n # 0
    BY <2>2, <1>1, <1>2, FlatGrows DEF n
  <2> QED BY <2>1, <2>2
<1>4. FlattenSeq(ss) \in Seq(S)
  <2>1. CASE n = 0
    BY <1>0, <2>1
  <2>2. CASE n # 0
    BY <1>0, <1>2, <1>3, <2>2 DEF Extends
  <2> QED BY <2>1, <2>2
<1>5. ASSUME NEW k \in 1 .. n
      PROVE  /\ EndOf(ss, k - 1) \in Nat
             /\ EndOf(ss, k) = EndOf(ss, k - 1) + Len(ss[k])
             /\ EndOf(ss, k) <= Len(FlattenSeq(ss))
             /\ \A j \in 1 .. Len(ss[k]) : FlattenSeq(ss)[EndOf(ss, k - 1) + j] = ss[k][j]
  <2>1. FlattenSeq(ss) = f[n] /\ ss[k] \in Seq(S) /\ n # 0
    BY <1>0
  <2>2. EndOf(ss, k) = Len(f[k])
    BY <1>0 DEF EndOf
  <2>3. /\ f[k] \in Seq(S) /\ f[n] \in Seq(S) /\ Len(f[k]) <= Len(f[n])
        /\ \A j \in 1 .. Len(f[k]) : f[n][j] = f[k][j]
    BY <1>3 DEF Extends
  <2>4. CASE k = 1
    <3>1. EndOf(ss, k - 1) = 0 /\ f[k] = ss[k]
      BY <1>2, <2>1, <2>4 DEF EndOf
    <3>2. \A j \in 1 .. Len(ss[k]) : 0 + j = j
      OBVIOUS
    <3>3. Len(ss[k]) \in Nat
      BY <2>1
    <3>4. EndOf(ss, k) = EndOf(ss, k - 1) + Len(ss[k]) /\ EndOf(ss, k) <= Len(FlattenSeq(ss))
      BY <2>1, <2>2, <2>3, <3>1, <3>3
    <3>5. \A j \in 1 .. Len(ss[k]) : FlattenSeq(ss)[EndOf(ss, k - 1) + j] = ss[k][j]
      BY <2>1, <2>3, <3>1, <3>2
    <3> QED BY <3>1, <3>4, <3>5
  <2>5. CASE k # 1
    <3>1. PICK i \in 1 .. n - 1 : k = i + 1 /\ k - 1 = i
      <4>1. k - 1 \in 1 .. n - 1 /\ k = (k - 1) + 1
        BY <1>0, <2>5
      <4> QED BY <4>1
    <3>2. EndOf(ss, k - 1) = Len(f[i]) /\ i \in 1 .. n
      BY <1>0, <3>1 DEF EndOf
    <3>3. f[k] = f[i] \o ss[k] /\ f[i] \in Seq(S)
      BY <1>1, <1>3, <3>1, <3>2 DEF Extends
    <3>4. PICK a, b, c, d : a = f[i] /\ b = ss[k] /\ c = f[k] /\ d = f[n]
      OBVIOUS
    <3>5. a \in Seq(S) /\ b \in Seq(S) /\ c = a \o b
      BY <2>1, <3>3, <3>4
    <3>6. /\ Len(a) \in Nat /\ Len(c) = Len(a) + Len(b)
          /\ \A j \in 1 .. Len(b) : c[Len(a) + j] = b[j] /\ Len(a) + j \in 1 .. Len(c)
      BY <3>5, Joined
    <3>7. Len(c) <= Len(d) /\ \A j \in 1 .. Len(c) : d[j] = c[j]
      BY <2>3, <3>4
    <3>8. \A j \in 1 .. Len(b) : d[Len(a) + j] = b[j]
      BY <3>6, <3>7
    <3>9. EndOf(ss, k - 1) = Len(a) /\ EndOf(ss, k) = Len(c) /\ FlattenSeq(ss) = d
      BY <2>1, <2>2, <3>2, <3>4
    <3> QED BY <3>4, <3>6, <3>7, <3>8, <3>9
  <2> QED BY <2>4, <2>5
<1> QED BY <1>4, <1>5 DEF n

-----------------------------------------------------------------------------
(* The encoder and the layout of its frames.                               *)

\* Sequences with the same elements are the same.
LEMMA SameSeq ==
    ASSUME NEW S, NEW a \in Seq(S), NEW b \in Seq(S), Len(a) = Len(b),
           \A i \in 1 .. Len(a) : a[i] = b[i]
    PROVE  a = b
OBVIOUS

\* The fields of the header are those of the packet, and the frame is as long as they say.
LEMMA EncodeLayout ==
    ASSUME NEW p \in Outgoing, Encodable(p)
    PROVE  /\ WireLen(p) \in Nat /\ p.ext \in Nat /\ p.raw \in Nat
           /\ FirstByte(p) = [ok |-> TRUE, ext |-> p.ext, pay |-> WireLen(p), raw |-> p.raw]
           /\ Encode(p) \in Seq(Bytes)
           /\ Len(Encode(p)) = HeaderSize + p.ext + WireLen(p)
           /\ Encode(p)[1] = FirstByte(p)
           /\ \A i \in 1 .. p.ext + WireLen(p) : Encode(p)[HeaderSize + i] = p.body
           /\ p.body \in Bytes
<1>1. p.ext \in Nat /\ p.raw \in Nat /\ p.zip \in BOOLEAN /\ p.body \in Bytes
  BY DEF Outgoing
<1>2. (p.raw + 1) \div 2 \in Nat
  BY <1>1
<1>3. WireLen(p) \in Nat
  BY <1>1, <1>2 DEF WireLen
<1>4. HeaderSize \in Nat \ {0} /\ WireExt \in Nat /\ WirePay \in Nat
  BY FramingAssumption
<1>5. p.ext <= WireExt /\ WireLen(p) <= WirePay
  BY DEF Encodable
<1>6. p.ext % (WireExt + 1) = p.ext
  BY <1>1, <1>4, <1>5
<1>7. WireLen(p) % (WirePay + 1) = WireLen(p)
  BY <1>3, <1>4, <1>5
<1>8. FirstByte(p) = [ok |-> TRUE, ext |-> p.ext, pay |-> WireLen(p), raw |-> p.raw]
  BY <1>6, <1>7 DEF FirstByte
<1>9. FirstByte(p) \in Bytes
  BY <1>1, <1>3, <1>8 DEF Bytes
<1> DEFINE n == HeaderSize - 1 + p.ext + WireLen(p)
<1>10. n \in Nat /\ 1 + n = HeaderSize + p.ext + WireLen(p)
  BY <1>1, <1>3, <1>4
<1>11. PICK a, b, c : /\ a = <<FirstByte(p)>> /\ b = [i \in 1 .. n |-> p.body]
                      /\ c = Encode(p) /\ c = a \o b
  BY DEF Encode
<1>12. a \in Seq(Bytes) /\ Len(a) = 1 /\ a[1] = FirstByte(p)
  BY <1>9, <1>11
<1> HIDE DEF n
<1>13. b \in Seq(Bytes) /\ Len(b) = n /\ \A i \in 1 .. n : b[i] = p.body
  BY <1>1, <1>10, <1>11
<1>14. /\ c \in Seq(Bytes) /\ Len(c) = 1 + n
       /\ c[1] = FirstByte(p) /\ \A i \in 1 .. n : c[1 + i] = p.body
  BY <1>10, <1>11, <1>12, <1>13, Joined
<1>15. ASSUME NEW i \in 1 .. p.ext + WireLen(p) PROVE c[HeaderSize + i] = p.body
  <2>1. HeaderSize - 1 + i \in 1 .. n /\ 1 + (HeaderSize - 1 + i) = HeaderSize + i
    BY <1>1, <1>3, <1>4 DEF n
  <2>2. c[1 + (HeaderSize - 1 + i)] = p.body
    BY <2>1, <1>14
  <2> QED BY <2>1, <2>2
<1> QED BY <1>1, <1>3, <1>8, <1>10, <1>11, <1>14, <1>15

\* A frame is as long as its header at least, and within the limits its parts are within.
LEMMA FrameLength ==
    ASSUME NEW h \in Nat \ {0}, NEW e \in Nat, NEW w \in Nat
    PROVE  h + e + w \in Nat \ {0} /\ h + e + w >= h
OBVIOUS

LEMMA FrameWithin ==
    ASSUME NEW h \in Nat, NEW e \in Nat, NEW w \in Nat, NEW a \in Nat, NEW b \in Nat,
           e <= a, w <= b
    PROVE  ~ h + e + w > h + a + b
OBVIOUS

\* Where the body of a frame lies in a buffer of n bytes.
LEMMA BodyBounds ==
    ASSUME NEW a \in Nat, NEW h \in Nat \ {0}, NEW e \in Nat, NEW w \in Nat, NEW n \in Nat,
           a + (h + e + w) <= n, NEW lo, lo = a + h + 1, NEW hi, hi = a + (h + e + w)
    PROVE  /\ lo \in Nat /\ hi \in Nat /\ lo \in 1 .. n + 1 /\ hi \in lo - 1 .. n
           /\ hi - lo + 1 = e + w /\ e + w \in Nat
OBVIOUS

LEMMA SubSeqShape ==
    ASSUME NEW S, NEW s \in Seq(S), NEW l \in Nat, NEW h \in Nat,
           l \in 1 .. Len(s) + 1, h \in l - 1 .. Len(s),
           NEW z, z = SubSeq(s, l, h), NEW n, n = h - l + 1
    PROVE  z \in Seq(S) /\ Len(z) = n /\ \A i \in 1 .. n : z[i] = s[l + i - 1]
OBVIOUS

\* A frame of the encoder, wherever it stands, decodes to its packet.
LEMMA PacketOfFrame ==
    ASSUME NEW p \in Outgoing, Encodable(p),
           NEW s \in Seq(Bytes), NEW at \in Nat, at + Len(Encode(p)) <= Len(s),
           \A j \in 1 .. Len(Encode(p)) : s[at + j] = Encode(p)[j]
    PROVE  /\ s[at + 1] = FirstByte(p)
           /\ Total(s[at + 1]) = Len(Encode(p))
           /\ PacketAt(s, at) = Decoded(p)
<1>1. PICK e, c, w :
        /\ e = p.ext /\ w = WireLen(p) /\ c = Encode(p)
        /\ e \in Nat /\ w \in Nat /\ p.raw \in Nat
        /\ FirstByte(p) = [ok |-> TRUE, ext |-> e, pay |-> w, raw |-> p.raw]
        /\ Len(c) = HeaderSize + e + w /\ c[1] = FirstByte(p)
        /\ \A i \in 1 .. e + w : c[HeaderSize + i] = p.body
        /\ p.body \in Bytes
  BY EncodeLayout
<1>2. HeaderSize \in Nat \ {0}
  BY FramingAssumption
<1>3. s[at + 1] = FirstByte(p)
  <2>1. 1 \in 1 .. Len(Encode(p))
    BY <1>1, <1>2
  <2>2. s[at + 1] = Encode(p)[1]
    BY <2>1
  <2> QED BY <2>2, <1>1
<1>4. Total(s[at + 1]) = Len(Encode(p))
  BY <1>1, <1>3 DEF Total
<1> DEFINE lo == at + HeaderSize + 1
           hi == at + Total(s[at + 1])
           x == SubSeq(s, lo, hi)
           y == [i \in 1 .. e + w |-> p.body]
<1>5. /\ lo \in Nat /\ hi \in Nat /\ lo \in 1 .. Len(s) + 1 /\ hi \in lo - 1 .. Len(s)
      /\ hi - lo + 1 = e + w /\ e + w \in Nat
  <2>1. e \in Nat /\ w \in Nat /\ Len(s) \in Nat
    BY <1>1
  <2>2. hi = at + (HeaderSize + e + w) /\ at + (HeaderSize + e + w) <= Len(s)
    BY <1>1, <1>4
  <2> QED BY <1>2, <2>1, <2>2, BodyBounds
<1>6. /\ x \in Seq(Bytes) /\ Len(x) = e + w
      /\ \A i \in 1 .. e + w : x[i] = s[lo + i - 1]
  <2>1. PICK l \in Nat, h \in Nat : /\ l = lo /\ h = hi /\ l \in 1 .. Len(s) + 1
                                    /\ h \in l - 1 .. Len(s) /\ h - l + 1 = e + w
    BY <1>5
  <2> HIDE DEF lo, hi
  <2>2. PICK z : z = SubSeq(s, l, h)
    OBVIOUS
  <2>3. PICK n : n = h - l + 1
    OBVIOUS
  <2>4. z \in Seq(Bytes) /\ Len(z) = n /\ \A i \in 1 .. n : z[i] = s[l + i - 1]
    BY <2>1, <2>2, <2>3, SubSeqShape
  <2> QED BY <2>1, <2>2, <2>3, <2>4
<1>7. y \in Seq(Bytes) /\ Len(y) = e + w /\ \A i \in 1 .. e + w : y[i] = p.body
  <2>1. PICK n \in Nat : n = e + w
    BY <1>5
  <2>2. PICK z : z = [i \in 1 .. n |-> p.body]
    OBVIOUS
  <2>3. z \in Seq(Bytes) /\ Len(z) = n /\ \A i \in 1 .. n : z[i] = p.body
    BY <1>1, <2>2
  <2> QED BY <2>1, <2>2, <2>3
<1>8. ASSUME NEW i \in 1 .. e + w PROVE x[i] = y[i]
  <2>1. HeaderSize + i \in 1 .. Len(Encode(p)) /\ lo + i - 1 = at + (HeaderSize + i)
    <3>1. PICK n : n = e + w /\ n \in Nat /\ Len(Encode(p)) = HeaderSize + n
      <4>1. e \in Nat /\ w \in Nat /\ Len(Encode(p)) = HeaderSize + e + w
        BY <1>1
      <4> QED BY <1>2, <4>1
    <3>2. HeaderSize + i \in 1 .. HeaderSize + n
      BY <1>2, <3>1
    <3>3. lo + i - 1 = at + (HeaderSize + i)
      BY <1>2
    <3> QED BY <3>1, <3>2, <3>3
  <2>2. s[at + (HeaderSize + i)] = c[HeaderSize + i]
    BY <1>1, <2>1
  <2> HIDE DEF x, y, lo
  <2> QED BY <1>1, <1>6, <1>7, <2>1, <2>2
<1>9. x = y
  <2> HIDE DEF x, y, lo, hi
  <2> QED BY <1>6, <1>7, <1>8, SameSeq
<1>10. s[at + 1].ext = p.ext /\ s[at + 1].raw = p.raw
  BY <1>1, <1>3
<1>11. PacketAt(s, at) = Decoded(p)
  BY <1>1, <1>9, <1>10 DEF PacketAt, Decoded
<1> QED BY <1>3, <1>4, <1>11

\* frame_layout on a frame of the encoder: it is refused for the lengths of its packet
\* only, and asks for more only as long as bytes are missing.
LEMMA LayoutOfFrame ==
    ASSUME NEW p \in Outgoing, Encodable(p),
           NEW s, NEW at \in Nat, s[at + 1] = FirstByte(p), NEW n \in Nat
    PROVE  /\ FrameLayout(s, at, n) \in {"more", "large", "frame"}
           /\ FrameLayout(s, at, n) = "more" => n < Len(Encode(p))
           /\ FrameLayout(s, at, n) = "large" => ~ Acceptable(p)
           /\ FrameLayout(s, at, n) = "frame" => p.ext <= MaxExt /\ WireLen(p) <= MaxPay
<1>1. PICK e, w : /\ e = p.ext /\ w = WireLen(p) /\ e \in Nat /\ w \in Nat
                  /\ FirstByte(p) = [ok |-> TRUE, ext |-> e, pay |-> w, raw |-> p.raw]
                  /\ Len(Encode(p)) = HeaderSize + e + w
  BY EncodeLayout
<1>2. HeaderSize \in Nat \ {0} /\ MaxExt \in Nat /\ MaxPay \in Nat
  BY FramingAssumption
<1>3. PICK b : b = s[at + 1] /\ b.ok = TRUE /\ b.ext = e /\ b.pay = w
  BY <1>1
<1>4. Total(b) = HeaderSize + e + w
  BY <1>3 DEF Total
<1>5. TooLarge(b) <=> w > MaxPay \/ e > MaxExt
  BY <1>1, <1>2, <1>3 DEF TooLarge, MaxFrame
<1>6. Acceptable(p) => e <= MaxExt /\ w <= MaxPay
  BY <1>1 DEF Acceptable
<1>7. FrameLayout(s, at, n) = IF n < HeaderSize THEN "more"
                                ELSE IF TooLarge(b) THEN "large"
                                ELSE IF n < Total(b) THEN "more" ELSE "frame"
  BY <1>3 DEF FrameLayout
<1>8. e \in Nat /\ w \in Nat /\ Len(Encode(p)) = Total(b)
  BY <1>1, <1>4
<1>9. HeaderSize <= Total(b) /\ Total(b) \in Nat
  BY <1>2, <1>4, <1>8, FrameLength
<1>10. CASE n < HeaderSize
  BY <1>2, <1>7, <1>8, <1>9, <1>10
<1>11. CASE ~ n < HeaderSize /\ TooLarge(b)
  <2>1. ~ Acceptable(p)
    BY <1>2, <1>5, <1>6, <1>8, <1>11
  <2> QED BY <1>7, <1>11, <2>1
<1>12. CASE ~ n < HeaderSize /\ ~ TooLarge(b)
  <2>1. p.ext <= MaxExt /\ WireLen(p) <= MaxPay
    <3>1. e <= MaxExt /\ w <= MaxPay
      BY <1>2, <1>5, <1>8, <1>12
    <3> QED BY <1>1, <3>1
  <2> QED BY <1>7, <1>8, <1>12, <2>1
<1> QED BY <1>10, <1>11, <1>12

\* frame_layout on anything: a frame it finds is in the buffer and not empty, it waits
\* with less than one legal frame, and what it says of a front that is long enough does
\* not change with the bytes that follow.
LEMMA LayoutOfBytes ==
    ASSUME NEW s \in Seq(Bytes), NEW at \in Nat, NEW n \in Nat,
           at + n <= Len(s)
    PROVE  /\ FrameLayout(s, at, n) \in {"more", "large", "invalid", "frame"}
           /\ FrameLayout(s, at, n) = "more" => n < MaxFrame
           /\ FrameLayout(s, at, n) = "frame" =>
                /\ Total(s[at + 1]) \in Nat \ {0} /\ Total(s[at + 1]) <= n
                /\ PacketAt(s, at) \in Delivered
           /\ FrameLayout(s, at, n) # "more" =>
                \A m \in Nat : n <= m => FrameLayout(s, at, m) = FrameLayout(s, at, n)
<1>1. HeaderSize \in Nat \ {0} /\ MaxExt \in Nat /\ MaxPay \in Nat
  BY FramingAssumption
<1>2. MaxFrame \in Nat /\ MaxFrame >= HeaderSize
  BY <1>1 DEF MaxFrame
<1>3. CASE n < HeaderSize
  BY <1>1, <1>2, <1>3 DEF FrameLayout
<1>4. CASE n >= HeaderSize
  <2>1. PICK b \in Bytes : b = s[at + 1]
    <3>1. at + 1 \in 1 .. Len(s)
      BY <1>1, <1>4
    <3> QED BY <3>1
  <2>2. b.ok \in BOOLEAN /\ b.ext \in Nat /\ b.pay \in Nat /\ b.raw \in Nat
    BY DEF Bytes
  <2>3. Total(b) \in Nat \ {0} /\ Total(b) >= HeaderSize
    BY <1>1, <2>2, FrameLength DEF Total
  <2>4. ~ TooLarge(b) => Total(b) <= MaxFrame
    <3>1. ~ TooLarge(b) => ~ HeaderSize + b.ext + b.pay > MaxFrame
      BY DEF TooLarge
    <3>2. HeaderSize + b.ext + b.pay \in Nat
      BY <1>1, <2>2
    <3> QED BY <1>2, <3>1, <3>2 DEF Total
  <2>5. ASSUME NEW m \in Nat, n <= m
        PROVE  FrameLayout(s, at, m) = IF ~ b.ok THEN "invalid"
                                         ELSE IF TooLarge(b) THEN "large"
                                         ELSE IF m < Total(b) THEN "more" ELSE "frame"
    <3>1. ~ (m < HeaderSize)
      BY <1>1, <1>4, <2>5
    <3> QED BY <2>1, <3>1 DEF FrameLayout
  <2>6. FrameLayout(s, at, n) = IF ~ b.ok THEN "invalid"
                                  ELSE IF TooLarge(b) THEN "large"
                                  ELSE IF n < Total(b) THEN "more" ELSE "frame"
    BY <2>5
  <2>7. FrameLayout(s, at, n) \in {"more", "large", "invalid", "frame"}
    BY <2>6
  <2>8. FrameLayout(s, at, n) = "more" => n < MaxFrame
    BY <1>2, <2>2, <2>3, <2>4, <2>6
  <2>9. FrameLayout(s, at, n) = "frame" => Total(b) <= n
    BY <2>3, <2>6
  <2>10. FrameLayout(s, at, n) # "more" =>
           \A m \in Nat : n <= m => FrameLayout(s, at, m) = FrameLayout(s, at, n)
    <3> SUFFICES ASSUME FrameLayout(s, at, n) # "more", NEW m \in Nat, n <= m
                 PROVE  FrameLayout(s, at, m) = FrameLayout(s, at, n)
      OBVIOUS
    <3>1. n >= Total(b) => m >= Total(b)
      BY <2>3
    <3> QED BY <2>3, <2>5, <2>6, <3>1
  <2>11. ASSUME Total(b) <= n PROVE PacketAt(s, at) \in Delivered
    <3>1. PICK t \in Nat : t = Total(b)
      BY <2>3
    <3>2. at + t <= Len(s) /\ at + HeaderSize + 1 \in Nat /\ at + t \in Nat /\ Len(s) \in Nat
      BY <1>1, <2>11, <3>1
    <3>3. PICK lo \in Nat, hi \in Nat : lo = at + HeaderSize + 1 /\ hi = at + t
      BY <3>2
    <3>4. 1 <= lo /\ hi <= Len(s)
      BY <1>1, <3>2, <3>3
    <3>5. SubSeq(s, lo, hi) \in Seq(Bytes)
      BY <3>4
    <3>6. PacketAt(s, at) = [ext |-> b.ext, raw |-> b.raw, bytes |-> SubSeq(s, lo, hi)]
      BY <2>1, <3>1, <3>3 DEF PacketAt
    <3> QED BY <2>2, <3>5, <3>6 DEF Delivered
  <2> QED BY <2>1, <2>3, <2>7, <2>8, <2>9, <2>10, <2>11
<1>5. n < HeaderSize \/ n >= HeaderSize
  BY <1>1
<1> QED BY <1>3, <1>4, <1>5

-----------------------------------------------------------------------------
(* The reference decoder.                                                  *)

\* One step of DecodeFrom, with f for its results further on, and its equation on D.
DecodeStep(s, at, f) ==
    LET front == FrameLayout(s, at, Len(s) - at)
    IN  IF front = "frame" /\ Expands(PacketAt(s, at))
          THEN LET rest == f[at + Total(s[at + 1])]
               IN  [packets |-> <<PacketAt(s, at)>> \o rest.packets, end |-> rest.end]
          ELSE [packets |-> <<>>, end |-> IF front = "more" THEN "Normal" ELSE "Error"]

DecodesOn(s, D, f) == f = [at \in D |-> DecodeStep(s, at, f)]

Results == [packets : Seq(Delivered), end : {"Normal", "Error"}]

\* A step looks at later results only.
LEMMA StepLooksAhead ==
    ASSUME NEW s \in Seq(Bytes), NEW at \in 0 .. Len(s), NEW f, NEW g,
           \A k \in at + 1 .. Len(s) : f[k] = g[k]
    PROVE  DecodeStep(s, at, f) = DecodeStep(s, at, g)
<1>1. at \in Nat /\ Len(s) - at \in Nat /\ at + (Len(s) - at) <= Len(s) /\ Len(s) \in Nat
  OBVIOUS
<1>2. CASE FrameLayout(s, at, Len(s) - at) = "frame"
  <2>1. /\ Total(s[at + 1]) \in Nat \ {0}
        /\ Total(s[at + 1]) <= Len(s) - at
    BY <1>1, <1>2, LayoutOfBytes
  <2>2. PICK k : k = at + Total(s[at + 1]) /\ k \in at + 1 .. Len(s)
    BY <1>1, <2>1
  <2>3. f[k] = g[k]
    BY <2>2
  <2> QED BY <1>2, <2>2, <2>3 DEF DecodeStep
<1>3. CASE FrameLayout(s, at, Len(s) - at) # "frame"
  BY <1>3 DEF DecodeStep
<1> QED BY <1>2, <1>3

LEMMA DecodesExist ==
    ASSUME NEW s \in Seq(Bytes)
    PROVE  \E f : DecodesOn(s, 0 .. Len(s), f)
<1> DEFINE n == Len(s)
           G == {k \in Nat : k <= n => \E f : DecodesOn(s, n - k .. n, f)}
<1>0. n \in Nat
  OBVIOUS
<1>1. 0 \in G
  <2>1. PICK f : f = [at \in n .. n |-> DecodeStep(s, at, <<>>)]
    OBVIOUS
  <2>2. \A at \in n .. n : DecodeStep(s, at, <<>>) = DecodeStep(s, at, f)
    <3> SUFFICES ASSUME NEW at \in n .. n
                 PROVE  DecodeStep(s, at, <<>>) = DecodeStep(s, at, f)
      OBVIOUS
    <3>1. at \in 0 .. Len(s) /\ \A k \in at + 1 .. Len(s) : FALSE
      BY <1>0
    <3> QED BY <3>1, StepLooksAhead
  <2>3. DecodesOn(s, n .. n, f)
    BY <2>1, <2>2 DEF DecodesOn
  <2>4. n - 0 = n
    BY <1>0
  <2> HIDE DEF n
  <2> QED BY <2>3, <2>4
<1>2. ASSUME NEW k \in Nat, k \in G PROVE k + 1 \in G
  <2> SUFFICES ASSUME k + 1 <= n PROVE \E g : DecodesOn(s, n - (k + 1) .. n, g)
    OBVIOUS
  <2>1. PICK m \in Nat : m = n - (k + 1) /\ n - k = m + 1
    <3>1. n - (k + 1) \in Nat /\ n - k = (n - (k + 1)) + 1
      BY <1>0
    <3> QED BY <3>1
  <2>2. PICK f : DecodesOn(s, m + 1 .. n, f)
    BY <1>0, <1>2, <2>1
  <2>3. \A at \in m + 1 .. n : f[at] = DecodeStep(s, at, f)
    BY <2>2 DEF DecodesOn
  <2>4. PICK g : g = [at \in m .. n |-> IF at = m THEN DecodeStep(s, at, f) ELSE f[at]]
    OBVIOUS
  <2>5. \A at \in m + 1 .. n : at # m /\ at \in m .. n /\ at \in Nat
    BY <2>1, <1>0
  <2>6. \A at \in m + 1 .. n : g[at] = f[at]
    BY <2>4, <2>5
  <2>7. ASSUME NEW at \in m .. n PROVE g[at] = DecodeStep(s, at, g)
    <3>1. at \in 0 .. Len(s) /\ \A i \in at + 1 .. Len(s) : i \in m + 1 .. n
      BY <1>0, <2>1
    <3>2. \A i \in at + 1 .. Len(s) : f[i] = g[i]
      BY <3>1, <2>6
    <3>3. DecodeStep(s, at, f) = DecodeStep(s, at, g)
      BY <3>1, <3>2, StepLooksAhead
    <3>4. CASE at = m
      BY <2>4, <3>3, <3>4
    <3>5. CASE at # m
      <4>1. at \in m + 1 .. n
        BY <1>0, <2>1, <3>5
      <4> QED BY <4>1, <2>3, <2>6, <3>3
    <3> QED BY <3>4, <3>5
  <2>8. DecodesOn(s, m .. n, g)
    BY <2>4, <2>7 DEF DecodesOn
  <2> HIDE DEF n
  <2> QED BY <2>1, <2>8
<1> HIDE DEF G
<1>3. n \in G
  BY <1>0, <1>1, <1>2, NatSetInduction
<1>4. n - n = 0
  BY <1>0
<1> QED BY <1>0, <1>3, <1>4 DEF G

\* The equation of the reference decoder.
LEMMA DecodeUnfolds ==
    ASSUME stream \in Seq(Bytes)
    PROVE  \A at \in 0 .. Len(stream) : DecodeFrom[at] = DecodeStep(stream, at, DecodeFrom)
<1>1. DecodeFrom = CHOOSE f : DecodesOn(stream, 0 .. Len(stream), f)
  BY DEF DecodeFrom, DecodesOn, DecodeStep
<1>2. DecodesOn(stream, 0 .. Len(stream), DecodeFrom)
  BY <1>1, DecodesExist
<1> QED BY <1>2 DEF DecodesOn

LEMMA DecodeTypes ==
    ASSUME stream \in Seq(Bytes)
    PROVE  \A at \in 0 .. Len(stream) : DecodeFrom[at] \in Results
<1> DEFINE n == Len(stream)
           G == {k \in Nat : \A at \in 0 .. n : n - at < k => DecodeFrom[at] \in Results}
<1>0. n \in Nat
  OBVIOUS
<1>1. 0 \in G
  BY <1>0
<1>2. ASSUME NEW k \in Nat, k \in G PROVE k + 1 \in G
  <2> SUFFICES ASSUME NEW at \in 0 .. n, n - at < k + 1 PROVE DecodeFrom[at] \in Results
    OBVIOUS
  <2>1. DecodeFrom[at] = DecodeStep(stream, at, DecodeFrom)
    BY DecodeUnfolds
  <2>2. CASE ~ (/\ FrameLayout(stream, at, Len(stream) - at) = "frame"
                /\ Expands(PacketAt(stream, at)))
    <3>1. PICK e \in {"Normal", "Error"} : DecodeFrom[at] = [packets |-> <<>>, end |-> e]
      BY <2>1, <2>2 DEF DecodeStep
    <3>2. <<>> \in Seq(Delivered)
      OBVIOUS
    <3> QED BY <3>1, <3>2 DEF Results
  <2>3. CASE /\ FrameLayout(stream, at, Len(stream) - at) = "frame"
             /\ Expands(PacketAt(stream, at))
    <3>1. at \in Nat /\ n - at \in Nat /\ at + (n - at) <= n
      BY <1>0
    <3>2. /\ Total(stream[at + 1]) \in Nat \ {0} /\ Total(stream[at + 1]) <= n - at
          /\ PacketAt(stream, at) \in Delivered
      BY <2>3, <3>1, LayoutOfBytes
    <3>3. PICK i \in 0 .. n : i = at + Total(stream[at + 1]) /\ n - i < k
      <4>1. PICK t \in Nat \ {0} : t = Total(stream[at + 1]) /\ t <= n - at
        BY <3>2
      <4>2. at + t \in 0 .. n /\ n - (at + t) < k
        BY <1>0, <3>1, <4>1
      <4> QED BY <4>1, <4>2
    <3>4. PICK r \in Results : r = DecodeFrom[i]
      BY <1>2, <3>3
    <3>5. PICK x \in Delivered : x = PacketAt(stream, at)
      BY <3>2
    <3>6. DecodeFrom[at] = [packets |-> <<x>> \o r.packets, end |-> r.end]
      BY <2>1, <2>3, <3>3, <3>4, <3>5 DEF DecodeStep
    <3>7. r.packets \in Seq(Delivered) /\ r.end \in {"Normal", "Error"}
      BY DEF Results
    <3>8. <<x>> \o r.packets \in Seq(Delivered)
      BY <3>7
    <3> QED BY <3>6, <3>7, <3>8 DEF Results
  <2> QED BY <2>2, <2>3
<1> HIDE DEF G
<1>3. n + 1 \in G
  BY <1>0, <1>1, <1>2, NatSetInduction
<1>4. \A at \in 0 .. n : n - at < n + 1
  BY <1>0
<1> QED BY <1>3, <1>4 DEF G

-----------------------------------------------------------------------------
(* The packets that are written and those the receiver must deliver.       *)

\* A set of naturals has a least element.
LEMMA LeastOf ==
    ASSUME NEW S \in SUBSET Nat, S # {}
    PROVE  \E i \in S : \A j \in S : i <= j
<1> SUFFICES ASSUME \A i \in S : \E j \in S : ~ (i <= j) PROVE FALSE
  OBVIOUS
<1> DEFINE G == {k \in Nat : \A i \in S : k <= i}
<1>1. 0 \in G
  OBVIOUS
<1>2. ASSUME NEW k \in Nat, k \in G PROVE k + 1 \in G
  <2> SUFFICES ASSUME NEW i \in S PROVE k + 1 <= i
    OBVIOUS
  <2>1. PICK j \in S : ~ (i <= j)
    OBVIOUS
  <2>2. k <= j
    BY <1>2
  <2> QED BY <2>1, <2>2
<1> HIDE DEF G
<1>3. Nat \subseteq G
  BY <1>1, <1>2, NatSetInduction
<1>4. PICK i \in S : i \in Nat
  OBVIOUS
<1>5. i + 1 \in G
  BY <1>3, <1>4
<1> QED BY <1>4, <1>5 DEF G

\* The part of a sequence before its first element out of T, as Written and Expected
\* cut it.
CutAt(s, bad) ==
    SubSeq(s, 1, IF bad = {} THEN Len(s) ELSE (CHOOSE i \in bad : \A j \in bad : i <= j) - 1)

LEMMA CutShape ==
    ASSUME NEW S, NEW s \in Seq(S), NEW bad \in SUBSET (1 .. Len(s))
    PROVE  /\ CutAt(s, bad) \in Seq(S)
           /\ Len(CutAt(s, bad)) <= Len(s)
           /\ \A i \in 1 .. Len(CutAt(s, bad)) : CutAt(s, bad)[i] = s[i] /\ i \notin bad
           /\ Len(CutAt(s, bad)) < Len(s) => Len(CutAt(s, bad)) + 1 \in bad
           /\ Len(CutAt(s, bad)) = Len(s) => CutAt(s, bad) = s
<1>0. Len(s) \in Nat
  OBVIOUS
<1>1. CASE bad = {}
  <2>1. CutAt(s, bad) = s
    BY <1>1 DEF CutAt
  <2> QED BY <1>1, <2>1
<1>2. CASE bad # {}
  <2>1. bad \in SUBSET Nat
    OBVIOUS
  <2>2. PICK m \in bad : /\ m = CHOOSE i \in bad : \A j \in bad : i <= j
                         /\ \A j \in bad : m <= j
    BY <1>2, <2>1, LeastOf
  <2>3. CutAt(s, bad) = SubSeq(s, 1, m - 1)
    BY <1>2, <2>2 DEF CutAt
  <2>4. PICK k \in Nat : k = m - 1 /\ m = k + 1 /\ k < Len(s)
    <3>1. m - 1 \in Nat /\ m = (m - 1) + 1 /\ m - 1 < Len(s)
      BY <1>0
    <3> QED BY <3>1
  <2>5. PICK c : c = CutAt(s, bad) /\ c = SubSeq(s, 1, k)
    BY <2>3, <2>4
  <2>6. c \in Seq(S) /\ Len(c) = k /\ \A i \in 1 .. k : c[i] = s[i]
    BY <1>0, <2>4, <2>5
  <2>7. ASSUME NEW i \in 1 .. k, i \in bad PROVE FALSE
    <3>1. k + 1 <= i
      BY <2>2, <2>4, <2>7
    <3> QED BY <2>4, <3>1
  <2>8. k + 1 \in bad /\ k <= Len(s) /\ k # Len(s)
    BY <1>0, <2>4
  <2>9. \A i \in 1 .. k : c[i] = s[i] /\ i \notin bad
    BY <2>6, <2>7
  <2> QED BY <2>5, <2>6, <2>8, <2>9
<1> QED BY <1>1, <1>2

\* A sequence whose elements are in W is a sequence over W.
LEMMA SeqOver ==
    ASSUME NEW S, NEW W, NEW c \in Seq(S), \A i \in 1 .. Len(c) : c[i] \in W
    PROVE  c \in Seq(W)
<1>1. Len(c) \in Nat /\ c = [i \in 1 .. Len(c) |-> c[i]]
  OBVIOUS
<1> QED BY <1>1

\* Only packets that can be encoded are written, on every protocol.
LEMMA WrittenShape ==
    ASSUME sent \in Seq(Outgoing)
    PROVE  Written(sent) \in Seq({p \in Outgoing : Encodable(p)})
<1> DEFINE W == {p \in Outgoing : Encodable(p)}
<1>0. Len(sent) \in Nat /\ DOMAIN sent = 1 .. Len(sent)
  OBVIOUS
<1>1. CASE proto = "tcp"
  <2>1. PICK bad : bad = {i \in DOMAIN sent : ~ Encodable(sent[i])}
    OBVIOUS
  <2>2. Written(sent) = CutAt(sent, bad)
    BY <1>1, <2>1 DEF Written, CutAt
  <2>3. bad \in SUBSET (1 .. Len(sent))
    BY <1>0, <2>1
  <2>4. PICK c : c = CutAt(sent, bad)
    OBVIOUS
  <2>5. /\ c \in Seq(Outgoing) /\ Len(c) <= Len(sent)
        /\ \A i \in 1 .. Len(c) : c[i] = sent[i] /\ i \notin bad
    BY <2>3, <2>4, CutShape
  <2>6. ASSUME NEW i \in 1 .. Len(c) PROVE c[i] \in W
    <3>1. i \in 1 .. Len(sent) /\ c[i] \in Outgoing
      BY <1>0, <2>5
    <3>2. Encodable(sent[i])
      BY <1>0, <2>1, <2>5, <3>1
    <3> QED BY <2>5, <3>1, <3>2
  <2> HIDE DEF W
  <2>7. c \in Seq(W)
    BY <2>5, <2>6, SeqOver
  <2> QED BY <2>2, <2>4, <2>7 DEF W
<1>2. CASE proto # "tcp"
  <2>1. PICK ss : ss = [i \in DOMAIN sent |-> IF Encodable(sent[i]) THEN <<sent[i]>> ELSE <<>>]
    OBVIOUS
  <2>2. Written(sent) = FlattenSeq(ss)
    BY <1>2, <2>1 DEF Written
  <2>3. ASSUME NEW i \in 1 .. Len(sent) PROVE ss[i] \in Seq(W)
    <3>1. sent[i] \in Outgoing
      OBVIOUS
    <3>2. CASE Encodable(sent[i])
      <4>1. PICK p \in W : p = sent[i]
        BY <3>1, <3>2
      <4>2. <<p>> \in Seq(W)
        OBVIOUS
      <4> HIDE DEF W
      <4> QED BY <1>0, <2>1, <3>2, <4>1, <4>2
    <3>3. CASE ~ Encodable(sent[i])
      BY <1>0, <2>1, <3>3
    <3> QED BY <3>2, <3>3
  <2> HIDE DEF W
  <2>4. ss \in Seq(Seq(W))
    <3>1. ss = [i \in 1 .. Len(sent) |-> ss[i]]
      BY <1>0, <2>1
    <3> QED BY <1>0, <2>3, <3>1
  <2>5. FlattenSeq(ss) \in Seq(W)
    BY <2>4, FlattenPlaces
  <2> QED BY <2>2, <2>5 DEF W
<1> QED BY <1>1, <1>2

\* Expected is what is written, up to the first packet that the limits refuse.
LEMMA ExpectedShape ==
    ASSUME NEW S, Written(sent) \in Seq(S)
    PROVE  /\ Len(Expected) \in Nat /\ Len(Written(sent)) \in Nat
           /\ Len(Expected) <= Len(Written(sent))
           /\ \A i \in 1 .. Len(Expected) : Acceptable(Written(sent)[i])
           /\ Len(Expected) < Len(Written(sent)) =>
                ~ Acceptable(Written(sent)[Len(Expected) + 1])
           /\ Expected = Written(sent) <=> Len(Expected) = Len(Written(sent))
<1>1. PICK w \in Seq(S) : w = Written(sent)
  OBVIOUS
<1>2. PICK bad : bad = {i \in DOMAIN w : ~ Acceptable(w[i])}
  OBVIOUS
<1>3. Expected = CutAt(w, bad)
  BY <1>1, <1>2 DEF Expected, CutAt
<1>4. DOMAIN w = 1 .. Len(w) /\ Len(w) \in Nat
  OBVIOUS
<1>5. bad \in SUBSET (1 .. Len(w))
  BY <1>2, <1>4
<1>6. PICK c : c = CutAt(w, bad)
  OBVIOUS
<1>7. /\ c \in Seq(S) /\ Len(c) <= Len(w)
      /\ \A i \in 1 .. Len(c) : c[i] = w[i] /\ i \notin bad
      /\ Len(c) < Len(w) => Len(c) + 1 \in bad
      /\ Len(c) = Len(w) => c = w
  BY <1>5, <1>6, CutShape
<1>8. Len(c) \in Nat
  BY <1>7
<1>9. \A i \in 1 .. Len(c) : i \in DOMAIN w /\ Acceptable(w[i])
  BY <1>2, <1>4, <1>7, <1>8
<1>10. Len(c) < Len(w) => ~ Acceptable(w[Len(c) + 1])
  BY <1>2, <1>7
<1>11. c = w <=> Len(c) = Len(w)
  BY <1>7
<1> QED BY <1>1, <1>3, <1>4, <1>6, <1>7, <1>8, <1>9, <1>10, <1>11

-----------------------------------------------------------------------------
(* What is given does not change, and what follows from it.                *)

LEMMA GivenFacts ==
    ASSUME GivenTyped
    PROVE  /\ stream \in Seq(Bytes) /\ Len(stream) \in Nat
           /\ Len(messages) \in Nat /\ Len(Written(sent)) \in Nat
           /\ EndOf(messages, 0) = 0
<1>1. messages \in Seq(Seq(Bytes)) /\ stream = FlattenSeq(messages)
  BY DEF GivenTyped
<1>2. stream \in Seq(Bytes)
  BY <1>1, FlattenPlaces
<1>3. Written(sent) \in Seq({p \in Outgoing : Encodable(p)})
  BY DEF GivenTyped
<1>4. Len(stream) \in Nat
  BY <1>2
<1>5. Len(messages) \in Nat
  BY <1>1
<1>6. Len(Written(sent)) \in Nat
  BY <1>3
<1>7. EndOf(messages, 0) = 0
  BY DEF EndOf
<1> QED BY <1>2, <1>4, <1>5, <1>6, <1>7

\* The frame of the k-th packet, in the stream and as a message.
LEMMA FrameInPlace ==
    ASSUME GivenTyped, NEW k \in Nat, k < Len(Written(sent)),
           NEW p, p = Written(sent)[k + 1], NEW at, at = EndOf(messages, k)
    PROVE  /\ p \in Outgoing /\ Encodable(p)
           /\ messages[k + 1] = Encode(p) /\ k + 1 \in 1 .. Len(messages)
           /\ at \in Nat
           /\ stream[at + 1] = FirstByte(p)
           /\ Total(stream[at + 1]) = Len(Encode(p))
           /\ PacketAt(stream, at) = Decoded(p)
           /\ EndOf(messages, k + 1) = at + Len(Encode(p))
           /\ at + Len(Encode(p)) <= Len(stream)
<1>1. k + 1 \in 1 .. Len(Written(sent)) /\ k + 1 \in 1 .. Len(messages) /\ (k + 1) - 1 = k
  BY GivenFacts DEF GivenTyped
<1>2. p \in Outgoing /\ Encodable(p)
  <2>1. Written(sent)[k + 1] \in {q \in Outgoing : Encodable(q)}
    BY <1>1 DEF GivenTyped
  <2> QED BY <2>1
<1>3. messages[k + 1] = Encode(p)
  BY <1>1 DEF GivenTyped
<1>4. PICK i \in 1 .. Len(messages) : i = k + 1 /\ i - 1 = k
  BY <1>1
<1>5. messages \in Seq(Seq(Bytes)) /\ stream = FlattenSeq(messages)
  BY DEF GivenTyped
<1>6. /\ EndOf(messages, i - 1) \in Nat
      /\ EndOf(messages, i) = EndOf(messages, i - 1) + Len(messages[i])
      /\ EndOf(messages, i) <= Len(stream)
      /\ \A j \in 1 .. Len(messages[i]) : stream[EndOf(messages, i - 1) + j] = messages[i][j]
  <2>1. PICK ss \in Seq(Seq(Bytes)) : ss = messages
    BY <1>5
  <2>2. /\ EndOf(ss, i - 1) \in Nat /\ EndOf(ss, i) = EndOf(ss, i - 1) + Len(ss[i])
        /\ EndOf(ss, i) <= Len(FlattenSeq(ss))
        /\ \A j \in 1 .. Len(ss[i]) : FlattenSeq(ss)[EndOf(ss, i - 1) + j] = ss[i][j]
    BY <2>1, FlattenPlaces
  <2> QED BY <1>5, <2>1, <2>2
<1>7. /\ at \in Nat /\ EndOf(messages, k + 1) = at + Len(Encode(p))
      /\ at + Len(Encode(p)) <= Len(stream)
      /\ \A j \in 1 .. Len(Encode(p)) : stream[at + j] = Encode(p)[j]
  BY <1>3, <1>4, <1>6
<1>8. stream \in Seq(Bytes)
  BY GivenFacts
<1>9. /\ stream[at + 1] = FirstByte(p)
      /\ Total(stream[at + 1]) = Len(Encode(p))
      /\ PacketAt(stream, at) = Decoded(p)
  <2>1. PICK s \in Seq(Bytes) : s = stream
    BY <1>8
  <2>2. at + Len(Encode(p)) <= Len(s)
    BY <1>7, <2>1
  <2>3. \A j \in 1 .. Len(Encode(p)) : s[at + j] = Encode(p)[j]
    BY <1>7, <2>1
  <2>4. /\ s[at + 1] = FirstByte(p) /\ Total(s[at + 1]) = Len(Encode(p))
        /\ PacketAt(s, at) = Decoded(p)
    <3>1. PICK a \in Nat : a = at
      BY <1>7
    <3>2. PICK q \in Outgoing : q = p /\ Encodable(q)
      BY <1>2
    <3>3. /\ a + Len(Encode(q)) <= Len(s)
          /\ \A j \in 1 .. Len(Encode(q)) : s[a + j] = Encode(q)[j]
      BY <2>2, <2>3, <3>1, <3>2
    <3>4. /\ s[a + 1] = FirstByte(q) /\ Total(s[a + 1]) = Len(Encode(q))
          /\ PacketAt(s, a) = Decoded(q)
      BY <3>2, <3>3, PacketOfFrame
    <3> QED BY <3>1, <3>2, <3>4
  <2> QED BY <2>1, <2>4
<1> QED BY <1>1, <1>2, <1>3, <1>7, <1>9

LEMMA GivenKept ==
    ASSUME UNCHANGED given
    PROVE  /\ proto' = proto /\ policy' = policy /\ messages' = messages /\ stream' = stream
           /\ Written(sent)' = Written(sent)
           /\ Expected' = Expected
           /\ DecodeFrom' = DecodeFrom /\ Reference' = Reference
           /\ GivenTyped => GivenTyped'
<1>1. /\ proto' = proto /\ policy' = policy /\ sent' = sent /\ messages' = messages
      /\ stream' = stream
  BY DEF given
<1>2. Written(sent)' = Written(sent)
  BY <1>1 DEF Written
<1>3. Expected' = Expected
  BY <1>2 DEF Expected
<1>4. DecodeFrom' = DecodeFrom
  BY <1>1 DEF DecodeFrom
<1>5. Reference' = Reference
  BY <1>4 DEF Reference
<1>6. GivenTyped => GivenTyped'
  BY <1>1, <1>2 DEF GivenTyped
<1> QED BY <1>1, <1>2, <1>3, <1>4, <1>5, <1>6

-----------------------------------------------------------------------------
(* The invariant holds initially.                                          *)

LEMMA InitGiven ==
    ASSUME Init
    PROVE  GivenTyped
<1>1. /\ proto \in Protocols /\ policy \in Policies /\ sent \in Seq(Outgoing)
      /\ stream = FlattenSeq(messages)
  BY FramingAssumption DEF Init
<1>2. PICK w : w = Written(sent) /\ w \in Seq({p \in Outgoing : Encodable(p)})
  BY <1>1, WrittenShape
<1>3. PICK tail \in Tails :
        messages = [i \in DOMAIN w |-> Encode(w[i])] \o (IF tail = <<>> THEN <<>> ELSE <<tail>>)
  BY <1>2 DEF Init
<1>4. PICK b : b = (IF tail = <<>> THEN <<>> ELSE <<tail>>) /\ b \in Seq(Seq(Bytes))
  <2>1. tail \in Seq(Bytes)
    BY FramingAssumption
  <2>2. <<tail>> \in Seq(Seq(Bytes)) /\ <<>> \in Seq(Seq(Bytes))
    BY <2>1
  <2> QED BY <2>2
<1>5. PICK n \in Nat : n = Len(w) /\ DOMAIN w = 1 .. n
  BY <1>2
<1>6. \A i \in 1 .. n : Encode(w[i]) \in Seq(Bytes)
  <2> SUFFICES ASSUME NEW i \in 1 .. n PROVE Encode(w[i]) \in Seq(Bytes)
    OBVIOUS
  <2>1. w[i] \in Outgoing /\ Encodable(w[i])
    BY <1>2, <1>5
  <2> QED BY <2>1, EncodeLayout
<1>7. PICK a : a = [i \in 1 .. n |-> Encode(w[i])]
  OBVIOUS
<1>8. a \in Seq(Seq(Bytes)) /\ Len(a) = n /\ \A i \in 1 .. n : a[i] = Encode(w[i])
  BY <1>6, <1>7
<1>9. messages = a \o b
  BY <1>3, <1>4, <1>5, <1>7
<1>10. /\ messages \in Seq(Seq(Bytes)) /\ n <= Len(messages)
       /\ \A i \in 1 .. n : messages[i] = a[i]
  BY <1>4, <1>8, <1>9, Joined
<1> QED BY <1>1, <1>2, <1>5, <1>8, <1>10 DEF GivenTyped

LEMMA InitKeeps ==
    ASSUME Init
    PROVE  FramingInv
<1>1. GivenTyped
  BY InitGiven
<1>2. /\ filled = 0 /\ consumed = 0 /\ parsedAny = FALSE /\ phase = "reading"
      /\ reason = "none" /\ out = <<>>
  BY DEF Init
<1>3. /\ stream \in Seq(Bytes) /\ Len(stream) \in Nat
      /\ Len(messages) \in Nat /\ Len(Written(sent)) \in Nat /\ EndOf(messages, 0) = 0
  BY <1>1, GivenFacts
<1>4. CursorTyped
  <2>1. <<>> \in Seq(Delivered)
    OBVIOUS
  <2>2. parsedAny \in BOOLEAN
    BY <1>2, Zenon
  <2>3. filled \in Nat /\ consumed \in Nat /\ consumed <= filled
    BY <1>2
  <2>4. filled <= Len(stream) /\ filled <= Len(messages)
    BY <1>2, <1>3
  <2>5. phase \in {"reading", "parsing", "closed"} /\ phase # "parsing"
    BY <1>2
  <2>6. out \in Seq(Delivered)
    BY <1>2, <2>1
  <2> QED BY <2>2, <2>3, <2>4, <2>5, <2>6, Zenon DEF CursorTyped
<1>5. WaitsForMore
  <2>1. HeaderSize \in Nat \ {0}
    BY FramingAssumption
  <2> QED BY <1>2, <2>1 DEF WaitsForMore, FrameLayout, Buffered
<1>6. RestAgrees
  <2>1. DecodeFrom[0] \in Results
    BY <1>3, DecodeTypes
  <2>2. PICK r : r = DecodeFrom[0].packets /\ r \in Seq(Delivered)
    BY <2>1 DEF Results
  <2>3. <<>> \o r = r
    BY <2>2
  <2> QED BY <1>2, <2>2, <2>3 DEF RestAgrees, Reference
<1>7. AtTheNext
  <2>1. Len(<<>>) = 0
    OBVIOUS
  <2> QED BY <1>2, <1>3, <2>1 DEF AtTheNext
<1>8. Delivers
  <2>1. Len(out) = 0
    BY <1>2
  <2>2. Len(Expected) \in Nat
    BY <1>1, ExpectedShape DEF GivenTyped
  <2> QED BY <1>2, <2>1, <2>2 DEF Delivers
<1> QED BY <1>1, <1>4, <1>5, <1>6, <1>7, <1>8 DEF FramingInv

-----------------------------------------------------------------------------
(* What the steps have in common.                                          *)

LEMMA CursorFacts ==
    ASSUME GivenTyped, CursorTyped
    PROVE  /\ out \in Seq(Delivered) /\ Len(out) \in Nat
           /\ filled \in Nat /\ consumed \in Nat
           /\ proto = "tcp" => /\ Buffered \in Nat /\ consumed + Buffered = filled
                               /\ filled <= Len(stream) /\ consumed \in 0 .. Len(stream)
<1>1. Len(stream) \in Nat
  BY GivenFacts
<1>2. out \in Seq(Delivered) /\ filled \in Nat /\ consumed \in Nat
  BY DEF CursorTyped
<1>3. Len(out) \in Nat
  BY <1>2
<1>4. ASSUME proto = "tcp"
      PROVE  /\ Buffered \in Nat /\ consumed + Buffered = filled
             /\ filled <= Len(stream) /\ consumed \in 0 .. Len(stream)
  <2>1. consumed <= filled /\ filled <= Len(stream)
    BY <1>4 DEF CursorTyped
  <2> QED BY <1>1, <1>2, <2>1 DEF Buffered
<1> QED BY <1>2, <1>3, <1>4

\* What was written before the packet that is refused is all that must be delivered.
LEMMA RefusedIsTheEnd ==
    ASSUME GivenTyped, NEW k \in Nat,
           k < Len(Written(sent)) => ~ Acceptable(Written(sent)[k + 1])
    PROVE  k >= Len(Expected)
<1>1. /\ Len(Expected) \in Nat /\ Len(Written(sent)) \in Nat
      /\ Len(Expected) <= Len(Written(sent))
      /\ \A i \in 1 .. Len(Expected) : Acceptable(Written(sent)[i])
  BY ExpectedShape DEF GivenTyped
<1>2. CASE k < Len(Written(sent))
  <2>1. k + 1 \notin 1 .. Len(Expected)
    BY <1>1, <1>2
  <2> QED BY <1>1, <2>1
<1>3. CASE ~ (k < Len(Written(sent)))
  BY <1>1, <1>3
<1> QED BY <1>2, <1>3

LEMMA RawKept ==
    ASSUME UNCHANGED given, NEW i, out'[i] = out[i]
    PROVE  HandedOverRaw(i)' <=> HandedOverRaw(i)
<1>1. /\ proto' = proto /\ policy' = policy /\ messages' = messages
      /\ Written(sent)' = Written(sent)
  BY GivenKept
<1> QED BY <1>1 DEF HandedOverRaw

\* A step that delivers nothing.
LEMMA DeliversNothing ==
    ASSUME FramingInv, UNCHANGED given, UNCHANGED out,
           phase' = "closed" =>
             /\ Len(out) >= Len(Expected)
             /\ Expected # Written(sent) /\ (policy = "strict" \/ proto = "tcp") =>
                  reason' = "Error"
    PROVE  Delivers'
<1>1. /\ proto' = proto /\ policy' = policy /\ Written(sent)' = Written(sent)
      /\ Expected' = Expected
  BY GivenKept
<1>2. Delivers
  BY DEF FramingInv
<1>3. \A i \in 1 .. Len(out) : HandedOverRaw(i)' <=> HandedOverRaw(i)
  BY RawKept
<1>4. (\A i \in 1 .. Len(out) :
         i <= Len(Written(sent)) =>
           out[i] = Decoded(Written(sent)[i]) \/ HandedOverRaw(i))'
  BY <1>1, <1>2, <1>3 DEF Delivers
<1>5. (phase = "closed" => Len(out) >= Len(Expected))'
  BY <1>1
<1>6. (Expected # Written(sent) /\ (policy = "strict" \/ proto = "tcp") =>
         Len(out) <= Len(Expected) /\ (phase = "closed" => reason = "Error"))'
  BY <1>1, <1>2 DEF Delivers
<1> QED BY <1>4, <1>5, <1>6 DEF Delivers

\* A step that delivers x.
LEMMA DeliversOne ==
    ASSUME FramingInv, UNCHANGED given,
           NEW x \in Delivered, out' = Append(out, x), phase' # "closed",
           Len(out) < Len(Written(sent)) =>
             \/ /\ x = Decoded(Written(sent)[Len(out) + 1])
                /\ Acceptable(Written(sent)[Len(out) + 1])
             \/ /\ policy = "lenient" /\ proto # "tcp"
                /\ ~ Acceptable(Written(sent)[Len(out) + 1])
                /\ x = RawPacket(messages[Len(out) + 1])
    PROVE  out' \in Seq(Delivered) /\ Len(out') = Len(out) + 1 /\ Delivers'
<1>0. GivenTyped /\ CursorTyped /\ Delivers
  BY DEF FramingInv
<1>1. /\ proto' = proto /\ policy' = policy /\ messages' = messages
      /\ Written(sent)' = Written(sent) /\ Expected' = Expected
  BY GivenKept
<1>2. out \in Seq(Delivered) /\ Len(out) \in Nat
  BY <1>0, CursorFacts
<1>3. /\ out' \in Seq(Delivered) /\ Len(out') = Len(out) + 1
      /\ \A i \in 1 .. Len(out) : out'[i] = out[i]
      /\ out'[Len(out) + 1] = x
  BY <1>2
<1>4. PICK w : w = Written(sent)
  OBVIOUS
<1>5. /\ Len(Expected) \in Nat /\ Len(w) \in Nat /\ Len(Expected) <= Len(w)
      /\ Len(Expected) < Len(w) => ~ Acceptable(w[Len(Expected) + 1])
      /\ Expected = w <=> Len(Expected) = Len(w)
  BY <1>0, <1>4, ExpectedShape DEF GivenTyped
<1>6. ASSUME NEW i \in 1 .. Len(out'), i <= Len(w)
      PROVE  out'[i] = Decoded(w[i]) \/ HandedOverRaw(i)'
  <2>1. CASE i = Len(out) + 1
    <3>1. Len(out) < Len(w)
      BY <1>2, <1>5, <1>6, <2>1
    <3>2. \/ x = Decoded(w[i])
          \/ /\ policy = "lenient" /\ proto # "tcp" /\ ~ Acceptable(w[i])
             /\ x = RawPacket(messages[i])
      BY <1>4, <2>1, <3>1
    <3>3. out'[i] = x
      BY <1>3, <2>1
    <3> QED BY <1>1, <1>4, <3>2, <3>3 DEF HandedOverRaw
  <2>2. CASE i # Len(out) + 1
    <3>1. i \in 1 .. Len(out)
      BY <1>2, <1>3, <2>2
    <3>2. out[i] = Decoded(w[i]) \/ HandedOverRaw(i)
      BY <1>0, <1>4, <1>6, <3>1 DEF Delivers
    <3>3. out'[i] = out[i]
      BY <1>3, <3>1
    <3>4. HandedOverRaw(i)' <=> HandedOverRaw(i)
      BY <3>3, RawKept
    <3> QED BY <3>2, <3>3, <3>4
  <2> QED BY <2>1, <2>2
<1>7. ASSUME Expected # w, policy = "strict" \/ proto = "tcp"
      PROVE  Len(out') <= Len(Expected)
  <2>1. Len(out) <= Len(Expected) /\ Len(Expected) < Len(w)
    BY <1>0, <1>4, <1>5, <1>7 DEF Delivers
  <2>2. policy # "lenient" \/ proto = "tcp"
    BY <1>7
  <2>3. Len(out) < Len(w)
    BY <1>2, <1>5, <2>1
  <2>4. Acceptable(w[Len(out) + 1])
    BY <1>4, <2>2, <2>3
  <2>5. Len(out) # Len(Expected)
    BY <1>5, <2>1, <2>4
  <2> QED BY <1>2, <1>3, <1>5, <2>1, <2>5
<1>8. Delivers'
  BY <1>1, <1>4, <1>6, <1>7 DEF Delivers
<1> QED BY <1>3, <1>8

\* The stream ends where the reference ends.
LEMMA RestEnds ==
    ASSUME FramingInv, UNCHANGED given, UNCHANGED out,
           phase # "closed", phase' = "closed", proto = "tcp",
           policy = "strict" => DecodeFrom[consumed] = [packets |-> <<>>, end |-> reason']
    PROVE  RestAgrees'
<1> SUFFICES ASSUME policy = "strict"
             PROVE  out = Reference.packets /\ reason' = Reference.end
  BY GivenKept DEF RestAgrees
<1>1. GivenTyped /\ CursorTyped /\ RestAgrees
  BY DEF FramingInv
<1>2. PICK r : r = DecodeFrom[consumed] /\ r = [packets |-> <<>>, end |-> reason']
  OBVIOUS
<1>3. Reference.packets = out \o r.packets /\ Reference.end = r.end
  BY <1>1, <1>2 DEF RestAgrees
<1>4. r.packets = <<>> /\ r.end = reason'
  BY <1>2
<1>5. out \o <<>> = out
  BY <1>1, CursorFacts
<1> QED BY <1>3, <1>4, <1>5

\* What the reference makes of the rest when the front of the buffer is decided.
LEMMA RestIsDecided ==
    ASSUME GivenTyped, CursorTyped, proto = "tcp",
           FrameLayout(stream, consumed, Buffered) # "more"
    PROVE  /\ FrameLayout(stream, consumed, Len(stream) - consumed)
                = FrameLayout(stream, consumed, Buffered)
           /\ DecodeFrom[consumed] = DecodeStep(stream, consumed, DecodeFrom)
<1>1. stream \in Seq(Bytes) /\ Len(stream) \in Nat
  BY GivenFacts
<1>2. /\ Buffered \in Nat /\ consumed \in Nat /\ consumed + Buffered = filled
      /\ filled <= Len(stream) /\ consumed \in 0 .. Len(stream)
  BY CursorFacts
<1>3. /\ consumed + Buffered <= Len(stream) /\ Len(stream) - consumed \in Nat
      /\ Buffered <= Len(stream) - consumed
  BY <1>1, <1>2
<1>4. FrameLayout(stream, consumed, Len(stream) - consumed)
        = FrameLayout(stream, consumed, Buffered)
  BY <1>1, <1>2, <1>3, LayoutOfBytes
<1>5. DecodeFrom[consumed] = DecodeStep(stream, consumed, DecodeFrom)
  BY <1>1, <1>2, DecodeUnfolds
<1> QED BY <1>4, <1>5

-----------------------------------------------------------------------------
(* Each step keeps the invariant.                                          *)

\* While packets are missing, the front of the buffer is the frame of the next one: it
\* is never invalid, it is too large only if the limits refuse its packet, and it does
\* not ask for more once the stream has ended.
LEMMA FrontIsTheNext ==
    ASSUME FramingInv, proto = "tcp", phase # "closed",
           Len(out) < Len(Written(sent)), NEW p, p = Written(sent)[Len(out) + 1]
    PROVE  /\ FrameLayout(stream, consumed, Buffered) # "invalid"
           /\ FrameLayout(stream, consumed, Buffered) = "large" => ~ Acceptable(p)
           /\ FrameLayout(stream, consumed, Buffered) = "more" => filled # Len(stream)
           /\ FrameLayout(stream, consumed, Buffered) = "frame" =>
                /\ p.ext <= MaxExt /\ WireLen(p) <= MaxPay
                /\ PacketAt(stream, consumed) = Decoded(p)
                /\ consumed + Total(stream[consumed + 1]) = EndOf(messages, Len(out) + 1)
<1>1. GivenTyped /\ CursorTyped /\ AtTheNext
  BY DEF FramingInv
<1>2. Len(out) \in Nat /\ consumed = EndOf(messages, Len(out))
  BY <1>1, CursorFacts DEF AtTheNext
<1>3. /\ p \in Outgoing /\ Encodable(p)
      /\ consumed \in Nat
      /\ stream[consumed + 1] = FirstByte(p)
      /\ Total(stream[consumed + 1]) = Len(Encode(p))
      /\ PacketAt(stream, consumed) = Decoded(p)
      /\ EndOf(messages, Len(out) + 1) = consumed + Len(Encode(p))
      /\ consumed + Len(Encode(p)) <= Len(stream)
  BY <1>1, <1>2, FrameInPlace
<1>4. Buffered \in Nat /\ consumed + Buffered = filled
  BY <1>1, CursorFacts
<1>5. PICK front : front = FrameLayout(stream, consumed, Buffered)
  OBVIOUS
<1>6. /\ front \in {"more", "large", "frame"}
      /\ front = "more" => Buffered < Len(Encode(p))
      /\ front = "large" => ~ Acceptable(p)
      /\ front = "frame" => p.ext <= MaxExt /\ WireLen(p) <= MaxPay
  BY <1>3, <1>4, <1>5, LayoutOfFrame
<1>7. front = "more" => filled # Len(stream)
  <2>1. Len(Encode(p)) \in Nat /\ Len(stream) \in Nat
    <3>1. Encode(p) \in Seq(Bytes)
      BY <1>3, EncodeLayout
    <3>2. Len(stream) \in Nat
      BY <1>1, GivenFacts
    <3> QED BY <3>1, <3>2
  <2> QED BY <1>3, <1>4, <1>6, <2>1
<1>8. front # "invalid"
  BY <1>6
<1> QED BY <1>3, <1>5, <1>6, <1>7, <1>8

LEMMA FillKeepsFraming ==
    ASSUME FramingInv, NEW k \in 1 .. Len(stream), Fill(k)
    PROVE  FramingInv'
<1>0. GivenTyped /\ CursorTyped /\ RestAgrees /\ AtTheNext
  BY DEF FramingInv
<1>1. /\ proto = "tcp" /\ phase = "reading" /\ filled + k <= Len(stream)
      /\ filled' = filled + k /\ phase' = "parsing"
      /\ UNCHANGED given /\ UNCHANGED <<consumed, parsedAny, reason, out>>
  BY DEF Fill
<1>2. /\ proto' = proto /\ policy' = policy /\ messages' = messages /\ stream' = stream
      /\ Written(sent)' = Written(sent)
      /\ DecodeFrom' = DecodeFrom /\ Reference' = Reference /\ GivenTyped'
  BY <1>0, <1>1, GivenKept
<1>3. CursorTyped'
  <2>1. /\ filled \in Nat /\ consumed \in Nat /\ consumed <= filled /\ k \in Nat
        /\ out \in Seq(Delivered) /\ parsedAny \in BOOLEAN
    BY <1>0, <1>1 DEF CursorTyped
  <2>2. filled' \in Nat /\ consumed <= filled'
    BY <1>1, <2>1
  <2> QED BY <1>1, <1>2, <2>1, <2>2 DEF CursorTyped
<1>4. WaitsForMore'
  BY <1>1 DEF WaitsForMore
<1>5. RestAgrees'
  BY <1>0, <1>1, <1>2 DEF RestAgrees
<1>6. AtTheNext'
  <2>1. EndOf(messages, Len(out))' = EndOf(messages, Len(out))
    BY <1>1, <1>2
  <2> QED BY <1>0, <1>1, <1>2, <2>1 DEF AtTheNext
<1>7. Delivers'
  BY <1>1, DeliversNothing
<1> QED BY <1>2, <1>3, <1>4, <1>5, <1>6, <1>7 DEF FramingInv

LEMMA ParseNeedsMoreKeeps ==
    ASSUME FramingInv, ParseNeedsMore
    PROVE  FramingInv'
<1>0. GivenTyped /\ CursorTyped /\ RestAgrees /\ AtTheNext
  BY DEF FramingInv
<1>1. /\ proto = "tcp" /\ phase = "parsing" /\ phase' = "reading"
      /\ FrameLayout(stream, consumed, Buffered) = "more"
      /\ UNCHANGED given /\ UNCHANGED <<filled, consumed, parsedAny, reason, out>>
  BY DEF ParseNeedsMore, Turn
<1>2. /\ proto' = proto /\ policy' = policy /\ messages' = messages /\ stream' = stream
      /\ Written(sent)' = Written(sent)
      /\ DecodeFrom' = DecodeFrom /\ Reference' = Reference /\ GivenTyped'
  BY <1>0, <1>1, GivenKept
<1>3. CursorTyped'
  BY <1>0, <1>1, <1>2 DEF CursorTyped
<1>4. WaitsForMore'
  BY <1>1, <1>2 DEF WaitsForMore, Buffered
<1>5. RestAgrees'
  BY <1>0, <1>1, <1>2 DEF RestAgrees
<1>6. AtTheNext'
  <2>1. EndOf(messages, Len(out))' = EndOf(messages, Len(out))
    BY <1>1, <1>2
  <2> QED BY <1>0, <1>1, <1>2, <2>1 DEF AtTheNext
<1>7. Delivers'
  BY <1>1, DeliversNothing
<1> QED BY <1>2, <1>3, <1>4, <1>5, <1>6, <1>7 DEF FramingInv

\* The ways in which the TCP reader ends the connection without a delivery.
LEMMA TcpCloses ==
    ASSUME FramingInv, proto = "tcp", phase # "closed", phase' = "closed",
           UNCHANGED given, UNCHANGED <<filled, consumed, parsedAny, out>>,
           policy = "strict" => DecodeFrom[consumed] = [packets |-> <<>>, end |-> reason'],
           Len(out) < Len(Written(sent)) => /\ ~ Acceptable(Written(sent)[Len(out) + 1])
                                              /\ reason' = "Error"
    PROVE  FramingInv'
<1>0. GivenTyped /\ CursorTyped /\ Delivers
  BY DEF FramingInv
<1>1. proto' = proto /\ stream' = stream /\ messages' = messages /\ GivenTyped'
  BY <1>0, GivenKept
<1>2. CursorTyped'
  BY <1>0, <1>1 DEF CursorTyped
<1>3. WaitsForMore' /\ AtTheNext'
  BY DEF WaitsForMore, AtTheNext
<1>4. RestAgrees'
  BY RestEnds
<1>5. Len(out) \in Nat
  BY <1>0, CursorFacts
<1>6. Len(out) >= Len(Expected)
  BY <1>0, <1>5, RefusedIsTheEnd
<1>7. Expected # Written(sent) => reason' = "Error"
  <2>1. /\ Len(Expected) \in Nat /\ Len(Written(sent)) \in Nat
        /\ Len(Expected) <= Len(Written(sent))
        /\ Expected = Written(sent) <=> Len(Expected) = Len(Written(sent))
    BY <1>0, ExpectedShape DEF GivenTyped
  <2>2. Expected # Written(sent) => Len(out) <= Len(Expected)
    BY <1>0 DEF Delivers
  <2> QED BY <1>5, <2>1, <2>2
<1>8. Delivers'
  BY <1>6, <1>7, DeliversNothing
<1> QED BY <1>1, <1>2, <1>3, <1>4, <1>8 DEF FramingInv

\* An error that the front of the buffer shows.
LEMMA FrontIsAnError ==
    ASSUME FramingInv, proto = "tcp",
           FrameLayout(stream, consumed, Buffered) \in {"large", "invalid"}
    PROVE  DecodeFrom[consumed] = [packets |-> <<>>, end |-> "Error"]
<1>1. GivenTyped /\ CursorTyped
  BY DEF FramingInv
<1>2. /\ FrameLayout(stream, consumed, Len(stream) - consumed) \in {"large", "invalid"}
      /\ DecodeFrom[consumed] = DecodeStep(stream, consumed, DecodeFrom)
  BY <1>1, RestIsDecided
<1> QED BY <1>2 DEF DecodeStep

LEMMA ParseTooLargeKeeps ==
    ASSUME FramingInv, ParseTooLarge
    PROVE  FramingInv'
<1>1. /\ proto = "tcp" /\ phase # "closed" /\ phase' = "closed" /\ reason' = "Error"
      /\ FrameLayout(stream, consumed, Buffered) = "large"
      /\ UNCHANGED given /\ UNCHANGED <<filled, consumed, parsedAny, out>>
  BY DEF ParseTooLarge, Turn, CloseWith
<1>2. DecodeFrom[consumed] = [packets |-> <<>>, end |-> reason']
  BY <1>1, FrontIsAnError
<1>3. Len(out) < Len(Written(sent)) => ~ Acceptable(Written(sent)[Len(out) + 1])
  BY <1>1, FrontIsTheNext
<1> QED BY <1>1, <1>2, <1>3, TcpCloses

LEMMA ParseInvalidKeeps ==
    ASSUME FramingInv, ParseInvalid
    PROVE  FramingInv'
<1>1. /\ proto = "tcp" /\ phase # "closed" /\ phase' = "closed" /\ reason' = "Error"
      /\ FrameLayout(stream, consumed, Buffered) = "invalid"
      /\ UNCHANGED given /\ UNCHANGED <<filled, consumed, parsedAny, out>>
  BY DEF ParseInvalid, Turn, CloseWith
<1>2. DecodeFrom[consumed] = [packets |-> <<>>, end |-> reason']
  BY <1>1, FrontIsAnError
<1>3. ~ (Len(out) < Len(Written(sent)))
  BY <1>1, FrontIsTheNext
<1> QED BY <1>1, <1>2, <1>3, TcpCloses

LEMMA EndOfStreamKeeps ==
    ASSUME FramingInv, EndOfStream
    PROVE  FramingInv'
<1>0. GivenTyped /\ CursorTyped /\ WaitsForMore
  BY DEF FramingInv
<1>1. /\ proto = "tcp" /\ phase = "reading" /\ phase' = "closed" /\ reason' = "Normal"
      /\ filled = Len(stream)
      /\ UNCHANGED given /\ UNCHANGED <<filled, consumed, parsedAny, out>>
  BY DEF EndOfStream, CloseWith
<1>2. FrameLayout(stream, consumed, Buffered) = "more"
  BY <1>0, <1>1 DEF WaitsForMore
<1>3. DecodeFrom[consumed] = [packets |-> <<>>, end |-> reason']
  <2>1. stream \in Seq(Bytes) /\ consumed \in 0 .. Len(stream)
    BY <1>0, <1>1, GivenFacts, CursorFacts
  <2>2. DecodeFrom[consumed] = DecodeStep(stream, consumed, DecodeFrom)
    BY <2>1, DecodeUnfolds
  <2>3. FrameLayout(stream, consumed, Len(stream) - consumed) = "more"
    BY <1>1, <1>2 DEF Buffered
  <2> QED BY <1>1, <2>2, <2>3 DEF DecodeStep
<1>4. ~ (Len(out) < Len(Written(sent)))
  BY <1>1, <1>2, FrontIsTheNext
<1> QED BY <1>1, <1>3, <1>4, TcpCloses

LEMMA ParseFrameKeeps ==
    ASSUME FramingInv, ParseFrame
    PROVE  FramingInv'
<1>0. GivenTyped /\ CursorTyped /\ RestAgrees /\ AtTheNext /\ Delivers
  BY DEF FramingInv
<1>1. /\ proto = "tcp" /\ phase = "parsing"
      /\ FrameLayout(stream, consumed, Buffered) = "frame"
      /\ consumed' = consumed + Total(stream[consumed + 1]) /\ parsedAny' = TRUE
      /\ Deliver(PacketAt(stream, consumed), "parsing")
      /\ UNCHANGED given /\ UNCHANGED filled
  BY DEF ParseFrame, Turn
<1>2. /\ proto' = proto /\ policy' = policy /\ messages' = messages /\ stream' = stream
      /\ Written(sent)' = Written(sent)
      /\ DecodeFrom' = DecodeFrom /\ Reference' = Reference /\ GivenTyped'
  BY <1>0, <1>1, GivenKept
<1>3. /\ stream \in Seq(Bytes) /\ Len(stream) \in Nat
      /\ out \in Seq(Delivered) /\ Len(out) \in Nat /\ filled \in Nat /\ consumed \in Nat
      /\ Buffered \in Nat /\ consumed + Buffered = filled /\ filled <= Len(stream)
  BY <1>0, <1>1, GivenFacts, CursorFacts
<1>4. PICK t : t = Total(stream[consumed + 1]) /\ t \in Nat \ {0} /\ t <= Buffered
  <2>1. consumed + Buffered <= Len(stream)
    BY <1>3
  <2> QED BY <1>1, <1>3, <2>1, LayoutOfBytes
<1>5. PICK x \in Delivered : x = PacketAt(stream, consumed)
  <2>1. consumed + Buffered <= Len(stream)
    BY <1>3
  <2> QED BY <1>1, <1>3, <2>1, LayoutOfBytes
<1>6. consumed' = consumed + t /\ consumed' \in Nat /\ consumed' <= filled
  BY <1>1, <1>3, <1>4
<1>7. consumed' \in 0 .. Len(stream)
  BY <1>3, <1>6
<1>8. /\ DecodeFrom[consumed] = DecodeStep(stream, consumed, DecodeFrom)
      /\ FrameLayout(stream, consumed, Len(stream) - consumed) = "frame"
  BY <1>0, <1>1, RestIsDecided
<1>9. CASE Expands(x)
  <2>1. out' = Append(out, x) /\ phase' = "parsing" /\ UNCHANGED reason
    BY <1>1, <1>5, <1>9 DEF Deliver
  <2>2. Len(out) < Len(Written(sent)) =>
          /\ x = Decoded(Written(sent)[Len(out) + 1])
          /\ Acceptable(Written(sent)[Len(out) + 1])
          /\ consumed' = EndOf(messages, Len(out) + 1)
    <3> SUFFICES ASSUME Len(out) < Len(Written(sent)),
                        NEW p, p = Written(sent)[Len(out) + 1]
                 PROVE  x = Decoded(p) /\ Acceptable(p) /\ consumed' = EndOf(messages, Len(out) + 1)
      OBVIOUS
    <3>1. /\ p.ext <= MaxExt /\ WireLen(p) <= MaxPay
          /\ PacketAt(stream, consumed) = Decoded(p)
          /\ consumed + Total(stream[consumed + 1]) = EndOf(messages, Len(out) + 1)
      BY <1>1, FrontIsTheNext
    <3>2. x.raw = p.raw
      BY <1>5, <3>1 DEF Decoded
    <3> QED BY <1>1, <1>5, <1>9, <3>1, <3>2 DEF Acceptable, Expands
  <2>3. out' \in Seq(Delivered) /\ Len(out') = Len(out) + 1 /\ Delivers'
    <3>1. phase' # "closed"
      BY <2>1
    <3> QED BY <1>1, <2>1, <2>2, <3>1, DeliversOne
  <2>4. CursorTyped'
    <3>1. parsedAny' \in BOOLEAN
      BY <1>1, Zenon
    <3>2. filled' = filled /\ filled' <= Len(stream')
      BY <1>1, <1>2, <1>3
    <3> QED BY <1>1, <1>2, <1>3, <1>6, <2>1, <2>3, <3>1, <3>2 DEF CursorTyped
  <2>5. WaitsForMore'
    BY <2>1 DEF WaitsForMore
  <2>6. AtTheNext'
    <3>1. ASSUME Len(out') < Len(Written(sent)) PROVE consumed' = EndOf(messages, Len(out'))
      <4>1. Len(out) < Len(Written(sent))
        BY <1>0, <1>3, <2>3, <3>1, GivenFacts
      <4> QED BY <2>2, <2>3, <4>1
    <3> QED BY <1>1, <1>2, <3>1 DEF AtTheNext, EndOf
  <2>7. RestAgrees'
    <3> SUFFICES ASSUME policy = "strict"
                 PROVE  /\ Reference.packets = out' \o DecodeFrom[consumed'].packets
                        /\ Reference.end = DecodeFrom[consumed'].end
      BY <1>2, <2>1 DEF RestAgrees
    <3>1. PICK r : r = DecodeFrom[consumed'] /\ r.packets \in Seq(Delivered)
      <4>1. DecodeFrom[consumed'] \in Results
        BY <1>3, <1>7, DecodeTypes
      <4> QED BY <4>1 DEF Results
    <3>2. DecodeFrom[consumed] = [packets |-> <<x>> \o r.packets, end |-> r.end]
      BY <1>1, <1>5, <1>8, <1>9, <3>1 DEF DecodeStep
    <3>3. /\ Reference.packets = out \o DecodeFrom[consumed].packets
          /\ Reference.end = DecodeFrom[consumed].end
      BY <1>0, <1>1 DEF RestAgrees
    <3>4. PICK q \in Seq(Delivered) : q = r.packets
      BY <3>1
    <3>5. out \o (<<x>> \o q) = Append(out, x) \o q
      <4>1. PICK a \in Seq(Delivered) : a = out
        BY <1>3
      <4>2. <<x>> \in Seq(Delivered)
        OBVIOUS
      <4>3. PICK u \in Seq(Delivered) : u = <<x>>
        BY <4>2
      <4>4. Append(a, x) = a \o u
        BY <4>3, AppendIsConcat
      <4>5. (a \o u) \o q = a \o (u \o q)
        BY ConcatAssociative
      <4> QED BY <4>1, <4>3, <4>4, <4>5
    <3>6. PICK d : d = DecodeFrom[consumed]
      OBVIOUS
    <3>7. d.packets = <<x>> \o q /\ d.end = r.end
      BY <3>2, <3>4, <3>6
    <3> QED BY <2>1, <3>1, <3>3, <3>4, <3>5, <3>6, <3>7
  <2> QED BY <1>2, <2>3, <2>4, <2>5, <2>6, <2>7 DEF FramingInv
<1>10. CASE ~ Expands(x)
  <2>1. out' = out /\ phase' = "closed" /\ reason' = "Error"
    BY <1>1, <1>5, <1>10 DEF Deliver, CloseWith
  <2>2. Len(out) < Len(Written(sent)) => ~ Acceptable(Written(sent)[Len(out) + 1])
    <3> SUFFICES ASSUME Len(out) < Len(Written(sent)),
                        NEW p, p = Written(sent)[Len(out) + 1]
                 PROVE  ~ Acceptable(p)
      OBVIOUS
    <3>1. x = Decoded(p)
      BY <1>1, <1>5, FrontIsTheNext
    <3>2. x.raw = p.raw
      BY <3>1 DEF Decoded
    <3> QED BY <1>10, <3>2 DEF Acceptable, Expands
  <2>3. Len(out) >= Len(Expected)
    BY <1>0, <1>3, <2>2, RefusedIsTheEnd
  <2>4. Delivers'
    BY <1>1, <2>1, <2>3, DeliversNothing
  <2>5. DecodeFrom[consumed] = [packets |-> <<>>, end |-> reason']
    BY <1>5, <1>8, <1>10, <2>1 DEF DecodeStep
  <2>6. RestAgrees'
    BY <1>1, <2>1, <2>5, RestEnds
  <2>7. WaitsForMore' /\ AtTheNext'
    BY <2>1 DEF WaitsForMore, AtTheNext
  <2>8. CursorTyped'
    <3>1. parsedAny' \in BOOLEAN
      BY <1>1, Zenon
    <3>2. filled' = filled /\ filled' <= Len(stream')
      BY <1>1, <1>2, <1>3
    <3> QED BY <1>1, <1>2, <1>3, <1>6, <2>1, <3>1, <3>2 DEF CursorTyped
  <2> QED BY <1>2, <2>4, <2>6, <2>7, <2>8 DEF FramingInv
<1> QED BY <1>9, <1>10

LEMMA LesserOf ==
    ASSUME NEW a \in Nat, NEW b \in Nat
    PROVE  Min({a, b}) = IF a <= b THEN a ELSE b
<1>1. PICK m : m = IF a <= b THEN a ELSE b
  OBVIOUS
<1>2. m \in {a, b} /\ \A y \in {a, b} : m <= y
  BY <1>1
<1>3. \A x \in {a, b} : (\A y \in {a, b} : x <= y) => x = m
  BY <1>1
<1> QED BY <1>1, <1>2, <1>3 DEF Min

\* A resync goes forward, within the buffer.
LEMMA ResyncMoves ==
    ASSUME GivenTyped, CursorTyped, Resync
    PROVE  \/ /\ consumed' \in Nat /\ consumed' <= filled
              /\ UNCHANGED <<phase, reason>>
           \/ CloseWith("Error") /\ UNCHANGED consumed
<1>1. proto = "tcp"
  BY DEF Resync, Turn
<1>2. Buffered \in Nat /\ consumed \in Nat /\ filled \in Nat /\ consumed + Buffered = filled
  BY <1>1, CursorFacts
<1>3. Scan \in Nat
  BY FramingAssumption
<1>4. PICK found : /\ found = {o \in 1 .. Min({Buffered, Scan}) - 1 : ValidHeaderAt(o)}
                   /\ Resynced(found)
  BY DEF Resync
<1>5. \A o \in found : o \in Nat /\ o <= Buffered
  <2>1. PICK m : m = Min({Buffered, Scan}) /\ m \in Nat /\ m <= Buffered
    BY <1>2, <1>3, LesserOf
  <2>2. \A o \in found : o \in 1 .. m - 1
    BY <1>4, <2>1
  <2> QED BY <1>2, <2>1, <2>2
<1>6. CASE found # {}
  <2>1. consumed' = consumed + (CHOOSE o \in found : \A q \in found : o <= q) /\ UNCHANGED <<phase, reason>>
    BY <1>4, <1>6 DEF Resynced
  <2>2. found \in SUBSET Nat
    BY <1>5
  <2>3. PICK o \in found : o = CHOOSE i \in found : \A q \in found : i <= q
    BY <1>6, <2>2, LeastOf
  <2>4. consumed' = consumed + o /\ o \in Nat /\ o <= Buffered
    BY <1>5, <2>1, <2>3
  <2> QED BY <1>2, <2>1, <2>4
<1>7. CASE found = {} /\ Buffered > Scan
  <2>1. consumed' = consumed + Scan /\ UNCHANGED <<phase, reason>>
    BY <1>4, <1>7 DEF Resynced
  <2> QED BY <1>2, <1>3, <1>7, <2>1
<1>8. CASE found = {} /\ ~ (Buffered > Scan)
  BY <1>4, <1>8 DEF Resynced
<1> QED BY <1>6, <1>7, <1>8

LEMMA ResyncKeeps ==
    ASSUME FramingInv, Resync
    PROVE  FramingInv'
<1>0. GivenTyped /\ CursorTyped /\ Delivers
  BY DEF FramingInv
<1>1. /\ proto = "tcp" /\ phase = "parsing" /\ policy = "lenient"
      /\ FrameLayout(stream, consumed, Buffered) = "invalid"
      /\ UNCHANGED given /\ UNCHANGED <<filled, parsedAny, out>>
  BY DEF Resync, Turn
<1>2. /\ proto' = proto /\ policy' = policy /\ messages' = messages /\ stream' = stream
      /\ Written(sent)' = Written(sent) /\ GivenTyped'
  BY <1>0, <1>1, GivenKept
<1>3. ~ (Len(out) < Len(Written(sent)))
  BY <1>1, FrontIsTheNext
<1>4. AtTheNext'
  BY <1>1, <1>2, <1>3 DEF AtTheNext
<1>5. RestAgrees'
  BY <1>1, <1>2 DEF RestAgrees
<1>6. CASE consumed' \in Nat /\ consumed' <= filled /\ UNCHANGED <<phase, reason>>
  <2>1. CursorTyped'
    BY <1>0, <1>1, <1>2, <1>6 DEF CursorTyped
  <2>2. WaitsForMore'
    BY <1>1, <1>6 DEF WaitsForMore
  <2>3. Delivers'
    BY <1>1, <1>6, DeliversNothing
  <2> QED BY <1>2, <1>4, <1>5, <2>1, <2>2, <2>3 DEF FramingInv
<1>7. CASE CloseWith("Error") /\ UNCHANGED consumed
  <2>0. phase' = "closed" /\ reason' = "Error" /\ consumed' = consumed
    BY <1>7 DEF CloseWith
  <2>1. CursorTyped'
    BY <1>0, <1>1, <1>2, <2>0 DEF CursorTyped
  <2>2. WaitsForMore'
    BY <2>0 DEF WaitsForMore
  <2>3. Len(out) >= Len(Expected)
    <3>1. Len(out) \in Nat
      BY <1>0, CursorFacts
    <3> QED BY <1>0, <1>3, <3>1, RefusedIsTheEnd
  <2>4. Delivers'
    BY <1>1, <2>0, <2>3, DeliversNothing
  <2> QED BY <1>2, <1>4, <1>5, <2>1, <2>2, <2>4 DEF FramingInv
<1> QED BY <1>0, <1>6, <1>7, ResyncMoves

LEMMA MessagesEndKeeps ==
    ASSUME FramingInv, MessagesEnd
    PROVE  FramingInv'
<1>0. GivenTyped /\ CursorTyped /\ AtTheNext /\ Delivers
  BY DEF FramingInv
<1>1. /\ proto # "tcp" /\ phase = "reading" /\ phase' = "closed" /\ filled = Len(messages)
      /\ UNCHANGED given /\ UNCHANGED <<filled, consumed, parsedAny, out>>
  BY DEF MessagesEnd, CloseWith
<1>2. /\ proto' = proto /\ messages' = messages /\ GivenTyped'
  BY <1>0, <1>1, GivenKept
<1>3. Len(out) \in Nat /\ Len(messages) \in Nat /\ Len(Written(sent)) \in Nat
  BY <1>0, CursorFacts, GivenFacts
<1>4. ~ (Len(out) < Len(Written(sent)))
  <2>1. Len(Written(sent)) <= Len(messages)
    BY <1>0 DEF GivenTyped
  <2>2. Len(out) < Len(Written(sent)) => filled = Len(out)
    BY <1>0, <1>1 DEF AtTheNext
  <2> QED BY <1>1, <1>3, <2>1, <2>2
<1>5. CursorTyped' /\ WaitsForMore' /\ RestAgrees' /\ AtTheNext'
  BY <1>0, <1>1, <1>2 DEF CursorTyped, WaitsForMore, RestAgrees, AtTheNext
<1>6. Len(out) >= Len(Expected)
  BY <1>0, <1>3, <1>4, RefusedIsTheEnd
<1>7. ~ (Expected # Written(sent) /\ (policy = "strict" \/ proto = "tcp"))
  <2>1. /\ Len(Expected) \in Nat /\ Len(Expected) <= Len(Written(sent))
        /\ Expected = Written(sent) <=> Len(Expected) = Len(Written(sent))
    BY <1>0, ExpectedShape DEF GivenTyped
  <2>2. Expected # Written(sent) /\ (policy = "strict" \/ proto = "tcp") =>
          Len(out) <= Len(Expected)
    BY <1>0 DEF Delivers
  <2> QED BY <1>3, <1>4, <2>1, <2>2
<1>8. Delivers'
  BY <1>1, <1>6, <1>7, DeliversNothing
<1> QED BY <1>2, <1>5, <1>8 DEF FramingInv

\* While packets are missing, the next message is the frame of the next one.
LEMMA MessageIsTheNext ==
    ASSUME FramingInv, proto # "tcp", phase # "closed",
           Len(out) < Len(Written(sent)), NEW p, p = Written(sent)[Len(out) + 1],
           NEW m, m = messages[filled + 1]
    PROVE  /\ m = messages[Len(out) + 1]
           /\ PacketAt(m, 0) = Decoded(p)
           /\ DecodesExactly(m) => p.ext <= MaxExt /\ WireLen(p) <= MaxPay
           /\ ~ DecodesExactly(m) \/ Len(m) > MaxFrame => ~ Acceptable(p)
<1>1. GivenTyped /\ CursorTyped /\ AtTheNext
  BY DEF FramingInv
<1>2. Len(out) \in Nat /\ filled = Len(out)
  BY <1>1, CursorFacts DEF AtTheNext
<1>3. p \in Outgoing /\ Encodable(p) /\ m = Encode(p)
  BY <1>1, <1>2, FrameInPlace
<1>4. PICK e, w : /\ e = p.ext /\ w = WireLen(p) /\ e \in Nat /\ w \in Nat
                  /\ m \in Seq(Bytes) /\ Len(m) = HeaderSize + e + w
  BY <1>3, EncodeLayout
<1>5. HeaderSize \in Nat \ {0} /\ MaxExt \in Nat /\ MaxPay \in Nat
  BY FramingAssumption
<1>6. /\ m[0 + 1] = FirstByte(p)
      /\ Total(m[0 + 1]) = Len(Encode(p))
      /\ PacketAt(m, 0) = Decoded(p)
  <2>1. 0 + Len(Encode(p)) <= Len(m) /\ 0 \in Nat
    BY <1>3, <1>4, <1>5
  <2>2. \A j \in 1 .. Len(Encode(p)) : m[0 + j] = Encode(p)[j]
    <3>1. \A j \in 1 .. Len(Encode(p)) : 0 + j = j
      OBVIOUS
    <3> QED BY <1>3, <3>1
  <2> QED BY <1>3, <1>4, <2>1, <2>2, PacketOfFrame
<1>7. Len(m) \in Nat
  BY <1>4
<1>8. PICK front : front = FrameLayout(m, 0, Len(m))
  OBVIOUS
<1>9. /\ front \in {"more", "large", "frame"}
      /\ front = "more" => Len(m) < Len(Encode(p))
      /\ front = "large" => ~ Acceptable(p)
      /\ front = "frame" => p.ext <= MaxExt /\ WireLen(p) <= MaxPay
  BY <1>3, <1>6, <1>7, <1>8, LayoutOfFrame
<1>10. front # "more"
  BY <1>3, <1>7, <1>9
<1>11. DecodesExactly(m) <=> front = "frame"
  <2>1. m[0 + 1] = m[1]
    OBVIOUS
  <2> QED BY <1>3, <1>6, <1>8, <2>1 DEF DecodesExactly
<1>12. Len(m) > MaxFrame => ~ Acceptable(p)
  <2> SUFFICES ASSUME Acceptable(p) PROVE ~ Len(m) > MaxFrame
    OBVIOUS
  <2>1. e <= MaxExt /\ w <= MaxPay
    BY <1>4 DEF Acceptable
  <2>2. ~ HeaderSize + e + w > HeaderSize + MaxExt + MaxPay
    <3>1. e \in Nat /\ w \in Nat
      BY <1>4
    <3> QED BY <1>5, <2>1, <3>1, FrameWithin
  <2>3. Len(m) = HeaderSize + e + w
    BY <1>4
  <2> QED BY <2>2, <2>3 DEF MaxFrame
<1> QED BY <1>2, <1>6, <1>9, <1>10, <1>11, <1>12

\* What the reader does with a message.
LEMMA MessageOutcome ==
    ASSUME GivenTyped, CursorTyped, ReadMessage,
           NEW m, m = messages[filled + 1]
    PROVE  \/ /\ phase' = "closed" /\ reason' = "Error" /\ out' = out
              /\ \/ Len(m) > MaxFrame \/ ~ DecodesExactly(m)
                 \/ ~ Expands(PacketAt(m, 0))
           \/ /\ DecodesExactly(m) /\ Expands(PacketAt(m, 0))
              /\ phase' = "reading" /\ out' = Append(out, PacketAt(m, 0))
           \/ /\ ~ DecodesExactly(m) /\ policy # "strict"
              /\ phase' = "reading" /\ out' = Append(out, RawPacket(m))
<1>1. /\ phase = "reading" /\ filled < Len(messages)
      /\ CASE Len(m) > MaxFrame -> CloseWith("Error") /\ UNCHANGED out
           [] Len(m) <= MaxFrame /\ DecodesExactly(m) -> Deliver(PacketAt(m, 0), "reading")
           [] OTHER -> IF policy = "strict"
                         THEN CloseWith("Error") /\ UNCHANGED out
                         ELSE Deliver(RawPacket(m), "reading")
  BY DEF ReadMessage
<1>2. m \in Seq(Bytes)
  <2>1. messages \in Seq(Seq(Bytes)) /\ filled \in Nat
    BY DEF GivenTyped, CursorTyped
  <2>2. filled + 1 \in 1 .. Len(messages)
    BY <1>1, <2>1
  <2> QED BY <2>1, <2>2
<1>3. PICK n \in Nat, x \in Nat : n = Len(m) /\ x = MaxFrame
  BY <1>2, FramingAssumption DEF MaxFrame
<1>4. CASE n > x
  <2>1. CloseWith("Error") /\ UNCHANGED out
    BY <1>1, <1>3, <1>4
  <2> QED BY <1>3, <1>4, <2>1 DEF CloseWith
<1>5. CASE n <= x /\ DecodesExactly(m)
  <2>1. Deliver(PacketAt(m, 0), "reading")
    BY <1>1, <1>3, <1>5
  <2> QED BY <1>5, <2>1 DEF Deliver, CloseWith
<1>6. CASE n <= x /\ ~ DecodesExactly(m)
  <2>1. IF policy = "strict" THEN CloseWith("Error") /\ UNCHANGED out
                             ELSE Deliver(RawPacket(m), "reading")
    BY <1>1, <1>3, <1>6
  <2> QED BY <1>6, <2>1 DEF Deliver, CloseWith
<1> QED BY <1>4, <1>5, <1>6

LEMMA ReadMessageKeeps ==
    ASSUME FramingInv, ReadMessage
    PROVE  FramingInv'
<1>0. GivenTyped /\ CursorTyped /\ AtTheNext /\ Delivers
  BY DEF FramingInv
<1>1. /\ proto # "tcp" /\ phase = "reading" /\ filled < Len(messages) /\ filled' = filled + 1
      /\ UNCHANGED given /\ UNCHANGED <<consumed, parsedAny>>
  BY DEF ReadMessage
<1>2. /\ proto' = proto /\ policy' = policy /\ messages' = messages
      /\ Written(sent)' = Written(sent) /\ GivenTyped'
  BY <1>0, <1>1, GivenKept
<1>3. /\ Len(out) \in Nat /\ Len(messages) \in Nat /\ Len(Written(sent)) \in Nat
      /\ filled \in Nat
  BY <1>0, CursorFacts, GivenFacts
<1>4. PICK m \in Seq(Bytes) : m = messages[filled + 1]
  <2>1. messages \in Seq(Seq(Bytes))
    BY <1>0 DEF GivenTyped
  <2>2. filled + 1 \in 1 .. Len(messages)
    BY <1>1, <1>3
  <2> QED BY <2>1, <2>2
<1>5. filled' \in Nat /\ filled' <= Len(messages)
  BY <1>1, <1>3
<1>6. WaitsForMore' /\ RestAgrees'
  BY <1>1, <1>2 DEF WaitsForMore, RestAgrees
<1>7. ASSUME phase' = "closed" \/ phase' = "reading", out' \in Seq(Delivered)
      PROVE  CursorTyped'
  BY <1>0, <1>1, <1>2, <1>5, <1>7 DEF CursorTyped
<1>8. CASE /\ phase' = "closed" /\ reason' = "Error" /\ out' = out
           /\ \/ Len(m) > MaxFrame \/ ~ DecodesExactly(m)
              \/ ~ Expands(PacketAt(m, 0))
  <2>1. Len(out) < Len(Written(sent)) => ~ Acceptable(Written(sent)[Len(out) + 1])
    <3> SUFFICES ASSUME Len(out) < Len(Written(sent)),
                        NEW p, p = Written(sent)[Len(out) + 1]
                 PROVE  ~ Acceptable(p)
      OBVIOUS
    <3>1. /\ PacketAt(m, 0) = Decoded(p)
          /\ ~ DecodesExactly(m) \/ Len(m) > MaxFrame => ~ Acceptable(p)
      BY <1>1, <1>4, MessageIsTheNext
    <3>2. PacketAt(m, 0).raw = p.raw
      BY <3>1 DEF Decoded
    <3>3. ~ Expands(PacketAt(m, 0)) => ~ Acceptable(p)
      BY <3>2 DEF Expands, Acceptable
    <3> QED BY <1>8, <3>1, <3>3
  <2>2. Len(out) >= Len(Expected)
    BY <1>0, <1>3, <2>1, RefusedIsTheEnd
  <2>3. Delivers'
    BY <1>1, <1>8, <2>2, DeliversNothing
  <2>4. AtTheNext'
    BY <1>8 DEF AtTheNext
  <2>5. CursorTyped'
    BY <1>0, <1>7, <1>8 DEF CursorTyped
  <2> QED BY <1>2, <1>6, <2>3, <2>4, <2>5 DEF FramingInv
<1>9. ASSUME NEW x \in Delivered, phase' = "reading", out' = Append(out, x),
             Len(out) < Len(Written(sent)) =>
               \/ /\ x = Decoded(Written(sent)[Len(out) + 1])
                  /\ Acceptable(Written(sent)[Len(out) + 1])
               \/ /\ policy = "lenient" /\ proto # "tcp"
                  /\ ~ Acceptable(Written(sent)[Len(out) + 1])
                  /\ x = RawPacket(messages[Len(out) + 1])
      PROVE  FramingInv'
  <2>1. phase' # "closed"
    BY <1>9
  <2>2. out' \in Seq(Delivered) /\ Len(out') = Len(out) + 1 /\ Delivers'
    BY <1>1, <1>9, <2>1, DeliversOne
  <2>3. Len(out') < Len(Written(sent)) => filled' = Len(out')
    <3>1. Len(out) < Len(Written(sent)) => filled = Len(out)
      BY <1>0, <1>1 DEF AtTheNext
    <3> QED BY <1>1, <1>3, <2>2, <3>1
  <2>4. AtTheNext'
    BY <1>1, <1>2, <2>3 DEF AtTheNext
  <2>5. CursorTyped'
    BY <1>7, <1>9, <2>2
  <2> QED BY <1>2, <1>6, <2>2, <2>4, <2>5 DEF FramingInv
<1>10. CASE /\ DecodesExactly(m) /\ Expands(PacketAt(m, 0))
            /\ phase' = "reading" /\ out' = Append(out, PacketAt(m, 0))
  <2>1. PICK x \in Delivered : x = PacketAt(m, 0)
    <3>1. FrameLayout(m, 0, Len(m)) = "frame"
      BY <1>10 DEF DecodesExactly
    <3>2. Len(m) \in Nat /\ 0 \in Nat /\ 0 + Len(m) <= Len(m)
      BY <1>4
    <3> QED BY <1>4, <3>1, <3>2, LayoutOfBytes
  <2>2. ASSUME Len(out) < Len(Written(sent)), NEW p, p = Written(sent)[Len(out) + 1]
        PROVE  x = Decoded(p) /\ Acceptable(p)
    <3>1. /\ PacketAt(m, 0) = Decoded(p)
          /\ p.ext <= MaxExt /\ WireLen(p) <= MaxPay
      BY <1>1, <1>4, <1>10, <2>2, MessageIsTheNext
    <3>2. x.raw = p.raw
      BY <2>1, <3>1 DEF Decoded
    <3> QED BY <1>10, <2>1, <3>1, <3>2 DEF Expands, Acceptable
  <2> QED BY <1>9, <1>10, <2>1, <2>2
<1>11. CASE /\ ~ DecodesExactly(m) /\ policy # "strict"
            /\ phase' = "reading" /\ out' = Append(out, RawPacket(m))
  <2>1. PICK x \in Delivered : x = RawPacket(m)
    <3>1. Len(m) \in Nat
      BY <1>4
    <3> QED BY <1>4, <3>1 DEF RawPacket, Delivered
  <2>2. policy = "lenient"
    <3>1. policy \in {"strict", "lenient"}
      BY <1>0, FramingAssumption DEF GivenTyped
    <3> QED BY <1>11, <3>1
  <2>3. ASSUME Len(out) < Len(Written(sent)), NEW p, p = Written(sent)[Len(out) + 1]
        PROVE  ~ Acceptable(p) /\ x = RawPacket(messages[Len(out) + 1])
    BY <1>1, <1>4, <1>11, <2>1, <2>3, MessageIsTheNext
  <2> QED BY <1>1, <1>9, <1>11, <2>1, <2>2, <2>3
<1> QED BY <1>0, <1>4, <1>8, <1>10, <1>11, MessageOutcome

LEMMA FramingStep ==
    ASSUME FramingInv, [Next]_vars
    PROVE  FramingInv'
<1>1. CASE \E k \in 1 .. Len(stream) : Fill(k)
  BY <1>1, FillKeepsFraming
<1>2. CASE Parse
  BY <1>2, ParseFrameKeeps, ParseNeedsMoreKeeps, ParseTooLargeKeeps, ParseInvalidKeeps,
     ResyncKeeps DEF Parse
<1>3. CASE EndOfStream
  BY <1>3, EndOfStreamKeeps
<1>4. CASE ReadMessage
  BY <1>4, ReadMessageKeeps
<1>5. CASE MessagesEnd
  BY <1>5, MessagesEndKeeps
<1>6. CASE UNCHANGED vars
  <2>0. GivenTyped /\ CursorTyped /\ WaitsForMore /\ RestAgrees /\ AtTheNext /\ Delivers
    BY DEF FramingInv
  <2>1. UNCHANGED given /\ UNCHANGED <<filled, consumed, parsedAny, phase, reason, out>>
    BY <1>6 DEF vars
  <2>2. /\ proto' = proto /\ policy' = policy /\ messages' = messages /\ stream' = stream
        /\ Written(sent)' = Written(sent)
        /\ DecodeFrom' = DecodeFrom /\ Reference' = Reference /\ GivenTyped'
    BY <2>0, <2>1, GivenKept
  <2>3. CursorTyped' /\ WaitsForMore' /\ RestAgrees'
    BY <2>0, <2>1, <2>2 DEF CursorTyped, WaitsForMore, RestAgrees, Buffered
  <2>4. AtTheNext'
    BY <2>0, <2>1, <2>2 DEF AtTheNext, EndOf
  <2>5. Delivers'
    BY <2>0, <2>1, DeliversNothing DEF Delivers
  <2> QED BY <2>2, <2>3, <2>4, <2>5 DEF FramingInv
<1> QED BY <1>1, <1>2, <1>3, <1>4, <1>5, <1>6 DEF Next

\* FramingInv is an invariant.
THEOREM FramingInvariant == Spec => []FramingInv
<1>1. Init => FramingInv
  BY InitKeeps
<1>2. FramingInv /\ [Next]_vars => FramingInv'
  BY FramingStep
<1> QED BY <1>1, <1>2, PTL DEF Spec

-----------------------------------------------------------------------------
(* The theorems.                                                           *)

\* For any limits, header size, packets and bytes, and however the stream is cut into
\* reads: OptimizedReadBuffer waits for more bytes only with less than one legal frame
\* in the buffer (adapters/tcp.rs).
THEOREM ReaderWaitsWithinBound == Spec => []WaitsWithinBound
<1>1. FramingInv => WaitsWithinBound
  <2> SUFFICES ASSUME FramingInv, proto = "tcp", phase = "reading"
               PROVE  Buffered < MaxFrame
    BY DEF WaitsWithinBound
  <2>1. GivenTyped /\ CursorTyped /\ FrameLayout(stream, consumed, Buffered) = "more"
    BY DEF FramingInv, WaitsForMore
  <2>2. stream \in Seq(Bytes) /\ Len(stream) \in Nat
    BY <2>1, GivenFacts
  <2>3. Buffered \in Nat /\ consumed \in Nat /\ consumed + Buffered <= Len(stream)
    BY <2>1, CursorFacts
  <2> QED BY <2>1, <2>2, <2>3, LayoutOfBytes
<1> QED BY <1>1, FramingInvariant, PTL

\* The packets that a strict TCP reader delivers, and the reason it closes with, are
\* those of one decoder that sees the whole stream, however the stream is cut into reads
\* (try_parse_next_packet, adapters/tcp.rs).
THEOREM ReadsDoNotMatter == Spec => []ChunkingIrrelevant
<1>1. FramingInv => ChunkingIrrelevant
  <2> SUFFICES ASSUME FramingInv, proto = "tcp", policy = "strict"
               PROVE  /\ IsPrefix(out, Reference.packets)
                      /\ phase = "closed" => out = Reference.packets /\ reason = Reference.end
    BY DEF ChunkingIrrelevant
  <2>1. GivenTyped /\ CursorTyped /\ RestAgrees
    BY DEF FramingInv
  <2>2. stream \in Seq(Bytes) /\ consumed \in 0 .. Len(stream)
    BY <2>1, GivenFacts, CursorFacts
  <2>3. PICK a \in Seq(Delivered) : a = out
    BY <2>1, CursorFacts
  <2>4. PICK q \in Seq(Delivered) : q = DecodeFrom[consumed].packets
    BY <2>2, DecodeTypes DEF Results
  <2>5. CASE phase = "closed"
    <3>1. out = Reference.packets /\ reason = Reference.end
      BY <2>1, <2>5 DEF RestAgrees
    <3>2. IsPrefix(a, a)
      BY DEF IsPrefix
    <3> QED BY <2>3, <3>1, <3>2
  <2>6. CASE phase # "closed"
    <3>1. PICK c : c = Reference.packets /\ c = a \o q
      BY <2>1, <2>3, <2>4, <2>6 DEF RestAgrees
    <3>2. c \in Seq(Delivered) /\ Len(a) <= Len(c) /\ \A j \in 1 .. Len(a) : c[j] = a[j]
      BY <3>1, Joined
    <3>3. SubSeq(a, 1, Len(a)) = SubSeq(c, 1, Len(a))
      <4>1. PICK x, y : x = SubSeq(a, 1, Len(a)) /\ y = SubSeq(c, 1, Len(a))
        OBVIOUS
      <4>2. x \in Seq(Delivered) /\ Len(x) = Len(a) /\ \A j \in 1 .. Len(a) : x[j] = a[j]
        BY <4>1
      <4>3. y \in Seq(Delivered) /\ Len(y) = Len(a) /\ \A j \in 1 .. Len(a) : y[j] = c[j]
        BY <3>2, <4>1
      <4>4. \A j \in 1 .. Len(x) : x[j] = y[j]
        BY <3>2, <4>2, <4>3
      <4>5. x = y
        BY <4>2, <4>3, <4>4, SameSeq
      <4> QED BY <4>1, <4>5
    <3>4. IsPrefix(a, c)
      BY <3>2, <3>3 DEF IsPrefix
    <3> QED BY <2>3, <2>6, <3>1, <3>4
  <2> QED BY <2>5, <2>6
<1> QED BY <1>1, FramingInvariant, PTL

\* On every protocol and under either policy the receiver delivers what was sent, in
\* order and byte for byte, up to the first packet its limits refuse, and ends there with
\* an error unless the lenient policy hands that frame over raw (packet.rs,
\* adapters/tcp.rs, adapters/websocket.rs, adapters/quic.rs).
THEOREM ReceiverDeliversWhatWasSent == Spec => []DeliversWhatWasSent
<1>1. FramingInv => DeliversWhatWasSent
  <2> SUFFICES ASSUME FramingInv PROVE DeliversWhatWasSent
    OBVIOUS
  <2>1. GivenTyped /\ CursorTyped /\ Delivers
    BY DEF FramingInv
  <2>2. Len(out) \in Nat /\ Len(Written(sent)) \in Nat
    BY <2>1, CursorFacts, GivenFacts
  <2>3. PICK n \in Nat : n = Min({Len(out), Len(Written(sent))}) /\ n <= Len(out)
                         /\ n <= Len(Written(sent))
    BY <2>2, LesserOf
  <2>4. \A i \in 1 .. n : i \in 1 .. Len(out) /\ i <= Len(Written(sent))
    BY <2>2, <2>3
  <2>5. \A i \in 1 .. n : out[i] = Decoded(Written(sent)[i]) \/ HandedOverRaw(i)
    BY <2>1, <2>4 DEF Delivers
  <2> QED BY <2>1, <2>3, <2>5 DEF Delivers, DeliversWhatWasSent
<1> QED BY <1>1, FramingInvariant, PTL

=============================================================================
