------------------------ MODULE H26xReassembly_proofs ------------------------
(***************************************************************************)
(* What the media formats hand out, for streams of any length, sequence    *)
(* numbers of any width, and any losses, duplicates and reorderings: a     *)
(* unit that is returned is intact as far as ReturnedIntact promises, a    *)
(* unit of which everything has come is returned once, and what was given  *)
(* up is never taken up again; and the handlers implement UnitChannel. All *)
(* but the third hold for encoders that never give two large units to one  *)
(* push_frame() (OneSplitUnitPerTimestamp).                                *)
(*                                                                         *)
(* The invariant follows one split unit a..b. While none of its packets    *)
(* came twice there is a set J of packets, some of those received, that    *)
(* the entry has collected: their number is counted, and each of them is   *)
(* at the place its number names, or waits for the first fragment. A unit  *)
(* without an entry has received nothing, or everything and was returned.  *)
(* The refinement rests on it: a step is read as a step of the unit whose  *)
(* packet it handles, and the other units are shown to keep their state.   *)
(***************************************************************************)
EXTENDS H26xRefinement, FiniteSetTheorems, TLAPS

Received(u) == {q \in Unit(u) : receipts[q] # 0}
Returns(u) == {i \in 1..Len(returned) : UnitOf(returned[i]) = u}

\* Where packet q of a unit that begins with a belongs.
Off(a, q) == Seq16(a) + (q - a)

InSplit(p) == \E a, b \in Packets : p \in a..b /\ Split(format, stream, a, b)
Of(t) == {p \in Packets : Ts(p) = t /\ InSplit(p)}

Record == [parts : Seq(Packets) \ {<<>>}, piece : Nat, size : Nat, first : Packets]

TypeInv ==
    /\ format \in DOMAIN Streams /\ stream \in Streams[format] /\ first_seq \in FirstSeqs
    /\ receipts \in [Packets -> Nat]
    /\ returned \in Seq(Record)

IsFrame(f) ==
    /\ f = [s_seq |-> f.s_seq, e_seq |-> f.e_seq, pkts_received |-> f.pkts_received,
            fragments |-> f.fragments, temporary |-> f.temporary, late |-> f.late,
            first |-> f.first]
    /\ f.s_seq \in 0..SEQ_MOD /\ f.e_seq \in 0..SEQ_MOD /\ f.pkts_received \in Nat

\* An entry holds fragments of its timestamp's unit, one of them at a place.
Holds(t, f) ==
    /\ f.first \in Of(t) /\ f.temporary \subseteq Of(t)
    /\ DOMAIN f.fragments # {} /\ DOMAIN f.fragments \subseteq 0..2 * SEQ_MOD
    /\ \A k \in DOMAIN f.fragments : f.fragments[k] \in Of(t)

FramesInv ==
    /\ DOMAIN frames \cap dropped = {}
    /\ \A t \in DOMAIN frames : IsFrame(frames[t]) /\ Holds(t, frames[t]) /\ ~Complete(frames[t])

\* The places of the packets J of the unit that begins with a.
Placed(a, J) == [k \in {Off(a, q) : q \in J} |-> a + (k - Seq16(a))]

\* The entry f has collected the packets J of the unit a..b.
Gathered(a, b, J, f) ==
    /\ f.first \in J /\ Cardinality(J) = f.pkts_received
    /\ f.s_seq = IF a \in J THEN Seq16(a) ELSE NoSeq
    /\ f.e_seq = IF b \in J THEN Seq16(b) ELSE NoSeq
    /\ Sheltered(stream[a].unit, f.first) =>
          IF a \in J THEN f.temporary = {} /\ f.fragments = Placed(a, J)
          ELSE f.temporary = J \ {f.first} /\ f.fragments = At(Seq16(f.first), f.first)

\* Nothing of the unit a..b was given up or, in the generic format, begun at another packet
\* than its first.
Clean(a) ==
    /\ Ts(a) \notin dropped
    /\ format = "GENERIC" =>
          /\ Ts(a) \in DOMAIN frames => frames[Ts(a)].first = a
          /\ \A i \in Returns(stream[a].unit) : returned[i].first = a

Collects(a, b) ==
    Ts(a) \in DOMAIN frames /\ (format = "GENERIC" => frames[Ts(a)].first = a) =>
        \E J \in SUBSET Received(stream[a].unit) :
            /\ Gathered(a, b, J, frames[Ts(a)])
            /\ format \in H26x \/ Returns(stream[a].unit) = {} => J = Received(stream[a].unit)

Returned(a, b) ==
    LET u == stream[a].unit IN
    Clean(a) =>
        IF Ts(a) \in DOMAIN frames THEN Returns(u) = {}
        ELSE \/ Received(u) = {} /\ Returns(u) = {}
             \/ Received(u) = a..b /\ Cardinality(Returns(u)) = 1

SplitInv ==
    \A a, b \in Packets :
        Split(format, stream, a, b) /\ Undisturbed(stream[a].unit) => Collects(a, b) /\ Returned(a, b)

AloneInv ==
    \A p \in Packets :
        OnePacket(format, stream[p]) /\ Unit(stream[p].unit) = {p} /\ receipts[p] <= 1 =>
            Cardinality(Returns(stream[p].unit)) = IF receipts[p] = 0 THEN 0 ELSE stream[p].count

ReassemblyInv ==
    /\ TypeInv /\ FramesInv /\ SplitInv /\ AloneInv /\ ReturnedIntact
    /\ OneSplitUnitPerTimestamp

-----------------------------------------------------------------------------
(***************************************************************************)
(* The stream and its numbers.                                             *)
(***************************************************************************)
LEMMA ModOnce ==
    ASSUME NEW M \in Nat, NEW x \in Nat, M > 0, x < 2 * M
    PROVE  x % M = IF x < M THEN x ELSE x - M
BY SMT

\* What Init fixes for good, without and with the hypothesis about the encoder.
Given == format \in DOMAIN Streams /\ stream \in Streams[format] /\ first_seq \in FirstSeqs
Fixed == Given /\ OneSplitUnitPerTimestamp
USE DEF Fixed

LEMMA StreamFacts ==
    ASSUME Given
    PROVE  /\ format \in Formats /\ stream \in Seq(Packet) /\ Len(stream) \in Nat
           /\ SEQ_MOD \in Nat /\ Len(stream) < SEQ_MOD /\ first_seq \in 0..SEQ_MOD - 1
           /\ Sent(format, stream) /\ MaxDuplicates \in Nat /\ EnableIDelay \in BOOLEAN
           /\ \A p \in Packets : p \in Nat /\ p >= 1 /\ stream[p] \in Packet
           /\ \A p \in Packets : Ts(p) \in Nat /\ stream[p].count \in 0..3
<1>1. /\ format \in Formats /\ stream \in Seq(Packet) /\ Len(stream) \in Nat
      /\ SEQ_MOD \in Nat /\ Len(stream) < SEQ_MOD /\ first_seq \in 0..SEQ_MOD - 1
    BY StreamsAssumption DEF Given
<1>2. Sent(format, stream) /\ MaxDuplicates \in Nat /\ EnableIDelay \in BOOLEAN
    BY StreamsAssumption, StreamsAreSent DEF Given
<1>3. \A p \in Packets : p \in Nat /\ p >= 1 /\ stream[p] \in Packet
    <2> HIDE DEF Given
    <2> DEFINE P == Packet
    <2>1. stream \in Seq(P)
        BY <1>1
    <2> HIDE DEF P
    <2>2. \A p \in 1..Len(stream) : stream[p] \in P
        BY <2>1
    <2> QED
        BY <1>1, <2>2 DEF P, Packets
<1>4. \A p \in Packets : Ts(p) \in Nat /\ stream[p].count \in 0..3
    BY <1>3 DEF Packet, Ts
<1> QED
    BY <1>1, <1>2, <1>3, <1>4

\* The number of a packet, counted on from that of the first packet of its unit.
LEMMA Numbers ==
    ASSUME Given, NEW a \in Packets, NEW q \in Packets, a <= q
    PROVE  /\ Off(a, q) \in Nat /\ Off(a, q) < 2 * SEQ_MOD
           /\ Seq16(q) \in 0..SEQ_MOD - 1
           /\ Seq16(q) = IF Off(a, q) < SEQ_MOD THEN Off(a, q) ELSE Off(a, q) - SEQ_MOD
           /\ Off(a, q) >= SEQ_MOD => Seq16(a) > Seq16(q)
<1>1. /\ SEQ_MOD \in Nat /\ Len(stream) \in Nat /\ Len(stream) < SEQ_MOD
      /\ first_seq \in 0..SEQ_MOD - 1 /\ a \in 1..Len(stream) /\ q \in 1..Len(stream)
    BY StreamFacts DEF Packets
<1>2. /\ first_seq + a - 1 \in Nat /\ first_seq + a - 1 < 2 * SEQ_MOD
      /\ first_seq + q - 1 \in Nat /\ first_seq + q - 1 < 2 * SEQ_MOD
    BY <1>1
<1>3. /\ Seq16(a) = IF first_seq + a - 1 < SEQ_MOD THEN first_seq + a - 1
                    ELSE first_seq + a - 1 - SEQ_MOD
      /\ Seq16(q) = IF first_seq + q - 1 < SEQ_MOD THEN first_seq + q - 1
                    ELSE first_seq + q - 1 - SEQ_MOD
    BY <1>1, <1>2, ModOnce DEF Seq16
<1> QED
    BY <1>1, <1>2, <1>3 DEF Off

LEMMA FragmentsAreSplit ==
    ASSUME Given, format \in H26x, NEW q \in Packets
    PROVE  /\ InSplit(q) => ~OnePacket(format, stream[q])
           /\ InSplit(q) <=> stream[q].kind = "FRAG" /\ ~(stream[q].s /\ stream[q].e)
<1>1. ASSUME InSplit(q)
      PROVE  ~OnePacket(format, stream[q]) /\ stream[q].kind = "FRAG" /\ ~(stream[q].s /\ stream[q].e)
    <2>1. PICK a \in Packets, b \in Packets : q \in a..b /\ Split(format, stream, a, b)
        BY <1>1 DEF InSplit
    <2>2. a < b /\ stream[q].kind = "FRAG" /\ (stream[q].s <=> q = a) /\ (stream[q].e <=> q = b)
        BY <2>1 DEF Split
    <2>3. a # b
        BY <2>2, StreamFacts
    <2>4. stream[q].kind = "FRAG" /\ ~(stream[q].s /\ stream[q].e)
        BY <2>2, <2>3
    <2> QED
        BY <2>4 DEF OnePacket
<1>2. ASSUME stream[q].kind = "FRAG" /\ ~(stream[q].s /\ stream[q].e)
      PROVE  InSplit(q)
    <2>1. ~OnePacket(format, stream[q])
        BY <1>2 DEF OnePacket
    <2> QED
        BY <2>1, StreamFacts DEF Sent, InSplit, Packets
<1> QED
    BY <1>1, <1>2

LEMMA SplitShape ==
    ASSUME Given, NEW a \in Packets, NEW b \in Packets, Split(format, stream, a, b)
    PROVE  /\ a \in Nat /\ b \in Nat /\ a < b /\ a..b \subseteq Packets
           /\ Unit(stream[a].unit) = a..b
           /\ \A q \in a..b : stream[q].unit = stream[a].unit /\ Ts(q) = Ts(a)
           /\ \A q \in a..b : InSplit(q)
           /\ format \in H26x \cup {"GENERIC"}
<1>1. /\ a \in Nat /\ b \in Nat /\ a < b /\ a..b \subseteq Packets
      /\ Unit(stream[a].unit) = a..b
    BY StreamFacts DEF Split, Unit, Packets
<1>2. \A q \in a..b : stream[q].unit = stream[a].unit /\ Ts(q) = Ts(a)
    BY <1>1 DEF Split, Ts, Unit
<1>3. format \in H26x \cup {"GENERIC"}
    BY StreamFacts DEF Split, Formats
<1>4. \A q \in a..b : InSplit(q)
    BY DEF InSplit
<1> QED
    BY <1>1, <1>2, <1>3, <1>4

\* A split unit has its timestamp to itself.
LEMMA SplitFacts ==
    ASSUME Fixed, NEW a \in Packets, NEW b \in Packets, Split(format, stream, a, b)
    PROVE  /\ a \in Nat /\ b \in Nat /\ a < b /\ a..b \subseteq Packets
           /\ Unit(stream[a].unit) = a..b
           /\ \A q \in a..b : stream[q].unit = stream[a].unit /\ Ts(q) = Ts(a)
           /\ \A q \in a..b : InSplit(q)
           /\ format \in H26x \cup {"GENERIC"}
           /\ Of(Ts(a)) = a..b
           /\ format = "GENERIC" => \A q \in Packets : Ts(q) = Ts(a) => q \in a..b
<1>1. /\ a \in Nat /\ b \in Nat /\ a < b /\ a..b \subseteq Packets
      /\ Unit(stream[a].unit) = a..b
    BY SplitShape
<1>2. \A q \in a..b : stream[q].unit = stream[a].unit /\ Ts(q) = Ts(a)
    BY SplitShape
<1>3. format \in H26x \cup {"GENERIC"}
    BY SplitShape
<1>4. \A q \in a..b : InSplit(q)
    BY SplitShape
<1>5. \A p, q \in Packets :
         Ts(p) = Ts(q) /\ (format = "GENERIC" \/ ~(OnePacket(format, stream[p]) \/ OnePacket(format, stream[q])))
             => stream[p].unit = stream[q].unit
    BY DEF OneSplitUnitPerTimestamp, Ts
<1>6. \A q \in Packets : stream[q].unit = stream[a].unit => q \in a..b
    BY <1>1 DEF Unit
<1>7. format = "GENERIC" => \A q \in Packets : Ts(q) = Ts(a) => q \in a..b
    BY <1>5, <1>6
<1>8. Of(Ts(a)) = a..b
    <2>1. a..b \subseteq Of(Ts(a))
        BY <1>1, <1>2, <1>4 DEF Of
    <2>2. ASSUME NEW q \in Of(Ts(a)) PROVE q \in a..b
        <3>1. q \in Packets /\ Ts(q) = Ts(a) /\ InSplit(q) /\ InSplit(a)
            BY <1>1, <1>4 DEF Of
        <3>2. CASE format \in H26x
            BY <1>5, <1>6, <3>1, <3>2, FragmentsAreSplit
        <3> QED
            BY <1>3, <1>7, <3>1, <3>2
    <2> QED
        BY <2>1, <2>2
<1> QED
    BY <1>1, <1>2, <1>3, <1>4, <1>7, <1>8

LEMMA FirstPacket ==
    ASSUME Fixed, NEW a \in Packets, NEW b \in Packets, Split(format, stream, a, b)
    PROVE  FirstOf(stream[a].unit) = a
<1>1. /\ a \in Nat /\ b \in Nat /\ a < b /\ Unit(stream[a].unit) = a..b
    BY SplitFacts
<1>2. \A p \in a..b : (\A q \in a..b : p <= q) <=> p = a
    BY <1>1
<1> QED
    BY <1>1, <1>2 DEF FirstOf

\* Where a sheltered unit's packets are put is where they belong.
LEMMA ShelteredPlaces ==
    ASSUME Fixed, NEW a \in Packets, NEW b \in Packets, Split(format, stream, a, b),
           NEW first \in a..b, Sheltered(stream[a].unit, first), NEW q \in a..b
    PROVE  /\ format = "GENERIC" => first = a
           /\ format \in H26x => Key(Seq16(a), Seq16(q)) = Off(a, q)
           /\ format = "GENERIC" \/ first # a \/ q = a => Seq16(q) = Off(a, q)
<1>1. /\ a \in Nat /\ b \in Nat /\ a < b /\ Unit(stream[a].unit) = a..b /\ q \in Packets
      /\ a <= q /\ FirstOf(stream[a].unit) = a /\ SEQ_MOD \in Nat
    BY SplitFacts, FirstPacket, StreamFacts
<1>2. /\ Off(a, q) \in Nat /\ Off(a, q) < 2 * SEQ_MOD
      /\ Seq16(q) \in 0..SEQ_MOD - 1 /\ Seq16(a) \in 0..SEQ_MOD - 1
      /\ Seq16(q) = IF Off(a, q) < SEQ_MOD THEN Off(a, q) ELSE Off(a, q) - SEQ_MOD
      /\ Off(a, q) >= SEQ_MOD => Seq16(a) > Seq16(q)
      /\ Off(a, q) >= Seq16(a) /\ (q = a => Off(a, q) = Seq16(a))
    <2>1. a <= a
        BY <1>1
    <2>2. /\ Off(a, q) \in Nat /\ Off(a, q) < 2 * SEQ_MOD
          /\ Seq16(q) \in 0..SEQ_MOD - 1 /\ Seq16(a) \in 0..SEQ_MOD - 1
          /\ Seq16(q) = IF Off(a, q) < SEQ_MOD THEN Off(a, q) ELSE Off(a, q) - SEQ_MOD
          /\ Off(a, q) >= SEQ_MOD => Seq16(a) > Seq16(q)
        BY <1>1, <2>1, Numbers
    <2> QED
        BY <1>1, <2>2 DEF Off
<1>3. ~Wraps(stream[a].unit) => Off(a, q) < SEQ_MOD
    <2>1. SUFFICES ASSUME Off(a, q) >= SEQ_MOD PROVE Wraps(stream[a].unit)
        BY <1>1, <1>2
    <2>2. Seq16(a) > Seq16(q) /\ a \in a..b /\ q # a
        BY <1>1, <1>2, <2>1
    <2> QED
        BY <1>1, <2>2 DEF Wraps
<1>4. CASE format \in {"H265", "H266"}
    <2>1. Wraps(stream[a].unit) => first = a
        BY <1>1, <1>4 DEF Sheltered
    <2>2. Key(Seq16(a), Seq16(q)) = Off(a, q)
        BY <1>1, <1>2, <1>4 DEF Key, StoredKey
    <2> QED
        BY <1>1, <1>2, <1>3, <1>4, <2>1, <2>2
<1>5. CASE format = "H264"
    <2>1. ~Wraps(stream[a].unit)
        BY <1>5 DEF Sheltered
    <2>2. Seq16(q) = Off(a, q) /\ Seq16(q) % SEQ_MOD = Seq16(q)
        BY <1>1, <1>2, <1>3, <2>1, ModOnce
    <2>3. Key(Seq16(a), Seq16(q)) = Off(a, q)
        BY <1>1, <1>2, <1>5, <2>2 DEF Key, StoredKey
    <2> QED
        BY <1>5, <2>2, <2>3
<1>6. CASE format = "GENERIC"
    <2>1. ~Wraps(stream[a].unit) /\ first = a
        BY <1>1, <1>6 DEF Sheltered
    <2> QED
        BY <1>1, <1>2, <1>3, <1>6, <2>1 DEF H26x
<1> QED
    BY <1>4, <1>5, <1>6, SplitFacts DEF H26x

LEMMA ExpectedOfUnit ==
    ASSUME Fixed, NEW a \in Packets, NEW b \in Packets, Split(format, stream, a, b),
           NEW f, f.s_seq = Seq16(a), f.e_seq = Seq16(b)
    PROVE  Expected(f) = b - a + 1
<1>1. /\ a \in Nat /\ b \in Nat /\ a < b /\ SEQ_MOD \in Nat /\ a <= b /\ b - a < SEQ_MOD
    BY SplitFacts, StreamFacts DEF Packets
<1>2. a <= a
    BY <1>1
<1>3. /\ Off(a, b) \in Nat /\ Seq16(b) \in 0..SEQ_MOD - 1 /\ Seq16(a) \in 0..SEQ_MOD - 1
      /\ Seq16(b) = IF Off(a, b) < SEQ_MOD THEN Off(a, b) ELSE Off(a, b) - SEQ_MOD
    BY <1>1, <1>2, Numbers
<1> QED
    BY <1>1, <1>3 DEF Expected, Off

-----------------------------------------------------------------------------
(***************************************************************************)
(* Maps of fragments in the order of their keys.                           *)
(***************************************************************************)
LEMMA InOrderOfInterval ==
    ASSUME NEW lo \in Nat, NEW hi \in Nat, lo <= hi, NEW m, DOMAIN m = lo..hi
    PROVE  InOrder(m) = [i \in 1..(hi - lo + 1) |-> m[lo + i - 1]]
<1>1. Cardinality(DOMAIN m) = hi - lo + 1
    BY FS_Interval
<1>2. ASSUME NEW k \in lo..hi PROVE Cardinality({j \in DOMAIN m : j <= k}) = k - lo + 1
    <2>1. {j \in DOMAIN m : j <= k} = lo..k
        OBVIOUS
    <2>2. k \in Int /\ lo \in Int /\ ~(lo > k)
        OBVIOUS
    <2>3. Cardinality(lo..k) = k - lo + 1
        BY <2>2, FS_Interval
    <2> QED
        BY <2>1, <2>3
<1>3. ASSUME NEW i \in 1..(hi - lo + 1)
      PROVE  KeyAt(m, i) = lo + i - 1
    <2>1. \A k \in DOMAIN m : Cardinality({j \in DOMAIN m : j <= k}) = i <=> k = lo + i - 1
        BY <1>2
    <2>2. lo + i - 1 \in DOMAIN m
        OBVIOUS
    <2> QED
        BY <2>1, <2>2 DEF KeyAt
<1> QED
    BY <1>1, <1>3 DEF InOrder

\* The payload of one packet, of a whole unit.
LEMMA InOrderOfOne ==
    ASSUME NEW p \in Nat
    PROVE  InOrder([q \in {p} |-> q]) = <<p>>
<1> DEFINE m == [q \in {p} |-> q]
<1>1. DOMAIN m = p..p /\ p <= p
    OBVIOUS
<1>2. m[p] = p
    OBVIOUS
<1> HIDE DEF m
<1>3. InOrder(m) = [i \in 1..(p - p + 1) |-> m[p + i - 1]]
    <2> DEFINE lo == p
    <2>1. lo \in Nat /\ p \in Nat /\ lo <= p /\ DOMAIN m = lo..p
        BY <1>1
    <2>2. InOrder(m) = [i \in 1..(p - lo + 1) |-> m[lo + i - 1]]
        <3> HIDE DEF lo
        <3> QED
            BY <2>1, InOrderOfInterval
    <2> QED
        BY <2>2
<1>4. InOrder(m) = [i \in 1..1 |-> p]
    <2>1. p - p + 1 = 1 /\ \A i \in 1..1 : p + i - 1 = p
        OBVIOUS
    <2> QED
        BY <1>2, <1>3, <2>1
<1> QED
    BY <1>4 DEF m

\* Every place up to the number of the keys is some key's.
LEMMA EveryPlaceHasKey ==
    ASSUME NEW m, IsFiniteSet(DOMAIN m), DOMAIN m \subseteq Nat, NEW i \in 1..Cardinality(DOMAIN m)
    PROVE  KeyAt(m, i) \in DOMAIN m
<1> DEFINE D == DOMAIN m
           n == Cardinality(D)
           below(k) == {j \in D : j <= k}
           rank == [k \in D |-> Cardinality(below(k))]
<1>1. n \in Nat /\ IsFiniteSet(1..n) /\ Cardinality(1..n) = n
    <2>1. n \in Nat
        BY FS_CardinalityType
    <2>2. 1 \in Int /\ n \in Int /\ n - 1 + 1 = n /\ (1 > n => n = 0)
        BY <2>1
    <2> HIDE DEF n
    <2> QED
        BY <2>1, <2>2, FS_Interval
<1>2. ASSUME NEW k \in D
      PROVE  IsFiniteSet(below(k)) /\ Cardinality(below(k)) \in 1..n /\ k \in below(k)
    <2>1. below(k) \in SUBSET D /\ k \in below(k)
        OBVIOUS
    <2> HIDE DEF below
    <2>2. IsFiniteSet(below(k)) /\ Cardinality(below(k)) <= n
        BY <2>1, FS_Subset
    <2>3. Cardinality(below(k)) \in Nat /\ Cardinality(below(k)) # 0
        BY <2>1, <2>2, FS_CardinalityType, FS_EmptySet
    <2> HIDE DEF n
    <2> QED
        BY <1>1, <2>1, <2>2, <2>3
<1>3. ASSUME NEW k \in D, NEW l \in D, Cardinality(below(k)) = Cardinality(below(l)), k < l
      PROVE  FALSE
    <2>1. below(k) \in SUBSET below(l) /\ l \notin below(k) /\ l \in below(l)
        BY <1>3
    <2> HIDE DEF below
    <2>2. IsFiniteSet(below(l))
        BY <1>2
    <2>3. below(k) = below(l)
        BY <1>3, <2>1, <2>2, FS_Subset
    <2> QED
        BY <2>1, <2>3
<1>4. rank \in Injection(D, 1..n)
    <2>1. rank \in [D -> 1..n]
        BY <1>2
    <2>2. ASSUME NEW k \in D, NEW l \in D, rank[k] = rank[l] PROVE k = l
        <3>1. Cardinality(below(k)) = Cardinality(below(l)) /\ k \in Nat /\ l \in Nat
            BY <2>2
        <3>2. ~(k < l) /\ ~(l < k)
            <4> HIDE DEF below
            <4> QED
                BY <1>3, <3>1
        <3> QED
            BY <3>1, <3>2
    <2> HIDE DEF rank, n
    <2> QED
        BY <2>1, <2>2 DEF Injection, IsInjective
<1>5. rank \in Surjection(D, 1..n)
    <2> HIDE DEF rank
    <2> QED
        BY <1>1, <1>4, FS_Injection
<1>6. PICK k \in D : rank[k] = i
    <2> HIDE DEF rank
    <2> QED
        BY <1>5 DEF Surjection
<1> QED
    BY <1>6 DEF KeyAt

LEMMA InOrderOfAny ==
    ASSUME NEW T, NEW m, IsFiniteSet(DOMAIN m), DOMAIN m # {}, DOMAIN m \subseteq Nat,
           \A k \in DOMAIN m : m[k] \in T
    PROVE  /\ Len(InOrder(m)) = Cardinality(DOMAIN m)
           /\ Cardinality(DOMAIN m) \in Nat \ {0}
           /\ InOrder(m)[1] \in T
           /\ InOrder(m) \in Seq(T) \ {<<>>}
<1>1. Cardinality(DOMAIN m) \in Nat \ {0}
    BY FS_CardinalityType, FS_EmptySet
<1>2. \A i \in 1..Cardinality(DOMAIN m) : KeyAt(m, i) \in DOMAIN m
    BY EveryPlaceHasKey
<1>3. InOrder(m) \in [1..Cardinality(DOMAIN m) -> T]
    BY <1>2 DEF InOrder
<1> DEFINE n == Cardinality(DOMAIN m)
<1> HIDE DEF n
<1> QED
    BY <1>1, <1>3 DEF n

-----------------------------------------------------------------------------
(***************************************************************************)
(* One more fragment in an entry.                                          *)
(***************************************************************************)
LEMMA TypesOfFragments ==
    ASSUME Given, format \in H26x
    PROVE  /\ \A p \in Packets : Fragmented(p) <=> InSplit(p)
           /\ \A a, b \in Packets : Split(format, stream, a, b) =>
                 \A q \in a..b : /\ get_frag(q) = "START" <=> q = a
                                 /\ get_frag(q) = "END" <=> q = b
<1>1. ASSUME NEW p \in Packets
      PROVE  /\ Fragmented(p) <=> InSplit(p)
             /\ get_frag(p) = "START" <=> InSplit(p) /\ stream[p].s
             /\ get_frag(p) = "END" <=> InSplit(p) /\ stream[p].e
    <2>1. stream[p] \in Packet
        BY StreamFacts
    <2>2. stream[p].kind \in {"SINGLE", "AGGR", "FRAG"} /\ stream[p].s \in BOOLEAN /\ stream[p].e \in BOOLEAN
        BY <2>1 DEF Packet
    <2>3. InSplit(p) <=> stream[p].kind = "FRAG" /\ ~(stream[p].s /\ stream[p].e)
        BY FragmentsAreSplit
    <2>4. get_frag(p) = IF stream[p].kind = "FRAG" THEN FragmentType(p)
                        ELSE IF format = "H266" THEN "SINGLE" ELSE stream[p].kind
        BY DEF get_frag, get_frag_264, get_frag_265, get_frag_266, H26x
    <2>5. /\ stream[p].s /\ stream[p].e => FragmentType(p) = "INVALID"
          /\ stream[p].s /\ ~stream[p].e => FragmentType(p) = "START"
          /\ ~stream[p].s /\ stream[p].e => FragmentType(p) = "END"
          /\ ~stream[p].s /\ ~stream[p].e => FragmentType(p) = "MIDDLE"
        BY DEF FragmentType
    <2>6. CASE stream[p].kind = "FRAG"
        BY <2>2, <2>3, <2>4, <2>5, <2>6 DEF Fragmented
    <2>7. CASE stream[p].kind # "FRAG"
        BY <2>2, <2>3, <2>4, <2>7 DEF Fragmented
    <2> QED
        BY <2>6, <2>7
<1>2. ASSUME NEW a \in Packets, NEW b \in Packets, Split(format, stream, a, b), NEW q \in a..b
      PROVE  InSplit(q) /\ (stream[q].s <=> q = a) /\ (stream[q].e <=> q = b) /\ q \in Packets
    BY <1>2, SplitShape DEF Split
<1> QED
    BY <1>1, <1>2

LEMMA NumbersAreSmall ==
    ASSUME Given, NEW p \in Packets
    PROVE  Seq16(p) \in 0..SEQ_MOD - 1 /\ NoSeq = SEQ_MOD /\ SEQ_MOD \in Nat
<1>1. SEQ_MOD \in Nat /\ p \in Nat /\ p <= p
    BY StreamFacts
<1> QED
    BY <1>1, Numbers DEF NoSeq

LEMMA KeysAreSmall ==
    ASSUME Given, NEW s \in 0..SEQ_MOD, NEW p \in Packets
    PROVE  Key(s, Seq16(p)) \in 0..2 * SEQ_MOD
<1>2. Seq16(p) \in 0..SEQ_MOD - 1 /\ SEQ_MOD \in Nat
    BY NumbersAreSmall
<1>1. SEQ_MOD \in Nat /\ SEQ_MOD > 0
    BY <1>2
<1> DEFINE key == IF s > Seq16(p) THEN SEQ_MOD + Seq16(p) ELSE Seq16(p)
<1>3. key \in Nat /\ key < 2 * SEQ_MOD
    BY <1>1, <1>2
<1>4. Key(s, Seq16(p)) = IF format = "H264" THEN key % SEQ_MOD ELSE key
    BY DEF Key, StoredKey
<1> HIDE DEF key
<1>5. key % SEQ_MOD \in 0..2 * SEQ_MOD
    BY <1>1, <1>3, ModOnce
<1> QED
    BY <1>1, <1>2, <1>3, <1>4, <1>5

\* Written over a map that holds the entries of a timestamp, more of them keep it so.
LEMMA WithHolds ==
    ASSUME NEW T, NEW K, NEW m, NEW n,
           DOMAIN m # {}, DOMAIN m \subseteq K, \A k \in DOMAIN m : m[k] \in T,
           DOMAIN n \subseteq K, \A k \in DOMAIN n : n[k] \in T
    PROVE  /\ DOMAIN With(m, n) # {} /\ DOMAIN With(m, n) \subseteq K
           /\ \A k \in DOMAIN With(m, n) : With(m, n)[k] \in T
BY DEF With

LEMMA InsertedGenericIs ==
    ASSUME NEW f, IsFrame(f), NEW p, NEW g, g = InsertedGeneric(f, p)
    PROVE  g = [s_seq |-> f.s_seq, e_seq |-> IF stream[p].marker THEN Seq16(p) ELSE f.e_seq,
                pkts_received |-> f.pkts_received + 1,
                fragments |-> With(f.fragments, At(Seq16(p), p)),
                temporary |-> f.temporary, late |-> f.late, first |-> f.first]
BY DEF InsertedGeneric, IsFrame

LEMMA InsertedHolds ==
    ASSUME Given, NEW t, NEW f, IsFrame(f), Holds(t, f), NEW p \in Of(t),
           NEW g, (g = Inserted(f, p) /\ format \in H26x) \/ g = InsertedGeneric(f, p)
    PROVE  /\ IsFrame(g) /\ Holds(t, g) /\ g.first = f.first
           /\ g.pkts_received = f.pkts_received + 1
<1>1. /\ p \in Packets /\ f.s_seq \in 0..SEQ_MOD /\ f.e_seq \in 0..SEQ_MOD /\ f.pkts_received \in Nat
      /\ Seq16(p) \in 0..SEQ_MOD - 1 /\ NoSeq = SEQ_MOD /\ SEQ_MOD \in Nat
      /\ f.temporary \subseteq Packets
    BY NumbersAreSmall DEF Of, IsFrame, Holds
<1>2. /\ DOMAIN At(Seq16(p), p) \subseteq 0..2 * SEQ_MOD
      /\ \A k \in DOMAIN At(Seq16(p), p) : At(Seq16(p), p)[k] \in Of(t)
    BY <1>1 DEF At
<1> DEFINE once == With(f.fragments, At(Seq16(p), p))
<1>3. /\ DOMAIN once # {} /\ DOMAIN once \subseteq 0..2 * SEQ_MOD
      /\ \A k \in DOMAIN once : once[k] \in Of(t)
    BY <1>2, WithHolds DEF Holds
<1>4. CASE g = InsertedGeneric(f, p)
    <2>1. g = [s_seq |-> f.s_seq, e_seq |-> IF stream[p].marker THEN Seq16(p) ELSE f.e_seq,
               pkts_received |-> f.pkts_received + 1, fragments |-> once,
               temporary |-> f.temporary, late |-> f.late, first |-> f.first]
        BY <1>4 DEF InsertedGeneric, IsFrame
    <2> HIDE DEF once
    <2> QED
        BY <1>1, <1>3, <2>1 DEF IsFrame, Holds
<1>5. CASE g = Inserted(f, p) /\ get_frag(p) = "START"
    <2> DEFINE n == [k \in {Key(Seq16(p), Seq16(q)) : q \in f.temporary} |->
                        Waiting(f.temporary, Seq16(p), k)]
    <2>1. g = [s_seq |-> Seq16(p), e_seq |-> f.e_seq,
               pkts_received |-> f.pkts_received + 1, fragments |-> With(once, n),
               temporary |-> {}, late |-> f.late, first |-> f.first]
        BY <1>5 DEF Inserted, Relocate, IsFrame
    <2>2. DOMAIN n \subseteq 0..2 * SEQ_MOD
        BY <1>1, KeysAreSmall
    <2>3. ASSUME NEW k \in DOMAIN n PROVE n[k] \in Of(t)
        <3>1. PICK q \in f.temporary : Key(Seq16(p), Seq16(q)) = k
            OBVIOUS
        <3>2. Waiting(f.temporary, Seq16(p), k) \in f.temporary
            BY <3>1 DEF Waiting
        <3> QED
            BY <3>2 DEF Holds
    <2> HIDE DEF once, n
    <2>4. /\ DOMAIN With(once, n) # {} /\ DOMAIN With(once, n) \subseteq 0..2 * SEQ_MOD
          /\ \A k \in DOMAIN With(once, n) : With(once, n)[k] \in Of(t)
        BY <1>3, <2>2, <2>3, WithHolds
    <2> QED
        BY <1>1, <2>1, <2>4 DEF IsFrame, Holds
<1>6. CASE g = Inserted(f, p) /\ get_frag(p) # "START"
    <2> DEFINE e == IF get_frag(p) = "END" THEN Seq16(p) ELSE f.e_seq
    <2>2. e \in 0..SEQ_MOD
        BY <1>1
    <2>3. CASE f.s_seq = NoSeq
        <3>2. g = [s_seq |-> f.s_seq, e_seq |-> e, pkts_received |-> f.pkts_received + 1,
                   fragments |-> f.fragments, temporary |-> f.temporary \cup {p}, late |-> f.late,
                   first |-> f.first]
            BY <1>6, <2>3 DEF Inserted, Place, IsFrame
        <3> HIDE DEF e
        <3> QED
            BY <1>1, <2>2, <3>2 DEF IsFrame, Holds
    <2>4. CASE f.s_seq # NoSeq
        <3> DEFINE n == At(Key(f.s_seq, Seq16(p)), p)
                   m == With(f.fragments, n)
        <3>2. g = [s_seq |-> f.s_seq, e_seq |-> e, pkts_received |-> f.pkts_received + 1,
                   fragments |-> m, temporary |-> f.temporary, late |-> f.late,
                   first |-> f.first]
            BY <1>6, <2>4 DEF Inserted, Place, IsFrame
        <3>3. DOMAIN n \subseteq 0..2 * SEQ_MOD /\ \A k \in DOMAIN n : n[k] \in Of(t)
            BY <1>1, KeysAreSmall DEF At
        <3> HIDE DEF n
        <3>4. /\ DOMAIN m # {} /\ DOMAIN m \subseteq 0..2 * SEQ_MOD
              /\ \A k \in DOMAIN m : m[k] \in Of(t)
            <4>1. /\ DOMAIN f.fragments # {} /\ DOMAIN f.fragments \subseteq 0..2 * SEQ_MOD
                  /\ \A k \in DOMAIN f.fragments : f.fragments[k] \in Of(t)
                BY DEF Holds
            <4> QED
                BY <3>3, <4>1, WithHolds
        <3> HIDE DEF e, m
        <3> QED
            BY <1>1, <2>2, <3>2, <3>4 DEF IsFrame, Holds
    <2> QED
        BY <2>3, <2>4
<1> QED
    BY <1>4, <1>5, <1>6

LEMMA PlacedOneMore ==
    ASSUME Fixed, NEW a \in Packets, NEW J \in SUBSET Packets, NEW p \in Packets
    PROVE  With(Placed(a, J), At(Off(a, p), p)) = Placed(a, J \cup {p})
<1>1. Seq16(a) \in Nat /\ a \in Nat /\ p \in Nat /\ \A q \in J : q \in Nat
    BY StreamFacts, NumbersAreSmall
<1>2. \A q \in J \cup {p} : Off(a, q) \in Int /\ a + (Off(a, q) - Seq16(a)) = q
    BY <1>1 DEF Off
<1> DEFINE K == {Off(a, q) : q \in J \cup {p}}
<1>3. DOMAIN Placed(a, J \cup {p}) = K /\ \A k \in K : Placed(a, J \cup {p})[k] = a + (k - Seq16(a))
    BY DEF Placed
<1>4. DOMAIN With(Placed(a, J), At(Off(a, p), p)) = K
    BY DEF Placed, With, At
<1>5. ASSUME NEW k \in K
      PROVE  With(Placed(a, J), At(Off(a, p), p))[k] = a + (k - Seq16(a))
    <2>1. CASE k = Off(a, p)
        BY <1>2, <2>1 DEF With, At
    <2>2. CASE k # Off(a, p)
        BY <2>2 DEF Placed, With, At
    <2> QED
        BY <2>1, <2>2
<1>6. /\ With(Placed(a, J), At(Off(a, p), p)) = [k \in K |-> a + (k - Seq16(a))]
      /\ Placed(a, J \cup {p}) = [k \in K |-> a + (k - Seq16(a))]
    <2>1. /\ With(Placed(a, J), At(Off(a, p), p))
               = [k \in K |-> With(Placed(a, J), At(Off(a, p), p))[k]]
          /\ Placed(a, J \cup {p}) = [k \in K |-> Placed(a, J \cup {p})[k]]
        BY <1>4 DEF Placed, With
    <2> HIDE DEF K
    <2> QED
        BY <1>3, <1>5, <2>1
<1> QED
    BY <1>6

LEMMA CountOneMore ==
    ASSUME NEW a \in Nat, NEW b \in Nat, NEW J \in SUBSET (a..b), NEW p \in (a..b) \ J
    PROVE  /\ Cardinality(J) \in Nat
           /\ Cardinality(J \cup {p}) = Cardinality(J) + 1
           /\ Cardinality(J) = b - a + 1 => J = a..b
<1>1. IsFiniteSet(a..b) /\ Cardinality(a..b) = IF a > b THEN 0 ELSE b - a + 1
    BY FS_Interval
<1>2. /\ IsFiniteSet(J) /\ (Cardinality(a..b) = Cardinality(J) => J = a..b)
    BY <1>1, FS_Subset
<1>3. Cardinality(J) \in Nat
    BY <1>2, FS_CardinalityType
<1>4. Cardinality(J \cup {p}) = Cardinality(J) + 1
    BY <1>2, FS_AddElement
<1> QED
    BY <1>1, <1>2, <1>3, <1>4

LEMMA GatheredGeneric ==
    ASSUME Fixed, format = "GENERIC", NEW a \in Packets, NEW b \in Packets,
           Split(format, stream, a, b),
           NEW f, IsFrame(f), f.first = a,
           NEW J \in SUBSET (a..b), NEW p \in (a..b) \ J, Gathered(a, b, J, f)
    PROVE  Gathered(a, b, J \cup {p}, InsertedGeneric(f, p))
<1> DEFINE g == InsertedGeneric(f, p)
<1>1. /\ a \in Nat /\ b \in Nat /\ a < b /\ a..b \subseteq Packets /\ p \in Packets /\ a \in J /\ p # a
      /\ J \in SUBSET Packets
    BY SplitFacts DEF Gathered
<1>2. stream[p].marker <=> p = b
    BY <1>1 DEF Split
<1>3. g = [s_seq |-> f.s_seq, e_seq |-> IF stream[p].marker THEN Seq16(p) ELSE f.e_seq,
           pkts_received |-> f.pkts_received + 1,
           fragments |-> With(f.fragments, At(Seq16(p), p)),
           temporary |-> f.temporary, late |-> f.late, first |-> f.first]
    BY InsertedGenericIs
<1> HIDE DEF g
<1>4. Cardinality(J \cup {p}) = g.pkts_received
    BY <1>1, <1>3, CountOneMore DEF Gathered
<1>5. g.e_seq = IF b \in J \cup {p} THEN Seq16(b) ELSE NoSeq
    BY <1>2, <1>3 DEF Gathered
<1>6. ASSUME Sheltered(stream[a].unit, a)
      PROVE  g.temporary = {} /\ g.fragments = Placed(a, J \cup {p})
    <2>1. a \in a..b
        BY <1>1
    <2>2. Seq16(p) = Off(a, p)
        BY <1>6, <2>1, ShelteredPlaces
    <2>3. f.temporary = {} /\ f.fragments = Placed(a, J)
        BY <1>1, <1>6 DEF Gathered
    <2> QED
        BY <1>1, <1>3, <2>2, <2>3, PlacedOneMore
<1>7. g.first \in J \cup {p} /\ g.s_seq = Seq16(a) /\ a \in J \cup {p} /\ g.first = a
    BY <1>1, <1>3 DEF Gathered
<1>8. Gathered(a, b, J \cup {p}, g)
    BY <1>4, <1>5, <1>6, <1>7 DEF Gathered
<1> QED
    BY <1>8 DEF g

\* The places of the fragment that came first, of the unit's first one and of those that
\* waited for it.
Relocated(a, first, waited) ==
    With(With(At(Seq16(first), first), At(Seq16(a), a)),
         [k \in {Key(Seq16(a), Seq16(q)) : q \in waited} |-> Waiting(waited, Seq16(a), k)])

\* What had to wait goes to its places with the first fragment.
LEMMA RelocatedPlaces ==
    ASSUME Fixed, format \in H26x, NEW a \in Packets, NEW b \in Packets,
           Split(format, stream, a, b), NEW first \in (a..b) \ {a},
           Sheltered(stream[a].unit, first),
           NEW J \in SUBSET ((a..b) \ {a}), first \in J
    PROVE  Relocated(a, first, J \ {first}) = Placed(a, J \cup {a})
<1>1. /\ a \in Nat /\ b \in Nat /\ a < b /\ a..b \subseteq Packets /\ Seq16(a) \in Nat
      /\ first \in a..b /\ first # a /\ \A q \in J : q \in a..b
    BY SplitFacts, NumbersAreSmall
<1>2. \A q \in a..b : Key(Seq16(a), Seq16(q)) = Off(a, q)
    BY <1>1, ShelteredPlaces
<1>3. \A q \in a..b : Off(a, q) \in Int /\ a + (Off(a, q) - Seq16(a)) = q
    BY <1>1 DEF Off
<1>4. Seq16(first) = Off(a, first) /\ Seq16(a) = Off(a, a)
    <2>1. Seq16(first) = Off(a, first)
        BY <1>1, ShelteredPlaces
    <2> QED
        BY <1>1, <2>1 DEF Off
<1> DEFINE T == J \ {first}
           N == {Key(Seq16(a), Seq16(q)) : q \in T}
           n == [k \in N |-> Waiting(T, Seq16(a), k)]
           m == With(At(Seq16(first), first), At(Seq16(a), a))
           K == {Off(a, q) : q \in J \cup {a}}
<1>5. ASSUME NEW k \in N PROVE n[k] = a + (k - Seq16(a))
    <2>1. PICK q \in T : Key(Seq16(a), Seq16(q)) = k
        OBVIOUS
    <2>2. Waiting(T, Seq16(a), k) \in T /\ Key(Seq16(a), Seq16(Waiting(T, Seq16(a), k))) = k
        BY <2>1 DEF Waiting
    <2> HIDE DEF T
    <2>3. T \subseteq a..b
        BY <1>1 DEF T
    <2>4. Off(a, Waiting(T, Seq16(a), k)) = k
        BY <1>2, <2>2, <2>3
    <2>5. Waiting(T, Seq16(a), k) = a + (k - Seq16(a))
        BY <1>3, <2>2, <2>3, <2>4
    <2> QED
        BY <2>5
<1>6. /\ DOMAIN m = {Off(a, first), Off(a, a)}
      /\ \A k \in DOMAIN m : m[k] = a + (k - Seq16(a))
    <2>1. DOMAIN m = {Off(a, first), Off(a, a)}
        BY <1>4 DEF With, At
    <2>2. m[Off(a, a)] = a
        BY <1>4 DEF With, At
    <2>3. m[Off(a, first)] = first
        <3>1. Off(a, first) # Off(a, a)
            BY <1>1 DEF Off
        <3> QED
            BY <1>4, <3>1 DEF With, At
    <2> HIDE DEF m
    <2> QED
        BY <1>1, <1>3, <2>1, <2>2, <2>3
<1>7. /\ N \cup DOMAIN m = K
      /\ DOMAIN n = N
    <2>1. N = {Off(a, q) : q \in T}
        BY <1>1, <1>2
    <2> HIDE DEF N, m
    <2> QED
        BY <1>6, <2>1
<1> HIDE DEF N, n, m, K, T
<1>8. With(m, n) = [k \in K |-> a + (k - Seq16(a))]
    BY <1>5, <1>6, <1>7 DEF With
<1>9. Placed(a, J \cup {a}) = [k \in K |-> a + (k - Seq16(a))]
    BY DEF Placed, K
<1> QED
    BY <1>8, <1>9 DEF m, n, N, T, Relocated

LEMMA GatheredH26x ==
    ASSUME Fixed, format \in H26x, NEW a \in Packets, NEW b \in Packets,
           Split(format, stream, a, b),
           NEW f, IsFrame(f),
           NEW J \in SUBSET (a..b), NEW p \in (a..b) \ J, Gathered(a, b, J, f)
    PROVE  Gathered(a, b, J \cup {p}, Inserted(f, p))
<1> DEFINE g == Inserted(f, p)
           e == IF get_frag(p) = "END" THEN Seq16(p) ELSE f.e_seq
<1>1. /\ a \in Nat /\ b \in Nat /\ a < b /\ a..b \subseteq Packets /\ p \in Packets
      /\ f.first \in J /\ f.first \in a..b /\ J \in SUBSET Packets
      /\ Seq16(a) \in 0..SEQ_MOD - 1 /\ NoSeq = SEQ_MOD /\ SEQ_MOD \in Nat
    BY SplitFacts, NumbersAreSmall DEF Gathered
<1>2. (get_frag(p) = "START" <=> p = a) /\ (get_frag(p) = "END" <=> p = b)
    BY <1>1, TypesOfFragments
<1>3. e = IF b \in J \cup {p} THEN Seq16(b) ELSE NoSeq
    BY <1>2 DEF Gathered
<1>4. Cardinality(J \cup {p}) = f.pkts_received + 1
    <2> HIDE DEF g, e
    <2>1. f.pkts_received = Cardinality(J)
        BY DEF Gathered
    <2>2. Cardinality(J \cup {p}) = Cardinality(J) + 1
        BY <1>1, CountOneMore
    <2> QED
        BY <2>1, <2>2
<1>5. CASE p = a
    <2> DEFINE n == [k \in {Key(Seq16(p), Seq16(q)) : q \in f.temporary} |->
                        Waiting(f.temporary, Seq16(p), k)]
               m == With(With(f.fragments, At(Seq16(p), p)), n)
    <2>1. g = [s_seq |-> Seq16(p), e_seq |-> e, pkts_received |-> f.pkts_received + 1,
               fragments |-> m, temporary |-> {}, late |-> f.late, first |-> f.first]
        BY <1>2, <1>5 DEF Inserted, Relocate, IsFrame
    <2>2. ASSUME Sheltered(stream[a].unit, f.first)
          PROVE  m = Placed(a, J \cup {a})
        <3>1. /\ f.temporary = J \ {f.first} /\ f.fragments = At(Seq16(f.first), f.first)
              /\ a \notin J
            <4>1. a \notin J
                BY <1>5
            <4> HIDE DEF g, e, n, m
            <4> QED
                BY <2>2, <4>1 DEF Gathered
        <3>2. f.first \in (a..b) \ {a} /\ J \in SUBSET ((a..b) \ {a})
            BY <1>1, <3>1
        <3> DEFINE first == f.first
        <3>3. /\ first \in (a..b) \ {a} /\ first \in J /\ Sheltered(stream[a].unit, first)
              /\ f.temporary = J \ {first} /\ f.fragments = At(Seq16(first), first)
            BY <1>1, <2>2, <3>1, <3>2
        <3> HIDE DEF first
        <3>4. Relocated(a, first, J \ {first}) = Placed(a, J \cup {a})
            <4> HIDE DEF m, n, g, e
            <4>1. J \in SUBSET ((a..b) \ {a})
                BY <3>2
            <4> QED
                BY <3>3, <4>1, RelocatedPlaces
        <3> QED
            BY <1>5, <3>3, <3>4 DEF Relocated
    <2> HIDE DEF m, e, g
    <2>3. Gathered(a, b, J \cup {p}, g)
        BY <1>1, <1>3, <1>4, <1>5, <2>1, <2>2 DEF Gathered
    <2> QED
        BY <2>3 DEF g
<1>6. CASE p # a /\ a \in J
    <2> DEFINE m == With(f.fragments, At(Key(f.s_seq, Seq16(p)), p))
    <2>1. f.s_seq = Seq16(a) /\ f.s_seq # NoSeq
        BY <1>1, <1>6 DEF Gathered
    <2>2. g = [s_seq |-> f.s_seq, e_seq |-> e, pkts_received |-> f.pkts_received + 1,
               fragments |-> m, temporary |-> f.temporary, late |-> f.late, first |-> f.first]
        BY <1>2, <1>6, <2>1 DEF Inserted, Place, IsFrame
    <2>3. ASSUME Sheltered(stream[a].unit, f.first)
          PROVE  f.temporary = {} /\ m = Placed(a, J \cup {p})
        <3>1. f.temporary = {} /\ f.fragments = Placed(a, J)
            BY <1>6, <2>3 DEF Gathered
        <3>2. Key(Seq16(a), Seq16(p)) = Off(a, p)
            BY <1>1, <2>3, ShelteredPlaces
        <3> QED
            BY <1>1, <2>1, <3>1, <3>2, PlacedOneMore
    <2> HIDE DEF m, e, g
    <2>4. Gathered(a, b, J \cup {p}, g)
        BY <1>1, <1>3, <1>4, <1>6, <2>1, <2>2, <2>3 DEF Gathered
    <2> QED
        BY <2>4 DEF g
<1>7. CASE p # a /\ a \notin J
    <2>1. f.s_seq = NoSeq
        BY <1>7 DEF Gathered
    <2>2. g = [s_seq |-> f.s_seq, e_seq |-> e, pkts_received |-> f.pkts_received + 1,
               fragments |-> f.fragments, temporary |-> f.temporary \cup {p}, late |-> f.late,
               first |-> f.first]
        BY <1>2, <1>7, <2>1 DEF Inserted, Place, IsFrame
    <2> HIDE DEF e, g
    <2>3. Gathered(a, b, J \cup {p}, g)
        BY <1>1, <1>3, <1>4, <1>7, <2>1, <2>2 DEF Gathered
    <2> QED
        BY <2>3 DEF g
<1> QED
    BY <1>5, <1>6, <1>7

-----------------------------------------------------------------------------
(***************************************************************************)
(* An entry is complete when all of its unit has been collected.           *)
(***************************************************************************)
LEMMA AllCounted ==
    ASSUME NEW a \in Nat, NEW b \in Nat, a < b, NEW J \in SUBSET (a..b)
    PROVE  Cardinality(J) = b - a + 1 <=> J = a..b
<1>1. IsFiniteSet(a..b) /\ Cardinality(a..b) = b - a + 1
    BY FS_Interval
<1>2. Cardinality(a..b) = Cardinality(J) => J = a..b
    BY <1>1, FS_Subset
<1> QED
    BY <1>1, <1>2

LEMMA CompleteIsAll ==
    ASSUME Fixed, NEW a \in Packets, NEW b \in Packets, Split(format, stream, a, b),
           NEW f, NEW J \in SUBSET (a..b), Gathered(a, b, J, f)
    PROVE  Complete(f) <=> J = a..b
<1>1. /\ a \in Nat /\ b \in Nat /\ a < b /\ a \in a..b /\ b \in a..b
      /\ Seq16(a) # NoSeq /\ Seq16(b) # NoSeq
    BY SplitFacts, NumbersAreSmall
<1>2. /\ f.s_seq = IF a \in J THEN Seq16(a) ELSE NoSeq
      /\ f.e_seq = IF b \in J THEN Seq16(b) ELSE NoSeq
      /\ f.pkts_received = Cardinality(J)
    BY DEF Gathered
<1>3. CASE a \in J /\ b \in J
    <2>1. Expected(f) = b - a + 1
        BY <1>2, <1>3, ExpectedOfUnit
    <2> QED
        BY <1>1, <1>2, <1>3, <2>1, AllCounted DEF Complete
<1>4. CASE ~(a \in J /\ b \in J)
    BY <1>1, <1>2, <1>4 DEF Complete
<1> QED
    BY <1>3, <1>4

LEMMA WholeUnit ==
    ASSUME NEW a \in Nat, NEW b \in Nat, a <= b
    PROVE  InOrder([p \in a..b |-> p]) = [i \in 1..(b - a + 1) |-> a + i - 1]
<1> DEFINE m == [p \in a..b |-> p]
<1>1. DOMAIN m = a..b /\ \A p \in a..b : m[p] = p
    OBVIOUS
<1> HIDE DEF m
<1>2. InOrder(m) = [i \in 1..(b - a + 1) |-> m[a + i - 1]]
    BY <1>1, InOrderOfInterval
<1>3. \A i \in 1..(b - a + 1) : m[a + i - 1] = a + i - 1
    BY <1>1
<1> QED
    BY <1>2, <1>3 DEF m

LEMMA PlacedInOrder ==
    ASSUME Fixed, NEW a \in Packets, NEW b \in Packets, Split(format, stream, a, b)
    PROVE  InOrder(Placed(a, a..b)) = [i \in 1..(b - a + 1) |-> a + i - 1]
<1>1. a \in Nat /\ b \in Nat /\ a < b /\ Seq16(a) \in Nat
    BY SplitFacts, NumbersAreSmall
<1> DEFINE m == Placed(a, a..b)
           lo == Seq16(a)
           hi == Seq16(a) + (b - a)
<1>2. lo \in Nat /\ hi \in Nat /\ lo <= hi /\ hi - lo = b - a
    BY <1>1
<1>3. {Off(a, q) : q \in a..b} = lo..hi
    <2>1. \A q \in a..b : Off(a, q) \in lo..hi
        BY <1>1 DEF Off
    <2>2. ASSUME NEW k \in lo..hi PROVE \E q \in a..b : Off(a, q) = k
        <3>1. a + (k - Seq16(a)) \in a..b /\ Off(a, a + (k - Seq16(a))) = k
            BY <1>1 DEF Off
        <3> QED
            BY <3>1
    <2> HIDE DEF lo, hi
    <2> QED
        BY <2>1, <2>2
<1>4. DOMAIN m = lo..hi /\ \A k \in lo..hi : m[k] = a + (k - lo)
    BY <1>3 DEF Placed
<1> HIDE DEF m, lo, hi
<1>5. InOrder(m) = [i \in 1..(hi - lo + 1) |-> m[lo + i - 1]]
    BY <1>2, <1>4, InOrderOfInterval
<1>6. \A i \in 1..(b - a + 1) : m[lo + i - 1] = a + i - 1
    <2> SUFFICES ASSUME NEW i \in 1..(b - a + 1) PROVE m[lo + i - 1] = a + i - 1
        OBVIOUS
    <2>1. lo + i - 1 \in lo..hi /\ a + ((lo + i - 1) - lo) = a + i - 1
        BY <1>1, <1>2
    <2> DEFINE k == lo + i - 1
    <2>2. k \in lo..hi /\ a + (k - lo) = a + i - 1
        BY <2>1
    <2> HIDE DEF k
    <2>3. m[k] = a + (k - lo)
        BY <1>4, <2>2
    <2> QED
        BY <2>2, <2>3 DEF k
<1> QED
    BY <1>2, <1>5, <1>6 DEF m

\* What is returned of a complete entry.
LEMMA CompletedRecord ==
    ASSUME Given, NEW t, NEW f, IsFrame(f), Holds(t, f),
           NEW r, r = [parts |-> InOrder(f.fragments), piece |-> 1, size |-> f.pkts_received,
                       first |-> f.first]
    PROVE  r \in Record /\ r.parts[1] \in Of(t)
<1> DEFINE m == f.fragments
<1>1. /\ DOMAIN m # {} /\ DOMAIN m \subseteq 0..2 * SEQ_MOD
      /\ \A k \in DOMAIN m : m[k] \in Of(t)
      /\ f.first \in Packets /\ f.pkts_received \in Nat /\ SEQ_MOD \in Nat
    BY StreamFacts DEF Holds, IsFrame, Of
<1>2. IsFiniteSet(DOMAIN m) /\ DOMAIN m \subseteq Nat
    <2>1. 0 \in Int /\ 2 * SEQ_MOD \in Int
        BY <1>1
    <2>2. IsFiniteSet(0..2 * SEQ_MOD)
        BY <2>1, FS_Interval
    <2> QED
        BY <1>1, <2>2, FS_Subset
<1> HIDE DEF m
<1>3. InOrder(m) \in Seq(Of(t)) \ {<<>>} /\ InOrder(m)[1] \in Of(t)
    BY <1>1, <1>2, InOrderOfAny
<1>4. InOrder(m) \in Seq(Packets) \ {<<>>}
    <2>1. Of(t) \subseteq Packets
        BY DEF Of
    <2> QED
        BY <1>3, <2>1
<1> QED
    BY <1>1, <1>3, <1>4 DEF m, Record

LEMMA CompletedUnit ==
    ASSUME Fixed, NEW t, NEW f, IsFrame(f), Holds(t, f),
           NEW r, r = [parts |-> InOrder(f.fragments), piece |-> 1, size |-> f.pkts_received,
                       first |-> f.first]
    PROVE  /\ r \in Record
           /\ r.parts[1] \in Of(t)
           /\ \A a, b \in Packets : \A J \in SUBSET (a..b) :
                 /\ Split(format, stream, a, b) /\ Ts(a) = t
                 /\ Gathered(a, b, J, f) /\ Complete(f)
                 /\ Sheltered(stream[a].unit, f.first)
                 => Intact(r)
<1> DEFINE m == f.fragments
<1>5. ASSUME NEW a \in Packets, NEW b \in Packets, NEW J \in SUBSET (a..b),
             Split(format, stream, a, b), Ts(a) = t, Gathered(a, b, J, f), Complete(f),
             Sheltered(stream[a].unit, f.first)
      PROVE  Intact(r)
    <2>1. a \in Nat /\ b \in Nat /\ a < b /\ a \in a..b /\ a <= b /\ Unit(stream[a].unit) = a..b
        BY <1>5, SplitFacts
    <2>2. J = a..b
        BY <1>5, CompleteIsAll
    <2>3. m = Placed(a, a..b)
        BY <1>5, <2>1, <2>2 DEF Gathered, m
    <2>4. InOrder(m) = [i \in 1..(b - a + 1) |-> a + i - 1]
        BY <1>5, <2>3, PlacedInOrder
    <2>5. f.pkts_received = b - a + 1
        BY <1>5, <2>1, <2>2, AllCounted DEF Gathered
    <2>6. r.parts[1] = a /\ Len(r.parts) = b - a + 1
        BY <2>1, <2>4 DEF m
    <2>7. UnitOf(r) = stream[a].unit
        BY <2>6 DEF UnitOf
    <2>8. InOrder([p \in a..b |-> p]) = [i \in 1..(b - a + 1) |-> a + i - 1]
        BY <2>1, WholeUnit
    <2> QED
        BY <2>1, <2>4, <2>5, <2>6, <2>7, <2>8 DEF Intact, m
<1> QED
    BY <1>5, CompletedRecord

-----------------------------------------------------------------------------
(***************************************************************************)
(* A packet arrives: what has become of the units it is no part of.        *)
(***************************************************************************)
LEMMA Frozen ==
    ASSUME UNCHANGED <<format, stream, first_seq>>
    PROVE  /\ Packets' = Packets
           /\ \A p : Seq16(p)' = Seq16(p) /\ Ts(p)' = Ts(p) /\ (InSplit(p)' <=> InSplit(p))
           /\ \A u : Unit(u)' = Unit(u)
           /\ \A t : Of(t)' = Of(t)
           /\ \A r : UnitOf(r)' = UnitOf(r)
           /\ \A r : Intact(r)' <=> Intact(r)
           /\ \A u, q : Sheltered(u, q)' <=> Sheltered(u, q)
           /\ \A t, f : Holds(t, f)' <=> Holds(t, f)
           /\ \A a, b, J, f : Gathered(a, b, J, f)' <=> Gathered(a, b, J, f)
           /\ OneSplitUnitPerTimestamp' <=> OneSplitUnitPerTimestamp
<1>1. Packets' = Packets
    BY DEF Packets
<1>2. \A p : Seq16(p)' = Seq16(p) /\ Ts(p)' = Ts(p)
    BY DEF Seq16, Ts
<1>3. \A p : InSplit(p)' <=> InSplit(p)
    BY <1>1 DEF InSplit
<1>4. \A u : Unit(u)' = Unit(u)
    BY <1>1 DEF Unit
<1>5. \A t : Of(t)' = Of(t)
    BY <1>1, <1>2, <1>3 DEF Of
<1>6. \A r : UnitOf(r)' = UnitOf(r)
    BY DEF UnitOf
<1>7. \A r : Intact(r)' <=> Intact(r)
    BY <1>4, <1>6 DEF Intact
<1>8. \A u : (Wraps(u)' <=> Wraps(u)) /\ FirstOf(u)' = FirstOf(u)
    BY <1>2, <1>4 DEF Wraps, FirstOf
<1>9. \A u, q : Sheltered(u, q)' <=> Sheltered(u, q)
    BY <1>8 DEF Sheltered
<1>10. \A t, f : Holds(t, f)' <=> Holds(t, f)
    BY <1>5 DEF Holds
<1>11. \A a, J : Placed(a, J)' = Placed(a, J)
    BY <1>2 DEF Placed, Off
<1>12. \A a, b, J, f : Gathered(a, b, J, f)' <=> Gathered(a, b, J, f)
    BY <1>2, <1>9, <1>11 DEF Gathered
<1>13. OneSplitUnitPerTimestamp' <=> OneSplitUnitPerTimestamp
    BY <1>1 DEF OneSplitUnitPerTimestamp
<1> QED
    BY <1>1, <1>2, <1>3, <1>4, <1>5, <1>6, <1>7, <1>9, <1>10, <1>12, <1>13

\* n records of the unit of p are returned.
Grows(p, n) ==
    /\ n \in Nat /\ Len(returned') = Len(returned) + n
    /\ \A i \in 1..Len(returned) : returned'[i] = returned[i]
    /\ \A i \in Len(returned) + 1..Len(returned) + n : UnitOf(returned'[i]) = stream[p].unit

LEMMA ReturnsGrow ==
    ASSUME TypeInv, NEW p \in Packets, Arrives(p), NEW n, Grows(p, n)
    PROVE  /\ \A u : u # stream[p].unit => Returns(u)' = Returns(u)
           /\ \A u : u = stream[p].unit =>
                 /\ Returns(u)' = Returns(u) \cup (Len(returned) + 1..Len(returned) + n)
                 /\ Cardinality(Returns(u)) \in Nat
                 /\ Cardinality(Returns(u)') = Cardinality(Returns(u)) + n
                 /\ n = 0 => Returns(u)' = Returns(u)
           /\ \A u : \A i \in Returns(u) : i \in Returns(u)' /\ returned'[i] = returned[i]
<1>1. Len(returned) \in Nat /\ n \in Nat
    BY DEF TypeInv, Grows
<1>2. \A r : UnitOf(r)' = UnitOf(r)
    BY Frozen DEF Arrives
<1>3. \A u : Returns(u)' = {i \in 1..Len(returned') : UnitOf(returned'[i]) = u}
    BY <1>2 DEF Returns, UnitOf, Arrives
<1>7. \A u : Returns(u) = {i \in 1..Len(returned) : UnitOf(returned[i]) = u}
    BY DEF Returns
<1>8. /\ \A i \in 1..Len(returned) : i \in 1..Len(returned') /\ returned'[i] = returned[i]
      /\ \A i \in 1..Len(returned') : i \in 1..Len(returned) \/ UnitOf(returned'[i]) = stream[p].unit
    BY <1>1 DEF Grows
<1>4. \A u : u # stream[p].unit => Returns(u)' = Returns(u)
    BY <1>3, <1>7, <1>8
<1>5. ASSUME NEW u, u = stream[p].unit
      PROVE  /\ Returns(u)' = Returns(u) \cup (Len(returned) + 1..Len(returned) + n)
             /\ Cardinality(Returns(u)) \in Nat
             /\ Cardinality(Returns(u)') = Cardinality(Returns(u)) + n
             /\ n = 0 => Returns(u)' = Returns(u)
    <2> DEFINE old == Returns(u)
               new == Len(returned) + 1..Len(returned) + n
    <2>1. Returns(u)' = old \cup new
        <3>1. \A i : i \in 1..Len(returned') <=> i \in 1..Len(returned) \/ i \in new
            BY <1>1 DEF Grows
        <3>2. \A i \in new : UnitOf(returned'[i]) = u
            BY <1>5 DEF Grows
        <3> QED
            BY <1>3, <1>7, <1>8, <3>1, <3>2
    <2>2. IsFiniteSet(1..Len(returned)) /\ IsFiniteSet(new) /\ Cardinality(new) = n
        <3>1. 1 \in Int /\ Len(returned) \in Int /\ Len(returned) + 1 \in Int /\ Len(returned) + n \in Int
            BY <1>1
        <3>2. IsFiniteSet(1..Len(returned)) /\ IsFiniteSet(new)
            BY <3>1, FS_Interval
        <3>3. Cardinality(new) = IF Len(returned) + 1 > Len(returned) + n THEN 0
                                 ELSE (Len(returned) + n) - (Len(returned) + 1) + 1
            BY <3>1, FS_Interval
        <3> HIDE DEF new
        <3> QED
            BY <1>1, <3>2, <3>3
    <2>3. old \in SUBSET (1..Len(returned)) /\ old \cap new = {} /\ (n = 0 => new = {})
        BY <1>1 DEF Returns
    <2> HIDE DEF old, new
    <2>4. IsFiniteSet(old)
        BY <2>2, <2>3, FS_Subset
    <2>5. Cardinality(old) \in Nat
        BY <2>4, FS_CardinalityType
    <2>6. Cardinality(old \cup new) = Cardinality(old) + n
        <3>1. Cardinality(old \cup new) = Cardinality(old) + Cardinality(new) - Cardinality(old \cap new)
            BY <2>2, <2>4, FS_Union
        <3>2. Cardinality(old \cap new) = 0
            BY <2>3, FS_EmptySet
        <3> QED
            BY <1>1, <2>2, <2>5, <3>1, <3>2
    <2> QED
        BY <2>1, <2>3, <2>5, <2>6 DEF old, new
<1>6. \A u : \A i \in Returns(u) : i \in Returns(u)' /\ returned'[i] = returned[i]
    BY <1>3, <1>7, <1>8
<1> QED
    BY <1>4, <1>5, <1>6

LEMMA ReceivedGrows ==
    ASSUME TypeInv, NEW p \in Packets, Arrives(p)
    PROVE  /\ receipts' \in [Packets -> Nat]
           /\ \A u : u # stream[p].unit => Received(u)' = Received(u)
           /\ \A u : Undisturbed(u)' => Undisturbed(u)
           /\ \A u : u = stream[p].unit /\ Undisturbed(u)' =>
                 /\ Received(u)' = Received(u) \cup {p} /\ p \in Unit(u) \ Received(u)
                 /\ receipts[p] = 0 /\ receipts'[p] = 1
           /\ \A q \in Packets : q # p => receipts'[q] = receipts[q]
<1>1. /\ receipts \in [Packets -> Nat] /\ receipts' = [receipts EXCEPT ![p] = @ + 1]
      /\ UNCHANGED <<format, stream, first_seq>>
    BY DEF TypeInv, Arrives
<1>2. /\ \A u : Unit(u)' = Unit(u)
      /\ \A u : \A q \in Unit(u) : q \in Packets /\ stream[q].unit = u
      /\ p \in Unit(stream[p].unit)
    BY <1>1, Frozen DEF Unit
<1>3. /\ \A u : Received(u)' = {q \in Unit(u) : receipts'[q] # 0}
      /\ \A u : Undisturbed(u)' <=> \A q \in Unit(u) : receipts'[q] <= 1
    BY <1>2 DEF Received, Undisturbed
<1>4. /\ \A q \in Packets : receipts'[q] \in Nat /\ receipts[q] \in Nat
      /\ \A q \in Packets : q # p => receipts'[q] = receipts[q]
      /\ receipts'[p] = receipts[p] + 1
    BY <1>1
<1>5. \A u : u # stream[p].unit => Received(u)' = Received(u)
    BY <1>2, <1>3, <1>4 DEF Received
<1>6. \A u : Undisturbed(u)' => Undisturbed(u)
    BY <1>2, <1>3, <1>4 DEF Undisturbed
<1>7. ASSUME NEW u, u = stream[p].unit, Undisturbed(u)'
      PROVE  /\ Received(u)' = Received(u) \cup {p} /\ p \in Unit(u) \ Received(u)
             /\ receipts[p] = 0 /\ receipts'[p] = 1
    <2>1. receipts[p] = 0 /\ receipts'[p] = 1
        BY <1>2, <1>3, <1>4, <1>7
    <2> QED
        BY <1>2, <1>3, <1>4, <1>7, <2>1 DEF Received
<1> QED
    BY <1>1, <1>4, <1>5, <1>6, <1>7

\* Of the entries and of what was given up only the timestamp of p changes.
OnlyAt(p) ==
    \A t : t # Ts(p) \/ ~InSplit(p) =>
        /\ t \in DOMAIN frames' <=> t \in DOMAIN frames
        /\ t \in DOMAIN frames => frames'[t] = frames[t]
        /\ t \in dropped' <=> t \in dropped

LEMMA TypeKept ==
    ASSUME TypeInv, NEW p \in Packets, Arrives(p), returned' \in Seq(Record)
    PROVE  TypeInv'
<1>1. UNCHANGED <<format, stream, first_seq>> /\ receipts' \in [Packets -> Nat]
    BY ReceivedGrows DEF Arrives
<1>2. Packets' = Packets
    BY <1>1, Frozen
<1> QED
    BY <1>1, <1>2 DEF TypeInv, Record

LEMMA OtherUnit ==
    ASSUME TypeInv, OneSplitUnitPerTimestamp, NEW p \in Packets, Arrives(p), NEW n, Grows(p, n), OnlyAt(p),
           NEW a \in Packets, NEW b \in Packets, Split(format, stream, a, b), p \notin a..b,
           Undisturbed(stream[a].unit) => Collects(a, b) /\ Returned(a, b),
           Undisturbed(stream[a].unit)'
    PROVE  Collects(a, b)' /\ Returned(a, b)'
<1>0. PICK u, t : u = stream[a].unit /\ t = Ts(a)
    OBVIOUS
<1>1. UNCHANGED <<format, stream, first_seq>> /\ Fixed
    BY DEF Arrives, TypeInv, Given
<1>2. u # stream[p].unit /\ (t # Ts(p) \/ ~InSplit(p))
    <2>1. Unit(u) = a..b /\ Of(t) = a..b
        BY <1>0, <1>1, SplitFacts
    <2> QED
        BY <2>1 DEF Unit, Of
<1>3. /\ t \in DOMAIN frames' <=> t \in DOMAIN frames
      /\ t \in DOMAIN frames => frames'[t] = frames[t]
      /\ t \in dropped' <=> t \in dropped
    BY <1>2 DEF OnlyAt
<1>4. /\ Returns(u)' = Returns(u) /\ Received(u)' = Received(u) /\ Undisturbed(u)
      /\ \A i \in Returns(u) : returned'[i] = returned[i]
    <2>1. Returns(u)' = Returns(u)
        BY <1>2, ReturnsGrow
    <2>2. \A i \in Returns(u) : returned'[i] = returned[i]
        BY ReturnsGrow
    <2>3. Received(u)' = Received(u)
        BY <1>2, ReceivedGrows
    <2>4. Undisturbed(u)'
        BY <1>0, <1>1
    <2>5. Undisturbed(u)
        BY <2>4, ReceivedGrows
    <2> QED
        BY <2>1, <2>2, <2>3, <2>5
<1>5. Collects(a, b) /\ Returned(a, b)
    BY <1>0, <1>4
<1>6. /\ Ts(a)' = t /\ stream' = stream /\ format' = format
      /\ \A J, f : Gathered(a, b, J, f)' <=> Gathered(a, b, J, f)
    BY <1>0, <1>1, Frozen
<1>7. Collects(a, b)' <=>
        (t \in DOMAIN frames' /\ (format = "GENERIC" => frames'[t].first = a) =>
           \E J \in SUBSET Received(u)' :
              /\ Gathered(a, b, J, frames'[t])
              /\ format \in H26x \/ Returns(u)' = {} => J = Received(u)')
    BY <1>0, <1>6 DEF Collects
<1>8. Collects(a, b)'
    BY <1>0, <1>3, <1>4, <1>5, <1>7 DEF Collects
<1>9. Clean(a)' <=> Clean(a)
    BY <1>0, <1>3, <1>4, <1>6 DEF Clean
<1>10. Returned(a, b)'
    BY <1>0, <1>3, <1>4, <1>5, <1>6, <1>9 DEF Returned
<1> QED
    BY <1>8, <1>10

LEMMA AloneOrSplit ==
    ASSUME Given, NEW p \in Packets
    PROVE  /\ InSplit(p) \/ (OnePacket(format, stream[p]) /\ Unit(stream[p].unit) = {p})
           /\ Unit(stream[p].unit) = {p} => ~InSplit(p)
<1>1. InSplit(p) \/ (OnePacket(format, stream[p]) /\ Unit(stream[p].unit) = {p})
    BY StreamFacts DEF Sent, InSplit, Unit, Packets
<1>2. ASSUME InSplit(p), Unit(stream[p].unit) = {p} PROVE FALSE
    <2>1. PICK a \in Packets, b \in Packets : p \in a..b /\ Split(format, stream, a, b)
        BY <1>2 DEF InSplit
    <2>2. a < b /\ a \in Nat /\ b \in Nat /\ Unit(stream[a].unit) = a..b /\ stream[p].unit = stream[a].unit
        BY <2>1, SplitShape
    <2>3. a..b = {p}
        BY <1>2, <2>2
    <2>4. a \in a..b /\ b \in a..b
        BY <2>2
    <2>5. a = p /\ b = p
        BY <2>3, <2>4
    <2> QED
        BY <2>2, <2>5
<1> QED
    BY <1>1, <1>2

\* It is enough to look at the unit of the packet that arrives.
LEMMA OnlyItsUnit ==
    ASSUME ReassemblyInv, NEW p \in Packets, Arrives(p), NEW n, Grows(p, n), OnlyAt(p),
           returned' \in Seq(Record), FramesInv',
           ~InSplit(p) => n = stream[p].count,
           \A a, b \in Packets :
              p \in a..b /\ Split(format, stream, a, b) /\ Undisturbed(stream[a].unit)'
                 => Collects(a, b)' /\ Returned(a, b)',
           \A i \in Len(returned) + 1..Len(returned) + n :
              Undisturbed(stream[p].unit)' /\ Sheltered(stream[p].unit, returned'[i].first)
                 => Intact(returned'[i])
    PROVE  ReassemblyInv'
<1>1. UNCHANGED <<format, stream, first_seq>> /\ Fixed /\ TypeInv
    BY DEF Arrives, TypeInv, Given, ReassemblyInv
<1>2. /\ Packets' = Packets /\ \A u : Unit(u)' = Unit(u)
      /\ \A r : UnitOf(r)' = UnitOf(r) /\ (Intact(r)' <=> Intact(r))
      /\ \A u, q : Sheltered(u, q)' <=> Sheltered(u, q)
      /\ OneSplitUnitPerTimestamp'
    BY <1>1, Frozen
<1>3. TypeInv'
    BY <1>1, TypeKept
<1>4. SplitInv'
    <2>1. ASSUME NEW a \in Packets, NEW b \in Packets, Split(format, stream, a, b),
                 Undisturbed(stream[a].unit)'
          PROVE  Collects(a, b)' /\ Returned(a, b)'
        <3>1. CASE p \in a..b
            BY <2>1, <3>1
        <3>2. CASE p \notin a..b
            <4>1. Undisturbed(stream[a].unit) => Collects(a, b) /\ Returned(a, b)
                BY <2>1 DEF ReassemblyInv, SplitInv
            <4> QED
                BY <1>1, <2>1, <3>2, <4>1, OtherUnit
        <3> QED
            BY <3>1, <3>2
    <2> QED
        BY <1>1, <1>2, <2>1 DEF SplitInv
<1>5. AloneInv'
    <2>1. ASSUME NEW q \in Packets, OnePacket(format, stream[q]),
                 NEW u, u = stream[q].unit, Unit(u) = {q}, receipts'[q] <= 1
          PROVE  Cardinality(Returns(u)') = IF receipts'[q] = 0 THEN 0 ELSE stream[q].count
        <3>0. u = stream[q].unit
            BY <2>1
        <3>1. p \in Unit(stream[p].unit) /\ ~InSplit(q)
            BY <1>1, <2>1, <3>0, AloneOrSplit DEF Unit
        <3>2. /\ OnePacket(format, stream[q]) /\ receipts[q] <= 1 =>
                     Cardinality(Returns(u)) = IF receipts[q] = 0 THEN 0 ELSE stream[q].count
            BY <2>1, <3>0 DEF ReassemblyInv, AloneInv
        <3>3. CASE q = p
            <4>1. Undisturbed(u)'
                BY <1>2, <2>1, <3>0 DEF Undisturbed
            <4>2. receipts[p] = 0 /\ receipts'[p] = 1
                BY <1>1, <3>0, <3>3, <4>1, ReceivedGrows
            <4>3. Cardinality(Returns(u)') = Cardinality(Returns(u)) + n
                BY <1>1, <3>0, <3>3, ReturnsGrow
            <4>4. n \in Nat /\ n = stream[q].count
                BY <3>1, <3>3 DEF Grows
            <4>5. Cardinality(Returns(u)) = 0
                BY <2>1, <3>0, <3>2, <3>3, <4>2
            <4> QED
                BY <3>0, <3>3, <4>2, <4>3, <4>4, <4>5
        <3>4. CASE q # p
            <4>1. u # stream[p].unit
                BY <2>1, <3>0, <3>1, <3>4
            <4>2. Returns(u)' = Returns(u) /\ receipts'[q] = receipts[q]
                BY <1>1, <3>4, <4>1, ReturnsGrow, ReceivedGrows
            <4> QED
                BY <2>1, <3>0, <3>2, <4>2
        <3> QED
            BY <3>3, <3>4
    <2> QED
        BY <1>1, <1>2, <2>1 DEF AloneInv
<1>6. ReturnedIntact'
    <2>1. ASSUME NEW i \in 1..Len(returned'), NEW r, r = returned'[i], NEW u, u = UnitOf(r),
                 Undisturbed(u)', Sheltered(u, r.first)
          PROVE  Intact(r)
        <3>1. CASE i \in 1..Len(returned)
            <4>1. r = returned[i]
                BY <2>1, <3>1 DEF Grows
            <4>2. Undisturbed(u)
                BY <1>1, <2>1, ReceivedGrows
            <4> QED
                BY <2>1, <3>1, <4>1, <4>2 DEF ReassemblyInv, ReturnedIntact
        <3>2. CASE i \in Len(returned) + 1..Len(returned) + n
            <4>1. u = stream[p].unit
                BY <2>1, <3>2 DEF Grows
            <4>2. Undisturbed(stream[p].unit)'
                BY <1>1, <2>1, <4>1
            <4> QED
                BY <2>1, <3>2, <4>1, <4>2
        <3>3. Len(returned) \in Nat
            BY <1>1 DEF TypeInv
        <3> QED
            BY <3>1, <3>2, <3>3 DEF Grows
    <2>2. (\A i \in 1..Len(returned') : \A r, u :
              r = returned'[i] /\ u = UnitOf(r) /\ Undisturbed(u)' /\ Sheltered(u, r.first)
                  => Intact(r))
          => ReturnedIntact'
        BY <1>2 DEF ReturnedIntact
    <2> QED
        BY <2>1, <2>2
<1> QED
    BY <1>2, <1>3, <1>4, <1>5, <1>6 DEF ReassemblyInv

-----------------------------------------------------------------------------
(***************************************************************************)
(* What the handler does with a packet, and what that does to its unit.    *)
(***************************************************************************)
Insertion(f, p) == IF format = "GENERIC" THEN InsertedGeneric(f, p) ELSE Inserted(f, p)

\* The packet is handed out as it is, or as the n units it holds.
HandsOut(p, n) ==
    /\ Grows(p, n) /\ returned' \in Seq(Record)
    /\ \A i \in Len(returned) + 1..Len(returned) + n :
          returned'[i].first = p /\ returned'[i].parts = <<p>> /\ returned'[i].size = 1
    /\ UNCHANGED <<frames, dropped>>
    /\ ~InSplit(p) => n = stream[p].count
    /\ InSplit(p) =>
          format = "GENERIC" /\ ~stream[p].marker /\ Ts(p) \notin DOMAIN frames /\ n = 1

Begins(p) ==
    /\ InSplit(p) /\ Ts(p) \notin DOMAIN frames \cup dropped
    /\ \E s, e \in 0..SEQ_MOD :
          /\ frames' = With(frames, At(Ts(p),
                [s_seq |-> s, e_seq |-> e, pkts_received |-> 1, fragments |-> At(Seq16(p), p),
                 temporary |-> {}, late |-> FALSE, first |-> p]))
          /\ s = NoSeq \/ e = NoSeq
          /\ \A a, b \in Packets :
                Split(format, stream, a, b) /\ p \in a..b /\ (format = "GENERIC" => p = a) =>
                    /\ s = IF p = a THEN Seq16(a) ELSE NoSeq
                    /\ e = IF p = b THEN Seq16(b) ELSE NoSeq
    /\ UNCHANGED <<dropped, returned>>

Refuses(p) ==
    /\ InSplit(p) /\ Ts(p) \in dropped \ DOMAIN frames
    /\ UNCHANGED <<frames, dropped, returned>>

Completes(p) ==
    /\ InSplit(p) /\ Ts(p) \in DOMAIN frames
    /\ LET f == Insertion(frames[Ts(p)], p) IN
          /\ Complete(f)
          /\ returned' = Append(returned, [parts |-> InOrder(f.fragments), piece |-> 1,
                                           size |-> f.pkts_received, first |-> f.first])
    /\ frames' = Without(Ts(p))
    /\ UNCHANGED dropped

Drops(p) ==
    /\ InSplit(p) /\ Ts(p) \in DOMAIN frames /\ ~Complete(Insertion(frames[Ts(p)], p))
    /\ frames' = Without(Ts(p)) /\ dropped' = dropped \cup {Ts(p)}
    /\ UNCHANGED returned

Stores(p) ==
    /\ InSplit(p) /\ Ts(p) \in DOMAIN frames
    /\ LET f == Insertion(frames[Ts(p)], p) IN
          ~Complete(f) /\ frames' = [frames EXCEPT ![Ts(p)] = f]
    /\ UNCHANGED <<dropped, returned>>

Outcome(p) ==
    \/ \E n \in Nat : HandsOut(p, n)
    \/ Begins(p) \/ Refuses(p) \/ Completes(p) \/ Drops(p) \/ Stores(p)

\* The dropped frames and the entries of other timestamps, when one entry changes.
LEMMA OneEntry ==
    ASSUME FramesInv, UNCHANGED <<format, stream, first_seq>>, NEW t,
           \A v : v # t => (v \in DOMAIN frames' <=> v \in DOMAIN frames)
                           /\ (v \in DOMAIN frames => frames'[v] = frames[v])
                           /\ (v \in dropped' <=> v \in dropped),
           t \in DOMAIN frames' => /\ t \notin dropped'
                                   /\ IsFrame(frames'[t]) /\ Holds(t, frames'[t])
                                   /\ ~Complete(frames'[t])
    PROVE  FramesInv'
<1>1. \A v, f : Holds(v, f)' <=> Holds(v, f)
    BY Frozen
<1>2. ASSUME NEW v \in DOMAIN frames'
      PROVE  /\ v \notin dropped'
             /\ IsFrame(frames'[v]) /\ Holds(v, frames'[v]) /\ ~Complete(frames'[v])
    BY DEF FramesInv
<1> QED
    BY <1>1, <1>2 DEF FramesInv

LEMMA InsertionHolds ==
    ASSUME Given, FramesInv, NEW p \in Packets, InSplit(p), Ts(p) \in DOMAIN frames,
           NEW g, g = Insertion(frames[Ts(p)], p)
    PROVE  IsFrame(g) /\ Holds(Ts(p), g) /\ g.first = frames[Ts(p)].first
<1>1. PICK t, f : t = Ts(p) /\ f = frames[t]
    OBVIOUS
<1>2. IsFrame(f) /\ Holds(t, f) /\ p \in Of(t)
    BY <1>1 DEF FramesInv, Of
<1>3. format \in H26x \cup {"GENERIC"}
    BY SplitShape DEF InSplit
<1>4. (g = Inserted(f, p) /\ format \in H26x) \/ g = InsertedGeneric(f, p)
    BY <1>1, <1>3 DEF Insertion, H26x
<1>5. IsFrame(g) /\ Holds(t, g) /\ g.first = f.first
    BY <1>2, <1>4, InsertedHolds
<1> QED
    BY <1>1, <1>5

\* What a packet does to the entries, whatever the encoder is like.
LEMMA FramesKept ==
    ASSUME TypeInv, FramesInv, NEW p \in Packets, Arrives(p), Outcome(p)
    PROVE  FramesInv'
<1>1. UNCHANGED <<format, stream, first_seq>> /\ Given
    BY DEF Arrives, TypeInv, Given
<1>2. PICK t : t = Ts(p)
    OBVIOUS
<1>3. ASSUME NEW n \in Nat, HandsOut(p, n) PROVE FramesInv'
    <2>1. \A v, f : Holds(v, f)' <=> Holds(v, f)
        BY <1>1, Frozen
    <2> QED
        BY <1>3, <2>1 DEF FramesInv, HandsOut
<1>4. CASE Begins(p)
    <2>1. PICK s \in 0..SEQ_MOD, e \in 0..SEQ_MOD :
              /\ frames' = With(frames, At(Ts(p),
                    [s_seq |-> s, e_seq |-> e, pkts_received |-> 1,
                     fragments |-> At(Seq16(p), p), temporary |-> {}, late |-> FALSE,
                     first |-> p]))
              /\ s = NoSeq \/ e = NoSeq
        BY <1>4 DEF Begins
    <2>2. PICK f : f = [s_seq |-> s, e_seq |-> e, pkts_received |-> 1,
                        fragments |-> At(Seq16(p), p), temporary |-> {}, late |-> FALSE,
                        first |-> p]
        OBVIOUS
    <2>3. /\ InSplit(p) /\ t \notin dropped /\ dropped' = dropped /\ frames'[t] = f
          /\ \A v : v # t => (v \in DOMAIN frames' <=> v \in DOMAIN frames)
                             /\ (v \in DOMAIN frames => frames'[v] = frames[v])
        BY <1>2, <1>4, <2>1, <2>2 DEF Begins, With, At
    <2>4. /\ f.s_seq = s /\ f.e_seq = e /\ f.fragments = At(Seq16(p), p)
          /\ f.temporary = {} /\ f.first = p /\ IsFrame(f)
        BY <2>2 DEF IsFrame
    <2>5. ~Complete(f)
        BY <2>1, <2>4 DEF Complete
    <2>6. Holds(t, f)
        <3>1. p \in Of(t)
            BY <1>2, <2>3 DEF Of
        <3>2. Seq16(p) \in 0..2 * SEQ_MOD
            BY <1>1, NumbersAreSmall
        <3> QED
            BY <2>4, <3>1, <3>2 DEF Holds, At
    <2> QED
        BY <1>1, <2>3, <2>4, <2>5, <2>6, OneEntry
<1>5. CASE Refuses(p) \/ Drops(p) \/ Completes(p)
    <2>1. /\ t \notin DOMAIN frames'
          /\ \A v : v # t => (v \in DOMAIN frames' <=> v \in DOMAIN frames)
                             /\ (v \in DOMAIN frames => frames'[v] = frames[v])
                             /\ (v \in dropped' <=> v \in dropped)
        BY <1>2, <1>5 DEF Refuses, Drops, Completes, Without
    <2> QED
        BY <1>1, <2>1, OneEntry
<1>6. CASE Stores(p)
    <2>1. PICK g : g = Insertion(frames[t], p)
        OBVIOUS
    <2>2. /\ InSplit(p) /\ t \in DOMAIN frames /\ frames'[t] = g
          /\ ~Complete(g) /\ dropped' = dropped
          /\ \A v : v # t => (v \in DOMAIN frames' <=> v \in DOMAIN frames)
                             /\ (v \in DOMAIN frames => frames'[v] = frames[v])
        BY <1>2, <1>6, <2>1 DEF Stores
    <2>3. IsFrame(g) /\ Holds(t, g)
        BY <1>1, <1>2, <2>1, <2>2, InsertionHolds
    <2>4. t \notin dropped'
        BY <2>2 DEF FramesInv
    <2> QED
        BY <1>1, <2>2, <2>3, <2>4, OneEntry
<1> QED
    BY <1>3, <1>4, <1>5, <1>6 DEF Outcome

LEMMA Unchanged ==
    ASSUME TypeInv, NEW p, UNCHANGED returned
    PROVE  Grows(p, 0) /\ returned' \in Seq(Record)
<1>1. Len(returned) \in Nat /\ returned \in Seq(Record)
    BY DEF TypeInv
<1> QED
    BY <1>1 DEF Grows

LEMMA HandsOutStep ==
    ASSUME ReassemblyInv, NEW p \in Packets, Arrives(p), NEW n, HandsOut(p, n)
    PROVE  ReassemblyInv'
<1>1. UNCHANGED <<format, stream, first_seq>> /\ Fixed /\ TypeInv /\ FramesInv
    BY DEF Arrives, TypeInv, Given, ReassemblyInv
<1>2. OnlyAt(p) /\ Grows(p, n) /\ returned' \in Seq(Record)
    BY DEF HandsOut, OnlyAt
<1>3. FramesInv'
    <2>1. n \in Nat
        BY <1>2 DEF Grows
    <2> QED
        BY <1>1, <2>1, FramesKept DEF Outcome
<1>4. ASSUME NEW a \in Packets, NEW b \in Packets, p \in a..b, Split(format, stream, a, b)
      PROVE  Collects(a, b)' /\ Returned(a, b)'
    <2>1. /\ stream[p].unit = stream[a].unit /\ Ts(p) = Ts(a) /\ InSplit(p)
          /\ Ts(a)' = Ts(a) /\ stream[a].unit' = stream[a].unit
        BY <1>1, <1>4, SplitFacts, Frozen
    <2>2. format = "GENERIC" /\ ~stream[p].marker /\ Ts(a) \notin DOMAIN frames' /\ n = 1
        BY <1>1, <2>1 DEF HandsOut
    <2>3. p # a
        BY <1>4, <2>2 DEF Split
    <2>4. Collects(a, b)'
        BY <2>1, <2>2 DEF Collects
    <2>5. PICK u : u = stream[a].unit
        OBVIOUS
    <2>6. Returns(u)' = Returns(u) \cup (Len(returned) + 1..Len(returned) + n)
        BY <1>1, <1>2, <2>1, <2>5, ReturnsGrow
    <2>7. Len(returned) + 1 \in Returns(u)' /\ returned'[Len(returned) + 1].first = p
        <3>1. Len(returned) \in Nat
            BY <1>1 DEF TypeInv
        <3>2. Len(returned) + 1 \in Len(returned) + 1..Len(returned) + n
            BY <2>2, <3>1
        <3> QED
            BY <2>6, <3>2 DEF HandsOut
    <2>8. ~Clean(a)'
        BY <1>1, <2>2, <2>3, <2>5, <2>7 DEF Clean
    <2> QED
        BY <2>4, <2>8 DEF Returned
<1>5. ASSUME NEW i \in Len(returned) + 1..Len(returned) + n,
             Sheltered(stream[p].unit, returned'[i].first)
      PROVE  Intact(returned'[i])
    <2>1. /\ returned'[i].first = p /\ returned'[i].parts = <<p>> /\ returned'[i].size = 1
          /\ UnitOf(returned'[i]) = stream[p].unit
        BY <1>5 DEF HandsOut, Grows
    <2>2. ~InSplit(p)
        <3>1. SUFFICES ASSUME InSplit(p) PROVE FALSE
            OBVIOUS
        <3>2. PICK a \in Packets, b \in Packets : p \in a..b /\ Split(format, stream, a, b)
            BY <3>1 DEF InSplit
        <3>3. format = "GENERIC" /\ ~stream[p].marker
            BY <3>1 DEF HandsOut
        <3>4. p # a /\ stream[p].unit = stream[a].unit
            BY <1>1, <3>2, <3>3, SplitFacts DEF Split
        <3>5. Sheltered(stream[a].unit, p)
            BY <1>5, <2>1, <3>4
        <3>6. FirstOf(stream[a].unit) = a
            BY <1>1, <3>2, FirstPacket
        <3> QED
            BY <3>3, <3>4, <3>5, <3>6 DEF Sheltered
    <2>3. Unit(stream[p].unit) = {p} /\ p \in Nat
        BY <1>1, <2>2, AloneOrSplit, StreamFacts
    <2>4. InOrder([q \in {p} |-> q]) = <<p>>
        BY <2>3, InOrderOfOne
    <2>5. Intact(returned'[i]) <=>
            /\ returned'[i].size = Len(returned'[i].parts)
            /\ returned'[i].parts = InOrder([q \in {p} |-> q])
        BY <2>1, <2>3 DEF Intact
    <2> QED
        BY <2>1, <2>4, <2>5
<1> QED
    BY <1>1, <1>2, <1>3, <1>4, <1>5, OnlyItsUnit DEF HandsOut

\* A unit of which one packet comes for the first time has not been returned.
LEMMA NotReturned ==
    ASSUME ReassemblyInv, NEW p \in Packets, Arrives(p),
           NEW a \in Packets, NEW b \in Packets, Split(format, stream, a, b), p \in a..b,
           Undisturbed(stream[a].unit)', Clean(a)
    PROVE  /\ Returns(stream[a].unit) = {}
           /\ Ts(a) \notin DOMAIN frames => Received(stream[a].unit) = {}
<1>1. UNCHANGED <<format, stream, first_seq>> /\ Fixed /\ TypeInv
    BY DEF Arrives, TypeInv, Given, ReassemblyInv
<1>2. PICK u : u = stream[a].unit
    OBVIOUS
<1>3. u = stream[p].unit /\ Undisturbed(u)' /\ Unit(u) = a..b
    BY <1>1, <1>2, SplitFacts
<1>4. p \in Unit(u) \ Received(u) /\ Undisturbed(u)
    BY <1>1, <1>3, ReceivedGrows
<1>5. Returned(a, b)
    BY <1>2, <1>4 DEF ReassemblyInv, SplitInv
<1> QED
    BY <1>2, <1>3, <1>4, <1>5 DEF Returned

LEMMA BeginsStep ==
    ASSUME ReassemblyInv, NEW p \in Packets, Arrives(p), Begins(p)
    PROVE  ReassemblyInv'
<1>1. UNCHANGED <<format, stream, first_seq>> /\ Fixed /\ TypeInv /\ FramesInv
    BY DEF Arrives, TypeInv, Given, ReassemblyInv
<1>2. PICK s \in 0..SEQ_MOD, e \in 0..SEQ_MOD :
          /\ frames' = With(frames, At(Ts(p),
                [s_seq |-> s, e_seq |-> e, pkts_received |-> 1, fragments |-> At(Seq16(p), p),
                 temporary |-> {}, late |-> FALSE, first |-> p]))
          /\ s = NoSeq \/ e = NoSeq
          /\ \A a, b \in Packets :
                Split(format, stream, a, b) /\ p \in a..b /\ (format = "GENERIC" => p = a) =>
                    /\ s = IF p = a THEN Seq16(a) ELSE NoSeq
                    /\ e = IF p = b THEN Seq16(b) ELSE NoSeq
    BY DEF Begins
<1>3. PICK f : f = [s_seq |-> s, e_seq |-> e, pkts_received |-> 1, fragments |-> At(Seq16(p), p),
                    temporary |-> {}, late |-> FALSE, first |-> p]
    OBVIOUS
<1>4. PICK t : t = Ts(p)
    OBVIOUS
<1>5. /\ InSplit(p) /\ t \notin DOMAIN frames \cup dropped
      /\ t \in DOMAIN frames' /\ frames'[t] = f /\ dropped' = dropped /\ returned' = returned
      /\ \A v : v # t => (v \in DOMAIN frames' <=> v \in DOMAIN frames)
                         /\ (v \in DOMAIN frames => frames'[v] = frames[v])
    BY <1>2, <1>3, <1>4 DEF Begins, With, At
<1>6. /\ f.s_seq = s /\ f.e_seq = e /\ f.pkts_received = 1 /\ f.fragments = At(Seq16(p), p)
      /\ f.temporary = {} /\ f.first = p /\ IsFrame(f)
    BY <1>3 DEF IsFrame
<1>7. OnlyAt(p) /\ Grows(p, 0) /\ returned' \in Seq(Record)
    BY <1>1, <1>4, <1>5, Unchanged DEF OnlyAt
<1>8. FramesInv'
    BY <1>1, FramesKept DEF Outcome
<1>9. ASSUME NEW a \in Packets, NEW b \in Packets, p \in a..b, Split(format, stream, a, b),
             Undisturbed(stream[a].unit)'
      PROVE  Collects(a, b)' /\ Returned(a, b)'
    <2>0. PICK u : u = stream[a].unit
        OBVIOUS
    <2>1. /\ u = stream[p].unit /\ t = Ts(a) /\ Undisturbed(u)' /\ Unit(u) = a..b
          /\ Ts(a)' = t /\ stream[a].unit' = u
          /\ \A J, g : Gathered(a, b, J, g)' <=> Gathered(a, b, J, g)
        BY <1>1, <1>4, <1>9, <2>0, SplitFacts, Frozen
    <2>2. /\ Received(u)' = Received(u) \cup {p} /\ Returns(u)' = Returns(u)
        BY <1>1, <1>7, <2>1, ReceivedGrows, ReturnsGrow
    <2>3. Clean(a)' => Clean(a)
        BY <1>1, <1>5, <2>0, <2>1, <2>2 DEF Clean
    <2>4. Clean(a) => Received(u) = {} /\ Returns(u) = {}
        BY <1>5, <1>9, <2>0, <2>1, NotReturned
    <2>5. Returned(a, b)'
        BY <1>5, <2>0, <2>1, <2>2, <2>3, <2>4 DEF Returned
    <2>6. ASSUME format = "GENERIC" => p = a
          PROVE  Gathered(a, b, {p}, f)
        <3>1. s = (IF p = a THEN Seq16(a) ELSE NoSeq) /\ e = (IF p = b THEN Seq16(b) ELSE NoSeq)
            BY <1>2, <1>9, <2>6
        <3>2. Cardinality({p}) = 1
            BY FS_Singleton
        <3>3. p = a => At(Seq16(p), p) = Placed(a, {a})
            <4>1. a + (Seq16(a) - Seq16(a)) = a /\ Off(a, a) = Seq16(a)
                BY <1>1, StreamFacts, NumbersAreSmall DEF Off
            <4> QED
                BY <4>1 DEF At, Placed
        <3>4. {p} \ {p} = {}
            OBVIOUS
        <3> QED
            BY <1>6, <3>1, <3>2, <3>3, <3>4 DEF Gathered
    <2>7. format \in H26x \/ Returns(u) = {} => Clean(a)
        BY <1>5, <2>0, <2>1 DEF Clean, H26x
    <2>8. Collects(a, b)' <=>
            ((format = "GENERIC" => p = a) =>
               \E J \in SUBSET Received(u)' :
                  /\ Gathered(a, b, J, f)
                  /\ format \in H26x \/ Returns(u)' = {} => J = Received(u)')
        BY <1>1, <1>5, <1>6, <2>0, <2>1 DEF Collects
    <2>9. Collects(a, b)'
        <3>1. ASSUME format = "GENERIC" => p = a
              PROVE  \E J \in SUBSET Received(u)' :
                        /\ Gathered(a, b, J, f)
                        /\ format \in H26x \/ Returns(u)' = {} => J = Received(u)'
            <4>1. {p} \in SUBSET Received(u)' /\ Gathered(a, b, {p}, f)
                BY <2>2, <2>6, <3>1
            <4>2. format \in H26x \/ Returns(u)' = {} => {p} = Received(u)'
                BY <2>2, <2>4, <2>7
            <4> QED
                BY <4>1, <4>2
        <3> QED
            BY <2>8, <3>1
    <2> QED
        BY <2>5, <2>9
<1>10. ~InSplit(p) => 0 = stream[p].count
    BY <1>5
<1>11. \A i \in Len(returned) + 1..Len(returned) + 0 : FALSE
    BY <1>1 DEF TypeInv
<1> QED
    BY <1>7, <1>8, <1>9, <1>10, <1>11, OnlyItsUnit

LEMMA GivenUpStep ==
    ASSUME ReassemblyInv, NEW p \in Packets, Arrives(p), Refuses(p) \/ Drops(p)
    PROVE  ReassemblyInv'
<1>1. UNCHANGED <<format, stream, first_seq>> /\ Fixed /\ TypeInv /\ FramesInv
    BY DEF Arrives, TypeInv, Given, ReassemblyInv
<1>2. PICK t : t = Ts(p)
    OBVIOUS
<1>3. /\ InSplit(p) /\ t \in dropped' /\ t \notin DOMAIN frames' /\ returned' = returned
      /\ \A v : v # t => (v \in DOMAIN frames' <=> v \in DOMAIN frames)
                         /\ (v \in DOMAIN frames => frames'[v] = frames[v])
                         /\ (v \in dropped' <=> v \in dropped)
    BY <1>2 DEF Refuses, Drops, Without
<1>4. OnlyAt(p) /\ Grows(p, 0) /\ returned' \in Seq(Record)
    BY <1>1, <1>2, <1>3, Unchanged DEF OnlyAt
<1>5. FramesInv'
    BY <1>1, FramesKept DEF Outcome
<1>6. ASSUME NEW a \in Packets, NEW b \in Packets, p \in a..b, Split(format, stream, a, b)
      PROVE  Collects(a, b)' /\ Returned(a, b)'
    <2>1. t = Ts(a) /\ Ts(a)' = t
        BY <1>1, <1>2, <1>6, SplitFacts, Frozen
    <2> QED
        BY <1>3, <2>1 DEF Collects, Returned, Clean
<1>7. \A i \in Len(returned) + 1..Len(returned) + 0 : FALSE
    BY <1>1 DEF TypeInv
<1> QED
    BY <1>3, <1>4, <1>5, <1>6, <1>7, OnlyItsUnit

\* What an entry has collected before and after one more packet of its unit.
LEMMA CollectsMore ==
    ASSUME ReassemblyInv, NEW p \in Packets, Arrives(p),
           NEW a \in Packets, NEW b \in Packets, Split(format, stream, a, b), p \in a..b,
           Undisturbed(stream[a].unit)', Ts(a) \in DOMAIN frames,
           format = "GENERIC" => frames[Ts(a)].first = a
    PROVE  \E J \in SUBSET (a..b) :
              /\ J \in SUBSET Received(stream[a].unit)'
              /\ Gathered(a, b, J, Insertion(frames[Ts(a)], p))
              /\ format \in H26x \/ Returns(stream[a].unit) = {} => J = Received(stream[a].unit)'
<1>1. UNCHANGED <<format, stream, first_seq>> /\ Fixed /\ TypeInv /\ FramesInv
    BY DEF Arrives, TypeInv, Given, ReassemblyInv
<1>2. PICK u, f : u = stream[a].unit /\ f = frames[Ts(a)]
    OBVIOUS
<1>3. /\ u = stream[p].unit /\ Undisturbed(u)' /\ Unit(u) = a..b /\ stream[a].unit' = u
      /\ format \in H26x \cup {"GENERIC"} /\ Received(u) \subseteq Unit(u)
    BY <1>1, <1>2, SplitFacts DEF Received
<1>4. Received(u)' = Received(u) \cup {p} /\ p \in Unit(u) \ Received(u) /\ Undisturbed(u)
    BY <1>1, <1>3, ReceivedGrows
<1>5. Collects(a, b)
    BY <1>2, <1>4 DEF ReassemblyInv, SplitInv
<1>6. PICK J \in SUBSET Received(u) :
         /\ Gathered(a, b, J, f)
         /\ format \in H26x \/ Returns(u) = {} => J = Received(u)
    BY <1>2, <1>5 DEF Collects
<1>7. J \in SUBSET (a..b) /\ p \in (a..b) \ J /\ J \cup {p} \in SUBSET (a..b) /\ IsFrame(f)
    BY <1>1, <1>2, <1>3, <1>4, <1>6 DEF FramesInv
<1>8. Gathered(a, b, J \cup {p}, Insertion(f, p))
    <2>1. CASE format \in H26x
        BY <1>1, <1>6, <1>7, <2>1, GatheredH26x DEF Insertion, H26x
    <2>2. CASE format = "GENERIC"
        BY <1>1, <1>2, <1>6, <1>7, <2>2, GatheredGeneric DEF Insertion
    <2> QED
        BY <1>3, <2>1, <2>2
<1>9. /\ J \cup {p} \in SUBSET Received(u)'
      /\ format \in H26x \/ Returns(u) = {} => J \cup {p} = Received(u)'
    BY <1>4, <1>6
<1> QED
    BY <1>2, <1>3, <1>7, <1>8, <1>9

LEMMA StoresStep ==
    ASSUME ReassemblyInv, NEW p \in Packets, Arrives(p), Stores(p)
    PROVE  ReassemblyInv'
<1>1. UNCHANGED <<format, stream, first_seq>> /\ Fixed /\ TypeInv /\ FramesInv
    BY DEF Arrives, TypeInv, Given, ReassemblyInv
<1>2. PICK t, f, g : t = Ts(p) /\ f = frames[t] /\ g = Insertion(frames[t], p)
    OBVIOUS
<1>3. /\ InSplit(p) /\ t \in DOMAIN frames /\ t \in DOMAIN frames' /\ frames'[t] = g
      /\ ~Complete(g) /\ dropped' = dropped /\ returned' = returned
      /\ \A v : v # t => (v \in DOMAIN frames' <=> v \in DOMAIN frames)
                         /\ (v \in DOMAIN frames => frames'[v] = frames[v])
    BY <1>2 DEF Stores
<1>4. OnlyAt(p) /\ Grows(p, 0) /\ returned' \in Seq(Record)
    BY <1>1, <1>2, <1>3, Unchanged DEF OnlyAt
<1>5. IsFrame(g) /\ Holds(t, g) /\ g.first = f.first
    BY <1>1, <1>2, <1>3, InsertionHolds
<1>6. FramesInv'
    BY <1>1, FramesKept DEF Outcome
<1>7. ASSUME NEW a \in Packets, NEW b \in Packets, p \in a..b, Split(format, stream, a, b),
             Undisturbed(stream[a].unit)'
      PROVE  Collects(a, b)' /\ Returned(a, b)'
    <2>0. PICK u : u = stream[a].unit
        OBVIOUS
    <2>1. /\ u = stream[p].unit /\ t = Ts(a)
          /\ Ts(a)' = t /\ stream[a].unit' = u
          /\ \A J, h : Gathered(a, b, J, h)' <=> Gathered(a, b, J, h)
        BY <1>1, <1>2, <1>7, <2>0, SplitFacts, Frozen
    <2>2. Returns(u)' = Returns(u)
        BY <1>1, <1>4, <2>1, ReturnsGrow
    <2>3. Clean(a)' => Clean(a)
        BY <1>1, <1>2, <1>3, <1>5, <2>0, <2>1, <2>2 DEF Clean
    <2>4. Clean(a) => Returns(u) = {}
        BY <1>7, <2>0, NotReturned
    <2>5. Returned(a, b)'
        BY <1>3, <2>0, <2>1, <2>2, <2>3, <2>4 DEF Returned
    <2>6. ASSUME format = "GENERIC" => g.first = a
          PROVE  \E J \in SUBSET Received(u)' :
                    /\ Gathered(a, b, J, g)
                    /\ format \in H26x \/ Returns(u)' = {} => J = Received(u)'
        <3>1. Ts(a) \in DOMAIN frames /\ (format = "GENERIC" => frames[Ts(a)].first = a)
            BY <1>2, <1>3, <1>5, <2>1, <2>6
        <3>2. \E J \in SUBSET (a..b) :
                 /\ J \in SUBSET Received(stream[a].unit)'
                 /\ Gathered(a, b, J, Insertion(frames[Ts(a)], p))
                 /\ format \in H26x \/ Returns(stream[a].unit) = {} => J = Received(stream[a].unit)'
            BY <1>7, <3>1, CollectsMore
        <3> QED
            BY <1>1, <1>2, <2>0, <2>1, <2>2, <3>2
    <2>7. Collects(a, b)' <=>
            ((format = "GENERIC" => g.first = a) =>
               \E J \in SUBSET Received(u)' :
                  /\ Gathered(a, b, J, g)
                  /\ format \in H26x \/ Returns(u)' = {} => J = Received(u)')
        BY <1>1, <1>3, <2>0, <2>1 DEF Collects
    <2> QED
        BY <2>5, <2>6, <2>7
<1>8. ~InSplit(p) => 0 = stream[p].count
    BY <1>3
<1>9. \A i \in Len(returned) + 1..Len(returned) + 0 : FALSE
    BY <1>1 DEF TypeInv
<1> QED
    BY <1>4, <1>6, <1>7, <1>8, <1>9, OnlyItsUnit

LEMMA CompletesStep ==
    ASSUME ReassemblyInv, NEW p \in Packets, Arrives(p), Completes(p)
    PROVE  ReassemblyInv'
<1>1. UNCHANGED <<format, stream, first_seq>> /\ Fixed /\ TypeInv /\ FramesInv
    BY DEF Arrives, TypeInv, Given, ReassemblyInv
<1>2. PICK t, f, g : t = Ts(p) /\ f = frames[t] /\ g = Insertion(frames[t], p)
    OBVIOUS
<1>3. PICK r : r = [parts |-> InOrder(g.fragments), piece |-> 1, size |-> g.pkts_received,
                    first |-> g.first]
    OBVIOUS
<1>4. /\ InSplit(p) /\ t \in DOMAIN frames /\ t \notin DOMAIN frames'
      /\ Complete(g) /\ dropped' = dropped /\ returned' = Append(returned, r)
      /\ \A v : v # t => (v \in DOMAIN frames' <=> v \in DOMAIN frames)
                         /\ (v \in DOMAIN frames => frames'[v] = frames[v])
    BY <1>2, <1>3 DEF Completes, Without
<1>5. IsFrame(g) /\ Holds(t, g) /\ g.first = f.first
    BY <1>1, <1>2, <1>4, InsertionHolds
<1>6. /\ r \in Record /\ r.parts[1] \in Of(t) /\ r.first = f.first
      /\ \A a, b \in Packets : \A J \in SUBSET (a..b) :
             /\ Split(format, stream, a, b) /\ Ts(a) = t
             /\ Gathered(a, b, J, g) /\ Complete(g)
             /\ Sheltered(stream[a].unit, g.first)
             => Intact(r)
    BY <1>1, <1>3, <1>5, CompletedUnit
<1>7. UnitOf(r) = stream[p].unit
    <2>1. PICK a \in Packets, b \in Packets : p \in a..b /\ Split(format, stream, a, b)
        BY <1>4 DEF InSplit
    <2>2. r.parts[1] \in a..b /\ stream[p].unit = stream[a].unit
        BY <1>1, <1>2, <1>6, <2>1, SplitFacts
    <2> QED
        BY <1>1, <2>1, <2>2, SplitFacts DEF UnitOf
<1>8. /\ OnlyAt(p) /\ Grows(p, 1) /\ returned' \in Seq(Record)
      /\ Len(returned) \in Nat /\ returned'[Len(returned) + 1] = r
      /\ \A i \in Len(returned) + 1..Len(returned) + 1 : returned'[i] = r
    <2>1. OnlyAt(p)
        BY <1>2, <1>4 DEF OnlyAt
    <2>2. returned \in Seq(Record) /\ Len(returned) \in Nat
        BY <1>1 DEF TypeInv
    <2>3. /\ returned' \in Seq(Record) /\ Len(returned') = Len(returned) + 1
          /\ \A i \in 1..Len(returned) : returned'[i] = returned[i]
          /\ returned'[Len(returned) + 1] = r
        <3> HIDE DEF Record
        <3> QED
            BY <1>4, <1>6, <2>2
    <2>4. \A i \in Len(returned) + 1..Len(returned) + 1 : returned'[i] = r
        BY <2>2, <2>3
    <2> QED
        BY <1>7, <2>1, <2>2, <2>3, <2>4 DEF Grows
<1>9. FramesInv'
    BY <1>1, FramesKept DEF Outcome
<1>10. ASSUME NEW a \in Packets, NEW b \in Packets, p \in a..b, Split(format, stream, a, b),
              Undisturbed(stream[a].unit)'
       PROVE  /\ Collects(a, b)' /\ Returned(a, b)'
              /\ Sheltered(stream[a].unit, r.first) => Intact(r)
    <2>0. PICK u : u = stream[a].unit
        OBVIOUS
    <2>1. /\ u = stream[p].unit /\ t = Ts(a) /\ a \in Nat /\ b \in Nat /\ a < b
          /\ Ts(a)' = t /\ stream[a].unit' = u /\ Received(u)' \subseteq a..b
        <3>1. /\ u = stream[p].unit /\ t = Ts(a) /\ a \in Nat /\ b \in Nat /\ a < b
              /\ Ts(a)' = t /\ stream[a].unit' = u /\ Unit(u) = a..b
            BY <1>1, <1>2, <1>10, <2>0, SplitFacts, Frozen
        <3>2. Unit(u)' = Unit(u)
            BY <1>1, Frozen
        <3>3. Received(u)' \subseteq Unit(u)'
            BY DEF Received
        <3> QED
            BY <3>1, <3>2, <3>3
    <2>2. ASSUME format = "GENERIC" => f.first = a
          PROVE  \E J \in SUBSET (a..b) :
                    /\ J \in SUBSET Received(u)'
                    /\ Gathered(a, b, J, g)
                    /\ format \in H26x \/ Returns(u) = {} => J = Received(u)'
        <3>1. Ts(a) \in DOMAIN frames /\ (format = "GENERIC" => frames[Ts(a)].first = a)
            BY <1>2, <1>4, <2>1, <2>2
        <3>2. \E J \in SUBSET (a..b) :
                 /\ J \in SUBSET Received(stream[a].unit)'
                 /\ Gathered(a, b, J, Insertion(frames[Ts(a)], p))
                 /\ format \in H26x \/ Returns(stream[a].unit) = {} => J = Received(stream[a].unit)'
            BY <1>10, <3>1, CollectsMore
        <3> QED
            BY <1>1, <1>2, <2>0, <2>1, <3>2
    <2>3. Sheltered(stream[a].unit, r.first) => Intact(r)
        <3>1. SUFFICES ASSUME Sheltered(stream[a].unit, f.first) PROVE Intact(r)
            BY <1>6
        <3>2. f.first \in a..b
            BY <1>1, <1>2, <1>4, <1>10, <2>1, SplitFacts DEF FramesInv, Holds
        <3>3. format = "GENERIC" => f.first = a
            <4>1. a \in a..b
                BY <2>1
            <4> QED
                BY <1>1, <1>10, <3>1, <3>2, <4>1, ShelteredPlaces
        <3>4. PICK J \in SUBSET (a..b) : Gathered(a, b, J, g)
            BY <2>2, <3>3
        <3> QED
            BY <1>4, <1>5, <1>6, <1>10, <2>1, <3>1, <3>4
    <2>4. Collects(a, b)'
        BY <1>4, <2>1 DEF Collects
    <2>5. /\ \A i \in Returns(u) : i \in Returns(u)' /\ returned'[i] = returned[i]
          /\ Len(returned) + 1 \in Returns(u)'
          /\ Cardinality(Returns(u)') = Cardinality(Returns(u)) + 1
        <3>1. \A i \in Returns(u) : i \in Returns(u)' /\ returned'[i] = returned[i]
            BY <1>1, <1>8, ReturnsGrow
        <3>2. Cardinality(Returns(u)') = Cardinality(Returns(u)) + 1
            BY <1>1, <1>8, <2>1, ReturnsGrow
        <3>3. Len(returned) + 1 \in Returns(u)'
            <4>1. UnitOf(r)' = UnitOf(r) /\ UnitOf(r) = u
                BY <1>1, <1>7, <2>1, Frozen
            <4>2. Len(returned) + 1 \in 1..Len(returned')
                BY <1>8 DEF Grows
            <4> QED
                BY <1>8, <4>1, <4>2 DEF Returns
        <3> QED
            BY <3>1, <3>2, <3>3
    <2>6. Clean(a)' => Clean(a) /\ (format = "GENERIC" => f.first = a)
        <3>1. SUFFICES ASSUME Clean(a)' PROVE Clean(a) /\ (format = "GENERIC" => f.first = a)
            OBVIOUS
        <3>2. /\ t \notin dropped'
              /\ format = "GENERIC" => \A i \in Returns(u)' : returned'[i].first = a
            BY <1>1, <2>0, <2>1, <3>1 DEF Clean
        <3>3. /\ t \notin dropped
              /\ format = "GENERIC" => f.first = a /\ \A i \in Returns(u) : returned[i].first = a
            BY <1>4, <1>6, <1>8, <2>5, <3>2
        <3> QED
            BY <1>2, <2>0, <2>1, <3>3 DEF Clean
    <2>7. Clean(a)' => Received(u)' = a..b /\ Cardinality(Returns(u)') = 1
        <3>1. SUFFICES ASSUME Clean(a)'
                       PROVE  Received(u)' = a..b /\ Cardinality(Returns(u)') = 1
            OBVIOUS
        <3>2. Returns(u) = {}
            BY <1>10, <2>0, <2>6, <3>1, NotReturned
        <3>3. PICK J \in SUBSET (a..b) : Gathered(a, b, J, g) /\ J = Received(u)'
            BY <2>2, <2>6, <3>1, <3>2
        <3>4. J = a..b
            BY <1>1, <1>4, <1>10, <3>3, CompleteIsAll
        <3>5. Cardinality(Returns(u)) = 0
            BY <3>2, FS_EmptySet
        <3> QED
            BY <2>5, <3>3, <3>4, <3>5
    <2>8. Returned(a, b)'
        BY <1>4, <2>0, <2>1, <2>7 DEF Returned
    <2> QED
        BY <2>3, <2>4, <2>8
<1>11. ~InSplit(p) => 1 = stream[p].count
    BY <1>4
<1>12. ASSUME NEW i \in Len(returned) + 1..Len(returned) + 1, Undisturbed(stream[p].unit)',
              Sheltered(stream[p].unit, returned'[i].first)
       PROVE  Intact(returned'[i])
    <2>1. PICK a \in Packets, b \in Packets : p \in a..b /\ Split(format, stream, a, b)
        BY <1>4 DEF InSplit
    <2>2. stream[p].unit = stream[a].unit /\ stream[p].unit' = stream[a].unit'
        BY <1>1, <2>1, SplitFacts
    <2>3. Undisturbed(stream[a].unit)'
        BY <1>12, <2>2
    <2>4. Sheltered(stream[a].unit, r.first)
        BY <1>8, <1>12, <2>2
    <2> QED
        BY <1>8, <1>10, <2>1, <2>3, <2>4
<1> QED
    BY <1>8, <1>9, <1>10, <1>11, <1>12, OnlyItsUnit

-----------------------------------------------------------------------------
(***************************************************************************)
(* The handlers' ways are those.                                           *)
(***************************************************************************)
LEMMA Returning ==
    ASSUME TypeInv, NEW p \in Packets, NEW n \in Nat,
           returned' = returned \o [k \in 1..n |-> [parts |-> <<p>>, piece |-> k, size |-> 1, first |-> p]]
    PROVE  /\ Grows(p, n) /\ returned' \in Seq(Record)
           /\ \A i \in Len(returned) + 1..Len(returned) + n :
                 returned'[i].first = p /\ returned'[i].parts = <<p>> /\ returned'[i].size = 1
<1> DEFINE R == Record
           new == [k \in 1..n |-> [parts |-> <<p>>, piece |-> k, size |-> 1, first |-> p]]
<1>1. returned \in Seq(R) /\ Len(returned) \in Nat
    BY DEF TypeInv
<1>2. /\ \A k \in 1..n : new[k].first = p /\ new[k].parts = <<p>> /\ new[k].size = 1
      /\ \A k \in 1..n : new[k] \in R
    BY DEF Record
<1>3. new \in Seq(R) /\ Len(new) = n
    <2> HIDE DEF R
    <2>1. new \in [1..n -> R]
        BY <1>2
    <2> QED
        BY <2>1
<1>4. returned' = returned \o new
    OBVIOUS
<1> HIDE DEF R, new
<1>5. /\ returned' \in Seq(R) /\ Len(returned') = Len(returned) + n
      /\ \A i \in 1..Len(returned) : returned'[i] = returned[i]
      /\ \A i \in Len(returned) + 1..Len(returned) + n : returned'[i] = new[i - Len(returned)]
    <2>1. \A x, y \in Seq(R) :
             /\ x \o y \in Seq(R) /\ Len(x \o y) = Len(x) + Len(y)
             /\ \A i \in 1..Len(x) : (x \o y)[i] = x[i]
             /\ \A i \in Len(x) + 1..Len(x) + Len(y) : (x \o y)[i] = y[i - Len(x)]
        OBVIOUS
    <2>2. /\ returned \o new \in Seq(R) /\ Len(returned \o new) = Len(returned) + Len(new)
          /\ \A i \in 1..Len(returned) : (returned \o new)[i] = returned[i]
          /\ \A i \in Len(returned) + 1..Len(returned) + Len(new) :
                (returned \o new)[i] = new[i - Len(returned)]
        <3> HIDE <1>4
        <3> QED
            BY <1>1, <1>3, <2>1, Zenon
    <2> QED
        BY <1>3, <1>4, <2>2, Zenon
<1>6. \A i \in Len(returned) + 1..Len(returned) + n :
         returned'[i].first = p /\ returned'[i].parts = <<p>> /\ returned'[i].size = 1
    <2> SUFFICES ASSUME NEW i \in Len(returned) + 1..Len(returned) + n
                 PROVE  returned'[i].first = p /\ returned'[i].parts = <<p>> /\ returned'[i].size = 1
        OBVIOUS
    <2>1. PICK k : k = i - Len(returned)
        OBVIOUS
    <2>2. returned'[i] = new[k]
        BY <1>5, <2>1
    <2>3. k \in 1..n
        BY <1>1, <2>1
    <2> QED
        BY <1>2, <2>2, <2>3
<1>7. Grows(p, n)
    BY <1>5, <1>6 DEF Grows, UnitOf
<1> QED
    BY <1>5, <1>6, <1>7 DEF R

LEMMA ReturnsOne ==
    ASSUME TypeInv, NEW p \in Packets, ReturnPacket(p),
           InSplit(p) => format = "GENERIC" /\ ~stream[p].marker /\ Ts(p) \notin DOMAIN frames,
           ~InSplit(p) => stream[p].count = 1
    PROVE  HandsOut(p, 1)
<1>1. PICK n \in Nat : n = 1
    OBVIOUS
<1>2. returned' = Append(returned, [parts |-> <<p>>, piece |-> 1, size |-> 1, first |-> p])
    BY DEF ReturnPacket
<1>3. returned' = returned \o [k \in 1..n |-> [parts |-> <<p>>, piece |-> k, size |-> 1, first |-> p]]
    <2> DEFINE R == Record
               one == [parts |-> <<p>>, piece |-> 1, size |-> 1, first |-> p]
               new == [k \in 1..n |-> [parts |-> <<p>>, piece |-> k, size |-> 1, first |-> p]]
    <2>1. returned \in Seq(R) /\ one \in R
        BY DEF TypeInv, Record
    <2>2. new = <<one>>
        BY <1>1
    <2> HIDE DEF R, one, new
    <2>3. Append(returned, one) = returned \o <<one>>
        BY <2>1
    <2> QED
        BY <1>2, <2>2, <2>3 DEF one, new
<1>4. /\ Grows(p, n) /\ returned' \in Seq(Record)
      /\ \A i \in Len(returned) + 1..Len(returned) + n :
            returned'[i].first = p /\ returned'[i].parts = <<p>> /\ returned'[i].size = 1
    BY <1>3, Returning
<1>5. HandsOut(p, n)
    BY <1>1, <1>4 DEF HandsOut, ReturnPacket
<1> QED
    BY <1>1, <1>5

LEMMA ReturnsPieces ==
    ASSUME TypeInv, NEW p \in Packets, Disaggregate(p), ~InSplit(p)
    PROVE  HandsOut(p, stream[p].count)
<1>1. PICK n \in Nat : n = stream[p].count
    BY StreamFacts DEF TypeInv, Given
<1>2. /\ Grows(p, n) /\ returned' \in Seq(Record)
      /\ \A i \in Len(returned) + 1..Len(returned) + n :
            returned'[i].first = p /\ returned'[i].parts = <<p>> /\ returned'[i].size = 1
    BY <1>1, Returning DEF Disaggregate
<1>3. HandsOut(p, n)
    BY <1>1, <1>2 DEF HandsOut, Disaggregate
<1> QED
    BY <1>1, <1>3

LEMMA ReturnsNone ==
    ASSUME TypeInv, NEW p \in Packets, ~InSplit(p), stream[p].count = 0,
           UNCHANGED <<frames, dropped, returned>>
    PROVE  HandsOut(p, 0)
<1>1. Grows(p, 0) /\ returned' \in Seq(Record)
    BY Unchanged
<1>2. \A i \in Len(returned) + 1..Len(returned) + 0 : FALSE
    BY DEF TypeInv
<1> QED
    BY <1>1, <1>2 DEF HandsOut

LEMMA HandlerH26x ==
    ASSUME TypeInv, NEW p \in Packets, format \in H26x,
           packet_handler(p) \/ (format = "H264" /\ handle_stap_a(p)) \/ (format = "H265" /\ handle_ap(p))
    PROVE  Arrives(p) /\ Outcome(p)
<1>1. Given /\ format # "GENERIC" /\ format # "UNFRAGMENTED"
    BY DEF TypeInv, Given, H26x
<1>2. /\ Fragmented(p) <=> InSplit(p)
      /\ \A a, b \in Packets : Split(format, stream, a, b) /\ p \in a..b =>
            (get_frag(p) = "START" <=> p = a) /\ (get_frag(p) = "END" <=> p = b)
    BY <1>1, TypesOfFragments
<1>3. /\ InSplit(p) \/ OnePacket(format, stream[p])
      /\ stream[p].kind \in {"SINGLE", "AGGR", "FRAG"} /\ stream[p].s \in BOOLEAN /\ stream[p].e \in BOOLEAN
      /\ stream[p].count \in Nat
    <2>1. stream[p] \in Packet /\ stream[p].count \in 0..3
        BY <1>1, StreamFacts
    <2>2. /\ stream[p].kind \in {"SINGLE", "AGGR", "FRAG"}
          /\ stream[p].s \in BOOLEAN /\ stream[p].e \in BOOLEAN
        BY <2>1 DEF Packet
    <2>3. InSplit(p) \/ OnePacket(format, stream[p])
        BY <1>1, AloneOrSplit
    <2> QED
        BY <2>1, <2>2, <2>3
<1>4. /\ get_frag(p) \in {"AGGR", "SINGLE", "INVALID"} => ~InSplit(p) /\ OnePacket(format, stream[p])
      /\ get_frag(p) = "SINGLE" => stream[p].count = 1
      /\ get_frag(p) = "INVALID" => stream[p].count = 0
    <2>1. get_frag(p) \in {"AGGR", "SINGLE", "INVALID"} => ~InSplit(p) /\ OnePacket(format, stream[p])
        BY <1>2, <1>3 DEF Fragmented
    <2>2. get_frag(p) = IF stream[p].kind = "FRAG" THEN FragmentType(p)
                        ELSE IF format = "H266" THEN "SINGLE" ELSE stream[p].kind
        BY DEF get_frag, get_frag_264, get_frag_265, get_frag_266, H26x
    <2>3. /\ FragmentType(p) \in {"INVALID", "START", "END", "MIDDLE"}
          /\ FragmentType(p) = "INVALID" => stream[p].s /\ stream[p].e
        BY <1>3 DEF FragmentType
    <2>4. get_frag(p) = "SINGLE" => stream[p].count = 1
        BY <1>3, <2>1, <2>2, <2>3 DEF OnePacket
    <2>5. get_frag(p) = "INVALID" => stream[p].count = 0
        BY <1>3, <2>1, <2>2, <2>3 DEF OnePacket
    <2> QED
        BY <2>1, <2>4, <2>5
<1>5. CASE handle_stap_a(p) \/ handle_ap(p)
    <2>1. Arrives(p) /\ Disaggregate(p) /\ get_frag(p) = "AGGR"
        BY <1>5 DEF handle_stap_a, handle_ap
    <2> QED
        BY <1>3, <1>4, <2>1, ReturnsPieces DEF Outcome
<1>6. CASE packet_handler_single(p)
    <2>1. Arrives(p) /\ ReturnPacket(p) /\ get_frag(p) = "SINGLE"
        BY <1>6 DEF packet_handler_single
    <2> QED
        BY <1>4, <2>1, ReturnsOne DEF Outcome
<1>7. CASE packet_handler_invalid(p)
    <2>1. Arrives(p) /\ UNCHANGED <<frames, dropped, returned>> /\ get_frag(p) = "INVALID"
        BY <1>7 DEF packet_handler_invalid
    <2> QED
        BY <1>4, <2>1, ReturnsNone DEF Outcome
<1>8. CASE packet_handler_new(p)
    <2> DEFINE s == IF get_frag(p) = "START" THEN Seq16(p) ELSE NoSeq
               e == IF get_frag(p) = "END" THEN Seq16(p) ELSE NoSeq
    <2>1. s \in 0..SEQ_MOD /\ e \in 0..SEQ_MOD /\ (s = NoSeq \/ e = NoSeq)
        BY <1>1, NumbersAreSmall
    <2>2. \A a, b \in Packets : Split(format, stream, a, b) /\ p \in a..b =>
             /\ s = IF p = a THEN Seq16(a) ELSE NoSeq
             /\ e = IF p = b THEN Seq16(b) ELSE NoSeq
        BY <1>2
    <2>3. /\ Arrives(p) /\ InSplit(p) /\ Ts(p) \notin DOMAIN frames \cup dropped
          /\ frames' = With(frames, At(Ts(p),
                [s_seq |-> s, e_seq |-> e, pkts_received |-> 1, fragments |-> At(Seq16(p), p),
                 temporary |-> {}, late |-> FALSE, first |-> p]))
          /\ UNCHANGED <<dropped, returned>>
        BY <1>2, <1>8 DEF packet_handler_new, NewFrame
    <2> HIDE DEF s, e
    <2>4. Begins(p)
        BY <2>1, <2>2, <2>3 DEF Begins
    <2> QED
        BY <2>3, <2>4 DEF Outcome
<1>9. CASE packet_handler_refuses(p)
    BY <1>2, <1>9 DEF packet_handler_refuses, Refuses, Outcome
<1>10. CASE packet_handler_completes(p)
    <2>1. Arrives(p) /\ Completes(p)
        BY <1>1, <1>2, <1>10 DEF packet_handler_completes, Completes, Insertion
    <2> QED
        BY <2>1 DEF Outcome
<1>11. CASE packet_handler_drops(p)
    <2>1. Arrives(p) /\ Drops(p)
        BY <1>1, <1>2, <1>11 DEF packet_handler_drops, Drops, Insertion, H26x
    <2> QED
        BY <2>1 DEF Outcome
<1>12. CASE packet_handler_stores(p)
    <2>1. Arrives(p) /\ Stores(p)
        BY <1>1, <1>2, <1>12 DEF packet_handler_stores, Stores, Insertion
    <2> QED
        BY <2>1 DEF Outcome
<1> QED
    BY <1>5, <1>6, <1>7, <1>8, <1>9, <1>10, <1>11, <1>12 DEF packet_handler

LEMMA HandlerGeneric ==
    ASSUME TypeInv, FramesInv, OneSplitUnitPerTimestamp, NEW p \in Packets, format = "GENERIC" => dropped = {},
           \/ packet_handler_generic_whole(p) \/ packet_handler_generic_unmarked(p)
           \/ packet_handler_generic_new(p) \/ packet_handler_generic(p)
    PROVE  Arrives(p) /\ Outcome(p)
<1>1. Fixed /\ \A a, b \in Packets : Split("UNFRAGMENTED", stream, a, b) <=> FALSE
    BY DEF TypeInv, Given, Split
<1>2. /\ format \notin H26x
      /\ InSplit(p) \/ (OnePacket(format, stream[p]) /\ ~InSplit(p))
    <2>1. format \notin H26x
        BY DEF H26x, packet_handler_generic_whole, packet_handler_generic_unmarked,
               packet_handler_generic_new, packet_handler_generic
    <2> QED
        BY <1>1, <2>1, AloneOrSplit
<1>3. ~InSplit(p) => stream[p].count = 1 /\ (format = "GENERIC" => ~stream[p].marker)
    BY <1>2 DEF OnePacket
<1>4. CASE packet_handler_generic_whole(p)
    <2>1. Arrives(p) /\ ReturnPacket(p) /\ ~InSplit(p)
        BY <1>1, <1>4 DEF packet_handler_generic_whole, InSplit
    <2> QED
        BY <1>3, <2>1, ReturnsOne DEF Outcome
<1>5. CASE packet_handler_generic_unmarked(p)
    <2>1. /\ Arrives(p) /\ ReturnPacket(p) /\ format = "GENERIC" /\ ~stream[p].marker
          /\ Ts(p) \notin DOMAIN frames
        BY <1>5 DEF packet_handler_generic_unmarked
    <2> QED
        BY <1>3, <2>1, ReturnsOne DEF Outcome
<1>6. CASE packet_handler_generic_new(p)
    <2> DEFINE s == Seq16(p)
               e == NoSeq
    <2>1. s \in 0..SEQ_MOD /\ e \in 0..SEQ_MOD /\ (s = NoSeq \/ e = NoSeq)
        BY <1>1, NumbersAreSmall
    <2>2. \A a, b \in Packets :
             Split(format, stream, a, b) /\ p \in a..b /\ (format = "GENERIC" => p = a) =>
                /\ s = IF p = a THEN Seq16(a) ELSE NoSeq
                /\ e = IF p = b THEN Seq16(b) ELSE NoSeq
        <3>1. \A a, b \in Packets : Split(format, stream, a, b) => a # b
            BY <1>1, SplitFacts
        <3> QED
            BY <1>6, <3>1 DEF packet_handler_generic_new
    <2>3. /\ Arrives(p) /\ InSplit(p) /\ Ts(p) \notin DOMAIN frames \cup dropped
          /\ frames' = With(frames, At(Ts(p),
                [s_seq |-> s, e_seq |-> e, pkts_received |-> 1, fragments |-> At(Seq16(p), p),
                 temporary |-> {}, late |-> FALSE, first |-> p]))
          /\ UNCHANGED <<dropped, returned>>
        BY <1>2, <1>3, <1>6 DEF packet_handler_generic_new
    <2> HIDE DEF s, e
    <2>4. Begins(p)
        BY <2>1, <2>2, <2>3 DEF Begins
    <2> QED
        BY <2>3, <2>4 DEF Outcome
<1>7. CASE packet_handler_generic(p)
    <2>1. PICK t, f : t = Ts(p) /\ f = InsertedGeneric(frames[t], p)
        OBVIOUS
    <2>2. /\ Arrives(p) /\ format = "GENERIC" /\ t \in DOMAIN frames /\ dropped' = dropped
          /\ Insertion(frames[t], p) = f
          /\ IF Complete(f)
             THEN /\ returned' = Append(returned,
                         [parts |-> InOrder(f.fragments), piece |-> 1,
                          size |-> f.pkts_received, first |-> f.first])
                  /\ frames' = Without(t)
             ELSE frames' = [frames EXCEPT ![t] = f] /\ UNCHANGED returned
        BY <1>7, <2>1 DEF packet_handler_generic, Insertion
    <2>3. InSplit(p)
        <3>1. PICK q : q = frames[t].first
            OBVIOUS
        <3>2. q \in Packets /\ Ts(q) = t /\ InSplit(q)
            BY <2>2, <3>1 DEF FramesInv, Holds, Of
        <3>3. PICK a \in Packets, b \in Packets : q \in a..b /\ Split(format, stream, a, b)
            BY <3>2 DEF InSplit
        <3>4. Ts(q) = Ts(a) /\ \A r \in Packets : Ts(r) = Ts(a) => r \in a..b
            BY <1>1, <2>2, <3>3, SplitFacts
        <3>5. p \in a..b
            BY <2>1, <3>2, <3>4
        <3> QED
            BY <3>3, <3>5 DEF InSplit
    <2>4. CASE Complete(f)
        BY <2>1, <2>2, <2>3, <2>4 DEF Outcome, Completes
    <2>5. CASE ~Complete(f)
        BY <2>1, <2>2, <2>3, <2>5 DEF Outcome, Stores
    <2> QED
        BY <2>4, <2>5
<1> QED
    BY <1>4, <1>5, <1>6, <1>7

\* Only the H.26x handlers give frames up.
KeptInv == format \notin H26x => dropped = {}

\* A packet's handler is one of a format's, and the format stays.
LEMMA FormatStays ==
    ASSUME [Next]_vars
    PROVE  /\ format' = format
           /\ format \notin H26x => dropped' = dropped
<1>1. ASSUME NEW p \in Packets,
             packet_handler_264(p) \/ packet_handler_265(p) \/ packet_handler_266(p)
      PROVE  format' = format /\ format \in H26x
    <2>1. format \in H26x
        BY <1>1 DEF packet_handler_264, packet_handler_265, packet_handler_266, H26x
    <2>2. Arrives(p)
        BY <1>1 DEF packet_handler_264, packet_handler_265, packet_handler_266, packet_handler,
                    packet_handler_single, packet_handler_invalid, packet_handler_new,
                    packet_handler_refuses, packet_handler_completes, packet_handler_drops,
                    packet_handler_stores, handle_stap_a, handle_ap
    <2> QED
        BY <2>1, <2>2 DEF Arrives
<1>2. ASSUME NEW p \in Packets,
             \/ packet_handler_generic_whole(p) \/ packet_handler_generic_unmarked(p)
             \/ packet_handler_generic_new(p) \/ packet_handler_generic(p)
      PROVE  format' = format /\ dropped' = dropped
    BY <1>2 DEF packet_handler_generic_whole, packet_handler_generic_unmarked,
           packet_handler_generic_new, packet_handler_generic, ReturnPacket, Arrives
<1>3. ASSUME NEW t \in DOMAIN frames, FrameLate(t) PROVE format' = format /\ dropped' = dropped
    BY <1>3 DEF FrameLate
<1>4. UNCHANGED vars => format' = format /\ dropped' = dropped
    BY DEF vars
<1> QED
    BY <1>1, <1>2, <1>3, <1>4 DEF Next

LEMMA Kept ==
    /\ Init => KeptInv
    /\ KeptInv /\ [Next]_vars => KeptInv'
<1>1. Init => KeptInv
    BY DEF Init, KeptInv
<1>2. ASSUME KeptInv, [Next]_vars PROVE KeptInv'
    BY <1>2, FormatStays DEF KeptInv
<1> QED
    BY <1>1, <1>2

\* The clock, or nothing at all: no packet arrives, and an entry keeps what it has collected.
EntriesStay ==
    /\ UNCHANGED <<format, stream, first_seq, receipts, dropped, returned>>
    /\ DOMAIN frames' = DOMAIN frames
    /\ \A t \in DOMAIN frames :
          /\ IsFrame(frames'[t])
          /\ frames'[t].s_seq = frames[t].s_seq /\ frames'[t].e_seq = frames[t].e_seq
          /\ frames'[t].pkts_received = frames[t].pkts_received
          /\ frames'[t].fragments = frames[t].fragments
          /\ frames'[t].temporary = frames[t].temporary /\ frames'[t].first = frames[t].first

LEMMA NothingToFrames ==
    ASSUME TypeInv, FramesInv, EntriesStay
    PROVE  TypeInv' /\ FramesInv'
<1>1. UNCHANGED <<format, stream, first_seq>>
    BY DEF EntriesStay
<1>2. Packets' = Packets /\ \A t, f : Holds(t, f)' <=> Holds(t, f)
    BY <1>1, Frozen
<1>3. TypeInv'
    BY <1>1, <1>2 DEF TypeInv, Record, EntriesStay
<1>4. ASSUME NEW t \in DOMAIN frames
      PROVE  Holds(t, frames'[t]) /\ ~Complete(frames'[t])
    <2>1. Holds(t, frames[t]) /\ ~Complete(frames[t])
        BY DEF FramesInv
    <2> QED
        BY <2>1 DEF Holds, Complete, Expected, EntriesStay
<1> QED
    BY <1>1, <1>2, <1>3, <1>4 DEF FramesInv, EntriesStay

LEMMA NothingArrives ==
    ASSUME ReassemblyInv, EntriesStay
    PROVE  ReassemblyInv'
<1> USE DEF EntriesStay
<1>1. UNCHANGED <<format, stream, first_seq>> /\ TypeInv /\ FramesInv
    BY DEF ReassemblyInv
<1>2. /\ Packets' = Packets /\ \A u : Unit(u)' = Unit(u)
      /\ \A r : UnitOf(r)' = UnitOf(r) /\ (Intact(r)' <=> Intact(r))
      /\ \A u, q : Sheltered(u, q)' <=> Sheltered(u, q)
      /\ \A p : Ts(p)' = Ts(p)
      /\ \A t, f : Holds(t, f)' <=> Holds(t, f)
      /\ \A a, b, J, f : Gathered(a, b, J, f)' <=> Gathered(a, b, J, f)
    BY <1>1, Frozen
<1>3. /\ \A u : Received(u)' = Received(u) /\ Returns(u)' = Returns(u)
      /\ \A u : Undisturbed(u)' <=> Undisturbed(u)
    BY <1>1, <1>2 DEF Received, Returns, Undisturbed
<1>4. TypeInv' /\ FramesInv' /\ OneSplitUnitPerTimestamp'
    BY <1>1, NothingToFrames, Frozen DEF ReassemblyInv
<1>6. SplitInv'
    <2>1. ASSUME NEW a \in Packets, NEW b \in Packets, Split(format, stream, a, b),
                 NEW u, u = stream[a].unit, Undisturbed(u)
          PROVE  Collects(a, b)' /\ Returned(a, b)'
        <3>1. Collects(a, b) /\ Returned(a, b)
            BY <2>1 DEF ReassemblyInv, SplitInv
        <3>2. PICK t : t = Ts(a) /\ Ts(a)' = t /\ stream[a].unit' = u
            BY <1>1, <1>2, <2>1
        <3>3. \A J : t \in DOMAIN frames =>
                        (Gathered(a, b, J, frames'[t]) <=> Gathered(a, b, J, frames[t]))
            BY DEF Gathered
        <3>4. Collects(a, b)' <=>
                (t \in DOMAIN frames' /\ (format = "GENERIC" => frames'[t].first = a) =>
                   \E J \in SUBSET Received(u)' :
                      /\ Gathered(a, b, J, frames'[t])
                      /\ format \in H26x \/ Returns(u)' = {} => J = Received(u)')
            BY <1>1, <1>2, <2>1, <3>2 DEF Collects
        <3>5. Collects(a, b)'
            BY <1>3, <2>1, <3>1, <3>2, <3>3, <3>4 DEF Collects
        <3>6. Clean(a)' <=> Clean(a)
            BY <1>1, <1>3, <2>1, <3>2 DEF Clean
        <3>7. Returned(a, b)'
            BY <1>3, <2>1, <3>1, <3>2, <3>6 DEF Returned
        <3> QED
            BY <3>5, <3>7
    <2>2. \A a, b \in Packets : \A u :
             Split(format, stream, a, b) /\ u = stream[a].unit /\ Undisturbed(u)'
                => Collects(a, b)' /\ Returned(a, b)'
        BY <1>3, <2>1
    <2> QED
        BY <1>1, <1>2, <2>2 DEF SplitInv
<1>7. AloneInv'
    <2>1. AloneInv
        BY DEF ReassemblyInv
    <2>2. \A p \in Packets : \A u :
             OnePacket(format, stream[p]) /\ u = stream[p].unit /\ Unit(u) = {p} /\ receipts[p] <= 1 =>
                Cardinality(Returns(u)') = IF receipts[p] = 0 THEN 0 ELSE stream[p].count
        BY <1>3, <2>1 DEF AloneInv
    <2> QED
        BY <1>1, <1>2, <2>2 DEF AloneInv
<1>8. ReturnedIntact'
    BY <1>1, <1>2, <1>3 DEF ReassemblyInv, ReturnedIntact
<1> QED
    BY <1>4, <1>6, <1>7, <1>8 DEF ReassemblyInv

\* A packet arrives and is handled, or time passes over an entry, or nothing happens.
LEMMA WhatHappens ==
    ASSUME TypeInv, FramesInv, KeptInv, format \in H26x \/ OneSplitUnitPerTimestamp,
           [Next]_vars
    PROVE  \/ \E p \in Packets : Arrives(p) /\ Outcome(p)
           \/ \E t \in DOMAIN frames : FrameLate(t)
           \/ UNCHANGED vars
<1>1. ASSUME NEW p \in Packets,
             packet_handler_264(p) \/ packet_handler_265(p) \/ packet_handler_266(p)
      PROVE  Arrives(p) /\ Outcome(p)
    <2>1. /\ format \in H26x
          /\ packet_handler(p) \/ (format = "H264" /\ handle_stap_a(p)) \/ (format = "H265" /\ handle_ap(p))
        BY <1>1 DEF packet_handler_264, packet_handler_265, packet_handler_266, H26x
    <2> QED
        BY <2>1, HandlerH26x
<1>2. ASSUME NEW p \in Packets,
             \/ packet_handler_generic_whole(p) \/ packet_handler_generic_unmarked(p)
             \/ packet_handler_generic_new(p) \/ packet_handler_generic(p)
      PROVE  Arrives(p) /\ Outcome(p)
    <2>1. format \notin H26x
        BY <1>2 DEF H26x, packet_handler_generic_whole, packet_handler_generic_unmarked,
                    packet_handler_generic_new, packet_handler_generic
    <2> QED
        BY <1>2, <2>1, HandlerGeneric DEF KeptInv
<1> QED
    BY <1>1, <1>2 DEF Next

LEMMA TimeKeepsEntries ==
    ASSUME FramesInv, (\E t \in DOMAIN frames : FrameLate(t)) \/ UNCHANGED vars
    PROVE  EntriesStay
<1>1. \A v \in DOMAIN frames : IsFrame(frames[v])
    BY DEF FramesInv
<1>2. ASSUME NEW t \in DOMAIN frames, FrameLate(t) PROVE EntriesStay
    <2>1. /\ UNCHANGED <<format, stream, first_seq, receipts, dropped, returned>>
          /\ DOMAIN frames' = DOMAIN frames
          /\ \A v \in DOMAIN frames : v # t => frames'[v] = frames[v]
          /\ frames'[t] = [frames[t] EXCEPT !.late = TRUE]
        BY <1>2 DEF FrameLate
    <2>2. ASSUME NEW f, NEW g, IsFrame(f), g = [f EXCEPT !.late = TRUE]
          PROVE  /\ IsFrame(g) /\ g.s_seq = f.s_seq /\ g.e_seq = f.e_seq
                 /\ g.pkts_received = f.pkts_received /\ g.fragments = f.fragments
                 /\ g.temporary = f.temporary /\ g.first = f.first
        <3>1. g = [s_seq |-> f.s_seq, e_seq |-> f.e_seq, pkts_received |-> f.pkts_received,
                   fragments |-> f.fragments, temporary |-> f.temporary, late |-> TRUE,
                   first |-> f.first]
            BY <2>2 DEF IsFrame
        <3> QED
            BY <2>2, <3>1 DEF IsFrame
    <2> QED
        BY <1>1, <2>1, <2>2 DEF EntriesStay
<1>3. UNCHANGED vars => EntriesStay
    BY <1>1 DEF vars, EntriesStay
<1> QED
    BY <1>2, <1>3

LEMMA RecordsKept ==
    ASSUME TypeInv, FramesInv, NEW p \in Packets, Outcome(p)
    PROVE  returned' \in Seq(Record)
<1>1. returned \in Seq(Record) /\ Given
    BY DEF TypeInv, Given
<1>2. ASSUME Completes(p) PROVE returned' \in Seq(Record)
    <2>1. PICK g, r : /\ g = Insertion(frames[Ts(p)], p)
                      /\ r = [parts |-> InOrder(g.fragments), piece |-> 1,
                              size |-> g.pkts_received, first |-> g.first]
        OBVIOUS
    <2>2. InSplit(p) /\ Ts(p) \in DOMAIN frames /\ returned' = Append(returned, r)
        BY <1>2, <2>1 DEF Completes
    <2>3. IsFrame(g) /\ Holds(Ts(p), g)
        BY <1>1, <2>1, <2>2, InsertionHolds
    <2>4. r \in Record
        BY <1>1, <2>1, <2>3, CompletedRecord
    <2> HIDE DEF Record
    <2> QED
        BY <1>1, <2>2, <2>4
<1> QED
    BY <1>1, <1>2 DEF Outcome, HandsOut, Begins, Refuses, Drops, Stores

LEMMA InvInit == Init /\ OneSplitUnitPerTimestamp => ReassemblyInv
<1> SUFFICES ASSUME Init, OneSplitUnitPerTimestamp PROVE ReassemblyInv
    OBVIOUS
<1>1. TypeInv
    BY DEF Init, TypeInv
<1>2. DOMAIN frames = {} /\ Len(returned) = 0
    BY DEF Init
<1>3. /\ \A u : Returns(u) = {} /\ Received(u) = {}
      /\ Cardinality({}) = 0 /\ \A p \in Packets : receipts[p] = 0
    BY <1>2, FS_EmptySet DEF Init, Returns, Received, Unit
<1>4. FramesInv
    BY <1>2 DEF FramesInv
<1>5. SplitInv
    BY <1>2, <1>3 DEF SplitInv, Collects, Returned
<1>6. AloneInv
    BY <1>3 DEF AloneInv
<1>7. ReturnedIntact
    BY <1>2 DEF ReturnedIntact
<1> QED
    BY <1>1, <1>4, <1>5, <1>6, <1>7 DEF ReassemblyInv

LEMMA InvStep ==
    ASSUME ReassemblyInv, KeptInv, [Next]_vars
    PROVE  ReassemblyInv'
<1>1. TypeInv /\ FramesInv
    BY DEF ReassemblyInv
<1>2. ASSUME NEW p \in Packets, Arrives(p), Outcome(p) PROVE ReassemblyInv'
    BY <1>2, HandsOutStep, BeginsStep, GivenUpStep, CompletesStep, StoresStep DEF Outcome
<1>3. ASSUME (\E t \in DOMAIN frames : FrameLate(t)) \/ UNCHANGED vars PROVE ReassemblyInv'
    BY <1>1, <1>3, TimeKeepsEntries, NothingArrives
<1> QED
    BY <1>1, <1>2, <1>3, WhatHappens DEF ReassemblyInv

LEMMA Invariance == Spec /\ OneSplitUnitPerTimestamp => [](ReassemblyInv /\ KeptInv)
BY InvInit, InvStep, Kept, PTL DEF Spec

\* What needs no hypothesis about the encoder: an H.26x entry holds what its timestamp says.
EntriesInv == format \in H26x => TypeInv /\ FramesInv

LEMMA EntriesInvariance == Spec => [](EntriesInv /\ KeptInv)
<1>1. Init => EntriesInv
    BY DEF Init, EntriesInv, TypeInv, FramesInv
<1>2. ASSUME EntriesInv, KeptInv, [Next]_vars PROVE EntriesInv'
    <2>1. SUFFICES ASSUME format \in H26x PROVE TypeInv' /\ FramesInv'
        BY FormatStays, <1>2 DEF EntriesInv
    <2>2. TypeInv /\ FramesInv
        BY <1>2, <2>1 DEF EntriesInv
    <2>3. ASSUME NEW p \in Packets, Arrives(p), Outcome(p) PROVE TypeInv' /\ FramesInv'
        <3>1. returned' \in Seq(Record)
            BY <2>2, <2>3, RecordsKept
        <3> QED
            BY <2>2, <2>3, <3>1, TypeKept, FramesKept
    <2>4. ASSUME (\E t \in DOMAIN frames : FrameLate(t)) \/ UNCHANGED vars
          PROVE  TypeInv' /\ FramesInv'
        BY <2>2, <2>4, TimeKeepsEntries, NothingToFrames
    <2> QED
        BY <1>2, <2>1, <2>2, <2>3, <2>4, WhatHappens
<1> QED
    BY <1>1, <1>2, Kept, PTL DEF Spec

-----------------------------------------------------------------------------
\* packet_handler() of the H.26x formats and of media.cc: if the encoder gives no two units
\* that must be split to one push_frame() (OneSplitUnitPerTimestamp), then whatever is lost,
\* doubled, overtaken or given up, a unit none of whose packets came twice is returned with
\* all its fragments in their order, as far as it is sheltered.
THEOREM ReturnedAreIntact == Spec /\ OneSplitUnitPerTimestamp => []ReturnedIntact
<1>1. ReassemblyInv /\ KeptInv => ReturnedIntact
    BY DEF ReassemblyInv
<1> QED
    BY <1>1, Invariance, PTL

LEMMA InvMeansReturned ==
    ASSUME ReassemblyInv
    PROVE  CompleteIsReturned
<1>1. Fixed /\ TypeInv /\ FramesInv
    BY DEF Given, TypeInv, ReassemblyInv
<1>2. ASSUME NEW u, \A p \in Unit(u) : receipts[p] = 1, \A p \in Unit(u) : Ts(p) \notin dropped,
             format = "GENERIC" =>
                /\ \A p \in Unit(u) : Ts(p) \in DOMAIN frames => frames[Ts(p)].first = FirstOf(u)
                /\ \A i \in Returns(u) : returned[i].first = FirstOf(u),
             NEW p \in Unit(u)
      PROVE  /\ format = "GENERIC" \/ (format \in H26x /\ Fragmented(p)) => Ts(p) \notin DOMAIN frames
             /\ Cardinality(Returns(u)) = stream[p].count
    <2>1. p \in Packets /\ stream[p].unit = u
        BY DEF Unit
    <2>2. Undisturbed(u) /\ Received(u) = Unit(u)
        BY <1>2 DEF Undisturbed, Received
    <2>3. CASE ~InSplit(p)
        <3>1. OnePacket(format, stream[p]) /\ Unit(u) = {p} /\ receipts[p] = 1
            BY <1>1, <1>2, <2>1, <2>3, AloneOrSplit
        <3>2. Cardinality(Returns(u)) = stream[p].count
            BY <2>1, <3>1 DEF ReassemblyInv, AloneInv
        <3>3. format \in H26x => ~Fragmented(p)
            BY <1>1, <2>1, <2>3, TypesOfFragments
        <3>4. ASSUME format = "GENERIC", Ts(p) \in DOMAIN frames PROVE FALSE
            <4>1. PICK q : q = frames[Ts(p)].first
                OBVIOUS
            <4>2. q \in Packets /\ Ts(q) = Ts(p) /\ InSplit(q)
                BY <1>1, <3>4, <4>1 DEF FramesInv, Holds, Of
            <4>3. PICK a \in Packets, b \in Packets : q \in a..b /\ Split(format, stream, a, b)
                BY <4>2 DEF InSplit
            <4>4. Ts(q) = Ts(a) /\ \A r \in Packets : Ts(r) = Ts(a) => r \in a..b
                BY <1>1, <3>4, <4>3, SplitFacts
            <4>5. p \in a..b
                BY <2>1, <4>2, <4>4
            <4> QED
                BY <2>3, <4>3, <4>5 DEF InSplit
        <3> QED
            BY <3>2, <3>3, <3>4
    <2>4. CASE InSplit(p)
        <3>1. PICK a \in Packets, b \in Packets : p \in a..b /\ Split(format, stream, a, b)
            BY <2>4 DEF InSplit
        <3>2. /\ stream[a].unit = u /\ Ts(a) = Ts(p) /\ Unit(u) = a..b /\ FirstOf(u) = a
              /\ a \in Unit(u) /\ stream[p].count = 1
            <4>1. stream[a].unit = u /\ Ts(a) = Ts(p)
                BY <1>1, <2>1, <3>1, SplitFacts
            <4>2. Unit(u) = a..b /\ a \in a..b
                BY <1>1, <3>1, <4>1, SplitFacts
            <4>3. FirstOf(u) = a
                BY <1>1, <3>1, <4>1, FirstPacket
            <4>4. stream[p].count = 1
                BY <3>1 DEF Split
            <4> QED
                BY <4>1, <4>2, <4>3, <4>4
        <3>3. Clean(a)
            BY <1>2, <3>2 DEF Clean
        <3>4. Collects(a, b) /\ Returned(a, b)
            BY <2>2, <3>1, <3>2 DEF ReassemblyInv, SplitInv
        <3>5. ASSUME Ts(a) \in DOMAIN frames PROVE FALSE
            <4>1. Returns(u) = {} /\ (format = "GENERIC" => frames[Ts(a)].first = a)
                BY <3>2, <3>3, <3>4, <3>5 DEF Returned, Clean
            <4>2. PICK J \in SUBSET (a..b) : Gathered(a, b, J, frames[Ts(a)]) /\ J = a..b
                BY <2>2, <3>2, <3>4, <3>5, <4>1 DEF Collects
            <4>3. Complete(frames[Ts(a)])
                BY <1>1, <3>1, <4>2, CompleteIsAll
            <4> QED
                BY <1>1, <3>5, <4>3 DEF FramesInv
        <3>6. Cardinality(Returns(u)) = 1
            BY <2>2, <3>2, <3>3, <3>4, <3>5 DEF Returned
        <3> QED
            BY <3>2, <3>5, <3>6
    <2> QED
        BY <2>3, <2>4
<1>3. \A u : /\ \A i \in 1..Len(returned) : UnitOf(returned[i]) = u => i \in Returns(u)
             /\ \A i \in Returns(u) : i \in 1..Len(returned) /\ UnitOf(returned[i]) = u
             /\ {i \in 1..Len(returned) : UnitOf(returned[i]) = u} = Returns(u)
    BY DEF Returns
<1> QED
    BY <1>2, <1>3 DEF CompleteIsReturned

\* packet_handler() of the H.26x formats and of media.cc: under the same hypothesis about
\* the encoder, as soon as all packets of a unit have come, each once and in any order, the
\* unit has been returned, once, and nothing of it stays behind, unless its frame had been
\* given up.
THEOREM CompleteAreReturned == Spec /\ OneSplitUnitPerTimestamp => []CompleteIsReturned
<1>1. ReassemblyInv /\ KeptInv => CompleteIsReturned
    BY InvMeansReturned
<1> QED
    BY <1>1, Invariance, PTL

LEMMA NothingTakenUp ==
    ASSUME EntriesInv, EntriesInv', KeptInv, [Next]_vars, NEW t \in dropped
    PROVE  /\ t \notin DOMAIN frames'
           /\ \A i \in Len(returned) + 1..Len(returned') :
                 Len(returned'[i].parts) > 1 => Ts(returned'[i].parts[1]) # t
<1>0. format \in H26x /\ format' \in H26x
    BY FormatStays DEF KeptInv
<1>1. Given /\ TypeInv /\ FramesInv /\ FramesInv' /\ Len(returned) \in Nat
    BY <1>0 DEF Given, TypeInv, EntriesInv
<1>2. ASSUME NEW p \in Packets, Arrives(p), Outcome(p)
      PROVE  /\ t \in dropped'
             /\ \A i \in Len(returned) + 1..Len(returned') :
                   Len(returned'[i].parts) > 1 => Ts(returned'[i].parts[1]) # t
    <2>1. ASSUME NEW n \in Nat, HandsOut(p, n)
          PROVE  /\ t \in dropped'
                 /\ \A i \in Len(returned) + 1..Len(returned') :
                       Len(returned'[i].parts) > 1 => Ts(returned'[i].parts[1]) # t
        <3>1. /\ dropped' = dropped /\ Len(returned') = Len(returned) + n
              /\ \A i \in Len(returned) + 1..Len(returned) + n : returned'[i].parts = <<p>>
            BY <2>1 DEF HandsOut, Grows
        <3>2. \A s : s = <<p>> => ~(Len(s) > 1)
            OBVIOUS
        <3>3. \A i \in Len(returned) + 1..Len(returned') : ~(Len(returned'[i].parts) > 1)
            BY <3>1, <3>2
        <3> QED
            BY <3>1, <3>3
    <2>2. CASE Begins(p) \/ Refuses(p) \/ Drops(p) \/ Stores(p)
        <3>1. t \in dropped' /\ returned' = returned
            BY <2>2 DEF Begins, Refuses, Drops, Stores
        <3>2. Len(returned) + 1..Len(returned') = {}
            BY <1>1, <3>1
        <3> QED
            BY <3>1, <3>2
    <2>3. CASE Completes(p)
        <3>1. PICK g, r : /\ g = Insertion(frames[Ts(p)], p)
                          /\ r = [parts |-> InOrder(g.fragments), piece |-> 1,
                                  size |-> g.pkts_received, first |-> g.first]
            OBVIOUS
        <3>2. /\ InSplit(p) /\ Ts(p) \in DOMAIN frames /\ dropped' = dropped
              /\ returned' = Append(returned, r)
            BY <2>3, <3>1 DEF Completes
        <3>3. IsFrame(g) /\ Holds(Ts(p), g)
            BY <1>1, <3>1, <3>2, InsertionHolds
        <3>4. r.parts[1] \in Of(Ts(p))
            BY <1>1, <3>1, <3>3, CompletedRecord
        <3>5. Ts(r.parts[1]) # t
            BY <1>1, <3>2, <3>4 DEF Of, FramesInv
        <3>6. \A i \in Len(returned) + 1..Len(returned') : returned'[i] = r
            <4> HIDE DEF Record
            <4>1. returned \in Seq(Record)
                BY <1>1 DEF TypeInv
            <4> QED
                BY <3>2, <4>1
        <3> QED
            BY <3>2, <3>5, <3>6
    <2> QED
        BY <1>2, <2>1, <2>2, <2>3 DEF Outcome
<1>3. ASSUME UNCHANGED <<dropped, returned>>
      PROVE  /\ t \in dropped'
             /\ \A i \in Len(returned) + 1..Len(returned') : FALSE
    BY <1>1, <1>3
<1>4. /\ t \in dropped'
      /\ \A i \in Len(returned) + 1..Len(returned') :
            Len(returned'[i].parts) > 1 => Ts(returned'[i].parts[1]) # t
    BY <1>0, <1>1, <1>2, <1>3, WhatHappens DEF FrameLate, vars
<1>5. t \notin DOMAIN frames'
    BY <1>1, <1>4 DEF FramesInv
<1> QED
    BY <1>4, <1>5

\* packet_handler() of the H.26x formats: for any stream and any encoder, a frame that was
\* given up is never taken up again and never returned, however many of its packets come.
THEOREM DroppedStayDropped == Spec => DroppedForGood
<1>1. EntriesInv /\ EntriesInv' /\ KeptInv /\ [Next]_vars =>
        [\A t \in dropped :
           /\ t \notin DOMAIN frames'
           /\ \A i \in Len(returned) + 1..Len(returned') :
                 Len(returned'[i].parts) > 1 => Ts(returned'[i].parts[1]) # t]_vars
    BY NothingTakenUp
<1> QED
    BY <1>1, EntriesInvariance, PTL DEF Spec, DroppedForGood

-----------------------------------------------------------------------------
(***************************************************************************)
(* The handlers implement UnitChannel: what a packet does to its unit, and *)
(* that it does nothing to the others.                                     *)
(***************************************************************************)
\* Fragments of one timestamp are of one unit.
LEMMA OneStamp ==
    ASSUME Fixed, NEW p \in Packets, NEW q \in Packets, InSplit(p), InSplit(q), Ts(p) = Ts(q)
    PROVE  stream[p].unit = stream[q].unit
<1>1. PICK a \in Packets, b \in Packets : p \in a..b /\ Split(format, stream, a, b)
    BY DEF InSplit
<1>2. Ts(p) = Ts(a) /\ stream[p].unit = stream[a].unit /\ Of(Ts(a)) = a..b
    BY <1>1, SplitFacts
<1>3. q \in Of(Ts(a))
    BY <1>2 DEF Of
<1> QED
    BY <1>1, <1>2, <1>3, SplitFacts

LEMMA SplitUnits ==
    ASSUME Fixed, NEW p \in Packets, NEW q \in Packets, p # q, stream[p].unit = stream[q].unit
    PROVE  InSplit(p)
BY AloneOrSplit DEF Unit

\* The packets with which the present entries began.
EntryBegins(u) == {p \in Unit(u) : \E t \in DOMAIN frames : frames[t].first = p}
ReturnBegins(u) == {returned[i].first : i \in Returns(u)}

LEMMA BeginningsAre == \A u : Beginnings(u) = EntryBegins(u) \cup ReturnBegins(u)
BY DEF Beginnings, EntryBegins, ReturnBegins, Returns

LEMMA EntryBeginsAre ==
    ASSUME Fixed, FramesInv, NEW u, NEW p
    PROVE  p \in EntryBegins(u) <=>
              /\ p \in Unit(u) /\ InSplit(p)
              /\ Ts(p) \in DOMAIN frames /\ frames[Ts(p)].first = p
<1>1. ASSUME p \in EntryBegins(u)
      PROVE  /\ p \in Unit(u) /\ InSplit(p)
             /\ Ts(p) \in DOMAIN frames /\ frames[Ts(p)].first = p
    <2>1. PICK t \in DOMAIN frames : frames[t].first = p
        BY <1>1 DEF EntryBegins
    <2>2. p \in Of(t)
        BY <2>1 DEF FramesInv, Holds
    <2> QED
        BY <1>1, <2>1, <2>2 DEF Of, EntryBegins
<1> QED
    BY <1>1 DEF EntryBegins

\* A unit the packet is no part of keeps what has come of it and became of it.
LEMMA OthersKeep ==
    ASSUME ReassemblyInv, FramesInv', NEW p \in Packets, Arrives(p), NEW n, Grows(p, n), OnlyAt(p),
           NEW v, v # stream[p].unit
    PROVE  MissingOf(v)' = MissingOf(v) /\ StandingOf(v)' = StandingOf(v)
<1>0. UNCHANGED <<format, stream, first_seq>> /\ Fixed /\ TypeInv /\ FramesInv
    BY DEF Arrives, TypeInv, Given, ReassemblyInv
<1>1. UNCHANGED <<format, stream, first_seq>> /\ Fixed /\ Fixed' /\ TypeInv /\ FramesInv
    BY <1>0, Frozen DEF Given
<1>2. /\ Unit(v)' = Unit(v) /\ \A q : Sheltered(v, q)' <=> Sheltered(v, q)
      /\ \A q : Ts(q)' = Ts(q) /\ (InSplit(q)' <=> InSplit(q))
    BY <1>1, Frozen
<1>3. /\ Returns(v)' = Returns(v)
      /\ \A i \in Returns(v) : returned'[i] = returned[i]
    BY <1>1, ReturnsGrow
<1>4. \A q \in Unit(v) : q \in Packets /\ q # p /\ stream[q].unit = v
    BY DEF Unit
<1>5. \A q \in Unit(v) : receipts'[q] = receipts[q]
    BY <1>1, <1>4, ReceivedGrows
<1>6. MissingOf(v)' = MissingOf(v) /\ (Undisturbed(v)' <=> Undisturbed(v))
    BY <1>2, <1>5 DEF MissingOf, Undisturbed
<1>7. ASSUME NEW q \in Unit(v), InSplit(q)
      PROVE  /\ Ts(q) \in DOMAIN frames' <=> Ts(q) \in DOMAIN frames
             /\ Ts(q) \in DOMAIN frames => frames'[Ts(q)] = frames[Ts(q)]
             /\ Ts(q) \in dropped' <=> Ts(q) \in dropped
    <2>1. Ts(q) # Ts(p) \/ ~InSplit(p)
        BY <1>1, <1>4, <1>7, OneStamp
    <2> QED
        BY <2>1 DEF OnlyAt
<1>8. GivenUp(v)' <=> GivenUp(v)
    <2>1. ASSUME NEW q \in Unit(v), NEW r \in Unit(v), q # r
          PROVE  Ts(q)' \in dropped' <=> Ts(q) \in dropped
        <3>1. InSplit(q)
            BY <1>1, <1>4, <2>1, SplitUnits
        <3> QED
            BY <1>2, <1>7, <3>1
    <2> QED
        BY <1>2, <2>1 DEF GivenUp
<1>9. EntryBegins(v)' = EntryBegins(v)
    <2>1. \A q : q \in EntryBegins(v) <=>
              /\ q \in Unit(v) /\ InSplit(q)
              /\ Ts(q) \in DOMAIN frames /\ frames[Ts(q)].first = q
        BY <1>1, EntryBeginsAre
    <2>2. \A q : q \in EntryBegins(v)' <=>
              /\ q \in Unit(v) /\ InSplit(q)
              /\ Ts(q) \in DOMAIN frames' /\ frames'[Ts(q)].first = q
        <3>1. EntryBegins(v)' = {q \in Unit(v) : \E t \in DOMAIN frames' : frames'[t].first = q}
            BY <1>2 DEF EntryBegins
        <3>2. \A t \in DOMAIN frames' : frames'[t].first \in Of(t)
            BY <1>1, Frozen DEF FramesInv, Holds
        <3>3. \A t : \A q \in Of(t) : Ts(q) = t /\ InSplit(q)
            BY DEF Of
        <3> QED
            BY <3>1, <3>2, <3>3
    <2> QED
        BY <1>2, <1>7, <2>1, <2>2
<1>10. ReturnBegins(v)' = ReturnBegins(v)
    BY <1>3 DEF ReturnBegins
<1>11. Exposed(v)' <=> Exposed(v)
    <2>1. Beginnings(v)' = EntryBegins(v)' \cup ReturnBegins(v)'
        BY <1>1, <1>2, <1>3 DEF Beginnings, EntryBegins, ReturnBegins, Returns
    <2>2. Beginnings(v)' = Beginnings(v)
        BY <1>9, <1>10, <2>1, BeginningsAre
    <2> QED
        BY <1>2, <1>6, <2>2 DEF Exposed
<1> QED
    BY <1>6, <1>8, <1>11 DEF StandingOf

LEMMA MissingLess ==
    ASSUME TypeInv, NEW p \in Packets, Arrives(p), NEW u, u = stream[p].unit
    PROVE  MissingOf(u)' = MissingOf(u) \ {p}
<1>1. UNCHANGED <<format, stream, first_seq>>
    BY DEF Arrives
<1>2. Unit(u)' = Unit(u) /\ \A q \in Unit(u) : q \in Packets
    BY <1>1, Frozen DEF Unit
<1>3. /\ \A q \in Packets : receipts[q] \in Nat /\ (q # p => receipts'[q] = receipts[q])
      /\ receipts'[p] = receipts[p] + 1
    BY DEF TypeInv, Arrives
<1> QED
    BY <1>2, <1>3 DEF MissingOf

LEMMA CopiesAre ==
    ASSUME Fixed, NEW p \in Packets
    PROVE  CopiesOf(stream[p].unit) = stream[p].count
<1>1. PICK u : u = stream[p].unit
    OBVIOUS
<1>2. PICK q : q = CHOOSE r \in Unit(u) : TRUE
    OBVIOUS
<1>3. q \in Unit(u) /\ q \in Packets /\ stream[q].unit = u
    BY <1>1, <1>2 DEF Unit
<1>4. CASE q # p
    <2>1. InSplit(p) /\ InSplit(q)
        BY <1>1, <1>3, <1>4, SplitUnits
    <2>2. stream[p].count = 1 /\ stream[q].count = 1
        BY <2>1 DEF InSplit, Split
    <2> QED
        BY <1>1, <1>2, <2>2 DEF CopiesOf
<1> QED
    BY <1>1, <1>2, <1>4 DEF CopiesOf

UnitsIn(r) == {stream[r.parts[k]].unit : k \in 1..Len(r.parts)}

\* How what began with which packet is carried on while p is handled.
Starts(p) == InSplit(p) => Ts(p) \notin DOMAIN frames \cup dropped
CarriesOn(p, u) ==
    /\ \A q \in Beginnings(u)' : q \in Beginnings(u) \/ (q = p /\ Starts(p))
    /\ \A q \in Beginnings(u) : q \in Beginnings(u)' \/ GivenUp(u)'

Shape(p, n) ==
    LET u == stream[p].unit IN
    /\ n \in {0, stream[p].count} /\ Grows(p, n) /\ OnlyAt(p)
    /\ \A i \in Len(returned) + 1..Len(returned) + n : UnitsIn(returned'[i]) = {u}
    /\ CarriesOn(p, u)

LEMMA BeginningsGrow ==
    ASSUME TypeInv, NEW p \in Packets, Arrives(p), NEW n, Grows(p, n), NEW u, u = stream[p].unit
    PROVE  /\ Beginnings(u)' = {q \in Unit(u) : \E t \in DOMAIN frames' : frames'[t].first = q}
                                 \cup ReturnBegins(u)'
           /\ ReturnBegins(u)' = ReturnBegins(u) \cup
                {returned'[i].first : i \in Len(returned) + 1..Len(returned) + n}
<1>1. UNCHANGED <<format, stream, first_seq>>
    BY DEF Arrives
<1>2. Unit(u)' = Unit(u) /\ \A r : UnitOf(r)' = UnitOf(r)
    BY <1>1, Frozen
<1>3. Returns(u)' = Returns(u) \cup (Len(returned) + 1..Len(returned) + n)
    BY ReturnsGrow
<1>4. \A i \in Returns(u) : returned'[i] = returned[i]
    BY ReturnsGrow
<1>5. ReturnBegins(u)' = ReturnBegins(u) \cup
                {returned'[i].first : i \in Len(returned) + 1..Len(returned) + n}
    BY <1>3, <1>4 DEF ReturnBegins
<1>6. Beginnings(u)' = {q \in Unit(u) : \E t \in DOMAIN frames' : frames'[t].first = q}
                                 \cup ReturnBegins(u)'
    BY <1>2 DEF Beginnings, ReturnBegins, Returns
<1> QED
    BY <1>5, <1>6

LEMMA HandsOutShape ==
    ASSUME ReassemblyInv, KeptInv, NEW p \in Packets, Arrives(p), NEW n \in Nat, HandsOut(p, n)
    PROVE  Shape(p, n)
<1>1. TypeInv /\ Fixed
    BY DEF ReassemblyInv, TypeInv, Given
<1>2. PICK u : u = stream[p].unit
    OBVIOUS
<1>3. Grows(p, n) /\ OnlyAt(p) /\ UNCHANGED <<frames, dropped>>
    BY DEF HandsOut, OnlyAt
<1>4. n \in {0, stream[p].count}
    BY DEF HandsOut, InSplit, Split
<1>5. ASSUME NEW i \in Len(returned) + 1..Len(returned) + n
      PROVE  UnitsIn(returned'[i]) = {u} /\ returned'[i].first = p
    <2>1. returned'[i].parts = <<p>> /\ returned'[i].first = p
        BY <1>5 DEF HandsOut
    <2>2. \A s : s = <<p>> => Len(s) = 1 /\ s[1] = p
        OBVIOUS
    <2> QED
        BY <1>2, <2>1, <2>2 DEF UnitsIn
<1>6. Starts(p)
    <2>1. ASSUME InSplit(p) PROVE Ts(p) \notin DOMAIN frames \cup dropped
        BY <2>1 DEF HandsOut, KeptInv, H26x
    <2> QED
        BY <2>1 DEF Starts
<1>7. Beginnings(u)' = Beginnings(u) \cup
            {returned'[i].first : i \in Len(returned) + 1..Len(returned) + n}
    <2>1. /\ Beginnings(u)' = {q \in Unit(u) : \E t \in DOMAIN frames' : frames'[t].first = q}
                                 \cup ReturnBegins(u)'
          /\ ReturnBegins(u)' = ReturnBegins(u) \cup
                {returned'[i].first : i \in Len(returned) + 1..Len(returned) + n}
        BY <1>1, <1>2, <1>3, BeginningsGrow
    <2> QED
        BY <1>3, <2>1, BeginningsAre DEF EntryBegins
<1>8. CarriesOn(p, u)
    BY <1>5, <1>6, <1>7 DEF CarriesOn
<1> QED
    BY <1>2, <1>3, <1>4, <1>5, <1>8 DEF Shape

LEMMA NoneReturned ==
    ASSUME TypeInv, NEW p \in Packets, Arrives(p), UNCHANGED returned, NEW u, u = stream[p].unit
    PROVE  /\ Grows(p, 0) /\ Len(returned) + 1..Len(returned) + 0 = {}
           /\ Beginnings(u)' = {q \in Unit(u) : \E t \in DOMAIN frames' : frames'[t].first = q}
                                  \cup ReturnBegins(u)
<1>1. Grows(p, 0)
    BY Unchanged
<1>2. Len(returned) + 1..Len(returned) + 0 = {}
    BY DEF TypeInv
<1>3. /\ Beginnings(u)' = {q \in Unit(u) : \E t \in DOMAIN frames' : frames'[t].first = q}
                             \cup ReturnBegins(u)'
      /\ ReturnBegins(u)' = ReturnBegins(u) \cup
            {returned'[i].first : i \in Len(returned) + 1..Len(returned) + 0}
    BY <1>1, BeginningsGrow
<1> QED
    BY <1>1, <1>2, <1>3

LEMMA QuietShape ==
    ASSUME ReassemblyInv, KeptInv, NEW p \in Packets, Arrives(p),
           Begins(p) \/ Refuses(p) \/ Drops(p) \/ Stores(p)
    PROVE  Shape(p, 0)
<1>1. TypeInv /\ FramesInv /\ Fixed
    BY DEF ReassemblyInv, TypeInv, Given
<1>2. PICK u, t : u = stream[p].unit /\ t = Ts(p)
    OBVIOUS
<1>3. InSplit(p) /\ UNCHANGED returned
    BY DEF Begins, Refuses, Drops, Stores
<1>4. /\ Grows(p, 0) /\ Len(returned) + 1..Len(returned) + 0 = {}
      /\ Beginnings(u)' = {q \in Unit(u) : \E v \in DOMAIN frames' : frames'[v].first = q}
                             \cup ReturnBegins(u)
    BY <1>1, <1>2, <1>3, NoneReturned
<1>5. Beginnings(u) = {q \in Unit(u) : \E v \in DOMAIN frames : frames[v].first = q}
                             \cup ReturnBegins(u)
    BY BeginningsAre DEF EntryBegins
<1>6. CASE Begins(p)
    <2>1. /\ t \notin DOMAIN frames \cup dropped /\ dropped' = dropped
          /\ DOMAIN frames' = DOMAIN frames \cup {t} /\ frames'[t].first = p
          /\ \A v \in DOMAIN frames : frames'[v] = frames[v]
        BY <1>2, <1>6 DEF Begins, With, At
    <2>2. OnlyAt(p)
        BY <1>2, <1>3, <2>1 DEF OnlyAt
    <2>3. CarriesOn(p, u)
        BY <1>2, <1>4, <1>5, <2>1 DEF CarriesOn, Starts
    <2> QED
        BY <1>2, <1>4, <2>2, <2>3 DEF Shape
<1>7. CASE Refuses(p)
    <2>1. UNCHANGED <<frames, dropped>>
        BY <1>7 DEF Refuses
    <2>2. OnlyAt(p) /\ CarriesOn(p, u)
        BY <1>4, <1>5, <2>1 DEF OnlyAt, CarriesOn
    <2> QED
        BY <1>2, <1>4, <2>2 DEF Shape
<1>8. CASE Drops(p)
    <2>1. /\ t \in DOMAIN frames /\ frames' = Without(t) /\ dropped' = dropped \cup {t}
        BY <1>2, <1>8 DEF Drops
    <2>2. /\ DOMAIN frames' \subseteq DOMAIN frames
          /\ \A v : v # t => (v \in DOMAIN frames' <=> v \in DOMAIN frames)
          /\ \A v \in DOMAIN frames' : frames'[v] = frames[v]
        BY <2>1 DEF Without
    <2>3. OnlyAt(p)
        BY <1>2, <1>3, <2>1, <2>2 DEF OnlyAt
    <2>4. PICK a \in Packets, b \in Packets : p \in a..b /\ Split(format, stream, a, b)
        BY <1>3 DEF InSplit
    <2>5. a \in Unit(u) /\ b \in Unit(u) /\ a # b /\ Ts(a) = t
        <3>1. a \in Nat /\ b \in Nat /\ a < b /\ Unit(u) = a..b /\ Ts(p) = Ts(a)
            BY <1>1, <1>2, <2>4, SplitFacts
        <3> QED
            BY <1>2, <3>1
    <2>6. GivenUp(u)'
        <3>1. Unit(u)' = Unit(u) /\ Ts(a)' = Ts(a)
            BY Frozen DEF Arrives
        <3> QED
            BY <2>1, <2>5, <3>1 DEF GivenUp
    <2>7. CarriesOn(p, u)
        BY <1>4, <1>5, <2>2, <2>6 DEF CarriesOn
    <2> QED
        BY <1>2, <1>4, <2>3, <2>7 DEF Shape
<1>9. CASE Stores(p)
    <2>1. /\ t \in DOMAIN frames /\ dropped' = dropped /\ DOMAIN frames' = DOMAIN frames
          /\ frames'[t] = Insertion(frames[t], p)
          /\ \A v \in DOMAIN frames : v # t => frames'[v] = frames[v]
        BY <1>2, <1>9 DEF Stores
    <2>2. OnlyAt(p)
        BY <1>2, <1>3, <2>1 DEF OnlyAt
    <2>3. frames'[t].first = frames[t].first
        BY <1>1, <1>2, <1>3, <2>1, InsertionHolds
    <2>4. \A v \in DOMAIN frames : frames'[v].first = frames[v].first
        BY <2>1, <2>3
    <2>5. CarriesOn(p, u)
        BY <1>4, <1>5, <2>1, <2>4 DEF CarriesOn
    <2> QED
        BY <1>2, <1>4, <2>2, <2>5 DEF Shape
<1> QED
    BY <1>6, <1>7, <1>8, <1>9

LEMMA CompletesShape ==
    ASSUME ReassemblyInv, KeptInv, NEW p \in Packets, Arrives(p), Completes(p)
    PROVE  Shape(p, 1)
<1>1. TypeInv /\ FramesInv /\ Fixed
    BY DEF ReassemblyInv, TypeInv, Given
<1>2. PICK u, t, g, r : /\ u = stream[p].unit /\ t = Ts(p) /\ g = Insertion(frames[Ts(p)], p)
                        /\ r = [parts |-> InOrder(g.fragments), piece |-> 1,
                                size |-> g.pkts_received, first |-> g.first]
    OBVIOUS
<1>3. /\ InSplit(p) /\ t \in DOMAIN frames /\ dropped' = dropped /\ frames' = Without(t)
      /\ returned' = Append(returned, r)
    BY <1>2 DEF Completes
<1>4. /\ DOMAIN frames' \subseteq DOMAIN frames
      /\ \A v : v # t => (v \in DOMAIN frames' <=> v \in DOMAIN frames)
      /\ \A v \in DOMAIN frames' : frames'[v] = frames[v]
    BY <1>3 DEF Without
<1>5. IsFrame(g) /\ Holds(t, g) /\ g.first = frames[t].first
    BY <1>1, <1>2, <1>3, InsertionHolds
<1>6. \A q \in Of(t) : q \in Packets /\ stream[q].unit = u
    BY <1>1, <1>2, <1>3, OneStamp DEF Of
<1>7. r.parts \in Seq(Of(t)) \ {<<>>} /\ r.first = frames[t].first /\ r \in Record
    <2>1. r \in Record
        BY <1>1, <1>2, <1>5, CompletedUnit
    <2>2. IsFiniteSet(DOMAIN g.fragments) /\ DOMAIN g.fragments \subseteq Nat
        <3>1. 0 \in Int /\ 2 * SEQ_MOD \in Int /\ DOMAIN g.fragments \subseteq 0..2 * SEQ_MOD
            BY <1>1, <1>5, StreamFacts DEF Holds
        <3>2. IsFiniteSet(0..2 * SEQ_MOD)
            BY <3>1, FS_Interval
        <3> QED
            BY <3>1, <3>2, FS_Subset
    <2>3. InOrder(g.fragments) \in Seq(Of(t)) \ {<<>>}
        BY <1>5, <2>2, InOrderOfAny DEF Holds
    <2> QED
        BY <1>2, <1>5, <2>1, <2>3
<1>8. UnitsIn(r) = {u} /\ UnitOf(r) = u
    <2> DEFINE T == Of(t)
               s == r.parts
    <2>1. s \in Seq(T) /\ s # <<>> /\ \A q \in T : stream[q].unit = u
        BY <1>6, <1>7
    <2>2. UnitsIn(r) = {stream[s[k]].unit : k \in 1..Len(s)} /\ UnitOf(r) = stream[s[1]].unit
        BY DEF UnitsIn, UnitOf
    <2> HIDE DEF T, s
    <2>3. 1 \in 1..Len(s) /\ \A k \in 1..Len(s) : s[k] \in T
        BY <2>1
    <2> QED
        BY <2>1, <2>2, <2>3
<1>9. /\ Len(returned') = Len(returned) + 1 /\ Len(returned) \in Nat
      /\ \A i \in 1..Len(returned) : returned'[i] = returned[i]
      /\ Len(returned) + 1..Len(returned) + 1 = {Len(returned) + 1}
      /\ returned'[Len(returned) + 1] = r
    <2> HIDE DEF Record
    <2>1. returned \in Seq(Record)
        BY <1>1 DEF TypeInv
    <2> QED
        BY <1>3, <1>7, <2>1
<1>10. Grows(p, 1) /\ OnlyAt(p)
    <2>1. Grows(p, 1)
        BY <1>2, <1>8, <1>9 DEF Grows
    <2> QED
        BY <1>2, <1>3, <1>4, <2>1 DEF OnlyAt
<1>11. stream[p].count = 1
    BY <1>3 DEF InSplit, Split
<1>12. CarriesOn(p, u)
    <2>1. /\ Beginnings(u)' = {q \in Unit(u) : \E v \in DOMAIN frames' : frames'[v].first = q}
                                 \cup ReturnBegins(u)'
          /\ ReturnBegins(u)' = ReturnBegins(u) \cup
                {returned'[i].first : i \in Len(returned) + 1..Len(returned) + 1}
        BY <1>1, <1>2, <1>10, BeginningsGrow
    <2>2. ReturnBegins(u)' = ReturnBegins(u) \cup {frames[t].first}
        BY <1>7, <1>9, <2>1
    <2>3. Beginnings(u) = {q \in Unit(u) : \E v \in DOMAIN frames : frames[v].first = q}
                                 \cup ReturnBegins(u)
        BY BeginningsAre DEF EntryBegins
    <2>4. frames[t].first \in Unit(u)
        BY <1>5, <1>6 DEF Holds, Unit
    <2>5. Beginnings(u)' = Beginnings(u)
        BY <1>3, <1>4, <2>1, <2>2, <2>3, <2>4
    <2> QED
        BY <2>5 DEF CarriesOn
<1> QED
    BY <1>2, <1>8, <1>9, <1>10, <1>11, <1>12 DEF Shape

\* The four things that happen to a unit of the channel.
Takes(u, p, n) ==
    /\ StandingOf(u) = "kept" /\ StandingOf(u)' = "kept" /\ p \in MissingOf(u)
    /\ n = IF MissingOf(u) = {p} THEN CopiesOf(u) ELSE 0
    /\ \A i \in Len(returned) + 1..Len(returned) + n : Intact(returned'[i])
Loses(u, p, n) ==
    /\ StandingOf(u) # "given up" /\ StandingOf(u)' = "given up" /\ n = 0
    /\ StandingOf(u) = "kept" => MissingOf(u) \ {p} # {}
Ignores(u, n) == StandingOf(u) = "given up" /\ StandingOf(u)' = "given up" /\ n = 0
Spoils(u, p) ==
    /\ StandingOf(u) # "given up" /\ StandingOf(u)' = "exposed"
    /\ \/ StandingOf(u) = "exposed" \/ OrderOf(u) = "none" \/ p \notin MissingOf(u)
       \/ OrderOf(u) = "first first" /\ MissingOf(u) = Unit(u) /\ \E q \in Unit(u) : q < p

LEMMA SplitOf ==
    ASSUME Fixed, NEW p \in Packets, InSplit(p), NEW u, u = stream[p].unit
    PROVE  \E a, b \in Packets :
              /\ Split(format, stream, a, b) /\ p \in a..b /\ u = stream[a].unit
              /\ a \in Nat /\ b \in Nat /\ a < b /\ Unit(u) = a..b /\ FirstOf(u) = a
              /\ Of(Ts(p)) = a..b /\ \A q \in Unit(u) : q \in Packets /\ Ts(q) = Ts(p)
<1>1. PICK a \in Packets, b \in Packets : p \in a..b /\ Split(format, stream, a, b)
    BY DEF InSplit
<1>2. /\ a \in Nat /\ b \in Nat /\ a < b /\ Unit(stream[a].unit) = a..b /\ a..b \subseteq Packets
      /\ \A q \in a..b : stream[q].unit = stream[a].unit /\ Ts(q) = Ts(a)
      /\ Of(Ts(a)) = a..b /\ FirstOf(stream[a].unit) = a
    BY <1>1, SplitFacts, FirstPacket
<1> QED
    BY <1>1, <1>2

\* A unit is given up exactly if it is split and its timestamp has been dropped.
LEMMA GivenUpIs ==
    ASSUME Fixed, NEW p \in Packets, NEW u, u = stream[p].unit
    PROVE  GivenUp(u) <=> InSplit(p) /\ Ts(p) \in dropped
<1>1. CASE InSplit(p)
    <2>1. PICK a, b \in Packets : /\ a \in Nat /\ b \in Nat /\ a < b /\ Unit(u) = a..b
                                  /\ \A q \in Unit(u) : Ts(q) = Ts(p)
        BY <1>1, SplitOf
    <2>2. a \in Unit(u) /\ b \in Unit(u) /\ a # b
        BY <2>1
    <2> QED
        BY <1>1, <2>1, <2>2 DEF GivenUp
<1>2. CASE ~InSplit(p)
    BY <1>2, AloneOrSplit DEF GivenUp
<1> QED
    BY <1>1, <1>2

LEMMA GivenUpAfter ==
    ASSUME Fixed, NEW p \in Packets, Arrives(p), NEW u, u = stream[p].unit
    PROVE  GivenUp(u)' <=> InSplit(p) /\ Ts(p) \in dropped'
<1>0. UNCHANGED <<format, stream, first_seq>>
    BY DEF Arrives
<1>1. Unit(u)' = Unit(u) /\ \A q : Ts(q)' = Ts(q)
    BY <1>0, Frozen
<1>2. CASE InSplit(p)
    <2>1. PICK a, b \in Packets : /\ a \in Nat /\ b \in Nat /\ a < b /\ Unit(u) = a..b
                                  /\ \A q \in Unit(u) : Ts(q) = Ts(p)
        BY <1>2, SplitOf
    <2>2. a \in Unit(u) /\ b \in Unit(u) /\ a # b
        BY <2>1
    <2> QED
        BY <1>1, <1>2, <2>1, <2>2 DEF GivenUp
<1>3. CASE ~InSplit(p)
    BY <1>1, <1>3, AloneOrSplit DEF GivenUp
<1> QED
    BY <1>2, <1>3

\* A unit of one packet can stand whatever order its packet comes in.
LEMMA AloneIsSheltered ==
    ASSUME Fixed, NEW p \in Packets, NEW u, Unit(u) = {p}
    PROVE  Sheltered(u, p)
<1>1. ~Wraps(u)
    BY StreamFacts DEF Wraps
<1>2. FirstOf(u) = p
    BY StreamFacts DEF FirstOf
<1> QED
    BY <1>1, <1>2, StreamFacts DEF Sheltered, Formats, H26x

LEMMA ShelteredByOrder ==
    ASSUME Fixed, NEW u, NEW p, ~Sheltered(u, p)
    PROVE  OrderOf(u) = "none" \/ (OrderOf(u) = "first first" /\ p # FirstOf(u))
BY StreamFacts DEF Sheltered, OrderOf, Formats, H26x

LEMMA CleanWhenKept ==
    ASSUME Fixed, FramesInv, NEW a \in Packets, NEW b \in Packets, Split(format, stream, a, b),
           NEW u, u = stream[a].unit, ~GivenUp(u), \A q \in Beginnings(u) : Sheltered(u, q)
    PROVE  Clean(a)
<1>1. InSplit(a) /\ FirstOf(u) = a /\ Of(Ts(a)) = Unit(u)
    BY SplitFacts, FirstPacket
<1>2. Ts(a) \notin dropped
    BY <1>1, GivenUpIs
<1>3. ASSUME format = "GENERIC", NEW q \in Beginnings(u) PROVE q = a
    BY <1>1, <1>3 DEF Sheltered, H26x
<1>4. Ts(a) \in DOMAIN frames => frames[Ts(a)].first \in Beginnings(u)
    BY <1>1, BeginningsAre DEF FramesInv, Holds, EntryBegins
<1>5. \A i \in Returns(u) : returned[i].first \in Beginnings(u)
    BY BeginningsAre DEF ReturnBegins
<1> QED
    BY <1>2, <1>3, <1>4, <1>5 DEF Clean

LEMMA CleanAfter ==
    ASSUME Fixed, FramesInv', NEW a \in Packets, NEW b \in Packets, Split(format, stream, a, b),
           NEW p \in a..b, Arrives(p), NEW u, u = stream[a].unit, ~GivenUp(u)',
           \A q \in Beginnings(u)' : Sheltered(u, q)
    PROVE  Clean(a)'
<1>0. UNCHANGED <<format, stream, first_seq>>
    BY DEF Arrives
<1>1. /\ InSplit(a) /\ FirstOf(u) = a /\ Of(Ts(a)) = Unit(u) /\ p \in Packets
      /\ stream[p].unit = u /\ Ts(p) = Ts(a) /\ InSplit(p)
    BY SplitFacts, FirstPacket
<1>2. /\ Unit(u)' = Unit(u) /\ Ts(a)' = Ts(a) /\ stream[a].unit' = u
      /\ \A t, f : Holds(t, f)' <=> Holds(t, f)
    BY <1>0, Frozen
<1>3. Ts(a) \notin dropped'
    BY <1>1, GivenUpAfter
<1>4. ASSUME format = "GENERIC", NEW q \in Beginnings(u)' PROVE q = a
    BY <1>1, <1>4 DEF Sheltered, H26x
<1>5. Beginnings(u)' = {q \in Unit(u) : \E t \in DOMAIN frames' : frames'[t].first = q}
                             \cup {returned'[i].first : i \in Returns(u)'}
    BY <1>2 DEF Beginnings, Returns
<1>6. Ts(a) \in DOMAIN frames' => frames'[Ts(a)].first \in Beginnings(u)'
    BY <1>1, <1>2, <1>5 DEF FramesInv, Holds
<1>7. \A i \in Returns(u)' : returned'[i].first \in Beginnings(u)'
    BY <1>5
<1> QED
    BY <1>0, <1>2, <1>3, <1>4, <1>6, <1>7 DEF Clean

\* A unit that is not given up is exposed when the packet has come before, or came too early.
LEMMA Exposing ==
    ASSUME ReassemblyInv, NEW p \in Packets, Arrives(p), NEW n, Shape(p, n),
           NEW u, u = stream[p].unit, ~GivenUp(u), ~GivenUp(u)', Exposed(u)'
    PROVE  Spoils(u, p)
<1>1. UNCHANGED <<format, stream, first_seq>> /\ Fixed /\ TypeInv /\ FramesInv
    BY DEF Arrives, TypeInv, Given, ReassemblyInv
<1>2. StandingOf(u)' = "exposed" /\ StandingOf(u) # "given up"
    BY DEF StandingOf
<1>3. CASE Exposed(u)
    <2>1. StandingOf(u) = "exposed"
        BY <1>3 DEF StandingOf
    <2> QED
        BY <1>2, <2>1 DEF Spoils
<1>4. CASE ~Exposed(u)
    <2>1. /\ Unit(u)' = Unit(u) /\ p \in Unit(u) /\ \A q \in Unit(u) : q \in Packets
          /\ \A q : Sheltered(u, q)' <=> Sheltered(u, q)
        BY <1>1, Frozen DEF Unit
    <2>2. Undisturbed(u) /\ \A q \in Beginnings(u) : Sheltered(u, q)
        BY <1>4 DEF Exposed
    <2>3. CASE ~Undisturbed(u)'
        <3>1. PICK q \in Unit(u) : ~(receipts'[q] <= 1)
            BY <2>1, <2>3 DEF Undisturbed
        <3>2. \A r \in Packets : r # p => receipts'[r] = receipts[r]
            BY <1>1, ReceivedGrows
        <3>3. q = p
            BY <2>1, <2>2, <3>1, <3>2 DEF Undisturbed
        <3>4. receipts'[p] = receipts[p] + 1 /\ receipts[p] \in Nat
            BY <1>1 DEF Arrives, TypeInv
        <3>5. p \notin MissingOf(u)
            BY <3>1, <3>3, <3>4 DEF MissingOf
        <3> QED
            BY <1>2, <3>5 DEF Spoils
    <2>4. CASE Undisturbed(u)'
        <3>1. PICK q \in Beginnings(u)' : ~Sheltered(u, q)
            BY <2>1, <2>4 DEF Exposed
        <3>2. q = p /\ Starts(p)
            <4>1. CarriesOn(p, u)
                BY DEF Shape
            <4> QED
                BY <2>2, <3>1, <4>1 DEF CarriesOn
        <3>3. InSplit(p)
            <4>1. CASE ~InSplit(p)
                BY <1>1, <3>1, <3>2, <4>1, AloneOrSplit, AloneIsSheltered
            <4> QED
                BY <4>1
        <3>4. PICK a, b \in Packets :
                /\ Split(format, stream, a, b) /\ p \in a..b /\ u = stream[a].unit
                /\ a \in Nat /\ b \in Nat /\ Unit(u) = a..b /\ FirstOf(u) = a
                /\ \A r \in Unit(u) : r \in Packets /\ Ts(r) = Ts(p)
            BY <1>1, <3>3, SplitOf
        <3>5. Clean(a)
            BY <1>1, <2>2, <3>4, CleanWhenKept
        <3>6. Ts(a) \notin DOMAIN frames
            BY <3>2, <3>3, <3>4 DEF Starts
        <3>7. Received(u) = {}
            <4>1. Undisturbed(stream[a].unit)'
                BY <1>1, <2>4, <3>4
            <4> QED
                BY <3>4, <3>5, <3>6, <4>1, NotReturned
        <3>8. MissingOf(u) = Unit(u)
            BY <3>7 DEF Received, MissingOf
        <3>9. OrderOf(u) = "none" \/ (OrderOf(u) = "first first" /\ p # a)
            BY <1>1, <3>1, <3>2, <3>4, ShelteredByOrder
        <3>10. p # a => \E r \in Unit(u) : r < p
            BY <3>4
        <3> QED
            BY <1>2, <3>8, <3>9, <3>10 DEF Spoils
    <2> QED
        BY <2>3, <2>4
<1> QED
    BY <1>3, <1>4

\* A unit that is not exposed is handed out, whole, with its last packet.
LEMMA Taking ==
    ASSUME ReassemblyInv, ReassemblyInv', CompleteIsReturned',
           NEW p \in Packets, Arrives(p), NEW n, Shape(p, n),
           NEW u, u = stream[p].unit, ~GivenUp(u), ~GivenUp(u)', ~Exposed(u)'
    PROVE  Takes(u, p, n)
<1>1. UNCHANGED <<format, stream, first_seq>> /\ Fixed /\ TypeInv /\ FramesInv
    BY DEF Arrives, TypeInv, Given, ReassemblyInv
<1>2. /\ Packets' = Packets
      /\ Unit(u)' = Unit(u) /\ p \in Unit(u) /\ \A q \in Unit(u) : q \in Packets
      /\ \A q : Sheltered(u, q)' <=> Sheltered(u, q)
      /\ \A q : Ts(q)' = Ts(q)
      /\ \A r : UnitOf(r)' = UnitOf(r) /\ (Intact(r)' <=> Intact(r))
    BY <1>1, Frozen DEF Unit
<1>3. Undisturbed(u)' /\ \A q \in Beginnings(u)' : Sheltered(u, q)
    BY <1>2 DEF Exposed
<1>4. /\ Undisturbed(u) /\ Received(u)' = Received(u) \cup {p}
      /\ p \in Unit(u) \ Received(u) /\ receipts[p] = 0 /\ receipts'[p] = 1
      /\ \A q \in Packets : q # p => receipts'[q] = receipts[q]
    BY <1>1, <1>3, ReceivedGrows
<1>5. \A q \in Beginnings(u) : Sheltered(u, q)
    <2>1. CarriesOn(p, u)
        BY DEF Shape
    <2> QED
        BY <1>3, <2>1 DEF CarriesOn
<1>6. p \in MissingOf(u) /\ StandingOf(u) = "kept" /\ StandingOf(u)' = "kept"
    BY <1>4, <1>5 DEF StandingOf, Exposed, MissingOf
<1>7. /\ n \in Nat /\ Cardinality(Returns(u)) \in Nat
      /\ Returns(u)' = Returns(u) \cup (Len(returned) + 1..Len(returned) + n)
      /\ Cardinality(Returns(u)') = Cardinality(Returns(u)) + n
    BY <1>1, ReturnsGrow DEF Shape, Grows
<1>8. ASSUME NEW i \in Len(returned) + 1..Len(returned) + n
      PROVE  Intact(returned'[i])
    <2>1. i \in Returns(u)' /\ returned'[i].first \in Beginnings(u)'
        <3>1. Beginnings(u)' = {q \in Unit(u) : \E t \in DOMAIN frames' : frames'[t].first = q}
                                     \cup {returned'[j].first : j \in Returns(u)'}
            BY <1>2 DEF Beginnings, Returns
        <3> QED
            BY <1>7, <1>8, <3>1
    <2>2. i \in 1..Len(returned') /\ UnitOf(returned'[i]) = u
        BY <1>1, <2>1 DEF Returns, UnitOf
    <2>3. Sheltered(u, returned'[i].first)
        BY <1>2, <1>3, <2>1
    <2> QED
        <3>1. \A j \in 1..Len(returned') : \A v :
                 v = UnitOf(returned'[j]) /\ Undisturbed(v)' /\ Sheltered(v, returned'[j].first)
                     => Intact(returned'[j])
            BY <1>1, Frozen DEF ReassemblyInv, ReturnedIntact
        <3> QED
            BY <1>3, <2>2, <2>3, <3>1
<1>9. n = IF MissingOf(u) = {p} THEN stream[p].count ELSE 0
    <2>1. CASE ~InSplit(p)
        <3>1. OnePacket(format, stream[p]) /\ Unit(u) = {p}
            BY <1>1, <2>1, AloneOrSplit
        <3>2. Cardinality(Returns(u)) = 0
            BY <1>4, <3>1 DEF ReassemblyInv, AloneInv
        <3>3. Cardinality(Returns(u)') = stream[p].count
            <4>1. \A q \in Packets : \A v :
                     OnePacket(format, stream[q]) /\ v = stream[q].unit /\ Unit(v) = {q}
                         /\ receipts'[q] <= 1 =>
                       Cardinality(Returns(v)') = IF receipts'[q] = 0 THEN 0 ELSE stream[q].count
                BY <1>1, <1>2, Frozen DEF ReassemblyInv, AloneInv
            <4> QED
                BY <1>4, <3>1, <4>1
        <3>4. MissingOf(u) = {p}
            BY <1>6, <3>1 DEF MissingOf
        <3> QED
            BY <1>7, <3>2, <3>3, <3>4
    <2>2. CASE InSplit(p)
        <3>1. PICK a, b \in Packets :
                /\ Split(format, stream, a, b) /\ p \in a..b /\ u = stream[a].unit
                /\ a \in Nat /\ b \in Nat /\ Unit(u) = a..b /\ FirstOf(u) = a
                /\ \A r \in Unit(u) : r \in Packets /\ Ts(r) = Ts(p)
            BY <1>1, <2>2, SplitOf
        <3>2. Clean(a)
            BY <1>1, <1>5, <3>1, CleanWhenKept
        <3>3. Clean(a)'
            BY <1>1, <1>3, <3>1, CleanAfter DEF ReassemblyInv
        <3>4. Returns(u) = {}
            <4>1. Undisturbed(stream[a].unit)'
                BY <1>1, <1>3, <3>1
            <4> QED
                BY <3>1, <3>2, <4>1, NotReturned
        <3>5. Cardinality(Returns(u)') = n
            BY <1>7, <3>4, FS_EmptySet
        <3>6. stream[p].count = 1 /\ a \in Unit(u) /\ Ts(a) = Ts(p)
            <4>1. a \in a..b
                BY <1>1, <3>1, SplitFacts
            <4> QED
                BY <3>1, <4>1 DEF Split
        <3>7. CASE MissingOf(u) = {p}
            <4>1. \A q \in Unit(u) : receipts'[q] = 1
                <5>1. ASSUME NEW q \in Unit(u), q # p PROVE receipts'[q] = 1
                    <6>1. receipts'[q] = receipts[q] /\ receipts[q] # 0 /\ receipts[q] \in Nat
                        BY <1>1, <1>2, <1>4, <3>7, <5>1 DEF MissingOf, TypeInv
                    <6>2. receipts[q] <= 1
                        BY <1>4 DEF Undisturbed
                    <6> QED
                        BY <6>1, <6>2
                <5> QED
                    BY <1>4, <5>1
            <4>2. \A q \in Unit(u) : Ts(q) \notin dropped'
                BY <1>2, <3>1, <3>3, <3>6 DEF Clean
            <4>3. format = "GENERIC" =>
                    /\ \A q \in Unit(u) : Ts(q) \in DOMAIN frames' => frames'[Ts(q)].first = FirstOf(u)
                    /\ \A i \in Returns(u)' : returned'[i].first = FirstOf(u)
                BY <1>1, <1>2, <3>1, <3>3, <3>6 DEF Clean
            <4>4. Returns(u)' = {i \in 1..Len(returned') : UnitOf(returned'[i]) = u}
                BY <1>1 DEF Returns, UnitOf
            <4>5. u \in Units' /\ FirstOf(u)' = FirstOf(u)
                BY <1>1, <1>2 DEF Units, FirstOf
            <4>6. Cardinality({i \in 1..Len(returned') : UnitOf(returned'[i]) = u}) = stream'[p].count
                BY <1>1, <1>2, <4>1, <4>2, <4>3, <4>4, <4>5 DEF CompleteIsReturned
            <4> QED
                BY <1>1, <3>5, <3>7, <4>4, <4>6
        <3>8. CASE MissingOf(u) # {p}
            <4>1. PICK q \in Unit(u) : q # p /\ receipts[q] = 0
                BY <1>6, <3>8 DEF MissingOf
            <4>2. Received(u)' # a..b /\ Received(u)' # {}
                <5>1. q \notin Received(u)
                    BY <4>1 DEF Received
                <5> QED
                    BY <1>4, <3>1, <4>1, <5>1
            <4>3. Returned(a, b)'
                BY <1>1, <1>2, <1>3, <3>1 DEF ReassemblyInv, SplitInv
            <4>4. Returns(u)' = {}
                BY <1>1, <3>1, <3>3, <4>2, <4>3 DEF Returned
            <4> QED
                BY <3>5, <3>8, <4>4, FS_EmptySet
        <3> QED
            BY <3>7, <3>8
    <2> QED
        BY <2>1, <2>2
<1> QED
    BY <1>1, <1>6, <1>8, <1>9, CopiesAre DEF Takes

\* A unit is only given up while a packet is missing, or when it was exposed.
LEMMA Losing ==
    ASSUME ReassemblyInv, NEW p \in Packets, Arrives(p), Drops(p), NEW u, u = stream[p].unit
    PROVE  Loses(u, p, 0)
<1>1. UNCHANGED <<format, stream, first_seq>> /\ Fixed /\ TypeInv /\ FramesInv
    BY DEF Arrives, TypeInv, Given, ReassemblyInv
<1>2. /\ InSplit(p) /\ Ts(p) \in DOMAIN frames /\ Ts(p) \in dropped'
      /\ ~Complete(Insertion(frames[Ts(p)], p))
    BY DEF Drops
<1>3. ~GivenUp(u) /\ GivenUp(u)'
    BY <1>1, <1>2, GivenUpIs, GivenUpAfter DEF FramesInv
<1>4. ASSUME ~Exposed(u), MissingOf(u) \ {p} = {} PROVE FALSE
    <2>1. PICK a, b \in Packets :
            /\ Split(format, stream, a, b) /\ p \in a..b /\ u = stream[a].unit
            /\ a \in Nat /\ b \in Nat /\ Unit(u) = a..b /\ Ts(a) = Ts(p)
        <3>1. PICK a, b \in Packets :
                /\ Split(format, stream, a, b) /\ p \in a..b /\ u = stream[a].unit
                /\ a \in Nat /\ b \in Nat /\ Unit(u) = a..b
            BY <1>1, <1>2, SplitOf
        <3>2. Ts(a) = Ts(p)
            BY <1>1, <3>1, SplitFacts
        <3> QED
            BY <3>1, <3>2
    <2>2. Undisturbed(u) /\ \A q \in Beginnings(u) : Sheltered(u, q)
        BY <1>4 DEF Exposed
    <2>3. Clean(a)
        BY <1>1, <1>3, <2>1, <2>2, CleanWhenKept
    <2>4. Collects(a, b) /\ Returned(a, b)
        BY <2>1, <2>2 DEF ReassemblyInv, SplitInv
    <2>5. Returns(u) = {} /\ (format = "GENERIC" => frames[Ts(a)].first = a)
        BY <1>2, <2>1, <2>3, <2>4 DEF Returned, Clean
    <2>6. \A q \in Unit(u) : q # p => receipts[q] # 0
        BY <1>4 DEF MissingOf
    <2>7. CASE receipts[p] # 0
        <3>1. Received(u) = a..b
            BY <2>1, <2>6, <2>7 DEF Received
        <3>2. PICK J \in SUBSET (a..b) : Gathered(a, b, J, frames[Ts(a)]) /\ J = a..b
            BY <1>2, <2>1, <2>4, <2>5, <3>1 DEF Collects
        <3>3. Complete(frames[Ts(a)])
            BY <1>1, <2>1, <3>2, CompleteIsAll
        <3> QED
            BY <1>1, <1>2, <2>1, <3>3 DEF FramesInv
    <2>8. CASE receipts[p] = 0
        <3>1. /\ receipts'[p] = 1 /\ \A q \in Packets : q # p => receipts'[q] = receipts[q]
              /\ \A q \in Unit(u) : q \in Packets
              /\ Unit(u)' = Unit(u)
            BY <1>1, <2>8, ReceivedGrows, Frozen DEF Arrives, TypeInv, Unit
        <3>2. Undisturbed(stream[a].unit)'
            <4>1. \A q \in Unit(u) : receipts'[q] <= 1
                BY <2>2, <3>1 DEF Undisturbed
            <4> QED
                BY <1>1, <2>1, <3>1, <4>1 DEF Undisturbed
        <3>3. Received(u)' = a..b
            BY <2>1, <2>6, <3>1 DEF Received
        <3>4. Received(stream[a].unit)' = a..b
            BY <1>1, <2>1, <3>3
        <3>5. PICK J \in SUBSET (a..b) : Gathered(a, b, J, Insertion(frames[Ts(a)], p)) /\ J = a..b
            BY <1>2, <2>1, <2>5, <3>2, <3>4, CollectsMore
        <3>6. Complete(Insertion(frames[Ts(a)], p))
            BY <1>1, <2>1, <3>5, CompleteIsAll
        <3> QED
            BY <1>2, <2>1, <3>6
    <2> QED
        BY <2>7, <2>8
<1> QED
    BY <1>3, <1>4 DEF Loses, StandingOf

LEMMA Ignoring ==
    ASSUME ReassemblyInv, NEW p \in Packets, Arrives(p), Refuses(p), NEW u, u = stream[p].unit
    PROVE  Ignores(u, 0)
<1>1. Fixed
    BY DEF TypeInv, Given, ReassemblyInv
<1>2. InSplit(p) /\ Ts(p) \in dropped /\ Ts(p) \in dropped'
    BY DEF Refuses
<1>3. GivenUp(u) /\ GivenUp(u)'
    BY <1>1, <1>2, GivenUpIs, GivenUpAfter
<1> QED
    BY <1>3 DEF Ignores, StandingOf

\* Whatever the handler does with a packet is one of the four for its unit.
LEMMA OneOfFour ==
    ASSUME ReassemblyInv, KeptInv, ReassemblyInv', CompleteIsReturned',
           NEW p \in Packets, Arrives(p), Outcome(p), NEW u, u = stream[p].unit
    PROVE  \E n \in Nat :
              /\ Shape(p, n)
              /\ Takes(u, p, n) \/ Loses(u, p, n) \/ Ignores(u, n) \/ Spoils(u, p)
<1>1. Fixed /\ FramesInv
    BY DEF TypeInv, Given, ReassemblyInv
<1>2. ASSUME NEW n \in Nat, Shape(p, n), dropped' = dropped, Ts(p) \notin dropped \/ ~InSplit(p)
      PROVE  Takes(u, p, n) \/ Spoils(u, p)
    <2>1. ~GivenUp(u) /\ ~GivenUp(u)'
        BY <1>1, <1>2, GivenUpIs, GivenUpAfter
    <2> QED
        BY <1>2, <2>1, Taking, Exposing
<1>3. ASSUME NEW n \in Nat, HandsOut(p, n)
      PROVE  Shape(p, n) /\ (Takes(u, p, n) \/ Spoils(u, p))
    <2>1. Shape(p, n)
        BY <1>3, HandsOutShape
    <2>2. dropped' = dropped /\ (Ts(p) \notin dropped \/ ~InSplit(p))
        BY <1>3 DEF HandsOut, KeptInv, H26x
    <2> QED
        BY <1>2, <2>1, <2>2
<1>4. CASE Begins(p) \/ Stores(p)
    <2>1. Shape(p, 0)
        BY <1>4, QuietShape
    <2>2. dropped' = dropped /\ Ts(p) \notin dropped
        BY <1>1, <1>4 DEF Begins, Stores, FramesInv
    <2> QED
        BY <1>2, <2>1, <2>2
<1>5. CASE Completes(p)
    <2>1. Shape(p, 1)
        BY <1>5, CompletesShape
    <2>2. dropped' = dropped /\ Ts(p) \notin dropped
        BY <1>1, <1>5 DEF Completes, FramesInv
    <2> QED
        BY <1>2, <2>1, <2>2
<1>6. CASE Drops(p)
    BY <1>6, QuietShape, Losing
<1>7. CASE Refuses(p)
    BY <1>7, QuietShape, Ignoring
<1> QED
    BY <1>3, <1>4, <1>5, <1>6, <1>7 DEF Outcome

-----------------------------------------------------------------------------
(***************************************************************************)
(* The same, step by step, in the terms of UnitChannel.                    *)
(***************************************************************************)
LEMMA FixedForGood ==
    ASSUME UNCHANGED <<format, stream, first_seq>>
    PROVE  /\ UNCHANGED Channel!fixedVars /\ Units' = Units
           /\ \A u : CopiesOf(u)' = CopiesOf(u) /\ OrderOf(u)' = OrderOf(u)
           /\ \A r : ItemOf(r)' = ItemOf(r)
<1>1. Packets' = Packets /\ \A u : Unit(u)' = Unit(u)
    BY Frozen
<1>2. Units' = Units
    BY <1>1 DEF Units
<1>3. \A u : CopiesOf(u)' = CopiesOf(u)
    BY <1>1 DEF CopiesOf
<1>4. \A u : OrderOf(u)' = OrderOf(u)
    <2>1. \A u : Wraps(u)' <=> Wraps(u)
        BY <1>1, Frozen DEF Wraps
    <2> QED
        BY <2>1 DEF OrderOf
<1>5. \A r : ItemOf(r)' = ItemOf(r)
    <2>1. \A r : Intact(r)' = Intact(r)
        BY <1>1 DEF Intact, UnitOf
    <2> QED
        BY <2>1 DEF ItemOf
<1>6. UNCHANGED Channel!fixedVars
    BY <1>1, <1>2, <1>3, <1>4 DEF Channel!fixedVars
<1> QED
    BY <1>2, <1>3, <1>4, <1>5, <1>6

LEMMA MissingMoves ==
    ASSUME ReassemblyInv, FramesInv', NEW p \in Packets, Arrives(p), NEW n, Grows(p, n), OnlyAt(p),
           NEW u, u = stream[p].unit
    PROVE  /\ u \in Units /\ p \in Unit(u)
           /\ [v \in Units |-> MissingOf(v)]' = [[v \in Units |-> MissingOf(v)] EXCEPT ![u] = @ \ {p}]
           /\ [v \in Units |-> StandingOf(v)]' =
                 [[v \in Units |-> StandingOf(v)] EXCEPT ![u] = StandingOf(u)']
<1>1. UNCHANGED <<format, stream, first_seq>> /\ Fixed /\ TypeInv
    BY DEF Arrives, TypeInv, Given, ReassemblyInv
<1>2. Units' = Units
    BY <1>1, FixedForGood
<1>3. u \in Units /\ p \in Unit(u)
    BY DEF Units, Unit
<1>4. \A v \in Units : v # u => MissingOf(v)' = MissingOf(v) /\ StandingOf(v)' = StandingOf(v)
    BY OthersKeep
<1>5. MissingOf(u)' = MissingOf(u) \ {p}
    BY <1>1, MissingLess
<1>6. [v \in Units |-> MissingOf(v)]' = [[v \in Units |-> MissingOf(v)] EXCEPT ![u] = @ \ {p}]
    BY <1>2, <1>3, <1>4, <1>5
<1>7. [v \in Units |-> StandingOf(v)]' =
                 [[v \in Units |-> StandingOf(v)] EXCEPT ![u] = StandingOf(u)']
    BY <1>2, <1>3, <1>4
<1> QED
    BY <1>3, <1>6, <1>7

LEMMA ConcatFacts ==
    ASSUME NEW X, NEW s \in Seq(X), NEW t \in Seq(X)
    PROVE  /\ s \o t \in Seq(X) /\ Len(s) \in Nat /\ Len(t) \in Nat
           /\ Len(s \o t) = Len(s) + Len(t)
           /\ \A k \in 1..Len(s) + Len(t) :
                 (s \o t)[k] = IF k <= Len(s) THEN s[k] ELSE t[k - Len(s)]
OBVIOUS

LEMMA SameSequence ==
    ASSUME NEW X, NEW s \in Seq(X), NEW t \in Seq(X), Len(s) = Len(t),
           \A k \in 1..Len(s) : s[k] = t[k]
    PROVE  s = t
OBVIOUS

LEMMA Concatenation ==
    ASSUME NEW X, NEW s \in Seq(X), NEW t \in Seq(X), NEW r \in Seq(X),
           Len(r) = Len(s) + Len(t),
           \A i \in 1..Len(s) : r[i] = s[i], \A i \in 1..Len(t) : r[Len(s) + i] = t[i]
    PROVE  r = s \o t
<1>1. PICK c, m, n : c = s \o t /\ m = Len(s) /\ n = Len(t)
    OBVIOUS
<1>2. m \in Nat /\ n \in Nat /\ m + n \in Nat
    BY <1>1
<1>3. /\ c \in Seq(X) /\ Len(c) = m + n
      /\ \A k \in 1..m + n : c[k] = IF k <= m THEN s[k] ELSE t[k - m]
    BY <1>1, ConcatFacts
<1>4. ASSUME NEW k \in 1..m + n PROVE r[k] = c[k]
    <2>1. CASE k <= m
        BY <1>1, <1>2, <1>3, <2>1
    <2>2. CASE ~(k <= m)
        <3>1. k - m \in 1..n /\ k = m + (k - m)
            BY <1>2, <2>2
        <3>2. r[k] = t[k - m]
            BY <1>1, <3>1
        <3> QED
            BY <1>3, <2>2, <3>2
    <2> QED
        BY <2>1, <2>2
<1>5. r = c
    BY <1>1, <1>3, <1>4, SameSequence
<1> QED
    BY <1>1, <1>5

Output == [i \in 1..Len(returned) |-> ItemOf(returned[i])]

LEMMA OutputMoves ==
    ASSUME TypeInv, NEW p \in Packets, Arrives(p), NEW n \in Nat, Shape(p, n),
           NEW u, u = stream[p].unit
    PROVE  Output' = Output \o
              [i \in 1..n |-> Channel!Item(u, Intact(returned'[Len(returned) + i]))]
<1>1. UNCHANGED <<format, stream, first_seq>> /\ Len(returned) \in Nat
    BY DEF Arrives, TypeInv
<1>2. PICK m \in Nat : m = Len(returned)
    BY <1>1
<1>3. /\ Len(returned') = m + n
      /\ \A i \in 1..m : returned'[i] = returned[i]
      /\ \A i \in m + 1..m + n : UnitsIn(returned'[i]) = {u}
    BY <1>2 DEF Shape, Grows
<1>4. \A r : ItemOf(r)' = ItemOf(r)
    BY <1>1, FixedForGood
<1>5. Output' = [i \in 1..m + n |-> ItemOf(returned'[i])]
    BY <1>1, <1>3, <1>4 DEF Output, ItemOf, UnitOf, Intact
<1>6. \A i \in 1..n : ItemOf(returned'[m + i]) = Channel!Item(u, Intact(returned'[m + i]))
    <2>1. \A i \in 1..n : m + i \in m + 1..m + n
        BY <1>1
    <2> QED
        BY <1>3, <2>1 DEF ItemOf, UnitsIn, Channel!Item
<1>7. [i \in 1..m + n |-> ItemOf(returned'[i])] =
         Output \o [i \in 1..n |-> Channel!Item(u, Intact(returned'[m + i]))]
    <2> DEFINE new == [i \in 1..n |-> Channel!Item(u, Intact(returned'[m + i]))]
               all == [i \in 1..m + n |-> ItemOf(returned'[i])]
    <2>1. PICK X : X = {ItemOf(returned[i]) : i \in 1..m} \cup {ItemOf(returned'[i]) : i \in 1..m + n}
        OBVIOUS
    <2>2. m + n \in Nat /\ \A i \in 1..n : m + i \in 1..m + n
        OBVIOUS
    <2>3. /\ Output \in Seq(X) /\ Len(Output) = m
          /\ \A i \in 1..m : all[i] = Output[i]
        <3>1. \A i \in 1..m : ItemOf(returned[i]) \in X
            BY <2>1
        <3>2. \A i \in 1..m : ItemOf(returned'[i]) = ItemOf(returned[i])
            BY <1>3
        <3> QED
            BY <1>2, <3>1, <3>2 DEF Output
    <2>4. all \in Seq(X) /\ Len(all) = m + n
        BY <2>1, <2>2
    <2>5. new \in Seq(X) /\ Len(new) = n /\ \A i \in 1..n : all[m + i] = new[i]
        <3>1. \A i \in 1..n : new[i] = ItemOf(returned'[m + i])
            BY <1>6
        <3>2. \A i \in 1..n : new[i] \in X /\ all[m + i] = new[i]
            BY <2>1, <2>2, <3>1
        <3>3. new = [i \in 1..n |-> ItemOf(returned'[m + i])]
            BY <1>6
        <3>4. new \in Seq(X) /\ Len(new) = n
            BY <2>1, <2>2, <3>3
        <3> QED
            BY <3>2, <3>4
    <2> HIDE DEF new, all
    <2>6. all = Output \o new
        <3>1. PICK out, x, y : out = Output /\ x = new /\ y = all
            OBVIOUS
        <3>2. /\ out \in Seq(X) /\ x \in Seq(X) /\ y \in Seq(X)
              /\ Len(out) = m /\ Len(x) = n /\ Len(y) = m + n
              /\ (\A i \in 1..m : y[i] = out[i]) /\ \A i \in 1..n : y[m + i] = x[i]
            BY <2>3, <2>4, <2>5, <3>1
        <3>3. y = out \o x
            BY <3>2, Concatenation
        <3> QED
            BY <3>1, <3>3
    <2> QED
        BY <2>6 DEF new, all
<1> QED
    BY <1>2, <1>5, <1>7

LEMMA SameOutput ==
    ASSUME TypeInv, NEW p \in Packets, Arrives(p), NEW n, n = 0, Grows(p, n)
    PROVE  Output' = Output
<1>1. UNCHANGED <<format, stream, first_seq>> /\ Len(returned) \in Nat
    BY DEF Arrives, TypeInv
<1>2. Len(returned') = Len(returned) /\ \A i \in 1..Len(returned) : returned'[i] = returned[i]
    BY <1>1 DEF Grows
<1>3. Output' = [i \in 1..Len(returned') |-> ItemOf(returned'[i])]
    <2>1. \A r : Intact(r)' = Intact(r)
        BY <1>1, Frozen DEF Intact, UnitOf
    <2> QED
        BY <1>1, <2>1 DEF Output, ItemOf, UnitOf, Intact
<1> QED
    BY <1>2, <1>3 DEF Output

\* A packet that comes makes a step of the channel.
LEMMA ArrivalImplements ==
    ASSUME ReassemblyInv, KeptInv, ReassemblyInv', CompleteIsReturned',
           NEW p \in Packets, Arrives(p), Outcome(p)
    PROVE  Channel!Next
<1> DEFINE U == [v \in Units |-> Unit(v)]
           C == [v \in Units |-> CopiesOf(v)]
           O == [v \in Units |-> OrderOf(v)]
           M == [v \in Units |-> MissingOf(v)]
           S == [v \in Units |-> StandingOf(v)]
           A == Output
<1>1. UNCHANGED <<format, stream, first_seq>> /\ Fixed /\ TypeInv /\ FramesInv'
    BY DEF Arrives, TypeInv, Given, ReassemblyInv
<1>2. PICK u : u = stream[p].unit
    OBVIOUS
<1>3. PICK n \in Nat :
         /\ Shape(p, n)
         /\ Takes(u, p, n) \/ Loses(u, p, n) \/ Ignores(u, n) \/ Spoils(u, p)
    BY <1>2, OneOfFour
<1>4. Grows(p, n) /\ OnlyAt(p) /\ n \in {0, CopiesOf(u)}
    BY <1>1, <1>2, <1>3, CopiesAre DEF Shape
<1>5. /\ u \in Units /\ p \in Unit(u)
      /\ M' = [M EXCEPT ![u] = @ \ {p}]
      /\ S' = [S EXCEPT ![u] = StandingOf(u)']
    BY <1>1, <1>2, <1>4, MissingMoves
<1>6. UNCHANGED <<U, C, O>>
    BY <1>1, FixedForGood DEF Channel!fixedVars
<1>7. PICK whole \in [1..n -> BOOLEAN] :
         /\ A' = A \o [i \in 1..n |-> Channel!Item(u, whole[i])]
         /\ \A i \in 1..n : whole[i] <=> Intact(returned'[Len(returned) + i])
    <2>1. A' = A \o [i \in 1..n |-> Channel!Item(u, Intact(returned'[Len(returned) + i]))]
        BY <1>1, <1>2, <1>3, OutputMoves
    <2>2. PICK w : w = [i \in 1..n |-> Intact(returned'[Len(returned) + i])]
        OBVIOUS
    <2>3. w \in [1..n -> BOOLEAN] /\ \A i \in 1..n : w[i] = Intact(returned'[Len(returned) + i])
        BY <2>2 DEF Intact
    <2>4. [i \in 1..n |-> Channel!Item(u, Intact(returned'[Len(returned) + i]))] =
             [i \in 1..n |-> Channel!Item(u, w[i])]
        BY <2>3
    <2> QED
        BY <2>1, <2>3, <2>4
<1>8. /\ U[u] = Unit(u) /\ C[u] = CopiesOf(u) /\ O[u] = OrderOf(u)
      /\ M[u] = MissingOf(u) /\ S[u] = StandingOf(u) /\ DOMAIN U = Units
    BY <1>5
<1> HIDE DEF U, C, O, M, S, A
<1>9. CASE Takes(u, p, n)
    <2>1. StandingOf(u) = "kept" /\ StandingOf(u)' = "kept" /\ p \in MissingOf(u)
        BY <1>9 DEF Takes
    <2>2. n = IF M[u] = {p} THEN C[u] ELSE 0
        BY <1>8, <1>9 DEF Takes
    <2>3. \A i \in 1..n : whole[i] = TRUE
        <3>1. PICK l \in Nat : l = Len(returned)
            BY <1>1 DEF TypeInv
        <3>2. \A i \in l + 1..l + n : Intact(returned'[i])
            BY <1>9, <3>1 DEF Takes
        <3>3. \A i \in 1..n : l + i \in l + 1..l + n
            BY <3>1
        <3>4. \A i \in 1..n : Intact(returned'[l + i])
            BY <3>2, <3>3
        <3> QED
            BY <1>7, <3>1, <3>4
    <2>4. A' = A \o [i \in 1..(IF M[u] = {p} THEN C[u] ELSE 0) |-> Channel!Item(u, TRUE)]
        <3>1. [i \in 1..n |-> Channel!Item(u, whole[i])] = [i \in 1..n |-> Channel!Item(u, TRUE)]
            BY <2>3
        <3>2. A' = A \o [i \in 1..n |-> Channel!Item(u, TRUE)]
            BY <1>7, <3>1
        <3> QED
            BY <2>2, <3>2
    <2>5. S' = S
        BY <1>5, <1>8, <2>1 DEF S
    <2>6. Channel!Receive(u, p)
        BY <1>5, <1>6, <1>8, <2>1, <2>4, <2>5
           DEF Channel!Receive, Channel!Comes, Channel!fixedVars, U, C, O, M, S, A, Output
    <2> QED
        BY <1>5, <1>8, <2>6 DEF Channel!Next, Channel!Units, U
<1>10. CASE Loses(u, p, n)
    <2>1. /\ StandingOf(u) # "given up" /\ StandingOf(u)' = "given up" /\ n = 0
          /\ StandingOf(u) = "kept" => MissingOf(u) \ {p} # {}
        BY <1>10 DEF Loses
    <2>2. A' = A
        BY <1>1, <1>4, <2>1, SameOutput DEF A
    <2>3. Channel!GiveUp(u, p)
        BY <1>5, <1>6, <1>8, <2>1, <2>2
           DEF Channel!GiveUp, Channel!Comes, Channel!fixedVars, U, C, O, M, S, A, Output
    <2> QED
        BY <1>5, <1>8, <2>3 DEF Channel!Next, Channel!Units, U
<1>11. CASE Ignores(u, n)
    <2>1. StandingOf(u) = "given up" /\ StandingOf(u)' = "given up" /\ n = 0
        BY <1>11 DEF Ignores
    <2>2. A' = A
        BY <1>1, <1>4, <2>1, SameOutput DEF A
    <2>3. S' = S
        BY <1>5, <1>8, <2>1 DEF S
    <2>4. Channel!Refuse(u, p)
        BY <1>5, <1>6, <1>8, <2>1, <2>2, <2>3
           DEF Channel!Refuse, Channel!Comes, Channel!fixedVars, U, C, O, M, S, A, Output
    <2> QED
        BY <1>5, <1>8, <2>4 DEF Channel!Next, Channel!Units, U
<1>12. CASE Spoils(u, p)
    <2>1. StandingOf(u) # "given up" /\ StandingOf(u)' = "exposed"
        BY <1>12 DEF Spoils
    <2>2. Channel!Exposes(u, p)
        BY <1>8, <1>12 DEF Spoils, Channel!Exposes, U, C, O, M, S
    <2>3. \E k \in {0, C[u]} : \E w \in [1..k -> BOOLEAN] :
             A' = A \o [i \in 1..k |-> Channel!Item(u, w[i])]
        BY <1>4, <1>7, <1>8
    <2>4. Channel!Disturb(u, p)
        BY <1>5, <1>6, <1>8, <2>1, <2>2, <2>3
           DEF Channel!Disturb, Channel!Comes, Channel!fixedVars, U, C, O, M, S, A, Output
    <2> QED
        BY <1>5, <1>8, <2>4 DEF Channel!Next, Channel!Units, U
<1> QED
    BY <1>3, <1>9, <1>10, <1>11, <1>12

\* While no packet comes the channel stands still.
LEMMA NothingMoves ==
    ASSUME UNCHANGED <<format, stream, first_seq, receipts, dropped, returned>>,
           DOMAIN frames' = DOMAIN frames,
           \A t \in DOMAIN frames : frames'[t].first = frames[t].first
    PROVE  UNCHANGED Channel!vars
<1>1. /\ UNCHANGED Channel!fixedVars /\ Units' = Units
      /\ \A r : ItemOf(r)' = ItemOf(r)
    BY FixedForGood
<1>2. /\ \A u : Unit(u)' = Unit(u)
      /\ \A q : Ts(q)' = Ts(q) /\ \A u : Sheltered(u, q)' <=> Sheltered(u, q)
      /\ \A r : UnitOf(r)' = UnitOf(r)
    BY Frozen
<1>3. \A u : MissingOf(u)' = MissingOf(u) /\ (Undisturbed(u)' <=> Undisturbed(u))
    BY <1>2 DEF MissingOf, Undisturbed
<1>4. \A u : GivenUp(u)' <=> GivenUp(u)
    BY <1>2 DEF GivenUp
<1>5. \A u : Beginnings(u)' = Beginnings(u)
    BY <1>2 DEF Beginnings
<1>6. \A u : Exposed(u)' <=> Exposed(u)
    BY <1>2, <1>3, <1>5 DEF Exposed
<1>7. \A u : StandingOf(u)' = StandingOf(u)
    BY <1>4, <1>6 DEF StandingOf
<1>8. [i \in 1..Len(returned) |-> ItemOf(returned[i])]' = [i \in 1..Len(returned) |-> ItemOf(returned[i])]
    BY <1>1
<1> QED
    BY <1>1, <1>3, <1>7, <1>8 DEF Channel!vars

LEMMA InitImplements == Init => Channel!Init
<1> SUFFICES ASSUME Init PROVE Channel!Init
    OBVIOUS
<1>1. /\ \A p \in Packets : receipts[p] = 0
      /\ DOMAIN frames = {} /\ dropped = {} /\ returned = <<>>
    BY DEF Init
<1>2. ASSUME NEW u PROVE MissingOf(u) = Unit(u) /\ StandingOf(u) = "kept"
    <2>1. MissingOf(u) = Unit(u) /\ Undisturbed(u)
        BY <1>1 DEF MissingOf, Undisturbed, Unit
    <2>2. Beginnings(u) = {}
        BY <1>1 DEF Beginnings
    <2>3. ~GivenUp(u)
        BY <1>1 DEF GivenUp
    <2> QED
        BY <2>1, <2>2, <2>3 DEF StandingOf, Exposed
<1>3. [i \in 1..Len(returned) |-> ItemOf(returned[i])] = <<>>
    BY <1>1
<1> QED
    BY <1>2, <1>3 DEF Channel!Init, Channel!Units

LEMMA StepImplements ==
    ASSUME ReassemblyInv, KeptInv, ReassemblyInv', CompleteIsReturned', [Next]_vars
    PROVE  [Channel!Next]_(Channel!vars)
<1>1. TypeInv /\ FramesInv
    BY DEF ReassemblyInv
<1>2. ASSUME NEW t \in DOMAIN frames, FrameLate(t) PROVE UNCHANGED Channel!vars
    <2>1. /\ UNCHANGED <<format, stream, first_seq, receipts, dropped, returned>>
          /\ DOMAIN frames' = DOMAIN frames
          /\ \A v \in DOMAIN frames : v # t => frames'[v] = frames[v]
          /\ frames'[t] = [frames[t] EXCEPT !.late = TRUE]
        BY <1>2 DEF FrameLate
    <2>2. IsFrame(frames[t])
        BY <1>1 DEF FramesInv
    <2>3. frames'[t].first = frames[t].first
        BY <2>1, <2>2 DEF IsFrame
    <2> QED
        BY <2>1, <2>3, NothingMoves
<1>3. CASE UNCHANGED vars
    BY <1>3, NothingMoves DEF vars
<1>4. OneSplitUnitPerTimestamp
    BY DEF ReassemblyInv
<1> QED
    BY <1>1, <1>2, <1>3, <1>4, WhatHappens, ArrivalImplements

\* packet_handler() of the H.26x formats and of media.cc: under the hypothesis about the
\* encoder (OneSplitUnitPerTimestamp), for sequence numbers of any width and any losses,
\* duplicates and reorderings, the handlers are a channel of units: every packet that comes
\* makes one step of UnitChannel, and time makes none.
THEOREM HandlersImplementChannel == Spec /\ OneSplitUnitPerTimestamp => ImplementsChannel
<1>1. Spec => Channel!Init
    BY InitImplements DEF Spec
<1>2. ReassemblyInv /\ KeptInv /\ (ReassemblyInv /\ CompleteIsReturned)' /\ [Next]_vars
         => [Channel!Next]_(Channel!vars)
    BY StepImplements
<1> QED
    BY <1>1, <1>2, Invariance, CompleteAreReturned, PTL DEF Spec, ImplementsChannel, Channel!Spec
=============================================================================
