---------------------------- MODULE SendPath_proofs ----------------------------
(***************************************************************************)
(* The sender, for any frames, payload size, width of the sequence numbers *)
(* and number of frames: the transactions are kept, a number is given      *)
(* once, and plain frames are sent whole. What the queue does is the same  *)
(* whichever format calls it, so every action is first shown to be one of  *)
(* five ways to use the queue, and the first two invariants are proved of  *)
(* those; the third looks at what each step of push_frame() queues.        *)
(***************************************************************************)
EXTENDS SendPath, TLAPS

-----------------------------------------------------------------------------
(***************************************************************************)
(* Sequences of whatever there is.                                         *)
(***************************************************************************)
IsSeq(s) == \E S : s \in Seq(S)

LEMMA SeqLen ==
    ASSUME NEW s, IsSeq(s)
    PROVE  Len(s) \in Nat
BY DEF IsSeq

LEMMA AppendFacts ==
    ASSUME NEW s, IsSeq(s), NEW x
    PROVE  /\ IsSeq(Append(s, x)) /\ Len(Append(s, x)) = Len(s) + 1
           /\ \A i \in 1..Len(s) : Append(s, x)[i] = s[i]
           /\ Append(s, x)[Len(s) + 1] = x
<1>1. PICK S : s \in Seq(S)
    BY DEF IsSeq
<1>2. PICK T : T = S \cup {x}
    OBVIOUS
<1>3. s \in Seq(T) /\ x \in T
    BY <1>1, <1>2
<1>4. Append(s, x) \in Seq(T)
    BY <1>3
<1> QED
    BY <1>3, <1>4 DEF IsSeq

LEMMA ConcatFacts ==
    ASSUME NEW s, NEW t, IsSeq(s), IsSeq(t)
    PROVE  /\ IsSeq(s \o t) /\ Len(s \o t) = Len(s) + Len(t)
           /\ \A i \in 1..Len(s) : (s \o t)[i] = s[i]
           /\ \A i \in 1..Len(t) : (s \o t)[Len(s) + i] = t[i]
<1>1. PICK S, R : s \in Seq(S) /\ t \in Seq(R)
    BY DEF IsSeq
<1>2. PICK T : T = S \cup R
    OBVIOUS
<1>3. s \in Seq(T) /\ t \in Seq(T)
    BY <1>1, <1>2
<1>4. s \o t \in Seq(T)
    BY <1>3
<1>5. ASSUME NEW i \in 1..Len(t) PROVE (s \o t)[Len(s) + i] = t[i]
    <2>1. PICK k : k = Len(s) + i
        OBVIOUS
    <2>2. k \in Len(s) + 1..Len(s) + Len(t) /\ k - Len(s) = i
        BY <1>3, <2>1
    <2>3. (s \o t)[k] = t[k - Len(s)]
        BY <1>3, <2>2
    <2> QED
        BY <2>1, <2>2, <2>3
<1> QED
    BY <1>3, <1>4, <1>5 DEF IsSeq

LEMMA ConcatIs ==
    ASSUME NEW s, NEW t, IsSeq(s), IsSeq(t), NEW m, m = Len(s), NEW n, n = Len(t)
    PROVE  /\ Len(s \o t) = m + n
           /\ \A i \in 1..m : (s \o t)[i] = s[i]
           /\ \A i \in 1..n : (s \o t)[m + i] = t[i]
BY ConcatFacts

LEMMA FirstsFacts ==
    ASSUME NEW s, IsSeq(s), NEW n \in 0..Len(s)
    PROVE  /\ IsSeq(SubSeq(s, 1, n)) /\ Len(SubSeq(s, 1, n)) = n
           /\ \A i \in 1..n : SubSeq(s, 1, n)[i] = s[i]
<1>1. PICK S : s \in Seq(S)
    BY DEF IsSeq
<1>2. Len(s) \in Nat /\ n \in Nat /\ n <= Len(s)
    BY <1>1
<1>3. SubSeq(s, 1, n) \in Seq(S)
    BY <1>1, <1>2
<1>4. /\ Len(SubSeq(s, 1, n)) = n
      /\ \A i \in 1..n : SubSeq(s, 1, n)[i] = s[i]
    BY <1>1, <1>2
<1> QED
    BY <1>3, <1>4 DEF IsSeq

LEMMA FrontFacts ==
    ASSUME NEW s, IsSeq(s), s # <<>>
    PROVE  /\ IsSeq(Front(s)) /\ Len(Front(s)) = Len(s) - 1 /\ Len(s) >= 1
           /\ \A i \in 1..Len(s) - 1 : Front(s)[i] = s[i]
           /\ Last(s) = s[Len(s)]
<1>1. Len(s) \in Nat /\ Len(s) >= 1
    <2>1. PICK S : s \in Seq(S)
        BY DEF IsSeq
    <2> QED
        BY <2>1
<1>2. Len(s) - 1 \in 0..Len(s)
    BY <1>1
<1> QED
    BY <1>1, <1>2, FirstsFacts DEF Front, Last

LEMMA FunctionIsSeq ==
    ASSUME NEW n \in Nat, NEW f, f = [i \in 1..n |-> f[i]]
    PROVE  IsSeq(f) /\ Len(f) = n
<1>1. PICK S : S = {f[i] : i \in 1..n}
    OBVIOUS
<1>2. f \in [1..n -> S]
    BY <1>1
<1>3. f \in Seq(S)
    BY <1>2
<1> QED
    BY <1>2, <1>3 DEF IsSeq

LEMMA TupleIsSeq ==
    /\ IsSeq(<<>>) /\ \A x : IsSeq(<<x>>)
<1>1. <<>> \in Seq({}) /\ \A x : <<x>> \in Seq({x})
    OBVIOUS
<1> QED
    BY <1>1 DEF IsSeq

LEMMA OneFacts ==
    ASSUME NEW x
    PROVE  IsSeq(<<x>>) /\ Len(<<x>>) = 1 /\ <<x>>[1] = x
<1>1. Len(<<x>>) = 1 /\ <<x>>[1] = x
    OBVIOUS
<1> QED
    BY <1>1, TupleIsSeq

-----------------------------------------------------------------------------
(***************************************************************************)
(* Numbers modulo the width of the RTP sequence number.                    *)
(***************************************************************************)
LEMMA Multiple ==
    ASSUME NEW M \in Nat \ {0}, NEW k \in Int, -M < k * M, k * M < M
    PROVE  k = 0
<1>1. CASE k >= 1
    <2>1. k * M >= M
        BY <1>1
    <2> QED
        BY <2>1
<1>2. CASE k <= -1
    <2>1. k * M <= -M
        BY <1>2
    <2> QED
        BY <2>1
<1> QED
    BY <1>1, <1>2

LEMMA Divided ==
    ASSUME NEW M \in Nat \ {0}, NEW x \in Nat
    PROVE  \E q \in Nat : x = q * M + (x % M) /\ x % M \in 0..M - 1
<1>1. x = (x \div M) * M + (x % M) /\ x % M \in 0..M - 1 /\ x \div M \in Nat
    BY SMT
<1> QED
    BY <1>1

LEMMA Remainder ==
    ASSUME NEW M \in Nat \ {0}, NEW x \in Nat, NEW q \in Nat, NEW r \in 0..M - 1, x = q * M + r
    PROVE  x % M = r
<1>1. PICK p \in Nat : x = p * M + (x % M) /\ x % M \in 0..M - 1
    BY Divided
<1>2. PICK k \in Int : k = p - q
    OBVIOUS
<1>3. k * M = p * M - q * M
    BY <1>2
<1>4. -M < k * M /\ k * M < M
    BY <1>1, <1>3
<1>5. k = 0
    BY <1>4, Multiple
<1> QED
    BY <1>1, <1>3, <1>5

LEMMA CountedOn ==
    ASSUME NEW M \in Nat \ {0}, NEW x \in Nat, NEW n \in Nat
    PROVE  ((x % M) + n) % M = (x + n) % M
<1>1. PICK p \in Nat, y \in 0..M - 1 : x = p * M + y /\ y = x % M
    BY Divided
<1>2. y + n \in Nat /\ x + n \in Nat
    BY <1>1
<1>3. PICK q \in Nat, r \in 0..M - 1 : y + n = q * M + r
    BY <1>2, Divided
<1>4. (y + n) % M = r
    BY <1>2, <1>3, Remainder
<1>5. p + q \in Nat /\ x + n = (p + q) * M + r
    BY <1>1, <1>3
<1>6. (x + n) % M = r
    BY <1>2, <1>5, Remainder
<1> QED
    BY <1>1, <1>4, <1>6

\* Fewer than M numbers apart, two remainders differ.
LEMMA Apart ==
    ASSUME NEW M \in Nat \ {0}, NEW x \in Nat, NEW y \in Nat, x < y, y < x + M
    PROVE  x % M # y % M
<1>1. SUFFICES ASSUME x % M = y % M PROVE FALSE
    OBVIOUS
<1>2. PICK p \in Nat, q \in Nat : x = p * M + (x % M) /\ y = q * M + (y % M) /\ x % M \in 0..M - 1
    BY Divided
<1>3. PICK k \in Int : k = q - p
    OBVIOUS
<1>4. k * M = q * M - p * M
    BY <1>3
<1>5. k * M = y - x
    BY <1>1, <1>2, <1>4
<1>6. k = 0
    BY <1>5, Multiple
<1> QED
    BY <1>5, <1>6

-----------------------------------------------------------------------------
(***************************************************************************)
(* The ways to use the queue.                                              *)
(***************************************************************************)
InFrame == pc \in {"queue", "unit", "flush"}

TypeInv ==
    /\ format \in DOMAIN Frames /\ pc \in {"idle", "queue", "unit", "flush", "crashed"}
    /\ IsSeq(pushed) /\ IsSeq(results) /\ IsSeq(wire)
    /\ InFrame => Len(pushed) >= 1 /\ Last(pushed) \in Frames[format]
    /\ pc = "unit" => /\ unit.from \in Int /\ unit.to \in Int
                      /\ unit.more => unit.code.offset \in 0..Len(Data)

Shaped(t) ==
    /\ t = [key |-> t.key, packets |-> t.packets, rtp_headers |-> t.rtp_headers,
            rtphdr_ptr |-> t.rtphdr_ptr, fu_type |-> t.fu_type]
    /\ IsSeq(t.packets)

Takes ==
    /\ pc = "idle" /\ pc' = "queue" /\ init_transaction
    /\ \E r : pushed' = Append(pushed, r)
    /\ UNCHANGED <<results, wire>>

Queues(packets) ==
    /\ InFrame /\ InFrame' /\ IsSeq(packets)
    /\ \E t : (t = active \/ \E type : t = WithHeaders(active, type)) /\ enqueue_message(t, packets)
    /\ UNCHANGED <<pushed, results, wire>>

Looks ==
    /\ (InFrame' <=> InFrame) /\ (pc' = "idle" <=> pc = "idle")
    /\ UNCHANGED <<queueVars, pushed, results, wire>>

Refuses ==
    /\ InFrame /\ pc' = "idle"
    /\ deinit_transaction(queued) /\ UNCHANGED queued
    /\ results' = Append(results, "RTP_INVALID_VALUE")
    /\ UNCHANGED <<pushed, wire>>

Sends(sent) ==
    /\ InFrame /\ pc' \in {"idle", "crashed"}
    /\ IsSeq(sent) /\ Len(sent) <= Len(active.packets)
    /\ \A i \in 1..Len(sent) : sent[i] = OnTheWire(active)[i]
    /\ wire' = wire \o sent
    /\ queued' = queued \cup {active.key} /\ deinit_transaction(queued')
    /\ UNCHANGED pushed
    /\ results' = results \/ \E r \in {"RTP_OK", "RTP_SEND_ERROR"} : results' = Append(results, r)

Way ==
    \/ Takes \/ Looks \/ Refuses
    \/ \E packets : Queues(packets)
    \/ \E sent : Sends(sent)

LEMMA PushedFacts ==
    ASSUME TypeInv, InFrame
    PROVE  /\ Data \in Seq(Nat) /\ Len(Data) \in Nat
           /\ \A offset \in 0..Len(Data) :
                 LET code == find_h26x_start_code(Data, offset) IN
                 code = NotFound \/ (code.offset \in 0..Len(Data) /\ code.start_len \in {3, 4})
           /\ PAYLOAD_SIZE \in Nat /\ PAYLOAD_SIZE > 0
<1>1. PICK r : r = Last(pushed) /\ r \in Frames[format] /\ format \in DOMAIN Frames
    BY DEF TypeInv
<1>2. r.data \in Seq(Nat) /\ PAYLOAD_SIZE \in Nat /\ PAYLOAD_SIZE > 0
    BY <1>1, SendAssumption
<1>3. \A offset \in 0..Len(r.data) :
         LET code == find_h26x_start_code(r.data, offset) IN
         code = NotFound \/ (code.offset \in 0..Len(r.data) /\ code.start_len \in {3, 4})
    BY <1>1, ScanAssumption
<1> QED
    BY <1>1, <1>2, <1>3 DEF Data

LEMMA NextUnitFacts ==
    ASSUME TypeInv, InFrame, NEW from \in Int, NEW offset \in 0..Len(Data),
           NEW u, u = NextUnit(from, offset)
    PROVE  /\ u.from \in Int /\ u.to \in Int
           /\ u.more => u.code.offset \in 0..Len(Data)
<1>1. PICK code : code = find_h26x_start_code(Data, offset)
    OBVIOUS
<1>2. /\ u.from = from /\ u.code = code /\ (u.more <=> code # NotFound)
      /\ u.to = IF code = NotFound THEN Len(Data) ELSE code.offset - code.start_len
    BY <1>1 DEF NextUnit
<1>3. /\ code = NotFound \/ (code.offset \in 0..Len(Data) /\ code.start_len \in {3, 4})
      /\ Len(Data) \in Nat
    BY <1>1, PushedFacts
<1> QED
    BY <1>2, <1>3

LEMMA GoOnFacts ==
    ASSUME TypeInv, pc = "unit", NEW then, GoOn(then), UNCHANGED <<format, pushed>>
    PROVE  /\ InFrame' /\ pc' \in {"unit", "flush"}
           /\ pc' = "unit" => /\ unit'.from \in Int /\ unit'.to \in Int
                              /\ unit'.more => unit'.code.offset \in 0..Len(Data)
<1>1. CASE unit.more
    <2>1. unit.code.offset \in 0..Len(Data) /\ unit.code.offset \in Int /\ InFrame
        BY <1>1, PushedFacts DEF TypeInv, InFrame
    <2> QED
        BY <1>1, <2>1, NextUnitFacts DEF GoOn, InFrame
<1>2. CASE ~unit.more
    BY <1>2 DEF GoOn, InFrame
<1> QED
    BY <1>1, <1>2

\* The frame at hand stays; only where its unit lies may have changed.
LEMMA SameFrame ==
    ASSUME TypeInv, InFrame, UNCHANGED <<format, pushed>>, IsSeq(results'), IsSeq(wire'),
           pc' \in {"idle", "queue", "unit", "flush", "crashed"},
           pc' = "unit" => /\ unit'.from \in Int /\ unit'.to \in Int
                           /\ unit'.more => unit'.code.offset \in 0..Len(Data)
    PROVE  TypeInv'
BY DEF TypeInv, InFrame, Data

LEMMA PushWay ==
    ASSUME TypeInv, NEW r \in Frames[format], push_media_frame(r)
    PROVE  TypeInv' /\ Way
<1>1. /\ pc = "idle" /\ pc' = "queue" /\ init_transaction /\ pushed' = Append(pushed, r)
      /\ UNCHANGED <<format, results, wire>>
    BY DEF push_media_frame
<1>2. IsSeq(pushed') /\ Len(pushed') >= 1 /\ Last(pushed') = r
    BY <1>1, AppendFacts, SeqLen DEF TypeInv, Last
<1>3. TypeInv'
    BY <1>1, <1>2 DEF TypeInv, InFrame
<1>4. Takes
    BY <1>1 DEF Takes
<1> QED
    BY <1>3, <1>4 DEF Way

\* Packets are queued for the frame at hand.
LEMMA QueueingWay ==
    ASSUME TypeInv, InFrame, NEW packets, IsSeq(packets), enqueue_message(active, packets),
           UNCHANGED <<format, pushed, results, wire>>, pc' \in {"unit", "flush"},
           pc' = "unit" => /\ unit'.from \in Int /\ unit'.to \in Int
                           /\ unit'.more => unit'.code.offset \in 0..Len(Data)
    PROVE  TypeInv' /\ Way
<1>1. TypeInv'
    BY SameFrame DEF TypeInv
<1>2. Queues(packets)
    BY DEF Queues, InFrame
<1> QED
    BY <1>1, <1>2 DEF Way

LEMMA GenericWay ==
    ASSUME TypeInv, push_generic
    PROVE  TypeInv' /\ Way
<1>1. /\ pc = "queue" /\ pc' = "flush" /\ UNCHANGED <<format, pushed, results, wire>>
      /\ InFrame
    BY DEF push_generic, InFrame
<1>2. PICK n : n = (Len(Data) + PAYLOAD_SIZE - 1) \div PAYLOAD_SIZE
    OBVIOUS
<1>3. n \in Nat
    <2>1. PAYLOAD_SIZE \in Nat /\ PAYLOAD_SIZE > 0 /\ Len(Data) \in Nat
        BY <1>1, PushedFacts
    <2>2. PICK l \in Nat, x \in Nat : l = Len(Data) /\ x = l + PAYLOAD_SIZE - 1
        BY <2>1
    <2>3. x \div PAYLOAD_SIZE \in Nat
        BY <2>1, <2>2
    <2> QED
        BY <1>2, <2>2, <2>3
<1>4. PICK ps : /\ ps = [i \in 1..n |->
                           Packet("SINGLE", "WHOLE",
                                  <<Piece((i - 1) * PAYLOAD_SIZE,
                                          IF i = n THEN Len(Data) ELSE i * PAYLOAD_SIZE)>>,
                                  n > 1 /\ i \in {1, n})]
                /\ enqueue_message(active, ps)
    BY <1>2 DEF push_generic
<1>5. IsSeq(ps)
    BY <1>3, <1>4, FunctionIsSeq
<1> QED
    BY <1>1, <1>4, <1>5, QueueingWay

LEMMA ShortWay ==
    ASSUME TypeInv, push_h26x_short
    PROVE  TypeInv' /\ Way
<1>1. /\ pc' = "flush" /\ UNCHANGED <<format, pushed, results, wire>> /\ InFrame
      /\ \E p : enqueue_message(active, <<p>>)
    BY DEF push_h26x_short, InFrame
<1> QED
    BY <1>1, TupleIsSeq, QueueingWay

\* Nothing is queued yet.
LEMMA LookingWay ==
    ASSUME TypeInv, push_h26x_slice \/ push_h26x_frame \/ push_nal_unit_aggregates
    PROVE  TypeInv' /\ Way
<1>1. /\ InFrame /\ pc' \in {"unit", "flush"}
      /\ UNCHANGED <<format, pushed, results, queueVars, wire>>
    BY DEF push_h26x_slice, push_h26x_frame, push_nal_unit_aggregates, GoOn, InFrame
<1>2. Looks
    BY <1>1 DEF Looks, InFrame
<1>3. PICK code : code = find_h26x_start_code(Data, 0)
    OBVIOUS
<1>4. /\ code = NotFound \/ (code.offset \in 0..Len(Data) /\ code.start_len \in {3, 4})
      /\ Len(Data) \in Nat
    <2>1. 0 \in 0..Len(Data)
        BY <1>1, PushedFacts
    <2> QED
        BY <1>1, <1>3, <2>1, PushedFacts
<1>5. pc' = "unit" => /\ unit'.from \in Int /\ unit'.to \in Int
                      /\ unit'.more => unit'.code.offset \in 0..Len(Data)
    <2>1. CASE push_h26x_slice
        <3>1. PICK r_off : /\ r_off = IF code = NotFound THEN 0 ELSE code.offset
                           /\ unit' = [from |-> r_off, to |-> r_off + Len(Data), more |-> FALSE,
                                       code |-> NotFound]
            BY <1>3, <2>1 DEF push_h26x_slice
        <3> QED
            BY <1>4, <3>1
    <2>2. CASE push_h26x_frame
        <3>1. unit' = IF code = NotFound
                      THEN [from |-> 0, to |-> Len(Data), more |-> FALSE, code |-> NotFound]
                      ELSE NextUnit(code.offset, code.offset)
            BY <1>3, <2>2 DEF push_h26x_frame
        <3>2. CASE code = NotFound
            BY <1>4, <3>1, <3>2
        <3>3. CASE code # NotFound
            BY <1>1, <1>4, <3>1, <3>3, NextUnitFacts
        <3> QED
            BY <3>2, <3>3
    <2>3. CASE push_nal_unit_aggregates
        BY <1>1, <2>3, GoOnFacts DEF push_nal_unit_aggregates
    <2> QED
        BY <2>1, <2>2, <2>3
<1>6. TypeInv'
    BY <1>1, <1>5, SameFrame DEF TypeInv
<1> QED
    BY <1>2, <1>6 DEF Way

LEMMA InvalidWay ==
    ASSUME TypeInv, push_nal_unit_invalid
    PROVE  TypeInv' /\ Way
<1>1. /\ InFrame /\ pc' = "idle" /\ UNCHANGED <<format, pushed, wire, queued>>
      /\ deinit_transaction(queued) /\ results' = Append(results, "RTP_INVALID_VALUE")
    BY DEF push_nal_unit_invalid, InFrame
<1>2. TypeInv'
    BY <1>1, AppendFacts, SameFrame DEF TypeInv
<1>3. Refuses
    BY <1>1 DEF Refuses
<1> QED
    BY <1>2, <1>3 DEF Way

LEMMA UnitWay ==
    ASSUME TypeInv, push_nal_unit_single \/ make_aggregation_pkt
    PROVE  TypeInv' /\ Way
<1>1. /\ InFrame /\ pc = "unit" /\ UNCHANGED <<format, pushed, results, wire>>
      /\ \E p : enqueue_message(active, <<p>>)
      /\ \E then : GoOn(then)
    BY DEF push_nal_unit_single, make_aggregation_pkt, InFrame
<1>2. /\ pc' \in {"unit", "flush"}
      /\ pc' = "unit" => /\ unit'.from \in Int /\ unit'.to \in Int
                         /\ unit'.more => unit'.code.offset \in 0..Len(Data)
    BY <1>1, GoOnFacts
<1> QED
    BY <1>1, <1>2, TupleIsSeq, QueueingWay

LEMMA WaitingUnitWay ==
    ASSUME TypeInv, make_aggregation_pkt_single
    PROVE  TypeInv' /\ Way
<1>1. /\ pc' = "flush" /\ InFrame /\ Len(nalus) = 1
      /\ UNCHANGED <<format, pushed, results, wire>>
      /\ enqueue_message(active, <<Packet("SINGLE", "WHOLE", nalus, FALSE)>>)
    BY DEF make_aggregation_pkt_single, InFrame
<1> QED
    BY <1>1, TupleIsSeq, QueueingWay

LEMMA LargeUnitWay ==
    ASSUME TypeInv, NEW forgets, push_large_unit(forgets)
    PROVE  TypeInv' /\ Way
<1>1. /\ InFrame /\ pc = "unit" /\ UNCHANGED <<format, pushed, results, wire>> /\ ~Small
      /\ GoOn("return")
      /\ \E waiting : /\ waiting = <<>> \/ \E p : waiting = <<p>>
                      /\ enqueue_message(WithHeaders(active, Type), waiting \o Fragments)
    BY DEF push_large_unit, InFrame
<1>2. IsSeq(Fragments)
    <2>1. PICK n : n = (UnitLen - NAL_HDR + PAYLOAD_SIZE - 1) \div PAYLOAD_SIZE
        OBVIOUS
    <2>2. n \in Nat
        <3>1. PAYLOAD_SIZE \in Nat /\ PAYLOAD_SIZE > 0
            BY <1>1, PushedFacts
        <3>2. UnitLen \in Int /\ NAL_HDR \in {1, 2}
            BY <1>1 DEF TypeInv, UnitLen, NAL_HDR
        <3>3. PICK x \in Nat : x = UnitLen - NAL_HDR + PAYLOAD_SIZE - 1
            BY <1>1, <3>1, <3>2 DEF Small
        <3>4. x \div PAYLOAD_SIZE \in Nat
            <4>1. 0 + 1 = 1 /\ ~(1 < 1)
                OBVIOUS
            <4> QED
                BY <3>1, <3>3, <4>1
        <3> QED
            BY <2>1, <3>3, <3>4
    <2>3. \E f : Fragments = [i \in 1..n |-> f[i]]
        <3>1. PICK f : f = [i \in 1..n |->
                Packet("FRAG", IF i = n THEN "END" ELSE IF i = 1 THEN "START" ELSE "MIDDLE",
                       <<Piece(unit.from + NAL_HDR + (i - 1) * PAYLOAD_SIZE,
                               IF i = n THEN unit.to
                               ELSE unit.from + NAL_HDR + ((i + 1) - 1) * PAYLOAD_SIZE)>>, FALSE)]
            OBVIOUS
        <3>2. Fragments = f
            BY <2>1, <3>1 DEF Fragments
        <3>3. f = [i \in 1..n |-> f[i]]
            BY <3>1
        <3> QED
            BY <3>2, <3>3
    <2> QED
        BY <2>2, <2>3, FunctionIsSeq
<1>3. PICK waiting : /\ waiting = <<>> \/ \E p : waiting = <<p>>
                     /\ enqueue_message(WithHeaders(active, Type), waiting \o Fragments)
    BY <1>1
<1>4. IsSeq(waiting \o Fragments)
    BY <1>2, <1>3, TupleIsSeq, ConcatFacts
<1>5. /\ InFrame' /\ pc' \in {"unit", "flush"}
      /\ pc' = "unit" => /\ unit'.from \in Int /\ unit'.to \in Int
                         /\ unit'.more => unit'.code.offset \in 0..Len(Data)
    BY <1>1, GoOnFacts
<1>6. Queues(waiting \o Fragments)
    BY <1>1, <1>3, <1>4, <1>5 DEF Queues
<1>7. TypeInv'
    BY <1>1, <1>5, SameFrame DEF TypeInv
<1> QED
    BY <1>6, <1>7 DEF Way

LEMMA ReturnFacts ==
    ASSUME TypeInv, NEW result, Return(result)
    PROVE  /\ pc' \in {"idle", "crashed"} /\ IsSeq(results')
           /\ results' = results \/ results' = Append(results, result)
<1>1. IsSeq(results) /\ IsSeq(Append(results, result))
    BY AppendFacts DEF TypeInv
<1>2. results' = results \/ results' = Append(results, result)
    BY DEF Return
<1>3. pc' \in {"idle", "crashed"}
    BY DEF Return
<1> QED
    BY <1>1, <1>2, <1>3

LEMMA FlushWay ==
    ASSUME TypeInv, Shaped(active), flush_queue \/ flush_queue_fails
    PROVE  TypeInv' /\ Way /\ \E sent : Sends(sent)
<1>1. PICK out : out = OnTheWire(active)
    OBVIOUS
<1>2. IsSeq(out) /\ Len(out) = Len(active.packets) /\ Len(active.packets) \in Nat
    <2>1. Len(active.packets) \in Nat
        BY SeqLen DEF Shaped
    <2>2. out = [i \in 1..Len(active.packets) |-> out[i]]
        BY <1>1 DEF OnTheWire
    <2> QED
        BY <2>1, <2>2, FunctionIsSeq
<1>3. \E sent : /\ IsSeq(sent) /\ Len(sent) <= Len(active.packets)
                /\ \A i \in 1..Len(sent) : sent[i] = out[i]
                /\ wire' = wire \o sent
    <2>1. CASE flush_queue
        <3>1. wire' = wire \o out
            BY <1>1, <2>1 DEF flush_queue
        <3> HIDE DEF OnTheWire
        <3> WITNESS out
        <3> QED
            BY <1>2, <3>1
    <2>2. CASE flush_queue_fails
        <3>1. PICK n \in 0..Len(out) : wire' = wire \o SubSeq(out, 1, n)
            BY <1>1, <1>2, <2>2 DEF flush_queue_fails, SentBeforeFailure
        <3>2. /\ IsSeq(SubSeq(out, 1, n)) /\ Len(SubSeq(out, 1, n)) <= Len(active.packets)
              /\ \A i \in 1..Len(SubSeq(out, 1, n)) : SubSeq(out, 1, n)[i] = out[i]
            BY <1>2, FirstsFacts
        <3> WITNESS SubSeq(out, 1, n)
        <3> QED
            BY <3>1, <3>2
    <2> QED
        BY <2>1, <2>2
<1>4. /\ InFrame /\ UNCHANGED <<format, pushed>>
      /\ queued' = queued \cup {active.key} /\ deinit_transaction(queued')
      /\ \E r \in {"RTP_OK", "RTP_SEND_ERROR"} : Return(r)
    BY DEF flush_queue, flush_queue_fails, InFrame
<1>5. PICK sent : /\ IsSeq(sent) /\ Len(sent) <= Len(active.packets)
                  /\ \A i \in 1..Len(sent) : sent[i] = out[i]
                  /\ wire' = wire \o sent
    BY <1>3
<1>6. /\ pc' \in {"idle", "crashed"} /\ IsSeq(results')
      /\ results' = results \/ \E r \in {"RTP_OK", "RTP_SEND_ERROR"} : results' = Append(results, r)
    BY <1>4, ReturnFacts
<1>7. IsSeq(wire')
    BY <1>5, ConcatFacts DEF TypeInv
<1>8. TypeInv'
    BY <1>4, <1>6, <1>7, SameFrame
<1>9. Sends(sent)
    BY <1>1, <1>4, <1>5, <1>6 DEF Sends
<1> QED
    BY <1>8, <1>9 DEF Way

LEMMA Ways ==
    ASSUME TypeInv, InFrame => Shaped(active), [Next]_vars
    PROVE  TypeInv' /\ Way
<1>1. CASE UNCHANGED vars
    BY <1>1 DEF vars, queueVars, TypeInv, InFrame, Data, Looks, Way
<1>2. flush_queue \/ flush_queue_fails => InFrame
    BY DEF flush_queue, flush_queue_fails, InFrame
<1> QED
    BY <1>1, <1>2, PushWay, GenericWay, ShortWay, LookingWay, InvalidWay, UnitWay, WaitingUnitWay,
       LargeUnitWay, FlushWay
    DEF Next, push_nal_unit_264, push_nal_unit_265, push_nal_unit_266

-----------------------------------------------------------------------------
(***************************************************************************)
(* The transactions: each is free or active, and no two have one key.      *)
(***************************************************************************)
Keys == {free[i].key : i \in 1..Len(free)}

TransactionsInv ==
    /\ made \in Nat /\ queued \subseteq 1..made
    /\ IsSeq(free)
    /\ \A i \in 1..Len(free) :
          Shaped(free[i]) /\ (free[i].key \in queued => free[i].packets = <<>>)
    /\ \A i, j \in 1..Len(free) : free[i].key = free[j].key => i = j
    /\ IF InFrame
       THEN /\ Shaped(active) /\ active.key \in 1..made \ Keys
            /\ Len(free) = made - 1 /\ Keys \cup {active.key} = 1..made
       ELSE active = NoTransaction /\ Len(free) = made /\ Keys = 1..made

\* What enqueue_message() adds to a transaction.
More(t, packets) ==
    [i \in 1..Len(packets) |-> [slot |-> t.rtphdr_ptr + i - 1, bytes |-> packets[i]]]
Headers(t, packets, first) ==
    [slot \in t.rtphdr_ptr..t.rtphdr_ptr + Len(packets) - 1 |->
       [seq |-> (first + slot - t.rtphdr_ptr) % SEQ_MOD,
        marker |-> packets[slot - t.rtphdr_ptr + 1].marker]]

LEMMA MoreIsSeq ==
    ASSUME NEW t, NEW packets, IsSeq(packets)
    PROVE  IsSeq(More(t, packets)) /\ Len(More(t, packets)) = Len(packets)
<1>1. Len(packets) \in Nat
    BY SeqLen
<1>2. PICK more : more = More(t, packets)
    OBVIOUS
<1>3. more = [i \in 1..Len(packets) |-> more[i]]
    BY <1>2 DEF More
<1> QED
    BY <1>1, <1>2, <1>3, FunctionIsSeq

LEMMA ExtendedIs ==
    ASSUME NEW t, Shaped(t), NEW packets, IsSeq(packets), NEW first,
           NEW g, g = Extended(t, packets, first)
    PROVE  /\ Shaped(g) /\ g.key = t.key
           /\ g.packets = t.packets \o More(t, packets)
           /\ g.rtphdr_ptr = t.rtphdr_ptr + Len(packets)
           /\ g.rtp_headers = With(t.rtp_headers, Headers(t, packets, first))
<1>1. IsSeq(t.packets \o More(t, packets))
    BY MoreIsSeq, ConcatFacts DEF Shaped
<1>2. g = [t EXCEPT !.packets = t.packets \o More(t, packets),
                    !.rtp_headers = With(t.rtp_headers, Headers(t, packets, first)),
                    !.rtphdr_ptr = t.rtphdr_ptr + Len(packets)]
    BY DEF Extended, More, Headers
<1>3. g = [key |-> t.key, packets |-> t.packets \o More(t, packets),
           rtp_headers |-> With(t.rtp_headers, Headers(t, packets, first)),
           rtphdr_ptr |-> t.rtphdr_ptr + Len(packets), fu_type |-> t.fu_type]
    BY <1>2 DEF Shaped
<1> QED
    BY <1>1, <1>3 DEF Shaped

LEMMA WithHeadersIs ==
    ASSUME NEW t, Shaped(t), NEW type, NEW g, g = WithHeaders(t, type)
    PROVE  /\ Shaped(g) /\ g.key = t.key /\ g.packets = t.packets
           /\ g.rtp_headers = t.rtp_headers /\ g.rtphdr_ptr = t.rtphdr_ptr
<1>1. g = [key |-> t.key, packets |-> t.packets, rtp_headers |-> t.rtp_headers,
           rtphdr_ptr |-> t.rtphdr_ptr, fu_type |-> type]
    BY DEF WithHeaders, Shaped
<1> QED
    BY <1>1 DEF Shaped

LEMMA TransactionsInit == Init => TransactionsInv
<1> SUFFICES ASSUME Init PROVE TransactionsInv
    OBVIOUS
<1>1. /\ free = <<>> /\ queued = {} /\ made = 0 /\ active = NoTransaction /\ pc = "idle"
      /\ Len(free) = 0 /\ IsSeq(free)
    BY TupleIsSeq DEF Init
<1> QED
    BY <1>1 DEF TransactionsInv, InFrame, Keys

LEMMA TakesKeeps ==
    ASSUME TransactionsInv, Takes
    PROVE  TransactionsInv'
<1>1. /\ pc = "idle" /\ pc' = "queue" /\ ~InFrame /\ InFrame' /\ UNCHANGED queued
      /\ init_transaction
    BY DEF Takes, init_transaction, InFrame
<1>2. CASE free = <<>>
    <2>1. /\ active' = [key |-> made + 1, packets |-> <<>>, rtp_headers |-> <<>>,
                        rtphdr_ptr |-> 0, fu_type |-> 0]
          /\ made' = made + 1 /\ free' = free
        BY <1>1, <1>2 DEF init_transaction
    <2>2. made \in Nat /\ Len(free) = made /\ Keys = 1..made /\ Keys' = Keys
        BY <1>1, <2>1 DEF TransactionsInv, Keys
    <2>3. Shaped(active')
        BY <2>1, TupleIsSeq DEF Shaped
    <2>4. 1..made' = 1..made \cup {made + 1} /\ made + 1 \notin 1..made
        BY <2>1, <2>2
    <2> QED
        BY <1>1, <2>1, <2>2, <2>3, <2>4 DEF TransactionsInv, Shaped
<1>3. CASE free # <<>>
    <2>1. active' = [Last(free) EXCEPT !.rtphdr_ptr = 0] /\ free' = Front(free) /\ made' = made
        BY <1>1, <1>3 DEF init_transaction
    <2>2. made \in Nat /\ Len(free) = made /\ Keys = 1..made /\ IsSeq(free)
        BY <1>1 DEF TransactionsInv
    <2>3. /\ IsSeq(free') /\ Len(free') = made - 1 /\ made >= 1
          /\ \A i \in 1..made - 1 : free'[i] = free[i]
          /\ Last(free) = free[made]
        BY <1>3, <2>1, <2>2, FrontFacts
    <2>4. PICK t : t = Last(free) /\ Shaped(t) /\ t.key \in 1..made
        <3>1. made \in 1..made
            BY <2>2, <2>3
        <3> QED
            BY <2>2, <2>3, <3>1 DEF TransactionsInv, Keys
    <2>5. Shaped(active') /\ active'.key = t.key
        <3>1. active' = [key |-> t.key, packets |-> t.packets, rtp_headers |-> t.rtp_headers,
                         rtphdr_ptr |-> 0, fu_type |-> t.fu_type]
            BY <2>1, <2>4 DEF Shaped
        <3> QED
            BY <2>4, <3>1 DEF Shaped
    <2>6. Keys' = {free[i].key : i \in 1..made - 1}
        BY <2>3 DEF Keys
    <2>7. 1..made = (1..made - 1) \cup {made} /\ made \notin 1..made - 1
        BY <2>2, <2>3
    <2>8. Keys' = Keys \ {t.key}
        <3>1. \A i \in 1..made - 1 : free[i].key # t.key
            BY <2>2, <2>3, <2>4, <2>7 DEF TransactionsInv
        <3>2. Keys = Keys' \cup {t.key}
            BY <2>2, <2>3, <2>4, <2>6, <2>7 DEF Keys
        <3> QED
            BY <2>6, <3>1, <3>2
    <2>9. \A i \in 1..Len(free') : Shaped(free'[i]) /\ (free'[i].key \in queued => free'[i].packets = <<>>)
        BY <2>2, <2>3, <2>7 DEF TransactionsInv
    <2>10. \A i, j \in 1..Len(free') : free'[i].key = free'[j].key => i = j
        BY <2>2, <2>3, <2>7 DEF TransactionsInv
    <2> QED
        BY <1>1, <2>1, <2>2, <2>3, <2>4, <2>5, <2>8, <2>9, <2>10 DEF TransactionsInv, Shaped
<1> QED
    BY <1>2, <1>3

LEMMA QueuesKeeps ==
    ASSUME TransactionsInv, NEW packets, Queues(packets)
    PROVE  TransactionsInv'
<1>1. InFrame /\ InFrame' /\ IsSeq(packets) /\ Shaped(active)
    BY DEF Queues, TransactionsInv
<1>2. PICK t : (t = active \/ \E type : t = WithHeaders(active, type)) /\ enqueue_message(t, packets)
    BY DEF Queues
<1>3. Shaped(t) /\ t.key = active.key
    BY <1>1, <1>2, WithHeadersIs
<1>4. Shaped(active') /\ active'.key = active.key /\ UNCHANGED <<free, queued, made>>
    <2>1. active' = Extended(t, packets, seq) /\ UNCHANGED <<free, queued, made>>
        BY <1>2 DEF enqueue_message
    <2>2. Shaped(Extended(t, packets, seq)) /\ Extended(t, packets, seq).key = t.key
        BY <1>1, <1>3, ExtendedIs
    <2> QED
        BY <1>3, <2>1, <2>2
<1>5. Keys' = Keys
    BY <1>4 DEF Keys
<1> QED
    BY <1>1, <1>4, <1>5 DEF TransactionsInv, Shaped

LEMMA GivenBackKeeps ==
    ASSUME TransactionsInv, InFrame, ~InFrame', NEW known, known \in {queued, queued \cup {active.key}},
           queued' = known, deinit_transaction(known)
    PROVE  TransactionsInv'
<1>1. PICK t : /\ t = IF active.key \in known THEN [active EXCEPT !.packets = <<>>] ELSE active
               /\ free' = Append(free, t) /\ active' = NoTransaction /\ made' = made
    BY DEF deinit_transaction
<1>2. /\ made \in Nat /\ IsSeq(free) /\ Len(free) = made - 1
      /\ Shaped(active) /\ active.key \in 1..made \ Keys /\ Keys \cup {active.key} = 1..made
    BY DEF TransactionsInv
<1>3. /\ IsSeq(free') /\ Len(free') = made
      /\ \A i \in 1..made - 1 : free'[i] = free[i]
      /\ free'[made] = t
    <2>1. Len(free) + 1 = made
        BY <1>2
    <2> QED
        BY <1>1, <1>2, <2>1, AppendFacts
<1>4. /\ Shaped(t) /\ t.key = active.key
      /\ t.key \in known => t.packets = <<>>
    <2>1. CASE active.key \in known
        <3>1. t = [key |-> active.key, packets |-> <<>>, rtp_headers |-> active.rtp_headers,
                   rtphdr_ptr |-> active.rtphdr_ptr, fu_type |-> active.fu_type]
            BY <1>1, <1>2, <2>1 DEF Shaped
        <3> QED
            BY <3>1, TupleIsSeq DEF Shaped
    <2>2. CASE active.key \notin known
        BY <1>1, <1>2, <2>2
    <2> QED
        BY <2>1, <2>2
<1>5. 1..made = (1..made - 1) \cup {made} /\ made \notin 1..made - 1
    BY <1>2
<1>6. \A i \in 1..made - 1 : free[i].key \in Keys
    BY <1>2 DEF Keys
<1>7. Keys' = Keys \cup {active.key}
    <2>1. Keys' = {free'[i].key : i \in 1..made}
        BY <1>3 DEF Keys
    <2>2. Keys = {free[i].key : i \in 1..made - 1}
        BY <1>2 DEF Keys
    <2> QED
        BY <1>3, <1>4, <1>5, <2>1, <2>2
<1>8. \A i \in 1..Len(free') : Shaped(free'[i]) /\ (free'[i].key \in queued' => free'[i].packets = <<>>)
    <2>1. ASSUME NEW i \in 1..made - 1
          PROVE  Shaped(free'[i]) /\ (free'[i].key \in queued' => free'[i].packets = <<>>)
        <3>1. Shaped(free[i]) /\ (free[i].key \in queued => free[i].packets = <<>>) /\ free'[i] = free[i]
            BY <1>2, <1>3, <2>1 DEF TransactionsInv
        <3>2. free[i].key # active.key
            BY <1>2, <1>6
        <3> QED
            BY <3>1, <3>2
    <2> QED
        BY <1>3, <1>4, <1>5, <2>1
<1>9. \A i, j \in 1..Len(free') : free'[i].key = free'[j].key => i = j
    <2>1. \A i, j \in 1..made - 1 : free'[i].key = free'[j].key => i = j
        BY <1>2, <1>3 DEF TransactionsInv
    <2>2. \A i \in 1..made - 1 : free'[i].key # free'[made].key
        BY <1>2, <1>3, <1>4, <1>6
    <2> QED
        BY <1>3, <1>5, <2>1, <2>2
<1>10. queued' \subseteq 1..made'
    BY <1>1, <1>2 DEF TransactionsInv
<1> QED
    BY <1>1, <1>2, <1>3, <1>7, <1>8, <1>9, <1>10 DEF TransactionsInv, Shaped

LEMMA TransactionsStep ==
    ASSUME TransactionsInv, Way
    PROVE  TransactionsInv'
<1>1. CASE Looks
    BY <1>1 DEF Looks, queueVars, TransactionsInv, Keys, Shaped
<1>2. CASE Refuses
    <2>1. InFrame /\ ~InFrame'
        BY <1>2 DEF Refuses, InFrame
    <2> QED
        BY <1>2, <2>1, GivenBackKeeps DEF Refuses
<1>3. ASSUME NEW sent, Sends(sent) PROVE TransactionsInv'
    <2>1. InFrame /\ ~InFrame'
        BY <1>3 DEF Sends, InFrame
    <2> QED
        BY <1>3, <2>1, GivenBackKeeps DEF Sends
<1> QED
    BY <1>1, <1>2, <1>3, TakesKeeps, QueuesKeeps DEF Way

LEMMA TypeInit == Init => TypeInv
BY TupleIsSeq DEF Init, TypeInv, InFrame

LEMMA TransactionsInvariance == Spec => [](TypeInv /\ TransactionsInv)
<1>1. Init => TypeInv /\ TransactionsInv
    BY TypeInit, TransactionsInit
<1>2. TypeInv /\ TransactionsInv /\ [Next]_vars => (TypeInv /\ TransactionsInv)'
    <2> SUFFICES ASSUME TypeInv, TransactionsInv, [Next]_vars PROVE (TypeInv /\ TransactionsInv)'
        OBVIOUS
    <2>1. InFrame => Shaped(active)
        BY DEF TransactionsInv
    <2>2. TypeInv' /\ Way
        BY <2>1, Ways
    <2> QED
        BY <2>2, TransactionsStep
<1> QED
    BY <1>1, <1>2, PTL DEF Spec

\* queue.cc, init_transaction() and deinit_transaction(): whatever is pushed and whatever
\* fails, between two frames every transaction ever made is free, once, and one that has
\* come as far as the socket holds no packets.
THEOREM TransactionsAreKept == Spec => []TransactionsKept
<1>1. TypeInv /\ TransactionsInv => TransactionsKept
    <2> SUFFICES ASSUME TransactionsInv PROVE TransactionsKept
        OBVIOUS
    <2>1. pc = "idle" => ~InFrame
        BY DEF InFrame
    <2> QED
        BY <2>1 DEF TransactionsInv, TransactionsKept, Keys
<1> QED
    BY <1>1, TransactionsInvariance, PTL

-----------------------------------------------------------------------------
(***************************************************************************)
(* The numbers: nth[i] tells how many packets had been given a number      *)
(* before the i-th on the wire. What an active transaction holds got the   *)
(* last ones, and none of it has been sent.                                *)
(***************************************************************************)
Held == IF InFrame THEN Len(active.packets) ELSE 0

Numbered(first, nth) ==
    /\ seq = (first + numbered) % SEQ_MOD
    /\ \A i \in 1..Len(wire) :
          wire[i].seq = (first + nth[i]) % SEQ_MOD /\ nth[i] < numbered - Held
    /\ \A i, j \in 1..Len(wire) : i < j =>
          nth[i] < nth[j] /\ (wire[i].frame = wire[j].frame => nth[j] = nth[i] + (j - i))
    /\ InFrame => \A i \in 1..Len(active.packets) :
          /\ active.packets[i].slot = i - 1 /\ i - 1 \in DOMAIN active.rtp_headers
          /\ active.rtp_headers[i - 1].seq = (first + ((numbered - Held) + (i - 1))) % SEQ_MOD

NumbersInv ==
    /\ numbered \in Nat
    /\ \A i \in 1..Len(wire) :
          wire[i].frame \in 0..Len(pushed) /\ (InFrame => wire[i].frame # Len(pushed))
    /\ NoneRefused =>
          /\ \A i \in 1..Len(free) : free[i].packets = <<>>
          /\ InFrame => active.rtphdr_ptr = Len(active.packets) /\ Len(active.packets) <= numbered
          /\ \E first \in 0..SEQ_MOD - 1 : \E nth \in [1..Len(wire) -> Nat] : Numbered(first, nth)

LEMMA Modulus == SEQ_MOD \in Nat \ {0} /\ \A first \in FirstSeqs : first \in 0..SEQ_MOD - 1
BY SendAssumption

LEMMA NumbersInit == Init => NumbersInv
<1> SUFFICES ASSUME Init PROVE NumbersInv
    OBVIOUS
<1>1. /\ seq \in 0..SEQ_MOD - 1 /\ numbered = 0 /\ Len(wire) = 0 /\ Len(free) = 0 /\ ~InFrame
    BY Modulus DEF Init, InFrame
<1>2. (seq + numbered) % SEQ_MOD = seq
    <2>1. seq \in Nat /\ seq + numbered = seq /\ seq = 0 * SEQ_MOD + seq
        BY <1>1, Modulus
    <2> QED
        BY <1>1, <2>1, Modulus, Remainder
<1>3. PICK nth \in [1..Len(wire) -> Nat] : nth = [i \in 1..Len(wire) |-> 0]
    OBVIOUS
<1>4. Numbered(seq, nth)
    BY <1>1, <1>2 DEF Numbered
<1>5. \E first \in 0..SEQ_MOD - 1 : \E n \in [1..Len(wire) -> Nat] : Numbered(first, n)
    BY <1>1, <1>3, <1>4
<1>6. \A i \in 1..Len(wire) : FALSE
    BY <1>1
<1>7. \A i \in 1..Len(free) : FALSE
    BY <1>1
<1>8. numbered \in Nat
    BY <1>1
<1> QED
    BY <1>1, <1>5, <1>6, <1>7, <1>8 DEF NumbersInv

LEMMA NumbersMeanOnce ==
    ASSUME NumbersInv, IsSeq(wire)
    PROVE  NumberedOnce
<1>1. SUFFICES ASSUME NoneRefused, NEW i \in 1..Len(wire), NEW j \in 1..Len(wire), i < j
               PROVE  /\ numbered <= SEQ_MOD => wire[i].seq # wire[j].seq
                      /\ wire[i].frame = wire[j].frame => wire[j].seq = (wire[i].seq + j - i) % SEQ_MOD
    BY DEF NumberedOnce
<1>2. PICK first \in 0..SEQ_MOD - 1, nth \in [1..Len(wire) -> Nat] : Numbered(first, nth)
    BY <1>1 DEF NumbersInv
<1>3. /\ SEQ_MOD \in Nat \ {0} /\ numbered \in Nat /\ Held \in Nat
      /\ first \in Nat /\ first < SEQ_MOD /\ nth[i] \in Nat /\ nth[j] \in Nat /\ Len(wire) \in Nat
    <2>1. Held \in Nat
        BY <1>1 DEF NumbersInv, Held
    <2> QED
        BY <1>2, <2>1, Modulus, SeqLen DEF NumbersInv
<1>4. PICK x \in Nat, y \in Nat, n \in Nat :
         x = first + nth[i] /\ y = first + nth[j] /\ n = j - i
    BY <1>1, <1>3
<1>5. /\ wire[i].seq = x % SEQ_MOD /\ wire[j].seq = y % SEQ_MOD
      /\ nth[i] < nth[j] /\ nth[j] < numbered - Held
      /\ wire[i].frame = wire[j].frame => nth[j] = nth[i] + (j - i)
    BY <1>1, <1>2, <1>4 DEF Numbered
<1>6. numbered <= SEQ_MOD => wire[i].seq # wire[j].seq
    <2>1. SUFFICES ASSUME numbered <= SEQ_MOD PROVE wire[i].seq # wire[j].seq
        OBVIOUS
    <2>2. PICK c \in Nat, d \in Nat : c = nth[i] /\ d = nth[j]
        BY <1>3
    <2>3. d < numbered /\ c < d
        BY <1>3, <1>5, <2>2
    <2>4. x < y /\ y < x + SEQ_MOD
        BY <1>3, <1>4, <2>1, <2>2, <2>3
    <2> QED
        BY <1>3, <1>5, <2>4, Apart
<1>7. ASSUME wire[i].frame = wire[j].frame
      PROVE  wire[j].seq = (wire[i].seq + j - i) % SEQ_MOD
    <2>1. y = x + n
        BY <1>1, <1>3, <1>4, <1>5, <1>7
    <2>2. ((x % SEQ_MOD) + n) % SEQ_MOD = y % SEQ_MOD
        BY <1>3, <2>1, CountedOn
    <2>3. (x % SEQ_MOD) + n = (x % SEQ_MOD) + j - i
        <3>1. x % SEQ_MOD \in Nat
            BY <1>3
        <3> QED
            BY <1>1, <1>3, <1>4, <3>1
    <2> QED
        BY <1>5, <2>2, <2>3
<1> QED
    BY <1>6, <1>7

LEMMA TakesNumbers ==
    ASSUME TypeInv, TransactionsInv, NumbersInv, Takes
    PROVE  NumbersInv'
<1>1. /\ ~InFrame /\ InFrame' /\ UNCHANGED <<seq, numbered, results, wire>> /\ init_transaction
      /\ \E r : pushed' = Append(pushed, r)
    BY DEF Takes, init_transaction, InFrame
<1>2. Len(pushed) \in Nat /\ Len(pushed') = Len(pushed) + 1
    BY <1>1, AppendFacts, SeqLen DEF TypeInv
<1>3. NoneRefused' <=> NoneRefused
    BY <1>1 DEF NoneRefused
<1>4. ASSUME \A i \in 1..Len(free) : free[i].packets = <<>>
      PROVE  /\ \A i \in 1..Len(free') : free'[i].packets = <<>>
             /\ active'.packets = <<>> /\ active'.rtphdr_ptr = 0
    <2>1. CASE free = <<>>
        BY <1>1, <1>4, <2>1 DEF init_transaction
    <2>2. CASE free # <<>>
        <3>1. active' = [Last(free) EXCEPT !.rtphdr_ptr = 0] /\ free' = Front(free)
            BY <1>1, <2>2 DEF init_transaction
        <3>2. /\ Len(free) \in Nat /\ Len(free) >= 1 /\ Len(free') = Len(free) - 1
              /\ \A i \in 1..Len(free) - 1 : free'[i] = free[i]
              /\ Last(free) = free[Len(free)]
            BY <2>2, <3>1, FrontFacts, SeqLen DEF TransactionsInv
        <3>3. Len(free) \in 1..Len(free) /\ \A i \in 1..Len(free) - 1 : i \in 1..Len(free)
            BY <3>2
        <3>4. PICK t : t = Last(free) /\ Shaped(t) /\ t.packets = <<>>
            BY <1>4, <3>2, <3>3 DEF TransactionsInv
        <3>5. active' = [key |-> t.key, packets |-> t.packets, rtp_headers |-> t.rtp_headers,
                         rtphdr_ptr |-> 0, fu_type |-> t.fu_type]
            BY <3>1, <3>4 DEF Shaped
        <3> QED
            BY <1>4, <3>2, <3>3, <3>4, <3>5
    <2> QED
        BY <2>1, <2>2
<1>5. ASSUME NEW first, NEW nth, Numbered(first, nth), active'.packets = <<>>
      PROVE  Numbered(first, nth)'
    <2>1. Len(active'.packets) = 0 /\ Held = 0 /\ Held' = 0
        BY <1>1, <1>5 DEF Held
    <2> QED
        BY <1>1, <1>5, <2>1 DEF Numbered
<1>6. ASSUME NoneRefused
      PROVE  /\ \A i \in 1..Len(free') : free'[i].packets = <<>>
             /\ active'.rtphdr_ptr = Len(active'.packets) /\ Len(active'.packets) <= numbered'
             /\ \E first \in 0..SEQ_MOD - 1 : \E nth \in [1..Len(wire') -> Nat] : Numbered(first, nth)'
    <2>1. /\ \A i \in 1..Len(free') : free'[i].packets = <<>>
          /\ active'.packets = <<>> /\ active'.rtphdr_ptr = 0
        BY <1>4, <1>6 DEF NumbersInv
    <2>2. Len(active'.packets) = 0 /\ 0 <= numbered'
        BY <1>1, <2>1 DEF NumbersInv
    <2>3. PICK first \in 0..SEQ_MOD - 1, nth \in [1..Len(wire) -> Nat] : Numbered(first, nth)
        BY <1>6 DEF NumbersInv
    <2>4. Numbered(first, nth)'
        BY <1>5, <2>1, <2>3
    <2> QED
        BY <1>1, <2>1, <2>2, <2>3, <2>4
<1>7. \A i \in 1..Len(wire') :
         wire'[i].frame \in 0..Len(pushed') /\ wire'[i].frame # Len(pushed')
    BY <1>1, <1>2 DEF NumbersInv
<1> QED
    BY <1>1, <1>3, <1>6, <1>7 DEF NumbersInv

LEMMA QueuesNumbers ==
    ASSUME TypeInv, TransactionsInv, NumbersInv, NEW packets, Queues(packets)
    PROVE  NumbersInv'
<1>1. /\ InFrame /\ InFrame' /\ IsSeq(packets) /\ Shaped(active)
      /\ UNCHANGED <<pushed, results, wire>>
    BY DEF Queues, TransactionsInv
<1>2. PICK t : (t = active \/ \E type : t = WithHeaders(active, type)) /\ enqueue_message(t, packets)
    BY DEF Queues
<1>3. /\ Shaped(t) /\ t.packets = active.packets /\ t.rtp_headers = active.rtp_headers
      /\ t.rtphdr_ptr = active.rtphdr_ptr
    BY <1>1, <1>2, WithHeadersIs
<1>4. /\ active' = Extended(t, packets, seq) /\ seq' = (seq + Len(packets)) % SEQ_MOD
      /\ numbered' = numbered + Len(packets) /\ free' = free
    BY <1>2 DEF enqueue_message
<1>5. /\ active'.packets = active.packets \o More(t, packets)
      /\ active'.rtphdr_ptr = active.rtphdr_ptr + Len(packets)
      /\ active'.rtp_headers = With(active.rtp_headers, Headers(t, packets, seq))
    <2>1. PICK g : g = Extended(t, packets, seq)
        OBVIOUS
    <2>2. /\ g.packets = t.packets \o More(t, packets)
          /\ g.rtphdr_ptr = t.rtphdr_ptr + Len(packets)
          /\ g.rtp_headers = With(t.rtp_headers, Headers(t, packets, seq))
        <3>1. Shaped(t) /\ IsSeq(packets)
            BY <1>1, <1>3
        <3>2. g.packets = t.packets \o More(t, packets)
            BY <2>1, <3>1, ExtendedIs
        <3>3. g.rtphdr_ptr = t.rtphdr_ptr + Len(packets)
            BY <2>1, <3>1, ExtendedIs
        <3>4. g.rtp_headers = With(t.rtp_headers, Headers(t, packets, seq))
            BY <2>1, <3>1, ExtendedIs
        <3> QED
            BY <3>2, <3>3, <3>4
    <2> QED
        BY <1>3, <1>4, <2>1, <2>2
<1>6. PICK l \in Nat, n \in Nat : l = Len(active.packets) /\ n = Len(packets)
    BY <1>1, SeqLen DEF Shaped
<1>7. /\ IsSeq(active.packets) /\ IsSeq(More(t, packets)) /\ Len(More(t, packets)) = n
      /\ Len(active'.packets) = l + n
      /\ \A i \in 1..l : active'.packets[i] = active.packets[i]
      /\ \A i \in 1..n : active'.packets[l + i] = More(t, packets)[i]
    <2>1. IsSeq(active.packets)
        BY <1>1 DEF Shaped
    <2>2. PICK old, more : old = active.packets /\ more = More(t, packets)
        OBVIOUS
    <2>3. IsSeq(more) /\ Len(more) = n
        BY <1>1, <1>6, <2>2, MoreIsSeq
    <2>4. /\ Len(old \o more) = l + n
          /\ \A i \in 1..l : (old \o more)[i] = old[i]
          /\ \A i \in 1..n : (old \o more)[l + i] = more[i]
        BY <1>6, <2>1, <2>2, <2>3, ConcatFacts
    <2> QED
        BY <1>5, <2>1, <2>2, <2>3, <2>4
<1>8. NoneRefused' <=> NoneRefused
    BY <1>1 DEF NoneRefused
<1>9. ASSUME NEW first \in 0..SEQ_MOD - 1, NEW nth \in [1..Len(wire) -> Nat], Numbered(first, nth),
             active.rtphdr_ptr = l, l <= numbered
      PROVE  Numbered(first, nth)'
    <2>1. PICK base \in Nat : base = numbered - l
        <3>1. numbered \in Nat
            BY DEF NumbersInv
        <3>2. numbered - l \in Nat
            BY <1>6, <1>9, <3>1
        <3> QED
            BY <3>2
    <2>2. /\ Held = l /\ Held' = l + n /\ numbered - Held = base /\ numbered' - Held' = base
          /\ numbered \in Nat /\ SEQ_MOD \in Nat \ {0} /\ first \in Nat
        <3>1. Held = l /\ Held' = l + n
            BY <1>1, <1>6, <1>7 DEF Held
        <3>2. numbered \in Nat /\ numbered' = numbered + n
            BY <1>4, <1>6 DEF NumbersInv
        <3>3. SEQ_MOD \in Nat \ {0}
            BY Modulus
        <3>4. first \in Nat
            BY <3>3
        <3> QED
            BY <1>6, <2>1, <3>1, <3>2, <3>3, <3>4
    <2>3. PICK x \in Nat : x = first + numbered /\ seq = x % SEQ_MOD
        BY <1>9, <2>2 DEF Numbered
    <2>4. seq' = (first + numbered') % SEQ_MOD
        <3>1. x + n = first + numbered'
            BY <1>4, <1>6, <2>2, <2>3
        <3>2. ((x % SEQ_MOD) + n) % SEQ_MOD = (x + n) % SEQ_MOD
            BY <2>2, CountedOn
        <3> QED
            BY <1>4, <1>6, <2>3, <3>1, <3>2
    <2>5. ASSUME NEW i \in 1..l
          PROVE  /\ active'.packets[i].slot = i - 1 /\ i - 1 \in DOMAIN active'.rtp_headers
                 /\ active'.rtp_headers[i - 1].seq = (first + (base + (i - 1))) % SEQ_MOD
        <3>1. PICK s : s = i - 1
            OBVIOUS
        <3>2. s \notin l..l + n - 1
            BY <1>6, <3>1
        <3>3. /\ active.packets[i].slot = s /\ s \in DOMAIN active.rtp_headers
              /\ active.rtp_headers[s].seq = (first + (base + s)) % SEQ_MOD
            BY <1>1, <1>6, <1>9, <2>2, <3>1 DEF Numbered
        <3>4. s \notin DOMAIN Headers(t, packets, seq)
            BY <1>3, <1>6, <1>9, <3>2 DEF Headers
        <3>5. s \in DOMAIN active'.rtp_headers /\ active'.rtp_headers[s] = active.rtp_headers[s]
            BY <1>5, <3>3, <3>4 DEF With
        <3> QED
            BY <1>7, <3>1, <3>3, <3>5
    <2>6. ASSUME NEW k \in 1..n
          PROVE  /\ active'.packets[l + k].slot = (l + k) - 1
                 /\ (l + k) - 1 \in DOMAIN active'.rtp_headers
                 /\ active'.rtp_headers[(l + k) - 1].seq = (first + (base + ((l + k) - 1))) % SEQ_MOD
        <3>1. PICK s, m : s = (l + k) - 1 /\ m = k - 1
            OBVIOUS
        <3>2. s \in Nat /\ m \in Nat /\ s = l + m
            BY <1>6, <3>1
        <3>3. More(t, packets)[k].slot = s
            <4>1. More(t, packets)[k].slot = t.rtphdr_ptr + k - 1
                BY <1>6 DEF More
            <4> QED
                BY <1>3, <1>6, <1>9, <3>1, <4>1
        <3>4. s \in l..l + n - 1
            BY <1>6, <3>1
        <3>5. s \in DOMAIN Headers(t, packets, seq) /\ Headers(t, packets, seq)[s].seq = (seq + s - l) % SEQ_MOD
            BY <1>3, <1>6, <1>9, <3>4 DEF Headers
        <3>6. s \in DOMAIN active'.rtp_headers /\ active'.rtp_headers[s] = Headers(t, packets, seq)[s]
            BY <1>5, <3>5 DEF With
        <3>7. (seq + s - l) % SEQ_MOD = (first + (base + s)) % SEQ_MOD
            <4>1. ((x % SEQ_MOD) + m) % SEQ_MOD = (x + m) % SEQ_MOD
                BY <2>2, <3>2, CountedOn
            <4>2. x % SEQ_MOD \in Nat
                BY <2>2
            <4>3. seq + s - l = (x % SEQ_MOD) + m
                BY <1>6, <2>3, <3>2, <4>2
            <4>4. x + m = first + (base + s)
                <5>1. x = first + numbered /\ numbered = base + l /\ s = l + m
                    BY <1>6, <2>1, <2>2, <2>3, <3>2
                <5>2. first \in Nat /\ base \in Nat /\ l \in Nat /\ m \in Nat
                    BY <1>6, <2>1, <2>2, <3>2
                <5> QED
                    BY <5>1, <5>2
            <4> QED
                BY <4>1, <4>3, <4>4
        <3> QED
            BY <1>7, <3>1, <3>3, <3>5, <3>6, <3>7
    <2>7. ASSUME NEW i \in 1..l + n
          PROVE  /\ active'.packets[i].slot = i - 1 /\ i - 1 \in DOMAIN active'.rtp_headers
                 /\ active'.rtp_headers[i - 1].seq = (first + (base + (i - 1))) % SEQ_MOD
        <3>1. CASE i \in 1..l
            BY <2>5, <3>1
        <3>2. CASE i \notin 1..l
            <4>1. PICK k \in 1..n : i = l + k
                <5>1. i - l \in 1..n /\ i = l + (i - l)
                    BY <1>6, <3>2
                <5> QED
                    BY <5>1
            <4> QED
                BY <2>6, <4>1
        <3> QED
            BY <3>1, <3>2
    <2> QED
        BY <1>1, <1>7, <1>9, <2>2, <2>4, <2>7 DEF Numbered
<1>10. ASSUME NoneRefused
       PROVE  /\ active'.rtphdr_ptr = Len(active'.packets) /\ Len(active'.packets) <= numbered'
              /\ \E first \in 0..SEQ_MOD - 1 : \E nth \in [1..Len(wire) -> Nat] : Numbered(first, nth)'
    <2>1. active.rtphdr_ptr = l /\ l <= numbered /\ numbered \in Nat
        BY <1>1, <1>6, <1>10 DEF NumbersInv
    <2>2. PICK first \in 0..SEQ_MOD - 1, nth \in [1..Len(wire) -> Nat] : Numbered(first, nth)
        BY <1>10 DEF NumbersInv
    <2>3. Numbered(first, nth)'
        BY <1>9, <2>1, <2>2
    <2>4. active'.rtphdr_ptr = l + n /\ l + n <= numbered'
        BY <1>4, <1>5, <1>6, <2>1
    <2> QED
        BY <1>7, <2>2, <2>3, <2>4
<1>11. numbered' \in Nat
    BY <1>4, <1>6 DEF NumbersInv
<1> QED
    BY <1>1, <1>4, <1>8, <1>10, <1>11 DEF NumbersInv

\* A frame that was refused before is still refused.
LEMMA RefusedOnce ==
    ASSUME TypeInv, NEW r, results' = results \/ results' = Append(results, r), NoneRefused'
    PROVE  /\ NoneRefused
           /\ results' = Append(results, r) => r # "RTP_INVALID_VALUE"
<1>1. CASE results' = results
    <2>1. NoneRefused
        BY <1>1 DEF NoneRefused
    <2>2. results' # Append(results, r)
        <3>1. Len(Append(results, r)) = Len(results) + 1 /\ Len(results) \in Nat
            BY AppendFacts, SeqLen DEF TypeInv
        <3> QED
            BY <1>1, <3>1
    <2> QED
        BY <2>1, <2>2
<1>2. CASE results' = Append(results, r)
    <2>1. /\ Len(results) \in Nat /\ Len(results') = Len(results) + 1
          /\ \A k \in 1..Len(results) : results'[k] = results[k]
          /\ results'[Len(results) + 1] = r
        BY <1>2, AppendFacts, SeqLen DEF TypeInv
    <2>2. \A k \in 1..Len(results) + 1 : results'[k] # "RTP_INVALID_VALUE"
        BY <2>1 DEF NoneRefused
    <2>3. /\ \A k \in 1..Len(results) : k \in 1..Len(results) + 1
          /\ Len(results) + 1 \in 1..Len(results) + 1
        BY <2>1
    <2> QED
        BY <2>1, <2>2, <2>3 DEF NoneRefused
<1> QED
    BY <1>1, <1>2

LEMMA RefusesNumbers ==
    ASSUME TypeInv, NumbersInv, Refuses
    PROVE  NumbersInv'
<1>1. /\ ~InFrame' /\ UNCHANGED <<pushed, wire, numbered>>
      /\ results' = Append(results, "RTP_INVALID_VALUE")
    BY DEF Refuses, deinit_transaction, InFrame
<1>2. ~NoneRefused'
    BY <1>1, RefusedOnce
<1> QED
    BY <1>1, <1>2 DEF NumbersInv

\* What a prefix of the active transaction's packets looks like on the wire.
LEMMA SentFacts ==
    ASSUME TypeInv, NEW sent, Sends(sent), Shaped(active), NEW i \in 1..Len(sent)
    PROVE  /\ i \in 1..Len(active.packets)
           /\ sent[i].frame = Len(pushed)
           /\ sent[i].seq = active.rtp_headers[active.packets[i].slot].seq
<1>1. Len(sent) \in Nat /\ Len(active.packets) \in Nat /\ Len(sent) <= Len(active.packets)
    BY SeqLen DEF Sends, Shaped
<1>2. i \in 1..Len(active.packets) /\ sent[i] = OnTheWire(active)[i]
    BY <1>1 DEF Sends
<1>3. PICK p : p = active.packets[i]
    OBVIOUS
<1>4. PICK m : m = (active.rtp_headers[p.slot].marker
                       \/ (Len(active.packets) > 1 /\ p.slot = active.rtphdr_ptr - 1))
    OBVIOUS
<1>5. PICK y : y = IF p.bytes.kind = "FRAG" THEN active.fu_type ELSE 0
    OBVIOUS
<1>6. sent[i] = [seq |-> active.rtp_headers[p.slot].seq, kind |-> p.bytes.kind,
                 part |-> p.bytes.part, marker |-> m, pieces |-> p.bytes.pieces,
                 frame |-> Len(pushed), type |-> y]
    BY <1>2, <1>3, <1>4, <1>5 DEF OnTheWire
<1>7. sent[i].frame = Len(pushed) /\ sent[i].seq = active.rtp_headers[p.slot].seq
    BY <1>6
<1> QED
    BY <1>2, <1>3, <1>7

LEMMA SendsNumbers ==
    ASSUME TypeInv, TransactionsInv, NumbersInv, NEW sent, Sends(sent)
    PROVE  NumbersInv'
<1>1. /\ InFrame /\ ~InFrame' /\ IsSeq(sent) /\ Shaped(active) /\ IsSeq(wire) /\ IsSeq(free)
      /\ Len(sent) <= Len(active.packets) /\ wire' = wire \o sent
      /\ UNCHANGED <<pushed, seq, numbered>>
      /\ active.key \in queued' /\ deinit_transaction(queued')
    BY DEF Sends, deinit_transaction, InFrame, TransactionsInv, TypeInv
<1>2. PICK w \in Nat, l \in Nat, k \in Nat :
         w = Len(wire) /\ l = Len(active.packets) /\ k = Len(sent)
    BY <1>1, SeqLen DEF Shaped
<1>3. /\ k <= l /\ Len(wire') = w + k
      /\ \A i \in 1..w : wire'[i] = wire[i]
      /\ \A i \in 1..k : wire'[w + i] = sent[i]
    BY <1>1, <1>2, ConcatFacts
<1>4. \A i \in 1..k : /\ i \in 1..l /\ wire'[w + i].frame = Len(pushed)
                      /\ wire'[w + i].seq = active.rtp_headers[active.packets[i].slot].seq
    BY <1>1, <1>2, <1>3, SentFacts
<1>5. Len(pushed) \in Nat
    BY SeqLen DEF TypeInv
<1>6. \A i \in 1..w + k : i \in 1..w \/ \E j \in 1..k : i = w + j
    <2>1. ASSUME NEW i \in 1..w + k, i \notin 1..w
          PROVE  i - w \in 1..k /\ i = w + (i - w)
        BY <1>2, <2>1
    <2> QED
        BY <2>1
<1>7. \A i \in 1..w + k : wire'[i].frame \in 0..Len(pushed')
    <2>1. \A i \in 1..w : wire'[i].frame \in 0..Len(pushed')
        BY <1>1, <1>2, <1>3 DEF NumbersInv
    <2>2. Len(pushed) \in 0..Len(pushed) /\ Len(pushed') = Len(pushed)
        BY <1>1, <1>5
    <2>3. \A i \in 1..k : wire'[w + i].frame \in 0..Len(pushed')
        BY <1>4, <2>2
    <2> QED
        BY <1>6, <2>1, <2>3
<1>8. NoneRefused' => NoneRefused
    BY RefusedOnce DEF Sends
<1>9. ASSUME \A i \in 1..Len(free) : free[i].packets = <<>>
      PROVE  \A i \in 1..Len(free') : free'[i].packets = <<>>
    <2>1. free' = Append(free, [active EXCEPT !.packets = <<>>])
        BY <1>1 DEF deinit_transaction
    <2>2. PICK t : t = [active EXCEPT !.packets = <<>>]
        OBVIOUS
    <2>3. t = [key |-> active.key, packets |-> <<>>, rtp_headers |-> active.rtp_headers,
               rtphdr_ptr |-> active.rtphdr_ptr, fu_type |-> active.fu_type]
        BY <1>1, <2>2 DEF Shaped
    <2>4. t.packets = <<>>
        BY <2>3
    <2>5. /\ Len(free) \in Nat /\ Len(free') = Len(free) + 1
          /\ \A i \in 1..Len(free) : free'[i] = free[i]
          /\ free'[Len(free) + 1] = t
        BY <1>1, <2>1, <2>2, AppendFacts, SeqLen
    <2>6. \A i \in 1..Len(free) + 1 : i \in 1..Len(free) \/ i = Len(free) + 1
        BY <2>5
    <2> QED
        BY <1>9, <2>4, <2>5, <2>6
<1>10. ASSUME NEW first \in 0..SEQ_MOD - 1, NEW nth \in [1..Len(wire) -> Nat], Numbered(first, nth),
              l <= numbered
       PROVE  \E n \in [1..Len(wire') -> Nat] : Numbered(first, n)'
    <2>1. PICK base \in Nat : base = numbered - l
        <3>1. numbered \in Nat
            BY DEF NumbersInv
        <3>2. numbered - l \in Nat
            BY <1>2, <1>10, <3>1
        <3> QED
            BY <3>2
    <2>2. /\ Held = l /\ Held' = 0 /\ numbered - Held = base /\ numbered' - Held' = base + l
          /\ numbered \in Nat
        <3>1. Held = l /\ Held' = 0
            BY <1>1, <1>2 DEF Held
        <3>2. numbered \in Nat /\ numbered' = numbered
            BY <1>1 DEF NumbersInv
        <3> QED
            BY <1>2, <2>1, <3>1, <3>2
    <2>3. PICK n : n = [i \in 1..w + k |-> IF i \in 1..w THEN nth[i] ELSE base + ((i - w) - 1)]
        OBVIOUS
    <2>4. /\ n \in [1..Len(wire') -> Nat]
          /\ \A i \in 1..w : i \in 1..w + k /\ n[i] = nth[i] /\ nth[i] \in Nat
          /\ \A i \in 1..k : w + i \in 1..w + k /\ n[w + i] = base + (i - 1)
        <3>1. \A i \in 1..w : i \in 1..w + k /\ n[i] = nth[i] /\ nth[i] \in Nat
            BY <1>2, <2>3
        <3>2. ASSUME NEW i \in 1..k
              PROVE  w + i \in 1..w + k /\ n[w + i] = base + (i - 1) /\ base + (i - 1) \in Nat
            <4>1. PICK j : j = w + i
                OBVIOUS
            <4>2. j \in 1..w + k /\ j \notin 1..w /\ j - w = i /\ base + (i - 1) \in Nat
                BY <1>2, <4>1
            <4>3. n[j] = base + ((j - w) - 1)
                BY <2>3, <4>2
            <4> QED
                BY <4>1, <4>2, <4>3
        <3>3. ASSUME NEW i \in 1..w + k
              PROVE  n[i] \in Nat
            <4>1. CASE i \in 1..w
                BY <3>1, <4>1
            <4>2. CASE \E j \in 1..k : i = w + j
                <5>1. PICK j \in 1..k : i = w + j
                    BY <4>2
                <5>2. n[w + j] \in Nat
                    BY <3>2
                <5> QED
                    BY <5>1, <5>2
            <4> QED
                BY <1>6, <4>1, <4>2
        <3> QED
            BY <1>3, <2>3, <3>1, <3>2, <3>3
    <2>5. seq' = (first + numbered') % SEQ_MOD
        BY <1>1, <1>10 DEF Numbered
    <2>6. ASSUME NEW i \in 1..w
          PROVE  wire'[i].seq = (first + n[i]) % SEQ_MOD /\ n[i] < base
        BY <1>2, <1>3, <1>10, <2>2, <2>4 DEF Numbered
    <2>7. ASSUME NEW i \in 1..k
          PROVE  wire'[w + i].seq = (first + n[w + i]) % SEQ_MOD /\ n[w + i] < base + l
        <3>1. PICK s : s = i - 1
            OBVIOUS
        <3>2. i \in 1..l /\ wire'[w + i].seq = active.rtp_headers[active.packets[i].slot].seq
            BY <1>4
        <3>3. /\ active.packets[i].slot = s
              /\ active.rtp_headers[s].seq = (first + (base + s)) % SEQ_MOD
            BY <1>1, <1>2, <1>10, <2>2, <3>1, <3>2 DEF Numbered
        <3>4. n[w + i] = base + (i - 1)
            BY <2>4
        <3>5. base + (i - 1) < base + l
            BY <1>2, <2>1, <3>2
        <3> QED
            BY <3>1, <3>2, <3>3, <3>4, <3>5
    <2>8. ASSUME NEW i \in 1..w + k, NEW j \in 1..w + k, i < j
          PROVE  n[i] < n[j] /\ (wire'[i].frame = wire'[j].frame => n[j] = n[i] + (j - i))
        <3>1. CASE j \in 1..w
            <4>1. i \in 1..w /\ i \in 1..Len(wire) /\ j \in 1..Len(wire)
                BY <1>2, <2>8, <3>1
            <4>2. nth[i] < nth[j] /\ (wire[i].frame = wire[j].frame => nth[j] = nth[i] + (j - i))
                BY <1>10, <2>8, <4>1 DEF Numbered
            <4> QED
                BY <1>3, <2>4, <3>1, <4>1, <4>2
        <3>2. CASE i \in 1..w /\ \E c \in 1..k : j = w + c
            <4>1. PICK c \in 1..k : j = w + c
                BY <3>2
            <4>2. n[i] < base /\ n[i] \in Nat /\ n[j] = base + (c - 1) /\ c \in Nat /\ c >= 1
                BY <1>2, <2>4, <2>6, <3>2, <4>1
            <4>3. wire'[i].frame # wire'[j].frame
                BY <1>1, <1>2, <1>3, <1>4, <3>2, <4>1 DEF NumbersInv
            <4> QED
                BY <4>2, <4>3
        <3>3. CASE \E c \in 1..k, d \in 1..k : i = w + c /\ j = w + d
            <4>1. PICK c \in 1..k, d \in 1..k : i = w + c /\ j = w + d
                BY <3>3
            <4>2. n[i] = base + (c - 1) /\ n[j] = base + (d - 1)
                BY <2>4, <4>1
            <4> QED
                BY <1>2, <2>8, <4>1, <4>2
        <3>4. CASE j \in 1..w /\ i \notin 1..w
            BY <1>2, <2>8, <3>4
        <3> QED
            BY <1>6, <3>1, <3>2, <3>3, <3>4
    <2>9. \A i \in 1..w + k : wire'[i].seq = (first + n[i]) % SEQ_MOD /\ n[i] < base + l
        <3>1. ASSUME NEW i \in 1..w PROVE n[i] < base + l
            BY <1>2, <2>4, <2>6
        <3> QED
            BY <1>6, <2>6, <2>7, <3>1
    <2>10. Numbered(first, n)'
        BY <1>1, <1>3, <2>2, <2>5, <2>8, <2>9 DEF Numbered
    <2> QED
        BY <2>4, <2>10
<1>11. ASSUME NoneRefused
       PROVE  /\ \A i \in 1..Len(free') : free'[i].packets = <<>>
              /\ \E first \in 0..SEQ_MOD - 1 : \E nth \in [1..Len(wire') -> Nat] : Numbered(first, nth)'
    <2>1. /\ \A i \in 1..Len(free) : free[i].packets = <<>>
          /\ l <= numbered
        BY <1>1, <1>2, <1>11 DEF NumbersInv
    <2>2. PICK first \in 0..SEQ_MOD - 1, nth \in [1..Len(wire) -> Nat] : Numbered(first, nth)
        BY <1>11 DEF NumbersInv
    <2> QED
        BY <1>9, <1>10, <2>1, <2>2
<1>12. numbered' \in Nat
    BY <1>1 DEF NumbersInv
<1> QED
    BY <1>1, <1>3, <1>7, <1>8, <1>11, <1>12 DEF NumbersInv

LEMMA NumbersStep ==
    ASSUME TypeInv, TransactionsInv, NumbersInv, Way
    PROVE  NumbersInv'
<1>1. CASE Looks
    <2>1. /\ UNCHANGED <<seq, active, free, numbered, pushed, results, wire>>
          /\ (InFrame' <=> InFrame)
        BY <1>1 DEF Looks, queueVars
    <2>2. Held' = Held /\ (NoneRefused' <=> NoneRefused)
        BY <2>1 DEF Held, NoneRefused
    <2>3. \A first, nth : Numbered(first, nth)' <=> Numbered(first, nth)
        BY <2>1, <2>2 DEF Numbered
    <2> QED
        BY <2>1, <2>2, <2>3 DEF NumbersInv
<1> QED
    BY <1>1, TakesNumbers, QueuesNumbers, RefusesNumbers, SendsNumbers DEF Way

LEMMA NumbersInvariance == Spec => []NumbersInv
<1>1. Init => NumbersInv
    BY NumbersInit
<1>2. TypeInv /\ TransactionsInv /\ NumbersInv /\ [Next]_vars => NumbersInv'
    <2> SUFFICES ASSUME TypeInv, TransactionsInv, NumbersInv, [Next]_vars PROVE NumbersInv'
        OBVIOUS
    <2>1. InFrame => Shaped(active)
        BY DEF TransactionsInv
    <2>2. Way
        BY <2>1, Ways
    <2> QED
        BY <2>2, NumbersStep
<1> QED
    BY <1>1, <1>2, TransactionsInvariance, PTL DEF Spec

\* rtp.cc, update_sequence() and inc_sequence(), as queue.cc calls them: whatever is pushed and
\* however many packets the socket refuses to send, as long as no frame is refused, two packets
\* on the wire never have one number before all have been used, and those of one frame follow
\* each other.
THEOREM NumbersAreGivenOnce == Spec => []NumberedOnce
<1>1. TypeInv /\ NumbersInv => NumberedOnce
    BY NumbersMeanOnce DEF TypeInv
<1> QED
    BY <1>1, TransactionsInvariance, NumbersInvariance, PTL

-----------------------------------------------------------------------------
(***************************************************************************)
(* The contents: while only plain frames are pushed, the active transaction *)
(* holds the packets of the first units of the present frame, one run of   *)
(* packets for each, and the unit at hand is the next one.                 *)
(***************************************************************************)
Us == Units(Data)
Bytes(i) == active.packets[i].bytes

\* The packets queued from lo to hi carry the unit u of the present frame and nothing else.
Holds(lo, hi, u) ==
    \/ lo = hi /\ Bytes(lo).kind = "SINGLE" /\ Bytes(lo).pieces = Own(Len(pushed), u.from, u.to)
    \/ /\ lo < hi /\ Large(u)
       /\ \A i \in lo..hi :
             /\ Bytes(i).kind = "FRAG"
             /\ Bytes(i).part = IF i = lo THEN "START" ELSE IF i = hi THEN "END" ELSE "MIDDLE"
             /\ Bytes(i).pieces = Own(Len(pushed), u.from + NAL_HDR + (i - lo) * PAYLOAD_SIZE,
                                      IF i = hi THEN u.to
                                      ELSE u.from + NAL_HDR + (i - lo + 1) * PAYLOAD_SIZE)

HoldsUnits(d) ==
    /\ \E head \in [1..d + 1 -> 1..Len(active.packets) + 1] :
          /\ head[1] = 1 /\ head[d + 1] = Len(active.packets) + 1
          /\ \A j \in 1..d : Holds(head[j], head[j + 1] - 1, Us[j])
    /\ \A j \in 1..d : Large(Us[j]) => active.fu_type = Data[Us[j].from + 1]
    /\ \A i \in 1..Len(active.packets) : ~Bytes(i).marker

HoldsPieces ==
    /\ Len(active.packets) >= 1
    /\ \A i \in 1..Len(active.packets) :
          /\ Bytes(i).pieces = Own(Len(pushed), (i - 1) * PAYLOAD_SIZE,
                                   IF i = Len(active.packets) THEN Len(Data) ELSE i * PAYLOAD_SIZE)
          /\ Bytes(i).marker <=> Len(active.packets) > 1 /\ i \in {1, Len(active.packets)}

AtUnit(d) ==
    /\ unit.from = Us[d + 1].from /\ unit.to = Us[d + 1].to
    /\ unit.more <=> d + 1 < Len(Us)
    /\ unit.more => unit.code.offset = Us[d + 2].from

Headed ==
    /\ active.rtphdr_ptr = Len(active.packets)
    /\ \A i \in 1..Len(active.packets) :
          /\ active.packets[i].slot = i - 1 /\ i - 1 \in DOMAIN active.rtp_headers
          /\ active.rtp_headers[i - 1].marker = Bytes(i).marker

OnlyPlain == PlainUntil(Len(pushed))

Contents ==
    /\ pc # "crashed" /\ nalus = <<>>
    /\ InFrame => Headed /\ after = "return"
    /\ pc = "queue" => Len(active.packets) = 0
    /\ pc = "unit" => format \in H26x /\ \E d \in 0..Len(Us) - 1 : HoldsUnits(d) /\ AtUnit(d)
    /\ pc = "flush" => IF format = "GENERIC" THEN HoldsPieces ELSE HoldsUnits(Len(Us))

ContentsInv ==
    /\ Len(pushed) = IF InFrame \/ pc = "crashed" THEN Len(results) + 1 ELSE Len(results)
    /\ WholeFrames
    /\ OnlyPlain => Contents

\* What has been sent of a frame is not changed by what is sent of others.
LEMMA StaysSent ==
    ASSUME NEW k, IsSeq(wire), Len(wire') \in Nat, Len(wire) <= Len(wire'),
           UNCHANGED format, pushed'[k] = pushed[k],
           \A i \in 1..Len(wire) : wire'[i] = wire[i],
           \A i \in Len(wire) + 1..Len(wire') : wire'[i].frame # k
    PROVE  /\ WholeSent(k) => WholeSent(k)'
           /\ MarksTheEnd(k) => MarksTheEnd(k)'
<1>1. Len(wire) \in Nat
    BY SeqLen
<1>2. SentAt(k)' = SentAt(k)
    <2>1. \A i \in 1..Len(wire) : i \in 1..Len(wire')
        BY <1>1
    <2>2. \A i \in 1..Len(wire') : i \in 1..Len(wire) \/ i \in Len(wire) + 1..Len(wire')
        BY <1>1
    <2> QED
        BY <2>1, <2>2 DEF SentAt
<1>3. MarksTheEnd(k) => MarksTheEnd(k)'
    BY <1>2 DEF MarksTheEnd, SentAt
<1>4. ASSUME WholeSent(k) PROVE WholeSent(k)'
    <2>1. PICK first \in 1..Len(wire), last \in 1..Len(wire) :
            /\ SentAt(k) = first..last
            /\ IF format = "GENERIC"
               THEN \A i \in first..last :
                       wire[i].pieces = Own(k, (i - first) * PAYLOAD_SIZE,
                                            IF i = last THEN Len(pushed[k].data)
                                            ELSE (i - first + 1) * PAYLOAD_SIZE)
               ELSE LET us == Units(pushed[k].data) IN
                    \E head \in [1..Len(us) + 1 -> first..last + 1] :
                       /\ head[1] = first /\ head[Len(us) + 1] = last + 1
                       /\ \A j \in 1..Len(us) : Carries(head[j], head[j + 1] - 1, k, us[j])
        BY <1>4 DEF WholeSent
    <2>2. /\ first \in 1..Len(wire') /\ last \in 1..Len(wire')
          /\ \A i \in first..last : i \in 1..Len(wire)
        BY <1>1, <2>1
    <2>3. ASSUME NEW lo \in first..last + 1, NEW hi \in first - 1..last, NEW u, Carries(lo, hi, k, u)
          PROVE  Carries(lo, hi, k, u)'
        <3>1. \A i \in lo..hi : wire'[i] = wire[i]
            BY <1>1, <2>1, <2>2
        <3>2. lo = hi => wire'[lo] = wire[lo]
            BY <3>1
        <3> QED
            BY <2>3, <3>1, <3>2 DEF Carries, NAL_HDR
    <2>4. CASE format = "GENERIC"
        BY <1>2, <2>1, <2>2, <2>4 DEF WholeSent
    <2>5. CASE format # "GENERIC"
        <3>1. PICK us : us = Units(pushed[k].data)
            OBVIOUS
        <3>2. PICK head \in [1..Len(us) + 1 -> first..last + 1] :
                 /\ head[1] = first /\ head[Len(us) + 1] = last + 1
                 /\ \A j \in 1..Len(us) : Carries(head[j], head[j + 1] - 1, k, us[j])
            BY <2>1, <2>5, <3>1
        <3>3. ASSUME NEW j \in 1..Len(us) PROVE Carries(head[j], head[j + 1] - 1, k, us[j])'
            <4>1. j \in 1..Len(us) + 1 /\ j + 1 \in 1..Len(us) + 1
                OBVIOUS
            <4>2. first \in Int /\ last \in Int
                BY <1>1
            <4>3. head[j] \in first..last + 1 /\ head[j + 1] \in first..last + 1
                BY <3>2, <4>1
            <4>4. head[j + 1] - 1 \in first - 1..last
                BY <4>2, <4>3
            <4> QED
                BY <2>3, <3>2, <4>3, <4>4
        <3>4. Units(pushed'[k].data) = us /\ format' # "GENERIC" /\ SentAt(k)' = first..last
            BY <1>2, <2>1, <2>5, <3>1
        <3>5. \E h \in [1..Len(us) + 1 -> first..last + 1] :
                 /\ h[1] = first /\ h[Len(us) + 1] = last + 1
                 /\ \A j \in 1..Len(us) : Carries(h[j], h[j + 1] - 1, k, us[j])'
            BY <3>2, <3>3
        <3> QED
            BY <2>2, <3>4, <3>5 DEF WholeSent
    <2> QED
        BY <2>4, <2>5
<1> QED
    BY <1>3, <1>4

LEMMA PlainFacts ==
    ASSUME TypeInv, InFrame, format \in H26x, OnlyPlain
    PROVE  /\ ScanFindsUnits(Data) /\ Len(Us) \in Nat /\ Len(Us) >= 1
           /\ \A j \in 1..Len(Us) :
                 /\ Us[j].from \in 0..Len(Data) /\ Us[j].to \in 0..Len(Data)
                 /\ Us[j].to - Us[j].from > 3
           /\ \A i, j \in 1..Len(Us) :
                 Large(Us[i]) /\ Large(Us[j]) => Data[Us[i].from + 1] = Data[Us[j].from + 1]
           /\ format # "H266" /\ Len(Us) > 1 => \A j \in 1..Len(Us) : Large(Us[j])
           /\ Codes(Data) # <<>> => ~Last(pushed).slice /\ Len(Data) >= PAYLOAD_SIZE
<1>1. PICK r : r = Last(pushed) /\ r \in Frames[format] /\ format \in DOMAIN Frames /\ r.data = Data
    BY DEF TypeInv, Data
<1>2. PlainFor(format, r)
    <2>1. Len(pushed) \in Nat /\ Len(pushed) >= 1
        BY SeqLen DEF TypeInv
    <2>2. Len(pushed) \in 1..Len(pushed)
        BY <2>1
    <2> QED
        BY <1>1, <2>2 DEF OnlyPlain, PlainUntil, Plain, Last
<1>3. ScanFindsUnits(Data)
    BY <1>1, <1>2, ScanAssumption
<1>4. PICK us : us = Us
    OBVIOUS
<1>5. us \in Seq([from : 0..Len(Data), to : 0..Len(Data)]) /\ us # <<>>
    BY <1>3, <1>4 DEF ScanFindsUnits, Us
<1>6. /\ Len(us) \in Nat /\ Len(us) >= 1
      /\ \A j \in 1..Len(us) : us[j].from \in 0..Len(Data) /\ us[j].to \in 0..Len(Data)
    <2>1. Len(us) \in Nat /\ Len(us) >= 1
        BY <1>5
    <2>2. \A j \in 1..Len(us) : us[j] \in [from : 0..Len(Data), to : 0..Len(Data)]
        <3>1. PICK S : S = [from : 0..Len(Data), to : 0..Len(Data)]
            OBVIOUS
        <3>2. us \in Seq(S)
            BY <1>5, <3>1
        <3>3. \A j \in 1..Len(us) : us[j] \in S
            BY <3>2
        <3> QED
            BY <3>1, <3>3
    <2> QED
        BY <2>1, <2>2
<1>7. PICK large : large = {j \in 1..Len(us) : Large(us[j])}
    OBVIOUS
<1>8. /\ \A j \in 1..Len(us) : UnitSize(us[j]) > 3
      /\ Codes(Data) # <<>> => ~r.slice /\ Len(Data) >= PAYLOAD_SIZE
      /\ \A i, j \in large : Data[us[i].from + 1] = Data[us[j].from + 1]
      /\ format # "H266" /\ Len(us) > 1 => large = 1..Len(us)
    <2>1. us = Units(Data)
        BY <1>4 DEF Us
    <2> QED
        BY <1>1, <1>2, <1>7, <2>1 DEF PlainFor
<1>9. \A j \in 1..Len(us) : us[j].to - us[j].from > 3
    BY <1>8 DEF UnitSize
<1>10. \A i, j \in 1..Len(us) :
          Large(us[i]) /\ Large(us[j]) => Data[us[i].from + 1] = Data[us[j].from + 1]
    BY <1>7, <1>8
<1>11. format # "H266" /\ Len(us) > 1 => \A j \in 1..Len(us) : Large(us[j])
    BY <1>7, <1>8
<1> QED
    BY <1>1, <1>3, <1>4, <1>6, <1>8, <1>9, <1>10, <1>11

\* What is queued comes behind what was held, under headers of its own.
QueuedBehind(t, packets, l, n) ==
    /\ Headed' /\ Len(active'.packets) = l + n /\ active'.fu_type = t.fu_type
    /\ \A i \in 1..l : active'.packets[i].bytes = active.packets[i].bytes
    /\ \A i \in 1..n : active'.packets[l + i].bytes = packets[i]

LEMMA QueuedFacts ==
    ASSUME Shaped(active), Headed, NEW packets, IsSeq(packets),
           NEW t, t = active \/ \E type : t = WithHeaders(active, type), enqueue_message(t, packets),
           NEW l \in Nat, l = Len(active.packets), NEW n \in Nat, n = Len(packets)
    PROVE  QueuedBehind(t, packets, l, n)
<1>1. /\ Shaped(t) /\ t.packets = active.packets /\ t.rtp_headers = active.rtp_headers
      /\ t.rtphdr_ptr = l
    BY WithHeadersIs DEF Headed
<1>2. PICK g, more : /\ g = Extended(t, packets, seq) /\ g = active'
                     /\ more = More(t, packets)
    BY DEF enqueue_message
<1>3. /\ g.packets = active.packets \o more /\ g.rtphdr_ptr = l + n
      /\ g.rtp_headers = With(active.rtp_headers, Headers(t, packets, seq))
    <2>1. Shaped(t) /\ IsSeq(packets)
        BY <1>1
    <2>2. PICK first : first = seq
        OBVIOUS
    <2>3. g = Extended(t, packets, first)
        BY <1>2, <2>2
    <2>4. /\ Shaped(g) /\ g.key = t.key
          /\ g.packets = t.packets \o More(t, packets)
          /\ g.rtphdr_ptr = t.rtphdr_ptr + Len(packets)
          /\ g.rtp_headers = With(t.rtp_headers, Headers(t, packets, first))
        BY <2>1, <2>3, ExtendedIs
    <2> QED
        BY <1>1, <1>2, <2>2, <2>4
<1>4. g.fu_type = t.fu_type
    <2>1. g = [t EXCEPT !.packets = g.packets, !.rtp_headers = g.rtp_headers,
                        !.rtphdr_ptr = g.rtphdr_ptr]
        BY <1>2, <1>3 DEF Extended, Shaped
    <2> QED
        BY <1>1, <2>1 DEF Shaped
<1>5. IsSeq(active.packets) /\ IsSeq(more) /\ Len(more) = n
    BY <1>1, <1>2, MoreIsSeq DEF Shaped
<1>6. /\ Len(g.packets) = l + n
      /\ \A i \in 1..l : g.packets[i] = active.packets[i]
      /\ \A i \in 1..n : g.packets[l + i] = more[i]
    <2>1. PICK old : old = active.packets
        OBVIOUS
    <2>2. /\ Len(old \o more) = l + n
          /\ \A i \in 1..l : (old \o more)[i] = old[i]
          /\ \A i \in 1..n : (old \o more)[l + i] = more[i]
        BY <1>5, <2>1, ConcatFacts
    <2> QED
        BY <1>3, <2>1, <2>2
<1>7. \A i \in 1..n : more[i].slot = (l + i) - 1 /\ more[i].bytes = packets[i]
    BY <1>1, <1>2 DEF More
<1>8. ASSUME NEW i \in 1..l
      PROVE  /\ g.packets[i].slot = i - 1 /\ i - 1 \in DOMAIN g.rtp_headers
             /\ g.rtp_headers[i - 1].marker = g.packets[i].bytes.marker
    <2>1. /\ active.packets[i].slot = i - 1 /\ i - 1 \in DOMAIN active.rtp_headers
          /\ active.rtp_headers[i - 1].marker = active.packets[i].bytes.marker
        BY DEF Headed, Bytes
    <2>2. i - 1 \notin DOMAIN Headers(t, packets, seq)
        BY <1>1 DEF Headers
    <2>3. i - 1 \in DOMAIN g.rtp_headers /\ g.rtp_headers[i - 1] = active.rtp_headers[i - 1]
        BY <1>3, <2>1, <2>2 DEF With
    <2> QED
        BY <1>6, <2>1, <2>3
<1>9. ASSUME NEW i \in 1..n
      PROVE  /\ g.packets[l + i].slot = (l + i) - 1 /\ (l + i) - 1 \in DOMAIN g.rtp_headers
             /\ g.rtp_headers[(l + i) - 1].marker = g.packets[l + i].bytes.marker
    <2>1. PICK s \in l..l + n - 1 : s = (l + i) - 1 /\ s - l + 1 = i
        <3>1. (l + i) - 1 \in l..l + n - 1 /\ ((l + i) - 1) - l + 1 = i
            OBVIOUS
        <3> QED
            BY <3>1
    <2>2. s \in DOMAIN Headers(t, packets, seq) /\ Headers(t, packets, seq)[s].marker = packets[i].marker
        BY <1>1, <2>1 DEF Headers
    <2>3. s \in DOMAIN g.rtp_headers /\ g.rtp_headers[s] = Headers(t, packets, seq)[s]
        BY <1>3, <2>2 DEF With
    <2> QED
        BY <1>6, <1>7, <2>1, <2>2, <2>3
<1>10. \A i \in 1..l + n : i \in 1..l \/ \E j \in 1..n : i = l + j
    <2>1. ASSUME NEW i \in 1..l + n, i \notin 1..l
          PROVE  i - l \in 1..n /\ i = l + (i - l)
        BY <2>1
    <2> QED
        BY <2>1
<1>11. Headed'
    <2>1. \A i \in 1..l + n :
             /\ g.packets[i].slot = i - 1 /\ i - 1 \in DOMAIN g.rtp_headers
             /\ g.rtp_headers[i - 1].marker = g.packets[i].bytes.marker
        <3>1. ASSUME NEW i \in 1..l + n, i \notin 1..l
              PROVE  /\ g.packets[i].slot = i - 1 /\ i - 1 \in DOMAIN g.rtp_headers
                     /\ g.rtp_headers[i - 1].marker = g.packets[i].bytes.marker
            <4>1. PICK j \in 1..n : i = l + j
                BY <1>10, <3>1
            <4> QED
                BY <1>9, <4>1
        <3> QED
            BY <1>8, <3>1
    <2> QED
        BY <1>2, <1>3, <1>6, <2>1 DEF Headed, Bytes
<1> QED
    BY <1>2, <1>4, <1>6, <1>7, <1>11 DEF QueuedBehind

LEMMA OneQueued ==
    ASSUME Shaped(active), Headed, NEW p, enqueue_message(active, <<p>>),
           NEW l \in Nat, l = Len(active.packets)
    PROVE  /\ Headed' /\ Len(active'.packets) = l + 1 /\ active'.fu_type = active.fu_type
           /\ \A i \in 1..l : Bytes(i)' = Bytes(i)
           /\ Bytes(l + 1)' = p
<1>1. PICK ps : ps = <<p>> /\ IsSeq(ps) /\ Len(ps) = 1 /\ ps[1] = p
    BY OneFacts
<1>2. PICK t, n : t = active /\ n = 1
    OBVIOUS
<1>3. enqueue_message(t, ps) /\ n \in Nat /\ n = Len(ps)
    BY <1>1, <1>2
<1>4. QueuedBehind(t, ps, l, n)
    BY <1>1, <1>2, <1>3, QueuedFacts
<1> QED
    BY <1>1, <1>2, <1>4 DEF QueuedBehind, Bytes

LEMMA HoldsSame ==
    ASSUME NEW lo, NEW hi, NEW u, Holds(lo, hi, u), NEW l \in Nat, lo \in 1..l, hi \in 0..l,
           UNCHANGED <<format, pushed>>, \A i \in 1..l : Bytes(i)' = Bytes(i)
    PROVE  Holds(lo, hi, u)'
<1>1. \A i \in lo..hi : Bytes(i)' = Bytes(i)
    OBVIOUS
<1>2. Bytes(lo)' = Bytes(lo)
    OBVIOUS
<1> QED
    BY <1>1, <1>2 DEF Holds, NAL_HDR

\* One unit more.
LEMMA HoldsNext ==
    ASSUME NEW d \in Nat, HoldsUnits(d), NEW l \in Nat, l = Len(active.packets), NEW n \in Nat, n >= 1,
           UNCHANGED <<format, pushed>>, Len(active'.packets) = l + n,
           \A i \in 1..l : Bytes(i)' = Bytes(i),
           \A i \in 1..n : ~Bytes(l + i)'.marker,
           NEW u, u = Us[d + 1], Holds(l + 1, l + n, u)',
           \A j \in 1..d + 1 : Large(Us[j]) => active'.fu_type = Data[Us[j].from + 1]
    PROVE  HoldsUnits(d + 1)'
<1>1. PICK head \in [1..d + 1 -> 1..l + 1] :
         /\ head[1] = 1 /\ head[d + 1] = l + 1
         /\ \A j \in 1..d : Holds(head[j], head[j + 1] - 1, Us[j])
    BY DEF HoldsUnits
<1>2. Us' = Us /\ Data' = Data
    BY DEF Us, Data
<1>3. PICK h : h = [j \in 1..d + 2 |-> IF j = d + 2 THEN l + n + 1 ELSE head[j]]
    OBVIOUS
<1>4. /\ h \in [1..(d + 1) + 1 -> 1..(l + n) + 1]
      /\ h[1] = 1 /\ h[(d + 1) + 1] = (l + n) + 1
      /\ \A j \in 1..d + 1 : h[j] = head[j]
    <2>1. \A j \in 1..d + 1 : j \in 1..d + 2 /\ j # d + 2 /\ head[j] \in 1..(l + n) + 1
        BY <1>1
    <2>2. \A j \in 1..d + 2 : j = d + 2 \/ j \in 1..d + 1
        OBVIOUS
    <2>3. (d + 1) + 1 = d + 2 /\ 1 \in 1..d + 1 /\ d + 2 \in 1..d + 2
        OBVIOUS
    <2> QED
        BY <1>1, <1>3, <2>1, <2>2, <2>3
<1>5. ASSUME NEW j \in 1..d + 1, NEW v, v = Us[j]
      PROVE  Holds(h[j], h[j + 1] - 1, v)'
    <2>1. CASE j \in 1..d
        <3>1. j + 1 \in 1..d + 1 /\ h[j] = head[j] /\ h[j + 1] = head[j + 1]
            BY <1>4, <2>1
        <3>2. PICK lo \in 1..l + 1, hi \in 0..l : lo = head[j] /\ hi = head[j + 1] - 1
            <4>1. head[j] \in 1..l + 1 /\ head[j + 1] \in 1..l + 1
                BY <1>1, <3>1
            <4> QED
                BY <4>1
        <3>3. Holds(lo, hi, v)
            BY <1>1, <1>5, <2>1, <3>2
        <3>4. lo \in 1..l
            <4>1. lo = hi \/ lo < hi
                BY <3>3 DEF Holds
            <4> QED
                BY <4>1
        <3>5. Holds(lo, hi, v)'
            BY <3>3, <3>4, HoldsSame
        <3> QED
            BY <3>1, <3>2, <3>5
    <2>2. CASE j = d + 1
        <3>1. h[j] = l + 1 /\ h[j + 1] - 1 = l + n
            BY <1>1, <1>4, <2>2
        <3> QED
            BY <1>5, <2>2, <3>1
    <2> QED
        BY <2>1, <2>2
<1>6. \A i \in 1..l + n : ~Bytes(i)'.marker
    <2>1. \A i \in 1..l : ~Bytes(i)'.marker
        BY DEF HoldsUnits
    <2>2. ASSUME NEW i \in 1..l + n, i \notin 1..l PROVE ~Bytes(i)'.marker
        <3>1. PICK m \in 1..n : i = l + m
            <4>1. i - l \in 1..n /\ i = l + (i - l)
                BY <2>2
            <4> QED
                BY <4>1
        <3> QED
            BY <3>1
    <2> QED
        BY <2>1, <2>2
<1>7. ASSUME NEW j \in 1..d + 1 PROVE Holds(h[j], h[j + 1] - 1, Us[j])'
    <2>1. PICK v, lo, hi : v = Us[j] /\ lo = h[j] /\ hi = h[j + 1] - 1
        OBVIOUS
    <2>2. Holds(lo, hi, v)' /\ Us'[j] = v
        BY <1>2, <1>5, <2>1
    <2> QED
        BY <2>1, <2>2 DEF Holds
<1>8. \A j \in 1..d + 1 : Large(Us'[j]) => active'.fu_type = Data'[Us'[j].from + 1]
    BY <1>2
<1>9. Len(active'.packets) + 1 = (l + n) + 1
    OBVIOUS
<1>10. \E g \in [1..(d + 1) + 1 -> 1..Len(active'.packets) + 1] :
          /\ g[1] = 1 /\ g[(d + 1) + 1] = Len(active'.packets) + 1
          /\ \A j \in 1..d + 1 : Holds(g[j], g[j + 1] - 1, Us[j])'
    <2> QED
        BY <1>4, <1>7, <1>9
<1> QED
    BY <1>6, <1>8, <1>10 DEF HoldsUnits

LEMMA OwnPiece ==
    ASSUME NEW from, NEW to
    PROVE  Own(Len(pushed), from, to) = <<Piece(from, to)>>
BY DEF Own, Piece

\* From one unit the scan leads to the next.
LEMMA AtNext ==
    ASSUME TypeInv, InFrame, format \in H26x, OnlyPlain, Codes(Data) # <<>>,
           NEW e \in Nat, e < Len(Us), NEW from, from = Us[e + 1].from,
           unit' = NextUnit(from, from), UNCHANGED pushed
    PROVE  AtUnit(e)'
<1>1. PICK us, n : us = Us /\ us = Units(Data) /\ n = Len(us) /\ n \in Nat /\ n >= 1
    <2>1. Len(Us) \in Nat /\ Len(Us) >= 1
        BY PlainFacts
    <2> QED
        BY <2>1 DEF Us
<1>2. Us' = us
    BY <1>1 DEF Us, Data
<1>3. PICK next : next = find_h26x_start_code(Data, from)
    OBVIOUS
<1>4. /\ us[n].to = Len(Data)
      /\ e + 1 = n => next = NotFound
      /\ e + 1 < n => /\ next # NotFound /\ next.offset = us[e + 2].from
                      /\ next.offset - next.start_len = us[e + 1].to
    <2>1. /\ us[n].to = Len(Data)
          /\ find_h26x_start_code(Data, us[n].from) = NotFound
          /\ \A j \in 1..n - 1 :
                LET code == find_h26x_start_code(Data, us[j].from) IN
                /\ code # NotFound /\ code.offset = us[j + 1].from
                /\ code.offset - code.start_len = us[j].to
        <3>1. ScanFindsUnits(Data)
            BY PlainFacts
        <3> QED
            BY <1>1, <3>1 DEF ScanFindsUnits
    <2>2. CASE e + 1 = n
        <3>1. from = us[n].from
            BY <1>1, <2>2
        <3> QED
            BY <1>3, <2>1, <2>2, <3>1
    <2>3. CASE e + 1 < n
        <3>1. e + 1 \in 1..n - 1 /\ (e + 1) + 1 = e + 2
            BY <1>1, <2>3
        <3>2. from = us[e + 1].from
            BY <1>1
        <3> QED
            BY <1>3, <2>1, <2>3, <3>1, <3>2
    <2> QED
        BY <1>1, <2>2, <2>3
<1>5. /\ unit'.from = from /\ unit'.code = next /\ (unit'.more <=> next # NotFound)
      /\ unit'.to = IF next = NotFound THEN Len(Data) ELSE next.offset - next.start_len
    BY <1>3 DEF NextUnit
<1>6. e + 1 = n \/ e + 1 < n
    BY <1>1
<1> QED
    BY <1>1, <1>2, <1>4, <1>5, <1>6 DEF AtUnit

LEMMA HoldsNone ==
    ASSUME Len(active.packets) = 0
    PROVE  HoldsUnits(0)
<1>1. PICK head : head = [j \in 1..0 + 1 |-> 1]
    OBVIOUS
<1>2. /\ head \in [1..0 + 1 -> 1..Len(active.packets) + 1]
      /\ head[1] = 1 /\ head[0 + 1] = Len(active.packets) + 1
    BY <1>1
<1>3. \A j \in 1..0 : FALSE
    OBVIOUS
<1>4. \A i \in 1..Len(active.packets) : FALSE
    OBVIOUS
<1> QED
    BY <1>2, <1>3, <1>4 DEF HoldsUnits

\* The unit at hand has been queued.
LEMMA UnitDone ==
    ASSUME TypeInv, pc = "unit", format \in H26x, OnlyPlain, after = "return",
           NEW d \in Nat, d < Len(Us), AtUnit(d), HoldsUnits(d + 1)', GoOn("return"),
           UNCHANGED <<format, pushed>>, Headed', nalus' = <<>>
    PROVE  Contents'
<1>1. PICK us, n : us = Us /\ n = Len(us) /\ n \in Nat /\ n >= 1
    <2>1. Len(Us) \in Nat /\ Len(Us) >= 1
        BY PlainFacts DEF InFrame
    <2> QED
        BY <2>1
<1>2. Us' = us /\ Data' = Data
    BY <1>1 DEF Us, Data
<1>3. CASE unit.more
    <2>1. unit' = NextUnit(us[d + 2].from, us[d + 2].from) /\ pc' = "unit" /\ after' = after
        BY <1>1, <1>3 DEF GoOn, AtUnit
    <2>2. d + 1 \in Nat /\ d + 1 < n /\ (d + 1) + 1 = d + 2
        BY <1>1, <1>3 DEF AtUnit
    <2>3. Codes(Data) # <<>>
        <3>1. Codes(Data) = <<>> => n = 1
            BY <1>1, PlainFacts DEF ScanFindsUnits, Us, InFrame
        <3> QED
            BY <2>2, <3>1
    <2>4. AtUnit(d + 1)'
        <3>1. PICK e, from : e \in Nat /\ e = d + 1 /\ from = Us[e + 1].from /\ from = us[d + 2].from
            BY <1>1, <2>2
        <3>2. unit' = NextUnit(from, from) /\ e < Len(Us)
            BY <1>1, <2>1, <2>2, <3>1
        <3>3. AtUnit(e)'
            BY <2>3, <3>1, <3>2, AtNext DEF InFrame
        <3> QED
            BY <3>1, <3>3
    <2>5. d + 1 \in 0..Len(Us') - 1
        BY <1>1, <1>2, <2>2
    <2> QED
        BY <2>1, <2>4, <2>5 DEF Contents, InFrame
<1>4. CASE ~unit.more
    <2>1. pc' = "flush" /\ after' = "return"
        BY <1>4 DEF GoOn
    <2>2. d + 1 = n /\ n = Len(Us')
        BY <1>1, <1>2, <1>4 DEF AtUnit
    <2>3. HoldsUnits(Len(Us))'
        <3> QED
            BY <2>2 DEF HoldsUnits
    <2>4. format' # "GENERIC"
        BY DEF H26x
    <2> QED
        BY <2>1, <2>3, <2>4 DEF Contents, InFrame
<1> QED
    BY <1>3, <1>4

-----------------------------------------------------------------------------
(***************************************************************************)
(* What each step of push_frame() does to the contents of a plain frame.   *)
(***************************************************************************)
PlainState == TypeInv /\ TransactionsInv /\ Contents /\ OnlyPlain

LEMMA NoCodes ==
    ASSUME PlainState, InFrame, format \in H26x, Codes(Data) = <<>>
    PROVE  /\ find_h26x_start_code(Data, 0) = NotFound
           /\ Len(Us) = 1 /\ Us[1].from = 0 /\ Us[1].to = Len(Data)
<1>1. ScanFindsUnits(Data)
    BY PlainFacts DEF PlainState
<1> QED
    BY <1>1 DEF ScanFindsUnits, Us

LEMMA ShortContents ==
    ASSUME PlainState, push_h26x_short
    PROVE  Contents'
<1>1. /\ pc = "queue" /\ pc' = "flush" /\ format \in H26x /\ InFrame
      /\ UNCHANGED <<format, pushed, nalus, after>>
      /\ Len(Data) < PAYLOAD_SIZE \/ (Last(pushed).slice /\ Len(Data) = PAYLOAD_SIZE)
    BY DEF push_h26x_short, InFrame, aggregationVars
<1>2. /\ Len(Data) \in Nat /\ PAYLOAD_SIZE \in Nat /\ PAYLOAD_SIZE > 0
      /\ Shaped(active) /\ Headed /\ Len(active.packets) = 0 /\ nalus = <<>> /\ after = "return"
    BY <1>1, PushedFacts DEF PlainState, TransactionsInv, Contents
<1>3. Codes(Data) = <<>>
    <2> QED
        BY <1>1, <1>2, PlainFacts DEF PlainState
<1>4. /\ find_h26x_start_code(Data, 0) = NotFound
      /\ Len(Us) = 1 /\ Us[1].from = 0 /\ Us[1].to = Len(Data)
    BY <1>1, <1>3, NoCodes
<1>5. PICK p : p = Packet("SINGLE", "WHOLE", <<Piece(0, Len(Data))>>, FALSE)
    OBVIOUS
<1>6. enqueue_message(active, <<p>>)
    <2> QED
        BY <1>4, <1>5 DEF push_h26x_short
<1>7. /\ Headed' /\ Len(active'.packets) = 0 + 1 /\ active'.fu_type = active.fu_type
      /\ \A i \in 1..0 : Bytes(i)' = Bytes(i)
      /\ Bytes(0 + 1)' = p
    <2>1. PICK l : l = 0 /\ l \in Nat /\ l = Len(active.packets)
        BY <1>2
    <2>2. /\ Headed' /\ Len(active'.packets) = l + 1 /\ active'.fu_type = active.fu_type
          /\ \A i \in 1..l : Bytes(i)' = Bytes(i)
          /\ Bytes(l + 1)' = p
        BY <1>2, <1>6, <2>1, OneQueued
    <2> QED
        BY <2>1, <2>2
<1>8. PICK u : u = Us[0 + 1] /\ u = Us[1]
    OBVIOUS
<1>9. ~Large(u)
    BY <1>1, <1>2, <1>4, <1>8 DEF Large, UnitSize
<1>10. Bytes(1)' = p
    BY <1>7
<1>11. Holds(0 + 1, 0 + 1, u)'
    <2>1. p.kind = "SINGLE" /\ p.pieces = <<Piece(0, Len(Data))>> /\ p.marker = FALSE
        BY <1>5 DEF Packet
    <2>2. Bytes(1)'.kind = "SINGLE" /\ Bytes(1)'.pieces = Own(Len(pushed'), u.from, u.to)
        BY <1>1, <1>4, <1>8, <1>10, <2>1, OwnPiece
    <2> QED
        BY <2>2 DEF Holds
<1>12. HoldsUnits(0 + 1)'
    <2>1. \A i \in 1..1 : ~Bytes(0 + i)'.marker
        BY <1>5, <1>7 DEF Packet
    <2>2. \A j \in 1..0 + 1 : Large(Us[j]) => active'.fu_type = Data[Us[j].from + 1]
        BY <1>8, <1>9
    <2>3. HoldsUnits(0)
        BY <1>2, HoldsNone
    <2> QED
        BY <1>1, <1>2, <1>7, <1>8, <1>11, <2>1, <2>2, <2>3, HoldsNext
<1>13. HoldsUnits(Len(Us))' /\ format' # "GENERIC"
    <2>1. Us' = Us
        BY <1>1 DEF Us, Data
    <2>2. Len(Us') = 0 + 1
        BY <1>4, <2>1
    <2> QED
        BY <1>1, <1>12, <2>2 DEF HoldsUnits, H26x
<1> QED
    BY <1>1, <1>2, <1>7, <1>13 DEF Contents, InFrame

\* The first unit is at hand, and nothing has been queued yet.
LEMMA LookContents ==
    ASSUME PlainState, push_h26x_slice \/ push_h26x_frame
    PROVE  Contents'
<1>1. /\ pc = "queue" /\ pc' = "unit" /\ format \in H26x /\ InFrame
      /\ UNCHANGED <<format, pushed, nalus, after, active>>
    BY DEF push_h26x_slice, push_h26x_frame, InFrame, aggregationVars, queueVars
<1>2. Headed /\ Len(active.packets) = 0 /\ nalus = <<>> /\ after = "return"
    BY <1>1 DEF PlainState, Contents
<1>3. Len(Us) \in Nat /\ Len(Us) >= 1 /\ Len(Us') = Len(Us)
    <2>1. Us' = Us
        BY <1>1 DEF Us, Data
    <2> QED
        BY <1>1, <2>1, PlainFacts DEF PlainState
<1>4. AtUnit(0)'
    <2>1. CASE Codes(Data) = <<>>
        <3>1. /\ find_h26x_start_code(Data, 0) = NotFound
              /\ Len(Us) = 1 /\ Us[1].from = 0 /\ Us[1].to = Len(Data)
            BY <1>1, <2>1, NoCodes
        <3>2. unit'.from = 0 /\ unit'.to = Len(Data) /\ unit'.more = FALSE
            <4>1. Len(Data) \in Nat
                BY <1>1, PushedFacts DEF PlainState
            <4> QED
                BY <3>1, <4>1 DEF push_h26x_slice, push_h26x_frame
        <3>3. Us' = Us
            BY <1>1 DEF Us, Data
        <3>4. ~unit'.more
            BY <3>2
        <3>5. Us'[0 + 1].from = 0 /\ Us'[0 + 1].to = Len(Data) /\ ~(0 + 1 < Len(Us'))
            <4>1. 0 + 1 = 1 /\ ~(1 < 1)
                OBVIOUS
            <4> QED
                BY <3>1, <3>3, <4>1
        <3> QED
            BY <3>2, <3>4, <3>5 DEF AtUnit
    <2>2. CASE Codes(Data) # <<>>
        <3>1. PICK code : code = find_h26x_start_code(Data, 0)
            OBVIOUS
        <3>2. code # NotFound /\ code.offset = Us[0 + 1].from
            <4>1. ScanFindsUnits(Data)
                BY <1>1, PlainFacts DEF PlainState
            <4> QED
                BY <2>2, <3>1, <4>1 DEF ScanFindsUnits, Us
        <3>3. push_h26x_frame
            <4> QED
                BY <1>1, <2>2, PlainFacts DEF PlainState, push_h26x_slice
        <3>4. unit' = NextUnit(code.offset, code.offset)
            <4> QED
                BY <3>1, <3>2, <3>3 DEF push_h26x_frame
        <3>5. PICK from : from = code.offset
            OBVIOUS
        <3> QED
            BY <1>1, <1>3, <2>2, <3>2, <3>4, <3>5, AtNext DEF PlainState
    <2> QED
        BY <2>1, <2>2
<1>5. HoldsUnits(0)'
    <2>1. Len(active'.packets) = 0
        BY <1>1, <1>2
    <2>2. HoldsUnits(0)
        BY <1>2, HoldsNone
    <2>3. \A j \in 1..0 : FALSE
        OBVIOUS
    <2> QED
        BY <1>1, <2>1, <2>2, <2>3 DEF HoldsUnits, Bytes
<1>6. Headed'
    BY <1>1, <1>2 DEF Headed, Bytes
<1>7. 0 \in 0..Len(Us') - 1
    BY <1>3
<1> QED
    BY <1>1, <1>2, <1>4, <1>5, <1>6, <1>7 DEF Contents, InFrame

\* The unit at hand, with what is held of those before it.
LEMMA UnitAtHand ==
    ASSUME PlainState, pc = "unit"
    PROVE  /\ format \in H26x /\ InFrame /\ Shaped(active) /\ Headed
           /\ nalus = <<>> /\ after = "return" /\ Len(active.packets) \in Nat
           /\ \E d \in Nat : /\ d < Len(Us) /\ d + 1 \in 1..Len(Us) /\ HoldsUnits(d) /\ AtUnit(d)
                            /\ UnitSize(Us[d + 1]) = UnitLen /\ UnitLen \in Int /\ UnitLen > 3
                            /\ (Large(Us[d + 1]) <=> ~Small)
<1>1. InFrame /\ TypeInv /\ OnlyPlain
    BY DEF PlainState, InFrame
<1>2. /\ format \in H26x /\ Headed /\ nalus = <<>> /\ after = "return" /\ Shaped(active)
      /\ \E d \in 0..Len(Us) - 1 : HoldsUnits(d) /\ AtUnit(d)
    BY <1>1 DEF PlainState, Contents, TransactionsInv
<1>3. PICK d \in 0..Len(Us) - 1 : HoldsUnits(d) /\ AtUnit(d)
    BY <1>2
<1>4. /\ Len(Us) \in Nat
      /\ \A j \in 1..Len(Us) :
            /\ Us[j].from \in 0..Len(Data) /\ Us[j].to \in 0..Len(Data)
            /\ Us[j].to - Us[j].from > 3
    BY <1>1, <1>2, PlainFacts
<1>5. d \in Nat /\ d < Len(Us) /\ d + 1 \in 1..Len(Us)
    BY <1>3, <1>4
<1>6. UnitSize(Us[d + 1]) = UnitLen
    BY <1>3 DEF AtUnit, UnitSize, UnitLen
<1>7. UnitLen > 3 /\ UnitLen \in Int
    <2>1. Len(Data) \in Nat
        BY <1>1, PushedFacts
    <2> QED
        BY <1>4, <1>5, <1>6, <2>1 DEF UnitSize
<1>8. Large(Us[d + 1]) <=> ~Small
    BY <1>1, <1>6, <1>7, PushedFacts DEF Large, Small
<1>9. Len(active.packets) \in Nat
    BY <1>2, SeqLen DEF Shaped
<1> QED
    BY <1>1, <1>2, <1>3, <1>5, <1>6, <1>7, <1>8, <1>9

\* A plain frame is not refused, and none of its units waits for another.
LEMMA NoneWaits ==
    ASSUME PlainState, pc = "unit"
    PROVE  /\ ~push_nal_unit_invalid /\ ~push_nal_unit_aggregates
           /\ ~make_aggregation_pkt_single /\ ~make_aggregation_pkt
<1>1. PICK d \in Nat : /\ d < Len(Us) /\ d + 1 \in 1..Len(Us) /\ AtUnit(d)
                       /\ UnitLen > 3 /\ UnitLen \in Int /\ (Large(Us[d + 1]) <=> ~Small)
    BY UnitAtHand
<1>2. /\ Len(nalus) = 0
      /\ format \in H26x /\ InFrame
    BY UnitAtHand
<1>3. ~push_nal_unit_invalid
    BY <1>1 DEF push_nal_unit_invalid
<1>4. ~push_nal_unit_aggregates
    <2>1. SUFFICES ASSUME push_nal_unit_aggregates PROVE FALSE
        OBVIOUS
    <2>2. Small /\ format # "H266" /\ unit.more
        BY <2>1 DEF push_nal_unit_aggregates, Aggregates
    <2>3. Len(Us) \in Nat /\ Len(Us) > 1
        BY <1>1, <1>2, <2>2, PlainFacts DEF AtUnit, PlainState
    <2>4. Large(Us[d + 1])
        BY <1>1, <1>2, <2>2, <2>3, PlainFacts DEF PlainState
    <2> QED
        BY <1>1, <2>2, <2>4
<1> QED
    BY <1>2, <1>3, <1>4 DEF make_aggregation_pkt_single, make_aggregation_pkt

LEMMA SingleContents ==
    ASSUME PlainState, push_nal_unit_single
    PROVE  Contents'
<1>1. /\ pc = "unit" /\ Small /\ GoOn("return") /\ UNCHANGED <<format, pushed, nalus>>
      /\ enqueue_message(active, <<Packet("SINGLE", "WHOLE", <<Piece(unit.from, unit.to)>>, FALSE)>>)
    BY DEF push_nal_unit_single, aggregationVars
<1>2. PICK d \in Nat : /\ d < Len(Us) /\ HoldsUnits(d) /\ AtUnit(d)
                       /\ (Large(Us[d + 1]) <=> ~Small)
    BY <1>1, UnitAtHand
<1>3. /\ format \in H26x /\ Shaped(active) /\ Headed /\ nalus = <<>> /\ after = "return"
      /\ TypeInv /\ OnlyPlain
    BY <1>1, UnitAtHand DEF PlainState
<1>4. PICK l \in Nat : l = Len(active.packets)
    BY <1>1, UnitAtHand
<1>5. PICK p : p = Packet("SINGLE", "WHOLE", <<Piece(unit.from, unit.to)>>, FALSE)
    OBVIOUS
<1>6. /\ Headed' /\ Len(active'.packets) = l + 1 /\ active'.fu_type = active.fu_type
      /\ \A i \in 1..l : Bytes(i)' = Bytes(i)
      /\ Bytes(l + 1)' = p
    BY <1>1, <1>3, <1>4, <1>5, OneQueued
<1>7. PICK u : u = Us[d + 1]
    OBVIOUS
<1>8. Holds(l + 1, l + 1, u)'
    <2>1. p.kind = "SINGLE" /\ p.pieces = <<Piece(u.from, u.to)>>
        BY <1>2, <1>5, <1>7 DEF Packet, AtUnit
    <2>2. Bytes(l + 1)'.kind = "SINGLE" /\ Bytes(l + 1)'.pieces = Own(Len(pushed'), u.from, u.to)
        BY <1>1, <1>6, <2>1, OwnPiece
    <2> QED
        BY <2>2 DEF Holds
<1>9. HoldsUnits(d + 1)'
    <2>1. \A i \in 1..1 : ~Bytes(l + i)'.marker
        BY <1>5, <1>6 DEF Packet
    <2>2. \A j \in 1..d + 1 : Large(Us[j]) => active'.fu_type = Data[Us[j].from + 1]
        <3>1. \A j \in 1..d : Large(Us[j]) => active.fu_type = Data[Us[j].from + 1]
            BY <1>2 DEF HoldsUnits
        <3>2. \A j \in 1..d + 1 : j \in 1..d \/ j = d + 1
            OBVIOUS
        <3> QED
            BY <1>1, <1>2, <1>6, <3>1, <3>2
    <2> QED
        BY <1>1, <1>2, <1>4, <1>6, <1>7, <1>8, <2>1, <2>2, HoldsNext
<1> QED
    BY <1>1, <1>2, <1>3, <1>6, <1>9, UnitDone

LEMMA FragmentsFacts ==
    ASSUME TypeInv, pc = "unit", ~Small
    PROVE  \E n \in Nat :
              /\ n >= 2 /\ IsSeq(Fragments) /\ Len(Fragments) = n
              /\ \A i \in 1..n :
                    Fragments[i] =
                      Packet("FRAG", IF i = n THEN "END" ELSE IF i = 1 THEN "START" ELSE "MIDDLE",
                             <<Piece(unit.from + NAL_HDR + (i - 1) * PAYLOAD_SIZE,
                                     IF i = n THEN unit.to
                                     ELSE unit.from + NAL_HDR + ((i + 1) - 1) * PAYLOAD_SIZE)>>, FALSE)
<1>1. PICK n : n = (UnitLen - NAL_HDR + PAYLOAD_SIZE - 1) \div PAYLOAD_SIZE
    OBVIOUS
<1>2. n \in Nat /\ n >= 2
    <2>1. PAYLOAD_SIZE \in Nat /\ PAYLOAD_SIZE > 0
        BY PushedFacts DEF InFrame
    <2>2. UnitLen \in Int /\ NAL_HDR \in {1, 2}
        BY DEF TypeInv, UnitLen, NAL_HDR
    <2>3. PICK x \in Nat : x = UnitLen - NAL_HDR + PAYLOAD_SIZE - 1 /\ x >= 2 * PAYLOAD_SIZE
        BY <2>1, <2>2 DEF Small
    <2>4. n \in Nat /\ x < (n + 1) * PAYLOAD_SIZE
        BY <1>1, <2>1, <2>3
    <2>5. n = 0 => x < PAYLOAD_SIZE
        BY <2>1, <2>4
    <2>6. n = 1 => x < 2 * PAYLOAD_SIZE
        BY <2>1, <2>4
    <2> QED
        BY <2>1, <2>3, <2>4, <2>5, <2>6
<1>3. PICK f : f = [i \in 1..n |->
            Packet("FRAG", IF i = n THEN "END" ELSE IF i = 1 THEN "START" ELSE "MIDDLE",
                   <<Piece(unit.from + NAL_HDR + (i - 1) * PAYLOAD_SIZE,
                           IF i = n THEN unit.to
                           ELSE unit.from + NAL_HDR + ((i + 1) - 1) * PAYLOAD_SIZE)>>, FALSE)]
    OBVIOUS
<1>4. Fragments = f
    BY <1>1, <1>3 DEF Fragments
<1>5. f = [i \in 1..n |-> f[i]]
    BY <1>3
<1>6. IsSeq(f) /\ Len(f) = n
    BY <1>2, <1>5, FunctionIsSeq
<1> QED
    BY <1>2, <1>3, <1>4, <1>6

LEMMA NothingBefore ==
    ASSUME NEW s, IsSeq(s)
    PROVE  <<>> \o s = s
<1>1. PICK S : s \in Seq(S)
    BY DEF IsSeq
<1> QED
    BY <1>1

LEMMA NoEntries ==
    ASSUME NEW f, f = [i \in 1..0 |-> f[i]]
    PROVE  f = <<>>
<1>1. f \in [1..0 -> {}]
    OBVIOUS
<1>2. f \in Seq({}) /\ Len(f) = 0
    BY <1>1
<1> QED
    BY <1>2

LEMMA LargeContents ==
    ASSUME PlainState, NEW forgets, push_large_unit(forgets)
    PROVE  Contents'
<1>1. pc = "unit" /\ ~Small /\ GoOn("return") /\ UNCHANGED <<format, pushed>>
    BY DEF push_large_unit
<1>2. PICK d \in Nat : /\ d < Len(Us) /\ d + 1 \in 1..Len(Us) /\ HoldsUnits(d) /\ AtUnit(d)
                       /\ (Large(Us[d + 1]) <=> ~Small)
    BY <1>1, UnitAtHand
<1>3. /\ format \in H26x /\ Shaped(active) /\ Headed /\ nalus = <<>> /\ Len(nalus) = 0
      /\ after = "return" /\ TypeInv /\ OnlyPlain /\ InFrame
    BY <1>1, UnitAtHand DEF PlainState
<1>4. PICK l \in Nat : l = Len(active.packets)
    BY <1>1, UnitAtHand
<1>5. PICK n \in Nat :
         /\ n >= 2 /\ IsSeq(Fragments) /\ Len(Fragments) = n
         /\ \A i \in 1..n :
               Fragments[i] =
                 Packet("FRAG", IF i = n THEN "END" ELSE IF i = 1 THEN "START" ELSE "MIDDLE",
                        <<Piece(unit.from + NAL_HDR + (i - 1) * PAYLOAD_SIZE,
                                IF i = n THEN unit.to
                                ELSE unit.from + NAL_HDR + ((i + 1) - 1) * PAYLOAD_SIZE)>>, FALSE)
    BY <1>1, <1>3, FragmentsFacts
<1>6. PICK ps : ps = Fragments
    OBVIOUS
<1>7. PICK t : t = WithHeaders(active, Type)
    OBVIOUS
<1>8. enqueue_message(t, ps)
    <2>1. enqueue_message(WithHeaders(active, Type), <<>> \o Fragments)
        BY <1>3 DEF push_large_unit
    <2>2. <<>> \o Fragments = ps
        BY <1>5, <1>6, NothingBefore
    <2> QED
        BY <1>7, <2>1, <2>2
<1>9. QueuedBehind(t, ps, l, n)
    BY <1>3, <1>4, <1>5, <1>6, <1>7, <1>8, QueuedFacts
<1>10. /\ Headed' /\ Len(active'.packets) = l + n /\ active'.fu_type = Type
       /\ \A i \in 1..l : Bytes(i)' = Bytes(i)
       /\ \A i \in 1..n : Bytes(l + i)' = ps[i]
    <2>1. t.fu_type = Type
        BY <1>3, <1>7 DEF WithHeaders, Shaped
    <2> QED
        BY <1>9, <2>1 DEF QueuedBehind, Bytes
<1>11. PICK u : u = Us[d + 1] /\ u.from = unit.from /\ u.to = unit.to
    BY <1>2 DEF AtUnit
<1>12. Holds(l + 1, l + n, u)'
    <2>1. PICK hdr : hdr = u.from + NAL_HDR /\ hdr = unit.from + NAL_HDR
        BY <1>11
    <2>2. NAL_HDR' = NAL_HDR /\ Len(pushed') = Len(pushed)
        BY <1>1 DEF NAL_HDR
    <2>3. ASSUME NEW i \in l + 1..l + n
          PROVE  /\ Bytes(i)'.kind = "FRAG"
                 /\ Bytes(i)'.part = IF i = l + 1 THEN "START" ELSE IF i = l + n THEN "END" ELSE "MIDDLE"
                 /\ Bytes(i)'.pieces = Own(Len(pushed), hdr + (i - (l + 1)) * PAYLOAD_SIZE,
                                           IF i = l + n THEN u.to
                                           ELSE hdr + (i - (l + 1) + 1) * PAYLOAD_SIZE)
        <3>1. PICK m \in 1..n : i = l + m /\ m = i - l
            <4>1. i - l \in 1..n /\ i = l + (i - l)
                OBVIOUS
            <4> QED
                BY <4>1
        <3>2. /\ m - 1 = i - (l + 1) /\ (m + 1) - 1 = i - (l + 1) + 1
              /\ (i = l + 1 <=> m = 1) /\ (i = l + n <=> m = n)
            BY <3>1
        <3>3. Bytes(i)' = Packet("FRAG", IF m = n THEN "END" ELSE IF m = 1 THEN "START" ELSE "MIDDLE",
                                <<Piece(hdr + (m - 1) * PAYLOAD_SIZE,
                                        IF m = n THEN unit.to
                                        ELSE hdr + ((m + 1) - 1) * PAYLOAD_SIZE)>>, FALSE)
            <4>1. Bytes(l + m)' = ps[m]
                BY <1>10
            <4> QED
                BY <1>5, <1>6, <2>1, <3>1, <4>1
        <3>4. /\ Bytes(i)'.kind = "FRAG"
              /\ Bytes(i)'.part = IF m = n THEN "END" ELSE IF m = 1 THEN "START" ELSE "MIDDLE"
              /\ Bytes(i)'.pieces = <<Piece(hdr + (m - 1) * PAYLOAD_SIZE,
                                            IF m = n THEN unit.to
                                            ELSE hdr + ((m + 1) - 1) * PAYLOAD_SIZE)>>
            BY <3>3 DEF Packet
        <3>5. Bytes(i)'.pieces = Own(Len(pushed), hdr + (m - 1) * PAYLOAD_SIZE,
                                    IF m = n THEN unit.to ELSE hdr + ((m + 1) - 1) * PAYLOAD_SIZE)
            BY <3>4, OwnPiece
        <3>6. Bytes(i)'.part = IF m = 1 THEN "START" ELSE IF m = n THEN "END" ELSE "MIDDLE"
            BY <1>5, <3>4
        <3> QED
            BY <1>11, <3>2, <3>4, <3>5, <3>6
    <2>4. Large(u) /\ l + 1 < l + n
        BY <1>1, <1>2, <1>5, <1>11
    <2> QED
        BY <2>1, <2>2, <2>3, <2>4 DEF Holds
<1>13. HoldsUnits(d + 1)'
    <2>1. \A i \in 1..n : ~Bytes(l + i)'.marker
        <3>1. \A i \in 1..n : ps[i].marker = FALSE
            BY <1>5, <1>6 DEF Packet
        <3> QED
            BY <1>10, <3>1
    <2>2. \A j \in 1..d + 1 : Large(Us[j]) => active'.fu_type = Data[Us[j].from + 1]
        <3>1. Type = Data[Us[d + 1].from + 1] /\ Large(Us[d + 1])
            BY <1>1, <1>2, <1>11 DEF Type
        <3>2. /\ Len(Us) \in Nat
              /\ \A i, j \in 1..Len(Us) :
                    Large(Us[i]) /\ Large(Us[j]) => Data[Us[i].from + 1] = Data[Us[j].from + 1]
            BY <1>3, PlainFacts
        <3>3. \A j \in 1..d + 1 : j \in 1..Len(Us)
            BY <1>2, <3>2
        <3> QED
            BY <1>2, <1>10, <3>1, <3>2, <3>3
    <2>3. n >= 1
        BY <1>5
    <2> QED
        BY <1>1, <1>2, <1>4, <1>10, <1>11, <1>12, <2>1, <2>2, <2>3, HoldsNext
<1>14. nalus' = <<>>
    <2>1. CASE forgets /\ ~unit.more
        BY <2>1 DEF push_large_unit
    <2>2. CASE ~(forgets /\ ~unit.more)
        <3>1. nalus' = [i \in 1..Len(nalus) |-> [nalus[i] EXCEPT !.swapped = ~@]]
            BY <2>2 DEF push_large_unit
        <3>2. PICK f : f = nalus' /\ f = [i \in 1..0 |-> f[i]]
            BY <1>3, <3>1
        <3> QED
            BY <3>2, NoEntries
    <2> QED
        BY <2>1, <2>2
<1> QED
    BY <1>1, <1>2, <1>3, <1>10, <1>13, <1>14, UnitDone

LEMMA GenericContents ==
    ASSUME PlainState, push_generic
    PROVE  Contents'
<1>1. /\ pc = "queue" /\ pc' = "flush" /\ format = "GENERIC" /\ InFrame
      /\ UNCHANGED <<format, pushed, nalus, after>>
    BY DEF push_generic, InFrame, aggregationVars
<1>2. /\ Len(Data) \in Nat /\ Len(Data) >= 1 /\ PAYLOAD_SIZE \in Nat /\ PAYLOAD_SIZE > 0
      /\ Shaped(active) /\ Headed /\ Len(active.packets) = 0 /\ nalus = <<>> /\ after = "return"
    <2>1. Data \in Seq(Nat) /\ Data # <<>>
        BY <1>1, SendAssumption DEF PlainState, TypeInv, Data
    <2> QED
        BY <1>1, <2>1, PushedFacts DEF PlainState, TransactionsInv, Contents
<1>3. PICK n : n = (Len(Data) + PAYLOAD_SIZE - 1) \div PAYLOAD_SIZE
    OBVIOUS
<1>4. n \in Nat /\ n >= 1
    <2>1. PICK x \in Nat : x = Len(Data) + PAYLOAD_SIZE - 1 /\ x >= PAYLOAD_SIZE
        BY <1>2
    <2>2. n \in Nat /\ x < (n + 1) * PAYLOAD_SIZE
        BY <1>2, <1>3, <2>1
    <2>3. n = 0 => x < PAYLOAD_SIZE
        BY <1>2, <2>2
    <2> QED
        BY <1>2, <2>1, <2>2, <2>3
<1>5. PICK ps : ps = [i \in 1..n |->
                        Packet("SINGLE", "WHOLE",
                               <<Piece((i - 1) * PAYLOAD_SIZE,
                                       IF i = n THEN Len(Data) ELSE i * PAYLOAD_SIZE)>>,
                               n > 1 /\ i \in {1, n})]
    OBVIOUS
<1>6. enqueue_message(active, ps)
    BY <1>3, <1>5 DEF push_generic
<1>7. IsSeq(ps) /\ Len(ps) = n
    BY <1>4, <1>5, FunctionIsSeq
<1>8. PICK t, l : t = active /\ l = 0
    OBVIOUS
<1>9. QueuedBehind(t, ps, l, n)
    <2>1. enqueue_message(t, ps) /\ l \in Nat /\ l = Len(active.packets)
        BY <1>2, <1>6, <1>8
    <2> QED
        BY <1>2, <1>4, <1>7, <1>8, <2>1, QueuedFacts
<1>10. /\ Headed' /\ Len(active'.packets) = n
       /\ \A i \in 1..n : Bytes(i)' = ps[i]
    <2>1. \A i \in 1..n : l + i = i
        BY <1>4, <1>8
    <2>2. Len(active'.packets) = l + n /\ l + n = n
        BY <1>4, <1>8, <1>9 DEF QueuedBehind
    <2> QED
        BY <1>9, <2>1, <2>2 DEF QueuedBehind, Bytes
<1>11. HoldsPieces'
    <2>1. Len(pushed') = Len(pushed) /\ Data' = Data
        BY <1>1 DEF Data
    <2>2. ASSUME NEW i \in 1..n
          PROVE  /\ Bytes(i)'.pieces = Own(Len(pushed), (i - 1) * PAYLOAD_SIZE,
                                           IF i = n THEN Len(Data) ELSE i * PAYLOAD_SIZE)
                 /\ Bytes(i)'.marker <=> n > 1 /\ i \in {1, n}
        <3>1. Bytes(i)' = Packet("SINGLE", "WHOLE",
                                <<Piece((i - 1) * PAYLOAD_SIZE,
                                        IF i = n THEN Len(Data) ELSE i * PAYLOAD_SIZE)>>,
                                n > 1 /\ i \in {1, n})
            BY <1>5, <1>10
        <3>2. /\ Bytes(i)'.pieces = <<Piece((i - 1) * PAYLOAD_SIZE,
                                            IF i = n THEN Len(Data) ELSE i * PAYLOAD_SIZE)>>
              /\ Bytes(i)'.marker = (n > 1 /\ i \in {1, n})
            BY <3>1 DEF Packet
        <3> QED
            BY <3>2, OwnPiece
    <2> QED
        BY <1>4, <1>10, <2>1, <2>2 DEF HoldsPieces
<1> QED
    BY <1>1, <1>2, <1>10, <1>11 DEF Contents, InFrame

-----------------------------------------------------------------------------
(***************************************************************************)
(* What the socket is given of a plain frame.                              *)
(***************************************************************************)
LEMMA WireFacts ==
    ASSUME TypeInv, Shaped(active), Headed, NEW l \in Nat, l = Len(active.packets),
           NEW w \in Nat, w = Len(wire), wire' = wire \o OnTheWire(active)
    PROVE  /\ Len(wire') = w + l
           /\ \A i \in 1..w : wire'[i] = wire[i]
           /\ \A m \in 1..l :
                 /\ wire'[w + m].kind = Bytes(m).kind /\ wire'[w + m].part = Bytes(m).part
                 /\ wire'[w + m].pieces = Bytes(m).pieces /\ wire'[w + m].frame = Len(pushed)
                 /\ Bytes(m).kind = "FRAG" => wire'[w + m].type = active.fu_type
                 /\ wire'[w + m].marker = (Bytes(m).marker \/ (l > 1 /\ m = l))
<1>1. PICK out : out = OnTheWire(active)
    OBVIOUS
<1>2. IsSeq(out) /\ Len(out) = l
    <2>1. out = [i \in 1..l |-> out[i]]
        BY <1>1 DEF OnTheWire
    <2> QED
        BY <2>1, FunctionIsSeq
<1>3. PICK old : old = wire /\ IsSeq(old) /\ Len(old) = w
    BY DEF TypeInv
<1>4. /\ Len(old \o out) = w + l
      /\ \A i \in 1..w : (old \o out)[i] = old[i]
      /\ \A i \in 1..l : (old \o out)[w + i] = out[i]
    <2>1. IsSeq(old) /\ w = Len(old)
        BY <1>3
    <2>2. IsSeq(out) /\ l = Len(out)
        BY <1>2
    <2>3. Len(old \o out) = w + l
        BY <2>1, <2>2, ConcatIs
    <2>4. \A i \in 1..w : (old \o out)[i] = old[i]
        BY <2>1, <2>2, ConcatIs
    <2>5. \A i \in 1..l : (old \o out)[w + i] = out[i]
        BY <2>1, <2>2, ConcatIs
    <2> QED
        BY <2>3, <2>4, <2>5
<1>5. wire' = old \o out
    BY <1>1, <1>3
<1>6. ASSUME NEW m \in 1..l
      PROVE  /\ out[m].kind = Bytes(m).kind /\ out[m].part = Bytes(m).part
             /\ out[m].pieces = Bytes(m).pieces /\ out[m].frame = Len(pushed)
             /\ Bytes(m).kind = "FRAG" => out[m].type = active.fu_type
             /\ out[m].marker = (Bytes(m).marker \/ (l > 1 /\ m = l))
    <2>1. PICK p : p = active.packets[m] /\ p.bytes = Bytes(m) /\ p.slot = m - 1
        BY DEF Headed, Bytes
    <2>2. active.rtp_headers[p.slot].marker = Bytes(m).marker /\ active.rtphdr_ptr = l
        BY <2>1 DEF Headed
    <2>3. PICK mark : mark = (active.rtp_headers[p.slot].marker
                                \/ (Len(active.packets) > 1 /\ p.slot = active.rtphdr_ptr - 1))
        OBVIOUS
    <2>4. PICK y : y = IF p.bytes.kind = "FRAG" THEN active.fu_type ELSE 0
        OBVIOUS
    <2>5. out[m] = [seq |-> active.rtp_headers[p.slot].seq, kind |-> p.bytes.kind,
                    part |-> p.bytes.part, marker |-> mark, pieces |-> p.bytes.pieces,
                    frame |-> Len(pushed), type |-> y]
        BY <1>1, <2>1, <2>3, <2>4 DEF OnTheWire
    <2>6. out[m].marker = mark
        BY <2>5
    <2>7. mark = (Bytes(m).marker \/ (l > 1 /\ m = l))
        <3>1. p.slot = active.rtphdr_ptr - 1 <=> m = l
            BY <2>1, <2>2
        <3> QED
            BY <2>2, <2>3, <3>1
    <2>8. /\ out[m].kind = p.bytes.kind /\ out[m].part = p.bytes.part
          /\ out[m].pieces = p.bytes.pieces /\ out[m].frame = Len(pushed) /\ out[m].type = y
        BY <2>5
    <2> QED
        BY <2>1, <2>4, <2>6, <2>7, <2>8
<1>7. Len(wire') = w + l /\ \A i \in 1..w : wire'[i] = wire[i]
    BY <1>3, <1>4, <1>5
<1>8. ASSUME NEW m \in 1..l
      PROVE  /\ wire'[w + m].kind = Bytes(m).kind /\ wire'[w + m].part = Bytes(m).part
             /\ wire'[w + m].pieces = Bytes(m).pieces /\ wire'[w + m].frame = Len(pushed)
             /\ Bytes(m).kind = "FRAG" => wire'[w + m].type = active.fu_type
             /\ wire'[w + m].marker = (Bytes(m).marker \/ (l > 1 /\ m = l))
    <2>1. wire'[w + m] = out[m]
        BY <1>4, <1>5
    <2> QED
        BY <1>6, <2>1
<1> QED
    BY <1>7, <1>8

\* The packets of a unit come on the wire in the order they were held in.
LEMMA CarriesHeld ==
    ASSUME NEW w \in Nat, NEW l \in Nat, NEW lo \in 1..l, NEW hi \in 0..l, NEW u, Holds(lo, hi, u),
           UNCHANGED <<format, pushed>>, NEW k, k = Len(pushed),
           \A m \in 1..l :
              /\ wire'[w + m].kind = Bytes(m).kind /\ wire'[w + m].part = Bytes(m).part
              /\ wire'[w + m].pieces = Bytes(m).pieces
              /\ Bytes(m).kind = "FRAG" => wire'[w + m].type = active.fu_type,
           Large(u) => active.fu_type = pushed[k].data[u.from + 1]
    PROVE  Carries(w + lo, w + hi, k, u)'
<1>1. NAL_HDR' = NAL_HDR
    BY DEF NAL_HDR
<1>2. CASE lo = hi
    <2>1. Bytes(lo).kind = "SINGLE" /\ Bytes(lo).pieces = Own(k, u.from, u.to)
        BY <1>2 DEF Holds
    <2>2. wire'[w + lo].kind = "SINGLE" /\ wire'[w + lo].pieces = Own(k, u.from, u.to)
        BY <2>1
    <2>3. w + lo = w + hi
        BY <1>2
    <2> QED
        BY <2>2, <2>3 DEF Carries
<1>3. CASE lo # hi
    <2>1. lo < hi /\ Large(u)
        BY <1>3 DEF Holds
    <2>2. w + lo < w + hi
        BY <2>1
    <2>3. PICK hdr : hdr = u.from + NAL_HDR
        OBVIOUS
    <2>4. ASSUME NEW i \in w + lo..w + hi
          PROVE  /\ wire'[i].kind = "FRAG" /\ wire'[i].type = pushed[k].data[u.from + 1]
                 /\ wire'[i].part = IF i = w + lo THEN "START" ELSE IF i = w + hi THEN "END" ELSE "MIDDLE"
                 /\ wire'[i].pieces = Own(k, hdr + (i - (w + lo)) * PAYLOAD_SIZE,
                                          IF i = w + hi THEN u.to
                                          ELSE hdr + (i - (w + lo) + 1) * PAYLOAD_SIZE)
        <3>1. PICK m \in lo..hi : i = w + m
            <4>1. i - w \in lo..hi /\ i = w + (i - w)
                OBVIOUS
            <4> QED
                BY <4>1
        <3>2. /\ m \in 1..l /\ i - (w + lo) = m - lo
              /\ (i = w + lo <=> m = lo) /\ (i = w + hi <=> m = hi)
            BY <3>1
        <3>3. /\ Bytes(m).kind = "FRAG"
              /\ Bytes(m).part = IF m = lo THEN "START" ELSE IF m = hi THEN "END" ELSE "MIDDLE"
              /\ Bytes(m).pieces = Own(k, hdr + (m - lo) * PAYLOAD_SIZE,
                                       IF m = hi THEN u.to ELSE hdr + (m - lo + 1) * PAYLOAD_SIZE)
            BY <1>3, <2>3, <3>1 DEF Holds
        <3>4. /\ wire'[i].kind = Bytes(m).kind /\ wire'[i].part = Bytes(m).part
              /\ wire'[i].pieces = Bytes(m).pieces /\ wire'[i].type = active.fu_type
            BY <3>1, <3>2, <3>3
        <3> QED
            BY <2>1, <3>2, <3>3, <3>4
    <2> QED
        BY <1>1, <2>2, <2>3, <2>4 DEF Carries
<1> QED
    BY <1>2, <1>3

LEMMA SentWhole ==
    ASSUME PlainState, NumbersInv, flush_queue, NEW k, k = Len(pushed)
    PROVE  WholeSent(k)' /\ MarksTheEnd(k)'
<1>1. /\ pc = "flush" /\ InFrame /\ UNCHANGED <<format, pushed>> /\ wire' = wire \o OnTheWire(active)
      /\ TypeInv /\ Shaped(active) /\ Headed /\ OnlyPlain /\ format \in Formats
    BY SendAssumption DEF flush_queue, PlainState, TransactionsInv, Contents, InFrame, TypeInv
<1>2. PICK w \in Nat, l \in Nat : w = Len(wire) /\ l = Len(active.packets)
    BY <1>1, SeqLen DEF TypeInv, Shaped
<1>3. /\ Len(wire') = w + l
      /\ \A i \in 1..w : wire'[i] = wire[i]
      /\ \A m \in 1..l :
            /\ wire'[w + m].kind = Bytes(m).kind /\ wire'[w + m].part = Bytes(m).part
            /\ wire'[w + m].pieces = Bytes(m).pieces /\ wire'[w + m].frame = Len(pushed)
            /\ Bytes(m).kind = "FRAG" => wire'[w + m].type = active.fu_type
            /\ wire'[w + m].marker = (Bytes(m).marker \/ (l > 1 /\ m = l))
    BY <1>1, <1>2, WireFacts
<1>4. \A i \in w + 1..w + l : i - w \in 1..l /\ i = w + (i - w)
    OBVIOUS
<1>5. SentAt(k)' = w + 1..w + l
    <2>1. \A i \in 1..w : wire'[i].frame # k
        BY <1>1, <1>2, <1>3 DEF NumbersInv
    <2>2. \A i \in w + 1..w + l : wire'[i].frame = k
        BY <1>3, <1>4
    <2>3. 1..w + l = (1..w) \cup (w + 1..w + l)
        OBVIOUS
    <2>4. SentAt(k)' = {i \in 1..w + l : wire'[i].frame = k}
        BY <1>3 DEF SentAt
    <2> QED
        BY <2>1, <2>2, <2>3, <2>4
<1>6. pushed'[k].data = Data /\ pushed[k].data = Data
    BY <1>1 DEF Data, Last
<1>7. IF format = "GENERIC" THEN HoldsPieces ELSE HoldsUnits(Len(Us)) /\ format \in H26x
    BY <1>1 DEF PlainState, Contents, Formats
<1>8. l >= 1
    <2>1. CASE format = "GENERIC"
        BY <1>2, <1>7, <2>1 DEF HoldsPieces
    <2>2. CASE format # "GENERIC"
        <3>1. Len(Us) \in Nat /\ Len(Us) >= 1
            BY <1>1, <1>7, <2>2, PlainFacts
        <3>2. PICK head \in [1..Len(Us) + 1 -> 1..l + 1] :
                 head[1] = 1 /\ \A j \in 1..Len(Us) : Holds(head[j], head[j + 1] - 1, Us[j])
            BY <1>2, <1>7, <2>2 DEF HoldsUnits
        <3>3. 1 \in 1..Len(Us) /\ 1 + 1 \in 1..Len(Us) + 1
            BY <3>1
        <3>4. head[1 + 1] \in 1..l + 1 /\ Holds(1, head[1 + 1] - 1, Us[1])
            BY <3>2, <3>3
        <3>5. 1 = head[1 + 1] - 1 \/ 1 < head[1 + 1] - 1
            BY <3>4 DEF Holds
        <3> QED
            BY <3>4, <3>5
    <2> QED
        BY <2>1, <2>2
<1>9. WholeSent(k)'
    <2>1. PICK first, last : first = w + 1 /\ last = w + l
        OBVIOUS
    <2>2. /\ first \in 1..Len(wire') /\ last \in 1..Len(wire') /\ SentAt(k)' = first..last
          /\ \A i \in first..last : i - w \in 1..l /\ i = w + (i - w)
          /\ last + 1 = w + (l + 1)
        BY <1>3, <1>4, <1>5, <1>8, <2>1
    <2>3. CASE format = "GENERIC"
        <3>1. ASSUME NEW i \in first..last
              PROVE  wire'[i].pieces = Own(k, (i - first) * PAYLOAD_SIZE,
                                           IF i = last THEN Len(Data) ELSE (i - first + 1) * PAYLOAD_SIZE)
            <4>1. PICK m \in 1..l : i = w + m
                BY <2>2
            <4>2. m - 1 = i - first /\ m = i - first + 1 /\ (i = last <=> m = l)
                BY <2>1, <4>1
            <4>3. Bytes(m).pieces = Own(k, (m - 1) * PAYLOAD_SIZE,
                                        IF m = l THEN Len(Data) ELSE m * PAYLOAD_SIZE)
                BY <1>2, <1>7, <2>3 DEF HoldsPieces
            <4> QED
                BY <1>3, <4>1, <4>2, <4>3
        <3> QED
            BY <1>1, <1>6, <2>2, <2>3, <3>1 DEF WholeSent
    <2>4. CASE format # "GENERIC"
        <3>1. PICK us, n : us = Us /\ n = Len(us) /\ n \in Nat /\ us = Units(Data)
            <4>1. Len(Us) \in Nat
                BY <1>1, <1>7, <2>4, PlainFacts
            <4> QED
                BY <4>1 DEF Us
        <3>2. PICK head \in [1..n + 1 -> 1..l + 1] :
                 /\ head[1] = 1 /\ head[n + 1] = l + 1
                 /\ \A j \in 1..n : Holds(head[j], head[j + 1] - 1, us[j])
            BY <1>2, <1>7, <2>4, <3>1 DEF HoldsUnits
        <3>3. \A j \in 1..n : Large(us[j]) => active.fu_type = Data[us[j].from + 1]
            BY <1>7, <2>4, <3>1 DEF HoldsUnits
        <3>4. PICK h : h = [j \in 1..n + 1 |-> w + head[j]]
            OBVIOUS
        <3>5. h \in [1..n + 1 -> first..last + 1] /\ h[1] = first /\ h[n + 1] = last + 1
            <4>1. ASSUME NEW j \in 1..n + 1 PROVE w + head[j] \in first..last + 1
                <5>1. head[j] \in 1..l + 1
                    BY <3>2
                <5> QED
                    BY <2>1, <5>1
            <4>2. 1 \in 1..n + 1 /\ n + 1 \in 1..n + 1
                BY <3>1
            <4> QED
                BY <2>1, <2>2, <3>2, <3>4, <4>1, <4>2
        <3>6. ASSUME NEW j \in 1..n PROVE Carries(h[j], h[j + 1] - 1, k, us[j])'
            <4>1. j \in 1..n + 1 /\ j + 1 \in 1..n + 1
                BY <3>1
            <4>2. PICK u, lo, hi : u = us[j] /\ lo = head[j] /\ hi = head[j + 1] - 1
                OBVIOUS
            <4>3. lo \in 1..l + 1 /\ hi \in 0..l /\ Holds(lo, hi, u)
                <5>1. head[j] \in 1..l + 1 /\ head[j + 1] \in 1..l + 1
                    BY <3>2, <4>1
                <5> QED
                    BY <3>2, <4>2, <5>1
            <4>4. lo \in 1..l
                <5>1. lo = hi \/ lo < hi
                    BY <4>3 DEF Holds
                <5> QED
                    BY <4>3, <5>1
            <4>5. Large(u) => active.fu_type = pushed[k].data[u.from + 1]
                BY <1>6, <3>3, <4>2
            <4>6. Carries(w + lo, w + hi, k, u)'
                BY <1>1, <1>3, <4>3, <4>4, <4>5, CarriesHeld
            <4>7. h[j] = w + lo /\ h[j + 1] - 1 = w + hi
                <5>1. h[j] = w + head[j] /\ h[j + 1] = w + head[j + 1] /\ head[j + 1] \in Int
                    BY <3>2, <3>4, <4>1
                <5> QED
                    BY <4>2, <5>1
            <4> QED
                BY <4>2, <4>6, <4>7
        <3>7. \E g \in [1..n + 1 -> first..last + 1] :
                 /\ g[1] = first /\ g[n + 1] = last + 1
                 /\ \A j \in 1..n : Carries(g[j], g[j + 1] - 1, k, us[j])'
            BY <3>5, <3>6
        <3>8. Units(pushed'[k].data) = us /\ format' # "GENERIC"
            BY <1>1, <1>6, <2>4, <3>1
        <3>9. \E g \in [1..Len(us) + 1 -> first..last + 1] :
                 /\ g[1] = first /\ g[Len(us) + 1] = last + 1
                 /\ \A j \in 1..Len(us) : Carries(g[j], g[j + 1] - 1, k, us[j])'
            BY <3>1, <3>7
        <3> QED
            BY <2>2, <3>8, <3>9 DEF WholeSent
    <2> QED
        BY <2>3, <2>4
<1>10. MarksTheEnd(k)'
    <2>1. ASSUME NEW m \in 1..l, NEW i, i = w + m
          PROVE  wire'[i].marker <=>
                   /\ w + 1..w + l # {i}
                   /\ i + 1 \notin w + 1..w + l \/ (format = "GENERIC" /\ i - 1 \notin w + 1..w + l)
        <3>1. (w + 1..w + l # {i}) <=> l > 1
            <4>1. CASE l > 1
                <5>1. w + 1 \in w + 1..w + l /\ w + 2 \in w + 1..w + l /\ w + 1 # w + 2
                    BY <4>1
                <5>2. ASSUME w + 1..w + l = {i} PROVE FALSE
                    <6>1. w + 1 \in {i} /\ w + 2 \in {i}
                        BY <5>1, <5>2
                    <6> QED
                        BY <5>1, <6>1
                <5> QED
                    BY <4>1, <5>2
            <4>2. CASE ~(l > 1)
                <5>1. l = 1 /\ m = 1 /\ i = w + 1
                    BY <2>1, <4>2
                <5>2. w + 1..w + 1 = {w + 1}
                    OBVIOUS
                <5> QED
                    BY <5>1, <5>2
            <4> QED
                BY <4>1, <4>2
        <3>2. (i + 1 \notin w + 1..w + l) <=> m = l
            BY <2>1
        <3>3. (i - 1 \notin w + 1..w + l) <=> m = 1
            BY <2>1
        <3>4. wire'[i].marker = (Bytes(m).marker \/ (l > 1 /\ m = l))
            BY <1>3, <2>1
        <3>5. CASE format = "GENERIC"
            <4>1. Bytes(m).marker <=> l > 1 /\ m \in {1, l}
                BY <1>2, <1>7, <3>5 DEF HoldsPieces
            <4> QED
                BY <3>1, <3>2, <3>3, <3>4, <3>5, <4>1
        <3>6. CASE format # "GENERIC"
            <4>1. ~Bytes(m).marker
                BY <1>2, <1>7, <3>6 DEF HoldsUnits
            <4> QED
                BY <3>1, <3>2, <3>4, <3>6, <4>1
        <3> QED
            BY <3>5, <3>6
    <2> QED
        BY <1>1, <1>4, <1>5, <2>1 DEF MarksTheEnd
<1> QED
    BY <1>9, <1>10

-----------------------------------------------------------------------------
(***************************************************************************)
(* Every step keeps the contents, and what has become of earlier frames.   *)
(***************************************************************************)
FrameWhole(k) ==
    PlainUntil(k) =>
        /\ results[k] # "RTP_INVALID_VALUE"
        /\ results[k] = "RTP_OK" => WholeSent(k) /\ MarksTheEnd(k)

LEMMA FrameStays ==
    ASSUME TypeInv, NEW k \in Nat, FrameWhole(k), UNCHANGED format,
           \A j \in 1..k : pushed'[j] = pushed[j], pushed'[k] = pushed[k], results'[k] = results[k],
           Len(wire') \in Nat, Len(wire) <= Len(wire'),
           \A i \in 1..Len(wire) : wire'[i] = wire[i],
           \A i \in Len(wire) + 1..Len(wire') : wire'[i].frame # k
    PROVE  FrameWhole(k)'
<1>1. PlainUntil(k)' <=> PlainUntil(k)
    BY DEF PlainUntil, Plain
<1>2. /\ WholeSent(k) => WholeSent(k)'
      /\ MarksTheEnd(k) => MarksTheEnd(k)'
    BY StaysSent DEF TypeInv
<1> QED
    BY <1>1, <1>2 DEF FrameWhole

LEMMA WholeIsEach == WholeFrames <=> \A k \in 1..Len(results) : FrameWhole(k)
BY DEF WholeFrames, FrameWhole

LEMMA SameWire ==
    ASSUME TypeInv, UNCHANGED wire
    PROVE  /\ Len(wire') \in Nat /\ Len(wire) <= Len(wire')
           /\ \A i \in 1..Len(wire) : wire'[i] = wire[i]
           /\ \A i \in Len(wire) + 1..Len(wire') : FALSE
<1>1. Len(wire) \in Nat
    BY SeqLen DEF TypeInv
<1> QED
    BY <1>1

\* Nothing has been returned or sent, and the frames are the same.
LEMMA FramesStay ==
    ASSUME TypeInv, WholeFrames, UNCHANGED <<format, results, wire>>,
           Len(results) <= Len(pushed), \A j \in 1..Len(pushed) : pushed'[j] = pushed[j]
    PROVE  WholeFrames'
<1>1. Len(results) \in Nat /\ Len(pushed) \in Nat
    BY SeqLen DEF TypeInv
<1>2. ASSUME NEW k \in 1..Len(results) PROVE FrameWhole(k)'
    <2>1. k \in Nat /\ FrameWhole(k) /\ k \in 1..Len(pushed)
        BY <1>1, WholeIsEach
    <2>2. \A j \in 1..k : pushed'[j] = pushed[j]
        BY <1>1, <2>1
    <2> QED
        BY <2>1, <2>2, SameWire, FrameStays
<1> QED
    BY <1>2 DEF WholeFrames, FrameWhole

LEMMA QuietKeeps ==
    ASSUME TypeInv, ContentsInv, InFrame, InFrame', UNCHANGED <<format, pushed, results, wire>>,
           OnlyPlain => Contents'
    PROVE  ContentsInv'
<1>1. Len(pushed) = Len(results) + 1 /\ Len(results) \in Nat /\ WholeFrames
    BY SeqLen DEF ContentsInv, TypeInv
<1>2. WholeFrames'
    BY <1>1, FramesStay
<1>3. OnlyPlain' => OnlyPlain
    BY DEF OnlyPlain, PlainUntil, Plain
<1> QED
    BY <1>1, <1>2, <1>3 DEF ContentsInv

LEMMA QueueingKeeps ==
    ASSUME TypeInv, TransactionsInv, ContentsInv, Next,
           ~(\E r \in Frames[format] : push_media_frame(r)), ~push_nal_unit_invalid,
           ~flush_queue, ~flush_queue_fails
    PROVE  ContentsInv'
<1>1. /\ InFrame /\ InFrame' /\ UNCHANGED <<format, pushed, results, wire>>
      /\ \/ push_generic \/ push_h26x_short \/ push_h26x_slice \/ push_h26x_frame
         \/ push_nal_unit_aggregates \/ push_nal_unit_single
         \/ make_aggregation_pkt_single \/ make_aggregation_pkt
         \/ push_large_unit(TRUE) \/ push_large_unit(FALSE)
    BY DEF Next, InFrame, push_generic, push_h26x_short, push_h26x_slice, push_h26x_frame,
           push_nal_unit_aggregates, push_nal_unit_single, make_aggregation_pkt_single,
           make_aggregation_pkt, push_nal_unit_264, push_nal_unit_265, push_nal_unit_266,
           push_large_unit, GoOn
<1>2. ASSUME OnlyPlain PROVE Contents'
    <2>1. PlainState
        BY <1>2 DEF PlainState, ContentsInv
    <2>2. CASE push_generic \/ push_h26x_short \/ push_h26x_slice \/ push_h26x_frame
        BY <2>1, <2>2, GenericContents, ShortContents, LookContents
    <2>3. CASE \/ push_nal_unit_aggregates \/ make_aggregation_pkt_single \/ make_aggregation_pkt
        <3>1. pc = "unit"
            BY <2>3 DEF push_nal_unit_aggregates, make_aggregation_pkt_single, make_aggregation_pkt
        <3> QED
            BY <2>1, <2>3, <3>1, NoneWaits
    <2>4. CASE push_nal_unit_single \/ push_large_unit(TRUE) \/ push_large_unit(FALSE)
        BY <2>1, <2>4, SingleContents, LargeContents
    <2> QED
        BY <1>1, <2>2, <2>3, <2>4
<1> QED
    BY <1>1, <1>2, QuietKeeps

LEMMA PushKeeps ==
    ASSUME TypeInv, TransactionsInv, NumbersInv, ContentsInv,
           NEW r \in Frames[format], push_media_frame(r)
    PROVE  ContentsInv'
<1>1. /\ pc = "idle" /\ pc' = "queue" /\ ~InFrame /\ InFrame' /\ init_transaction
      /\ pushed' = Append(pushed, r) /\ after' = "return" /\ UNCHANGED <<format, results, nalus, wire>>
    BY DEF push_media_frame, InFrame, aggregationVars
<1>2. Len(pushed) = Len(results) /\ Len(results) \in Nat /\ WholeFrames
    BY <1>1, SeqLen DEF ContentsInv, TypeInv
<1>3. /\ Len(pushed') = Len(pushed) + 1
      /\ \A j \in 1..Len(pushed) : pushed'[j] = pushed[j]
    BY <1>1, AppendFacts DEF TypeInv
<1>4. WholeFrames'
    BY <1>1, <1>2, <1>3, FramesStay
<1>5. ASSUME OnlyPlain' PROVE Contents'
    <2>1. OnlyPlain
        <3>1. \A j \in 1..Len(pushed) : j \in 1..Len(pushed')
            BY <1>2, <1>3
        <3> QED
            BY <1>1, <1>3, <1>5, <3>1 DEF OnlyPlain, PlainUntil, Plain
    <2>2. NoneRefused
        <3>1. ASSUME NEW k \in 1..Len(results) PROVE results[k] # "RTP_INVALID_VALUE"
            <4>1. PlainUntil(k)
                <5>1. \A j \in 1..k : j \in 1..Len(pushed)
                    BY <1>2
                <5> QED
                    BY <2>1, <5>1 DEF OnlyPlain, PlainUntil
            <4> QED
                BY <1>2, <4>1 DEF WholeFrames
        <3> QED
            BY <3>1 DEF NoneRefused
    <2>3. active'.packets = <<>> /\ active'.rtphdr_ptr = 0
        <3>1. CASE free = <<>>
            BY <1>1, <3>1 DEF init_transaction
        <3>2. CASE free # <<>>
            <4>1. active' = [Last(free) EXCEPT !.rtphdr_ptr = 0]
                BY <1>1, <3>2 DEF init_transaction
            <4>2. Len(free) \in Nat /\ Len(free) >= 1 /\ Last(free) = free[Len(free)]
                BY <3>2, FrontFacts, SeqLen DEF TransactionsInv
            <4>3. PICK t : t = Last(free) /\ Shaped(t) /\ t.packets = <<>>
                <5>1. Len(free) \in 1..Len(free)
                    BY <4>2
                <5> QED
                    BY <2>2, <4>2, <5>1 DEF TransactionsInv, NumbersInv
            <4>4. active' = [key |-> t.key, packets |-> t.packets, rtp_headers |-> t.rtp_headers,
                             rtphdr_ptr |-> 0, fu_type |-> t.fu_type]
                BY <4>1, <4>3 DEF Shaped
            <4> QED
                BY <4>3, <4>4
        <3> QED
            BY <3>1, <3>2
    <2>4. Len(active'.packets) = 0
        BY <2>3
    <2>5. Headed'
        BY <2>3, <2>4 DEF Headed
    <2>6. nalus = <<>>
        BY <2>1 DEF ContentsInv, Contents
    <2> QED
        BY <1>1, <2>4, <2>5, <2>6 DEF Contents
<1> QED
    BY <1>1, <1>2, <1>3, <1>4, <1>5 DEF ContentsInv

LEMMA InvalidKeeps ==
    ASSUME TypeInv, TransactionsInv, ContentsInv, push_nal_unit_invalid
    PROVE  ContentsInv'
<1>1. /\ pc = "unit" /\ InFrame /\ pc' = "idle" /\ ~InFrame' /\ UNCHANGED <<format, pushed, wire>>
      /\ results' = Append(results, "RTP_INVALID_VALUE")
    BY DEF push_nal_unit_invalid, InFrame
<1>2. Len(pushed) = Len(results) + 1 /\ Len(results) \in Nat /\ WholeFrames
    BY <1>1, SeqLen DEF ContentsInv, TypeInv
<1>3. ~OnlyPlain
    BY <1>1, NoneWaits DEF PlainState, ContentsInv
<1>4. /\ Len(results') = Len(results) + 1
      /\ \A k \in 1..Len(results) : results'[k] = results[k]
    BY <1>1, AppendFacts DEF TypeInv
<1>5. ~OnlyPlain'
    BY <1>1, <1>3 DEF OnlyPlain, PlainUntil, Plain
<1>6. ASSUME NEW k \in 1..Len(results') PROVE FrameWhole(k)'
    <2>1. CASE k \in 1..Len(results)
        <3>1. k \in Nat /\ FrameWhole(k)
            BY <1>2, <2>1, WholeIsEach
        <3> QED
            BY <1>1, <1>4, <2>1, <3>1, SameWire, FrameStays
    <2>2. CASE k \notin 1..Len(results)
        <3>1. k = Len(pushed')
            BY <1>1, <1>2, <1>4, <2>2
        <3> QED
            BY <1>5, <3>1 DEF FrameWhole, OnlyPlain
    <2> QED
        BY <2>1, <2>2
<1>7. WholeFrames'
    BY <1>6 DEF WholeFrames, FrameWhole
<1> QED
    BY <1>1, <1>2, <1>4, <1>5, <1>7 DEF ContentsInv

\* What is sent is sent of the present frame.
LEMMA SendingFacts ==
    ASSUME TypeInv, TransactionsInv, NEW sent, Sends(sent)
    PROVE  /\ Len(wire) \in Nat /\ Len(wire') \in Nat /\ Len(wire) <= Len(wire')
           /\ \A i \in 1..Len(wire) : wire'[i] = wire[i]
           /\ \A i \in Len(wire) + 1..Len(wire') : wire'[i].frame = Len(pushed)
<1>1. IsSeq(sent) /\ IsSeq(wire) /\ Shaped(active) /\ wire' = wire \o sent
    BY DEF Sends, TransactionsInv, TypeInv, InFrame
<1>2. PICK w \in Nat, k \in Nat : w = Len(wire) /\ k = Len(sent)
    BY <1>1, SeqLen
<1>3. /\ Len(wire') = w + k
      /\ \A i \in 1..w : wire'[i] = wire[i]
      /\ \A i \in 1..k : wire'[w + i] = sent[i]
    BY <1>1, <1>2, ConcatFacts
<1>4. \A i \in 1..k : wire'[w + i].frame = Len(pushed)
    BY <1>1, <1>2, <1>3, SentFacts
<1>5. ASSUME NEW i \in w + 1..w + k PROVE wire'[i].frame = Len(pushed)
    <2>1. i - w \in 1..k /\ i = w + (i - w)
        OBVIOUS
    <2> QED
        BY <1>4, <2>1
<1> QED
    BY <1>2, <1>3, <1>5

LEMMA FlushKeeps ==
    ASSUME TypeInv, TransactionsInv, NumbersInv, ContentsInv,
           flush_queue \/ flush_queue_fails
    PROVE  ContentsInv'
<1>1. /\ pc = "flush" /\ InFrame /\ UNCHANGED <<format, pushed>>
      /\ \E r \in {"RTP_OK", "RTP_SEND_ERROR"} : Return(r) /\ (r = "RTP_OK" => flush_queue)
    BY DEF flush_queue, flush_queue_fails, InFrame
<1>2. PICK r \in {"RTP_OK", "RTP_SEND_ERROR"} : Return(r) /\ (r = "RTP_OK" => flush_queue)
    BY <1>1
<1>3. /\ Len(wire) \in Nat /\ Len(wire') \in Nat /\ Len(wire) <= Len(wire')
      /\ \A i \in 1..Len(wire) : wire'[i] = wire[i]
      /\ \A i \in Len(wire) + 1..Len(wire') : wire'[i].frame = Len(pushed)
    <2>1. InFrame => Shaped(active)
        BY DEF TransactionsInv
    <2>2. PICK sent : Sends(sent)
        BY <1>1, <2>1, FlushWay
    <2> QED
        BY <2>2, SendingFacts
<1>4. Len(pushed) = Len(results) + 1 /\ Len(results) \in Nat /\ WholeFrames
    BY <1>1, SeqLen DEF ContentsInv, TypeInv
<1>5. OnlyPlain' <=> OnlyPlain
    BY <1>1 DEF OnlyPlain, PlainUntil, Plain
<1>6. \/ pc' = "crashed" /\ results' = results /\ ~OnlyPlain
      \/ pc' = "idle" /\ results' = Append(results, r)
    BY <1>1, <1>2 DEF Return, ContentsInv, Contents
<1>7. ~InFrame'
    BY <1>6 DEF InFrame
<1>8. ASSUME NEW k \in 1..Len(results), results'[k] = results[k] PROVE FrameWhole(k)'
    <2>1. k \in Nat /\ FrameWhole(k) /\ k # Len(pushed)
        BY <1>4, WholeIsEach
    <2> QED
        BY <1>1, <1>3, <1>8, <2>1, FrameStays
<1>9. CASE pc' = "crashed" /\ results' = results /\ ~OnlyPlain
    <2>1. WholeFrames'
        BY <1>8, <1>9 DEF WholeFrames, FrameWhole
    <2> QED
        BY <1>1, <1>4, <1>5, <1>9, <2>1 DEF ContentsInv
<1>10. CASE pc' = "idle" /\ results' = Append(results, r)
    <2>1. /\ Len(results') = Len(results) + 1 /\ results'[Len(results) + 1] = r
          /\ \A k \in 1..Len(results) : results'[k] = results[k]
        BY <1>10, AppendFacts DEF TypeInv
    <2>2. PICK n : n = Len(pushed) /\ n = Len(results) + 1
        BY <1>4
    <2>3. FrameWhole(n)'
        <3>1. PlainUntil(n)' => OnlyPlain
            BY <1>1, <1>5, <2>2 DEF OnlyPlain
        <3>2. results'[n] = r /\ r # "RTP_INVALID_VALUE"
            BY <2>1, <2>2
        <3>3. ASSUME OnlyPlain, r = "RTP_OK" PROVE WholeSent(n)' /\ MarksTheEnd(n)'
            <4>1. PlainState
                BY <3>3 DEF PlainState, ContentsInv
            <4> QED
                BY <1>2, <2>2, <3>3, <4>1, SentWhole
        <3> QED
            BY <3>1, <3>2, <3>3 DEF FrameWhole
    <2>4. ASSUME NEW k \in 1..Len(results') PROVE FrameWhole(k)'
        <3>1. k \in 1..Len(results) \/ k = n
            BY <1>4, <2>1, <2>2
        <3> QED
            BY <1>8, <2>1, <2>3, <3>1
    <2>5. WholeFrames'
        BY <2>4 DEF WholeFrames, FrameWhole
    <2>6. OnlyPlain' => Contents'
        <3>1. ASSUME OnlyPlain PROVE nalus' = <<>>
            <4>1. nalus = <<>> /\ after = "return"
                BY <1>1, <3>1 DEF ContentsInv, Contents
            <4> QED
                BY <1>2, <4>1 DEF Return, aggregationVars
        <3> QED
            BY <1>5, <1>7, <1>10, <3>1 DEF Contents
    <2> QED
        BY <1>1, <1>4, <1>7, <1>10, <2>1, <2>5, <2>6 DEF ContentsInv
<1> QED
    BY <1>6, <1>9, <1>10

LEMMA ContentsStep ==
    ASSUME TypeInv, TransactionsInv, NumbersInv, ContentsInv, [Next]_vars
    PROVE  ContentsInv'
<1>1. CASE UNCHANGED vars
    <2>1. /\ UNCHANGED <<format, pc, after, pushed, results, unit, active, nalus, wire>>
          /\ (InFrame' <=> InFrame)
        BY <1>1 DEF vars, queueVars, aggregationVars, InFrame
    <2>2. Len(results) <= Len(pushed)
        BY SeqLen DEF ContentsInv, TypeInv
    <2>3. WholeFrames'
        BY <2>1, <2>2, FramesStay DEF ContentsInv
    <2>4. OnlyPlain' <=> OnlyPlain
        BY <2>1 DEF OnlyPlain, PlainUntil, Plain
    <2>5. Contents => Contents'
        <3>1. /\ (Headed => Headed') /\ (HoldsPieces => HoldsPieces') /\ Us' = Us
              /\ \A d : (AtUnit(d) => AtUnit(d)') /\ (HoldsUnits(d) => HoldsUnits(d)')
            BY <2>1 DEF Headed, HoldsPieces, AtUnit, HoldsUnits, Holds, Bytes, Us, Data, NAL_HDR
        <3> QED
            BY <2>1, <3>1 DEF Contents
    <2> QED
        BY <2>1, <2>3, <2>4, <2>5 DEF ContentsInv
<1>2. CASE Next
    BY <1>2, PushKeeps, InvalidKeeps, FlushKeeps, QueueingKeeps
<1> QED
    BY <1>1, <1>2

LEMMA ContentsInit == Init => ContentsInv
<1> SUFFICES ASSUME Init PROVE ContentsInv
    OBVIOUS
<1>1. /\ pc = "idle" /\ ~InFrame /\ Len(pushed) = 0 /\ Len(results) = 0 /\ nalus = <<>>
    BY DEF Init, InFrame
<1>2. WholeFrames
    BY <1>1 DEF WholeFrames
<1> QED
    BY <1>1, <1>2 DEF ContentsInv, Contents

\* h26x.cc, push_h26x_frame() and push_nal_unit(), with queue.cc: whatever became of earlier
\* frames at the socket, a plain frame is not refused, and one that is accepted is on the wire
\* with all its NAL units, in order, with their own types, nothing else among them, and the
\* marker where the receiver expects it; so is a generic frame in its pieces.
THEOREM PlainFramesAreSentWhole == Spec => []WholeFrames
<1>1. Init => ContentsInv
    BY ContentsInit
<1>2. TypeInv /\ TransactionsInv /\ NumbersInv /\ ContentsInv /\ [Next]_vars => ContentsInv'
    BY ContentsStep
<1>3. ContentsInv => WholeFrames
    BY DEF ContentsInv
<1> QED
    BY <1>1, <1>2, <1>3, TransactionsInvariance, NumbersInvariance, PTL DEF Spec
=============================================================================
