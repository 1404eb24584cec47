--------------------------- MODULE H26xReassembly ---------------------------
(***************************************************************************)
(* The receiving side of uvgRTP's media formats: packet_handler() of       *)
(* h264, h265 and h266_pkt_handler.cc puts NAL units together from the RTP *)
(* packets the network delivers in any order, loses and duplicates, and    *)
(* packet_handler() of media.cc the frames of the generic format. The      *)
(* three H.26x handlers have the same control; H.266 has no aggregation.   *)
(*                                                                         *)
(* A packet is known by its place in the stream; its payload is that       *)
(* place. Only one thread, the packet dispatcher's, runs the handler, and  *)
(* it fetches all that frame_getter() offers before the next packet.       *)
(*                                                                         *)
(* The handler's variable "intra" is local: it is INVALID_TS at the start  *)
(* of each call, set only where an entry is made and tested only before    *)
(* that and where one is completed, so neither test ever succeeds.         *)
(***************************************************************************)
EXTENDS Naturals, Sequences, FiniteSets

CONSTANTS
    Streams,        \* for each format, the sequences of packets a sender may send
    FirstSeqs,      \* sequence numbers the stream may begin with
    SEQ_MOD,        \* RTP sequence numbers are taken modulo this (2^16)
    MaxDuplicates,  \* bound: packets the network delivers twice
    EnableIDelay    \* is RCE_NO_H26X_INTRA_DELAY not set?

H26x == {"H264", "H265", "H266"}
Formats == H26x \cup {"GENERIC", "UNFRAGMENTED"}   \* with, without RCE_FRAGMENT_GENERIC

\* The unit and how many NAL units the receiver is to get from it, the timestamp, the
\* marker bit, the types of packet and NAL unit, the S and E bits of a fragment.
Packet == [unit : Nat, count : 0..3, ts : Nat, marker : BOOLEAN,
           kind : {"SINGLE", "AGGR", "FRAG"}, nal : {"INTRA", "INTER", "OTHER"},
           s : BOOLEAN, e : BOOLEAN]

ASSUME StreamsAssumption ==
    /\ DOMAIN Streams \subseteq Formats
    /\ SEQ_MOD \in Nat /\ FirstSeqs \subseteq 0..SEQ_MOD - 1
    /\ \A f \in DOMAIN Streams : \A s \in Streams[f] : s \in Seq(Packet) /\ Len(s) < SEQ_MOD
    /\ MaxDuplicates \in Nat /\ EnableIDelay \in BOOLEAN

\* What senders send: a unit is one packet, or fragments in a row that carry one timestamp,
\* the first and the last marked as such.
OnePacket(f, q) ==
    /\ f \notin H26x => q.count = 1 /\ (f = "GENERIC" => ~q.marker)
    /\ f \in H26x =>
          \/ q.kind = "SINGLE" /\ q.count = 1
          \/ q.kind = "AGGR" /\ f # "H266"
          \/ q.kind = "FRAG" /\ q.s /\ q.e /\ q.count = 0

Split(f, s, a, b) ==
    /\ f # "UNFRAGMENTED"
    /\ a \in 1..Len(s) /\ b \in 1..Len(s) /\ a < b
    /\ {p \in 1..Len(s) : s[p].unit = s[a].unit} = a..b
    /\ \A p \in a..b :
          /\ s[p].ts = s[a].ts /\ s[p].count = 1
          /\ f \in H26x => s[p].kind = "FRAG" /\ (s[p].s <=> p = a) /\ (s[p].e <=> p = b)
          /\ f = "GENERIC" => (s[p].marker <=> p \in {a, b})

Sent(f, s) ==
    \A p \in 1..Len(s) :
        \/ OnePacket(f, s[p]) /\ {q \in 1..Len(s) : s[q].unit = s[p].unit} = {p}
        \/ \E a, b \in 1..Len(s) : p \in a..b /\ Split(f, s, a, b)

ASSUME StreamsAreSent == \A f \in DOMAIN Streams : \A s \in Streams[f] : Sent(f, s)

VARIABLES
    format,      \* the format of the media stream (never changes)
    stream,      \* the packets sent (never changes)
    first_seq,   \* the sequence number of the first one (never changes)
    receipts,    \* how often each packet has arrived
    frames,      \* timestamp -> h265_info_t; "temporary" is a set, "first" history: the
                 \* packet the entry was made for
    dropped,     \* timestamps of the frames given up
    returned     \* what the user has been given

vars == <<format, stream, first_seq, receipts, frames, dropped, returned>>

Packets == 1..Len(stream)

\* What the senders do not see to, a hypothesis about the encoder that feeds them: a frame
\* given to push_frame() has at most one NAL unit that must be split, as all units of a
\* frame get one timestamp, by which the handlers tell split units apart; and in the
\* generic format no two frames get one timestamp.
OneSplitUnitPerTimestamp ==
    \A p, q \in Packets :
        /\ stream[p].ts = stream[q].ts
        /\ format = "GENERIC" \/ ~(OnePacket(format, stream[p]) \/ OnePacket(format, stream[q]))
        => stream[p].unit = stream[q].unit

Seq16(p) == (first_seq + p - 1) % SEQ_MOD
Ts(p) == stream[p].ts
NoSeq == SEQ_MOD   \* INVALID_SEQ: no 16-bit number

Init ==
    /\ format \in DOMAIN Streams
    /\ stream \in Streams[format]
    /\ first_seq \in FirstSeqs
    /\ receipts = [p \in Packets |-> 0]
    /\ frames = <<>>
    /\ dropped = {}
    /\ returned = <<>>

-----------------------------------------------------------------------------
\* The network: a packet that never arrives is lost, few arrive twice.
Arrives(p) ==
    /\ \/ receipts[p] = 0
       \/ /\ receipts[p] = 1
          /\ Cardinality({q \in Packets : receipts[q] = 2}) < MaxDuplicates
    /\ receipts' = [receipts EXCEPT ![p] = @ + 1]
    /\ UNCHANGED <<format, stream, first_seq>>

FragmentType(p) ==
    CASE stream[p].s /\ stream[p].e   -> "INVALID"
      [] stream[p].s /\ ~stream[p].e  -> "START"
      [] ~stream[p].s /\ stream[p].e  -> "END"
      [] ~stream[p].s /\ ~stream[p].e -> "MIDDLE"

get_frag_264(p) == IF stream[p].kind = "FRAG" THEN FragmentType(p) ELSE stream[p].kind

get_frag_265(p) == IF stream[p].kind = "FRAG" THEN FragmentType(p) ELSE stream[p].kind

\* An aggregation packet would be taken for a NAL unit of its own.
get_frag_266(p) == IF stream[p].kind = "FRAG" THEN FragmentType(p) ELSE "SINGLE"

get_frag(p) ==
    CASE format = "H264" -> get_frag_264(p)
      [] format = "H265" -> get_frag_265(p)
      [] format = "H266" -> get_frag_266(p)

Fragmented(p) == get_frag(p) \in {"START", "MIDDLE", "END"}

\* Mutant: the overflow of the sequence number is not corrected.
Key_uncorrected(s_seq, seq) == seq

\* The map of the fragments has 16-bit keys in H.264 and 32-bit keys in the others.
StoredKey(key) == IF format = "H264" THEN key % SEQ_MOD ELSE key

\* Where a fragment is stored: a number below the first fragment's has overflowed.
Key(s_seq, seq) == StoredKey(IF s_seq > seq THEN SEQ_MOD + seq ELSE seq)

\* The map m with the entries of n, which replace those of m.
With(m, n) == [k \in DOMAIN m \cup DOMAIN n |-> IF k \in DOMAIN n THEN n[k] ELSE m[k]]
At(k, v) == [j \in {k} |-> v]

NewFrame(p) ==
    [s_seq |-> IF get_frag(p) = "START" THEN Seq16(p) ELSE NoSeq,
     e_seq |-> IF get_frag(p) = "END" THEN Seq16(p) ELSE NoSeq,
     pkts_received |-> 1, fragments |-> At(Seq16(p), p), temporary |-> {},
     late |-> FALSE, first |-> p]

Waiting(T, s_seq, k) == CHOOSE q \in T : Key(s_seq, Seq16(q)) = k

\* The first fragment: what had to wait for it gets its place.
Relocate(f, p) ==
    [f EXCEPT !.s_seq = Seq16(p),
              !.fragments = With(With(@, At(Seq16(p), p)),
                                 [k \in {Key(Seq16(p), Seq16(q)) : q \in f.temporary} |->
                                    Waiting(f.temporary, Seq16(p), k)]),
              !.temporary = {}]

\* Another fragment goes to its place, or waits when that is not known yet.
Place(f, p) ==
    IF f.s_seq = NoSeq
    THEN [f EXCEPT !.temporary = @ \cup {p}]
    ELSE [f EXCEPT !.fragments = With(@, At(Key(f.s_seq, Seq16(p)), p))]

Inserted(f, p) ==
    LET counted == [f EXCEPT !.pkts_received = @ + 1,
                             !.e_seq = IF get_frag(p) = "END" THEN Seq16(p) ELSE @]
    IN  IF get_frag(p) = "START" THEN Relocate(counted, p) ELSE Place(counted, p)

\* Mutant: one too few over the overflow (0xffff - s_seq + e_seq + 1).
Expected_off_by_one(f) ==
    IF f.s_seq > f.e_seq THEN SEQ_MOD - f.s_seq + f.e_seq ELSE f.e_seq - f.s_seq + 1

Expected(f) ==
    IF f.s_seq > f.e_seq THEN SEQ_MOD - f.s_seq + f.e_seq + 1 ELSE f.e_seq - f.s_seq + 1

Complete(f) ==
    /\ f.s_seq # NoSeq /\ f.e_seq # NoSeq
    /\ Expected(f) = f.pkts_received

\* The payloads of a map's fragments in the order of their keys.
KeyAt(m, i) == CHOOSE k \in DOMAIN m : Cardinality({j \in DOMAIN m : j <= k}) = i
InOrder(m) == [i \in 1..Cardinality(DOMAIN m) |-> m[KeyAt(m, i)]]

Without(t) == [u \in DOMAIN frames \ {t} |-> frames[u]]

-----------------------------------------------------------------------------
(***************************************************************************)
(* packet_handler() of the H.26x formats, one action per way through it.   *)
(***************************************************************************)
\* An aggregation packet is taken apart into frames for frame_getter().
Disaggregate(p) ==
    /\ returned' = returned \o [k \in 1..stream[p].count |->
                                  [parts |-> <<p>>, piece |-> k, size |-> 1, first |-> p]]
    /\ UNCHANGED <<frames, dropped>>

handle_stap_a(p) == Arrives(p) /\ format = "H264" /\ get_frag(p) = "AGGR" /\ Disaggregate(p)

handle_ap(p) == Arrives(p) /\ format = "H265" /\ get_frag(p) = "AGGR" /\ Disaggregate(p)

ReturnPacket(p) ==
    /\ returned' = Append(returned, [parts |-> <<p>>, piece |-> 1, size |-> 1, first |-> p])
    /\ UNCHANGED <<frames, dropped>>

packet_handler_single(p) == Arrives(p) /\ get_frag(p) = "SINGLE" /\ ReturnPacket(p)

packet_handler_invalid(p) ==
    /\ Arrives(p) /\ get_frag(p) = "INVALID"
    /\ UNCHANGED <<frames, dropped, returned>>

\* Mutant: nobody asks whether the frame has been dropped before.
packet_handler_new_unasked(p) ==
    /\ Arrives(p) /\ Fragmented(p) /\ Ts(p) \notin DOMAIN frames
    /\ frames' = With(frames, At(Ts(p), NewFrame(p)))
    /\ UNCHANGED <<dropped, returned>>

packet_handler_new(p) ==
    /\ Arrives(p) /\ Fragmented(p) /\ Ts(p) \notin DOMAIN frames \cup dropped
    /\ frames' = With(frames, At(Ts(p), NewFrame(p)))
    /\ UNCHANGED <<dropped, returned>>

packet_handler_refuses(p) ==
    /\ Arrives(p) /\ Fragmented(p) /\ Ts(p) \in dropped \ DOMAIN frames
    /\ UNCHANGED <<frames, dropped, returned>>

packet_handler_completes(p) ==
    /\ Arrives(p) /\ Fragmented(p) /\ Ts(p) \in DOMAIN frames
    /\ LET f == Inserted(frames[Ts(p)], p) IN
          /\ Complete(f)
          /\ returned' = Append(returned,
                [parts |-> InOrder(f.fragments), piece |-> 1, size |-> f.pkts_received,
                 first |-> f.first])
    /\ frames' = Without(Ts(p))
    /\ UNCHANGED dropped

\* The delay is over, and the packet at hand is not one of an intra frame.
GivesUp(f, p) == f.late /\ (stream[p].nal # "INTRA" \/ ~EnableIDelay)

\* Mutant: nobody remembers that the frame was given up.
packet_handler_drops_unnoted(p) ==
    /\ Arrives(p) /\ Fragmented(p) /\ Ts(p) \in DOMAIN frames
    /\ LET f == Inserted(frames[Ts(p)], p) IN ~Complete(f) /\ GivesUp(f, p)
    /\ frames' = Without(Ts(p))
    /\ UNCHANGED <<dropped, returned>>

packet_handler_drops(p) ==
    /\ Arrives(p) /\ Fragmented(p) /\ Ts(p) \in DOMAIN frames
    /\ LET f == Inserted(frames[Ts(p)], p) IN ~Complete(f) /\ GivesUp(f, p)
    /\ frames' = Without(Ts(p))
    /\ dropped' = dropped \cup {Ts(p)}
    /\ UNCHANGED returned

packet_handler_stores(p) ==
    /\ Arrives(p) /\ Fragmented(p) /\ Ts(p) \in DOMAIN frames
    /\ LET f == Inserted(frames[Ts(p)], p) IN
          /\ ~Complete(f) /\ ~GivesUp(f, p)
          /\ frames' = [frames EXCEPT ![Ts(p)] = f]
    /\ UNCHANGED <<dropped, returned>>

\* __frame_late(): the clock, read since the entry was made.
FrameLate(t) ==
    /\ format \in H26x /\ t \in DOMAIN frames /\ ~frames[t].late
    /\ frames' = [frames EXCEPT ![t].late = TRUE]
    /\ UNCHANGED <<format, stream, first_seq, receipts, dropped, returned>>

packet_handler(p) ==
    \/ packet_handler_single(p) \/ packet_handler_invalid(p)
    \/ packet_handler_new(p) \/ packet_handler_refuses(p)
    \/ packet_handler_completes(p) \/ packet_handler_drops(p)
    \/ packet_handler_stores(p)

packet_handler_264(p) == format = "H264" /\ (handle_stap_a(p) \/ packet_handler(p))
packet_handler_265(p) == format = "H265" /\ (handle_ap(p) \/ packet_handler(p))
packet_handler_266(p) == format = "H266" /\ packet_handler(p)

-----------------------------------------------------------------------------
(***************************************************************************)
(* packet_handler() of the generic format. The first and the last fragment *)
(* of a frame carry the marker; nothing tells them apart, and a frame is   *)
(* never given up.                                                         *)
(***************************************************************************)
packet_handler_generic_whole(p) ==
    Arrives(p) /\ format = "UNFRAGMENTED" /\ ReturnPacket(p)

packet_handler_generic_unmarked(p) ==
    /\ Arrives(p) /\ format = "GENERIC" /\ Ts(p) \notin DOMAIN frames /\ ~stream[p].marker
    /\ ReturnPacket(p)

packet_handler_generic_new(p) ==
    /\ Arrives(p) /\ format = "GENERIC" /\ Ts(p) \notin DOMAIN frames /\ stream[p].marker
    /\ frames' = With(frames, At(Ts(p),
                     [s_seq |-> Seq16(p), e_seq |-> NoSeq, pkts_received |-> 1,
                      fragments |-> At(Seq16(p), p), temporary |-> {},
                      late |-> FALSE, first |-> p]))
    /\ UNCHANGED <<dropped, returned>>

\* The map's keys are 16-bit numbers: an overflow is not corrected.
InsertedGeneric(f, p) ==
    [f EXCEPT !.pkts_received = @ + 1,
              !.fragments = With(@, At(Seq16(p), p)),
              !.e_seq = IF stream[p].marker THEN Seq16(p) ELSE @]

packet_handler_generic(p) ==
    /\ Arrives(p) /\ format = "GENERIC" /\ Ts(p) \in DOMAIN frames
    /\ LET f == InsertedGeneric(frames[Ts(p)], p) IN
          IF Complete(f)
          THEN /\ returned' = Append(returned,
                      [parts |-> InOrder(f.fragments), piece |-> 1,
                       size |-> f.pkts_received, first |-> f.first])
               /\ frames' = Without(Ts(p))
          ELSE frames' = [frames EXCEPT ![Ts(p)] = f] /\ UNCHANGED returned
    /\ UNCHANGED dropped

Next ==
    \/ \E p \in Packets :
          \/ packet_handler_264(p) \/ packet_handler_265(p) \/ packet_handler_266(p)
          \/ packet_handler_generic_whole(p) \/ packet_handler_generic_unmarked(p)
          \/ packet_handler_generic_new(p) \/ packet_handler_generic(p)
    \/ \E t \in DOMAIN frames : FrameLate(t)

Spec == Init /\ [][Next]_vars

-----------------------------------------------------------------------------
Unit(u) == {p \in Packets : stream[p].unit = u}
Units == {stream[p].unit : p \in Packets}
UnitOf(r) == stream[r.parts[1]].unit
Undisturbed(u) == \A p \in Unit(u) : receipts[p] <= 1
Wraps(u) == \E p, q \in Unit(u) : p < q /\ Seq16(p) > Seq16(q)

\* The payload is exactly that of the unit's packets, in the order they were sent.
Intact(r) ==
    LET unit == Unit(UnitOf(r)) IN
    /\ r.size = Len(r.parts)
    /\ r.parts = InOrder([p \in unit |-> p])

\* A generic frame is understood only if its first fragment comes before the others, and
\* its pieces, like those of an H.264 unit, are in order only without an overflow; an
\* H.265 or H.266 unit only needs its first fragment to come first when the sequence
\* number overflows within it.
FirstOf(u) == CHOOSE p \in Unit(u) : \A q \in Unit(u) : p <= q
Sheltered(u, first) ==
    CASE format \in {"H265", "H266"} -> Wraps(u) => first = FirstOf(u)
      [] format = "H264" -> ~Wraps(u)
      [] format \in {"GENERIC", "UNFRAGMENTED"} -> first = FirstOf(u) /\ ~Wraps(u)

\* Under OneSplitUnitPerTimestamp, whatever is lost or overtaken, and whatever happens to
\* the packets of other units, a unit none of whose packets came twice is returned with all
\* its fragments in their order, as far as it is sheltered.
ReturnedIntact ==
    \A i \in 1..Len(returned) :
        LET r == returned[i] IN
        Undisturbed(UnitOf(r)) /\ Sheltered(UnitOf(r), r.first) => Intact(r)

\* Under OneSplitUnitPerTimestamp, a unit is returned, once, as soon as all its packets
\* have come, overflow or not, unless it had been given up; nothing stays behind. Of a
\* generic frame the first fragment must have come first.
CompleteIsReturned ==
    \A u \in Units :
        /\ \A p \in Unit(u) : receipts[p] = 1
        /\ \A p \in Unit(u) : Ts(p) \notin dropped
        /\ format = "GENERIC" =>
              /\ \A p \in Unit(u) : Ts(p) \in DOMAIN frames => frames[Ts(p)].first = FirstOf(u)
              /\ \A i \in 1..Len(returned) :
                    UnitOf(returned[i]) = u => returned[i].first = FirstOf(u)
        => \A p \in Unit(u) :
             /\ format = "GENERIC" \/ (format \in H26x /\ Fragmented(p)) => Ts(p) \notin DOMAIN frames
             /\ Cardinality({i \in 1..Len(returned) : UnitOf(returned[i]) = u})
                    = stream[p].count

\* A frame that was given up is never taken up again, however many of its packets
\* still come.
DroppedForGood ==
    [][\A t \in dropped :
          /\ t \notin DOMAIN frames'
          /\ \A i \in Len(returned) + 1..Len(returned') :
                Len(returned'[i].parts) > 1 => Ts(returned'[i].parts[1]) # t]_vars

\* h264_pkt_handler.cc: an overflow of the sequence number "can be solved by checking if
\* current fragment's sequence is less than start fragment's sequence number (overflow
\* has occurred) and correcting the current sequence by adding 0x10000 to its value so it
\* appears in order with other fragments".
OverflowCorrected ==
    \A i \in 1..Len(returned) :
        LET r == returned[i] IN
        Undisturbed(UnitOf(r)) /\ r.first = FirstOf(UnitOf(r)) => Intact(r)
=============================================================================
