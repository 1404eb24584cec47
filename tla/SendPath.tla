------------------------------ MODULE SendPath ------------------------------
(***************************************************************************)
(* The sending side of uvgRTP: push_frame() of the media formats, which    *)
(* looks for the NAL units of a frame, queues them whole, aggregated or in *)
(* fragments (h26x.cc, h264.cc, h265.cc, h266.cc, media.cc), and the frame *)
(* queue that hands them to the socket (queue.cc, socket.cc), without SRTP *)
(* and without the system call dispatcher.                                 *)
(*                                                                         *)
(* A frame is a sequence of bytes of which only 0 and 1 matter, the parts  *)
(* of start codes; the other bytes of a NAL unit stand for its type. What  *)
(* a packet carries is named by frame and place: the queue keeps pointers  *)
(* into the frame, into the transaction's headers and into the sender.     *)
(***************************************************************************)
EXTENDS Integers, Sequences, FiniteSets, SequencesExt

CONSTANTS
    Frames,        \* for each format, what is pushed: [data, slice]
    PAYLOAD_SIZE,  \* get_payload_size(): MAX_PAYLOAD, less 3 for H.26x
    SEQ_MOD,       \* RTP sequence numbers are taken modulo this (2^16)
    FirstSeqs,     \* the random first sequence numbers
    CLUSTER,       \* packets per sendmmsg(): 1024, or 1
    MaxFrames      \* bound: frames pushed

H26x == {"H264", "H265", "H266"}
Formats == H26x \cup {"GENERIC"}

ASSUME SendAssumption ==
    /\ DOMAIN Frames \subseteq Formats
    /\ \A f \in DOMAIN Frames : \A r \in Frames[f] : r.data \in Seq(Nat) /\ r.data # <<>>
    /\ {PAYLOAD_SIZE, SEQ_MOD, CLUSTER, MaxFrames} \subseteq Nat \ {0}
    /\ FirstSeqs \subseteq 0..SEQ_MOD - 1

VARIABLES
    format,   \* of the media stream (never changes)
    pc,       \* where push_frame() is
    after,    \* what the caller of flush_queue() does when it returns
    pushed,   \* the frames pushed, the present one last
    results,  \* what push_frame() returned for each
    unit,     \* the NAL unit at hand, whether another follows, and its start code
    seq,      \* rtp::seq_
    active, free, queued,   \* frame_queue's transactions
    made,     \* history: transactions created
    numbered, \* history: packets that have been given a number
    nalus, aggr_pkt,        \* aggregation_info
    wire      \* history: packets given to sendmmsg()

queueVars == <<seq, active, free, queued, made, numbered>>
aggregationVars == <<nalus, aggr_pkt>>
vars == <<format, pc, after, pushed, results, unit, queueVars, aggregationVars, wire>>

NoTransaction == [key |-> 0]
NotFound == [offset |-> -1, start_len |-> 0]

Init ==
    /\ format \in DOMAIN Frames
    /\ pc = "idle" /\ after = "return"
    /\ pushed = <<>> /\ results = <<>> /\ wire = <<>>
    /\ unit = [from |-> 0, to |-> 0, more |-> FALSE, code |-> NotFound]
    /\ seq \in FirstSeqs
    /\ active = NoTransaction /\ free = <<>> /\ queued = {} /\ made = 0 /\ numbered = 0
    /\ nalus = <<>> /\ aggr_pkt = <<>>

-----------------------------------------------------------------------------
(***************************************************************************)
(* find_h26x_start_code(). Offsets count from 0, as in the code.           *)
(***************************************************************************)
Word(data, pos) == [i \in 0..3 |-> data[pos + i + 1]]
HasZero(data, pos, n) == \E i \in 1..n : pos + i <= Len(data) /\ data[pos + i] = 0

\* The last byte that ends a word is 0 during the scan.
WithSentinel(data) ==
    LET rpos == Len(data) - (Len(data) % 8) - 1
    IN  IF rpos >= 0 THEN [data EXCEPT ![rpos + 1] = 0] ELSE data

Found(o, l) == [offset |-> o, start_len |-> l]

\* A start code that ends in the word at pos; prev is the word before.
StartInWord(pos, w, prev, prev_z, cur_z) ==
    CASE prev_z /\ ~cur_z /\ w[0] = 1 /\ prev[2] = 0 /\ prev[3] = 0 ->
             Found(pos + 1, IF prev[1] = 0 THEN 4 ELSE 3)
      [] w[0] = 0 /\ w[1] = 0 /\ w[2] = 0 /\ w[3] = 1 -> Found(pos + 4, 4)
      [] w[0] = 0 /\ w[1] = 0 /\ w[2] = 1 -> Found(pos + 3, IF prev[3] = 0 THEN 4 ELSE 3)
      [] w[0] # 0 /\ w[1] = 0 /\ w[2] = 0 /\ w[3] = 1 -> Found(pos + 4, 4)
      [] w[0] = 0 /\ w[1] = 1 /\ prev[2] = 0 /\ prev[3] = 0 -> Found(pos + 2, 4)
      [] w[0] = 0 /\ w[1] = 1 /\ prev[2] # 0 /\ prev[3] = 0 -> Found(pos + 2, 3)
      [] OTHER -> NotFound

find_h26x_start_code(frame, offset) ==
    LET data == WithSentinel(frame)
        Values == {data[i] : i \in 1..Len(data)} \cup {255}
        scan[pos \in Nat, prev_z \in BOOLEAN, prev \in [0..3 -> Values]] ==
            LET w == Word(data, pos)
                cur_z == HasZero(data, pos, 4)
                code == StartInWord(pos, w, prev, prev_z, cur_z)
            IN  CASE pos + 8 >= Len(data) -> NotFound
                  [] pos + 8 < Len(data) /\ ~prev_z /\ ~HasZero(data, pos, 8) ->
                         scan[pos + 8, FALSE, prev]
                  [] OTHER -> IF code # NotFound /\ (prev_z \/ cur_z) THEN code
                              ELSE scan[pos + 4, cur_z, w]
    IN  scan[offset, FALSE, [i \in 0..3 |-> 255]]

-----------------------------------------------------------------------------
(***************************************************************************)
(* frame_queue. A packet names the slot of its RTP header, which is filled *)
(* in when it is queued and read when it is sent; so is the FU header.     *)
(***************************************************************************)
Piece(from, to) == [frame |-> Len(pushed), from |-> from, to |-> to, swapped |-> FALSE]
Packet(kind, part, pieces, marker) ==
    [kind |-> kind, part |-> part, pieces |-> pieces, marker |-> marker]

\* The map m with the entries of n, which replace those of m.
With(m, n) == [k \in DOMAIN m \cup DOMAIN n |-> IF k \in DOMAIN n THEN n[k] ELSE m[k]]

\* The transaction t after packets, the first of which gets the number first.
Extended(t, packets, first) ==
    LET ptr == t.rtphdr_ptr IN
    [t EXCEPT
       !.packets = @ \o [i \in 1..Len(packets) |-> [slot |-> ptr + i - 1, bytes |-> packets[i]]],
       !.rtp_headers = With(@, [slot \in ptr..ptr + Len(packets) - 1 |->
                                  [seq |-> (first + slot - ptr) % SEQ_MOD,
                                   marker |-> packets[slot - ptr + 1].marker]]),
       !.rtphdr_ptr = ptr + Len(packets)]

\* Mutant: the sequence number is not moved on.
enqueue_message_keeps_number(t, packets) ==
    /\ active' = Extended(t, packets, seq)
    /\ seq' = seq
    /\ numbered' = numbered + Len(packets)
    /\ UNCHANGED <<free, queued, made>>

\* enqueue_message() for one packet after the other.
enqueue_message(t, packets) ==
    /\ active' = Extended(t, packets, seq)
    /\ seq' = (seq + Len(packets)) % SEQ_MOD
    /\ numbered' = numbered + Len(packets)
    /\ UNCHANGED <<free, queued, made>>

\* The pointers into the arrays are reset, the packets are not.
init_transaction ==
    /\ IF free = <<>>
       THEN /\ active' = [key |-> made + 1, packets |-> <<>>, rtp_headers |-> <<>>,
                          rtphdr_ptr |-> 0, fu_type |-> 0]
            /\ made' = made + 1 /\ UNCHANGED free
       ELSE /\ active' = [Last(free) EXCEPT !.rtphdr_ptr = 0]
            /\ free' = Front(free) /\ UNCHANGED made
    /\ UNCHANGED <<queued, seq, numbered>>

\* A transaction is cleared only if one of its key has been in flush_queue() before.
deinit_transaction(known) ==
    /\ free' = Append(free, IF active.key \in known THEN [active EXCEPT !.packets = <<>>]
                            ELSE active)
    /\ active' = NoTransaction
    /\ UNCHANGED <<seq, made, numbered>>

-----------------------------------------------------------------------------
(***************************************************************************)
(* push_frame() as far as the queue: the generic format, and H.26x frames  *)
(* that are not looked into.                                               *)
(***************************************************************************)
Data == Last(pushed).data

push_media_frame(r) ==
    /\ pc = "idle" /\ Len(pushed) < MaxFrames
    /\ pushed' = Append(pushed, r)
    /\ init_transaction
    /\ pc' = "queue" /\ after' = "return"
    /\ UNCHANGED <<format, results, unit, aggregationVars, wire>>

\* The first and the last fragment of a generic frame carry the marker.
push_generic ==
    /\ pc = "queue" /\ format = "GENERIC"
    /\ LET n == (Len(Data) + PAYLOAD_SIZE - 1) \div PAYLOAD_SIZE IN
          enqueue_message(active, [i \in 1..n |->
              Packet("SINGLE", "WHOLE",
                     <<Piece((i - 1) * PAYLOAD_SIZE,
                             IF i = n THEN Len(Data) ELSE i * PAYLOAD_SIZE)>>,
                     n > 1 /\ i \in {1, n})])
    /\ pc' = "flush"
    /\ UNCHANGED <<format, after, pushed, results, unit, aggregationVars, wire>>

\* A frame below the payload size is one packet from its first start code on.
push_h26x_short ==
    /\ pc = "queue" /\ format \in H26x
    /\ Len(Data) < PAYLOAD_SIZE \/ (Last(pushed).slice /\ Len(Data) = PAYLOAD_SIZE)
    /\ LET code == find_h26x_start_code(Data, 0) IN
          enqueue_message(active, <<Packet("SINGLE", "WHOLE",
                           <<Piece(IF code = NotFound THEN 0 ELSE code.offset, Len(Data))>>,
                           FALSE)>>)
    /\ pc' = "flush"
    /\ UNCHANGED <<format, after, pushed, results, unit, aggregationVars, wire>>

\* A slice is one NAL unit; its length is counted from the start of the data.
push_h26x_slice ==
    /\ pc = "queue" /\ format \in H26x /\ Last(pushed).slice /\ Len(Data) > PAYLOAD_SIZE
    /\ LET code == find_h26x_start_code(Data, 0)
           r_off == IF code = NotFound THEN 0 ELSE code.offset
       IN  unit' = [from |-> r_off, to |-> r_off + Len(Data), more |-> FALSE, code |-> NotFound]
    /\ pc' = "unit"
    /\ UNCHANGED <<format, after, pushed, results, queueVars, aggregationVars, wire>>

\* Mutant: every start code is taken to be three bytes long.
NextUnit_short_code(from, offset) ==
    LET code == find_h26x_start_code(Data, offset) IN
    [from |-> from, code |-> code, more |-> code # NotFound,
     to |-> IF code = NotFound THEN Len(Data) ELSE code.offset - 3]

\* The first two searches: where the first unit begins, and where it ends.
NextUnit(from, offset) ==
    LET code == find_h26x_start_code(Data, offset) IN
    [from |-> from, code |-> code, more |-> code # NotFound,
     to |-> IF code = NotFound THEN Len(Data) ELSE code.offset - code.start_len]

push_h26x_frame ==
    /\ pc = "queue" /\ format \in H26x /\ ~Last(pushed).slice /\ Len(Data) >= PAYLOAD_SIZE
    /\ LET code == find_h26x_start_code(Data, 0) IN
          unit' = IF code = NotFound
                  THEN [from |-> 0, to |-> Len(Data), more |-> FALSE, code |-> NotFound]
                  ELSE NextUnit(code.offset, code.offset)
    /\ pc' = "unit"
    /\ UNCHANGED <<format, after, pushed, results, queueVars, aggregationVars, wire>>

-----------------------------------------------------------------------------
(***************************************************************************)
(* push_nal_unit().                                                        *)
(***************************************************************************)
UnitLen == unit.to - unit.from
Small == UnitLen - 3 <= PAYLOAD_SIZE
Aggregates == format \in {"H264", "H265"}
Type == Data[unit.from + 1]

\* The loop of push_h26x_frame() goes on to the next unit, or flush_queue() is called.
GoOn(then) ==
    IF unit.more
    THEN /\ unit' = NextUnit(unit.code.offset, unit.code.offset)
         /\ pc' = "unit" /\ after' = after
    ELSE /\ pc' = "flush" /\ after' = then /\ unit' = unit

\* Refused: the transaction goes back unsent and uncleared.
push_nal_unit_invalid ==
    /\ pc = "unit" /\ UnitLen <= 3
    /\ deinit_transaction(queued) /\ UNCHANGED queued
    /\ results' = Append(results, "RTP_INVALID_VALUE")
    /\ pc' = "idle"
    /\ UNCHANGED <<format, after, pushed, unit, aggregationVars, wire>>

push_nal_unit_aggregates ==
    /\ pc = "unit" /\ UnitLen > 3 /\ Small /\ Aggregates /\ unit.more
    /\ nalus' = Append(nalus, Piece(unit.from, unit.to))
    /\ GoOn("return")
    /\ UNCHANGED <<format, pushed, results, queueVars, aggr_pkt, wire>>

push_nal_unit_single ==
    /\ pc = "unit" /\ UnitLen > 3 /\ Small
    /\ Aggregates => ~unit.more /\ nalus = <<>>
    /\ enqueue_message(active, <<Packet("SINGLE", "WHOLE", <<Piece(unit.from, unit.to)>>, FALSE)>>)
    /\ GoOn("return")
    /\ UNCHANGED <<format, pushed, results, aggregationVars, wire>>

\* make_aggregation_pkt() with one unit: it is sent at once, and with it the transaction;
\* the callers go on as if there still were one.
make_aggregation_pkt_single ==
    /\ pc = "unit" /\ UnitLen > 3 /\ Aggregates /\ Len(nalus) = 1 /\ (Small => ~unit.more)
    /\ enqueue_message(active, <<Packet("SINGLE", "WHOLE", nalus, FALSE)>>)
    /\ pc' = "flush" /\ after' = "dereference"
    /\ UNCHANGED <<format, pushed, results, unit, aggregationVars, wire>>

Aggregated == aggr_pkt \o <<[Piece(0, 0) EXCEPT !.frame = 0]>> \o nalus

\* With several: the lengths are left in network order. The last unit, for whose sake they
\* are sent, is not among them.
make_aggregation_pkt ==
    /\ pc = "unit" /\ UnitLen > 3 /\ Small /\ Aggregates /\ Len(nalus) > 1 /\ ~unit.more
    /\ aggr_pkt' = Aggregated
    /\ nalus' = [i \in 1..Len(nalus) |-> [nalus[i] EXCEPT !.swapped = ~@]]
    /\ enqueue_message(active, <<Packet("AGGR", "WHOLE", Aggregated, FALSE)>>)
    /\ GoOn("clear_aggregation_info")
    /\ UNCHANGED <<format, pushed, results, wire>>

NAL_HDR == IF format = "H264" THEN 1 ELSE 2

Fragments ==
    LET n == (UnitLen - NAL_HDR + PAYLOAD_SIZE - 1) \div PAYLOAD_SIZE
        from(i) == unit.from + NAL_HDR + (i - 1) * PAYLOAD_SIZE
    IN  [i \in 1..n |->
            Packet("FRAG", IF i = n THEN "END" ELSE IF i = 1 THEN "START" ELSE "MIDDLE",
                   <<Piece(from(i), IF i = n THEN unit.to ELSE from(i + 1))>>, FALSE)]

\* The transaction has one set of FU headers, with the type of the unit at hand.
WithHeaders(t, type) == [t EXCEPT !.fu_type = type]

\* Units that waited go first; H.265 forgets them before the flush, H.264 does not.
push_large_unit(forgets) ==
    /\ pc = "unit" /\ ~Small
    /\ Aggregates => Len(nalus) # 1
    /\ LET waiting == IF Len(nalus) > 1
                      THEN <<Packet("AGGR", "WHOLE", Aggregated, FALSE)>> ELSE <<>>
       IN  enqueue_message(WithHeaders(active, Type), waiting \o Fragments)
    /\ IF forgets /\ ~unit.more
       THEN nalus' = <<>> /\ aggr_pkt' = <<>>
       ELSE /\ nalus' = [i \in 1..Len(nalus) |-> [nalus[i] EXCEPT !.swapped = ~@]]
            /\ aggr_pkt' = IF nalus = <<>> THEN aggr_pkt ELSE Aggregated
    /\ GoOn("return")
    /\ UNCHANGED <<format, pushed, results, wire>>

push_nal_unit_264 == format = "H264" /\ push_large_unit(FALSE)
push_nal_unit_265 == format = "H265" /\ push_large_unit(TRUE)
push_nal_unit_266 == format = "H266" /\ push_large_unit(FALSE)

-----------------------------------------------------------------------------
(***************************************************************************)
(* flush_queue() and the return of push_frame().                           *)
(***************************************************************************)
\* What the kernel reads: headers as they are by now.
OnTheWire(t) ==
    [i \in 1..Len(t.packets) |->
        LET p == t.packets[i] IN
        [seq |-> t.rtp_headers[p.slot].seq, kind |-> p.bytes.kind, part |-> p.bytes.part,
         marker |-> t.rtp_headers[p.slot].marker
                       \/ (Len(t.packets) > 1 /\ p.slot = t.rtphdr_ptr - 1),
         pieces |-> p.bytes.pieces, frame |-> Len(pushed),
         type |-> IF p.bytes.kind = "FRAG" THEN t.fu_type ELSE 0]]

Return(result) ==
    /\ IF after = "dereference" THEN pc' = "crashed" /\ results' = results
       ELSE pc' = "idle" /\ results' = Append(results, result)
    /\ IF after = "clear_aggregation_info" THEN nalus' = <<>> /\ aggr_pkt' = <<>>
       ELSE UNCHANGED aggregationVars

\* What is sent of the transaction when sendmmsg() fails: some whole clusters.
SentBeforeFailure == {n \in 0..Len(active.packets) - 1 : n % CLUSTER = 0}

\* Mutant: the transaction is not handed back after a failure.
flush_queue_fails_keeps ==
    /\ pc = "flush"
    /\ \E sent \in SentBeforeFailure : wire' = wire \o SubSeq(OnTheWire(active), 1, sent)
    /\ queued' = queued \cup {active.key}
    /\ Return("RTP_SEND_ERROR")
    /\ UNCHANGED <<format, after, pushed, unit, active, free, seq, made, numbered>>

flush_queue ==
    /\ pc = "flush"
    /\ wire' = wire \o OnTheWire(active)
    /\ queued' = queued \cup {active.key}
    /\ deinit_transaction(queued')
    /\ Return("RTP_OK")
    /\ UNCHANGED <<format, after, pushed, unit>>

flush_queue_fails ==
    /\ pc = "flush"
    /\ \E sent \in SentBeforeFailure : wire' = wire \o SubSeq(OnTheWire(active), 1, sent)
    /\ queued' = queued \cup {active.key}
    /\ deinit_transaction(queued')
    /\ Return("RTP_SEND_ERROR")
    /\ UNCHANGED <<format, after, pushed, unit>>

Next ==
    \/ \E r \in Frames[format] : push_media_frame(r)
    \/ push_generic \/ push_h26x_short \/ push_h26x_slice \/ push_h26x_frame
    \/ push_nal_unit_invalid \/ push_nal_unit_aggregates \/ push_nal_unit_single
    \/ make_aggregation_pkt_single \/ make_aggregation_pkt
    \/ push_nal_unit_264 \/ push_nal_unit_265 \/ push_nal_unit_266
    \/ flush_queue \/ flush_queue_fails

Spec == Init /\ [][Next]_vars
-----------------------------------------------------------------------------
\* The NAL units of a byte stream (ITU-T H.264, Annex B): what lies between start codes.
Codes(d) == SetToSortSeq({i \in 1..Len(d) - 2 : d[i] = 0 /\ d[i + 1] = 0 /\ d[i + 2] = 1}, <)
LongCode(d, i) == i > 1 /\ d[i - 1] = 0
Units(d) ==
    LET c == Codes(d) IN
    IF c = <<>> THEN <<[from |-> 0, to |-> Len(d)]>>
    ELSE [j \in 1..Len(c) |->
            [from |-> c[j] + 2,
             to |-> IF j = Len(c) THEN Len(d)
                    ELSE IF LongCode(d, c[j + 1]) THEN c[j + 1] - 2 ELSE c[j + 1] - 1]]

UnitSize(u) == u.to - u.from
Large(u) == UnitSize(u) - 3 > PAYLOAD_SIZE

\* Frames a sender of this format can carry: see the properties for what it does with others.
PlainFor(fmt, r) ==
    LET d == r.data
        us == Units(d)
        large == {j \in 1..Len(us) : Large(us[j])}
    IN  fmt \in H26x =>
          /\ \A j \in 1..Len(us) : UnitSize(us[j]) > 3
          /\ Codes(d) # <<>> => /\ ~r.slice /\ Len(d) >= PAYLOAD_SIZE
                                /\ \A i \in ToSet(Codes(d)) : LongCode(d, i)
                                /\ UnitSize(us[Len(us)]) >= 8
          /\ \A i, j \in large : d[us[i].from + 1] = d[us[j].from + 1]
          /\ fmt # "H266" /\ Len(us) > 1 => large = 1..Len(us)

Plain(r) == PlainFor(format, r)

\* The scan leads from one NAL unit of the byte stream d to the next.
ScanFindsUnits(d) ==
    LET us == Units(d)
        code == find_h26x_start_code(d, 0)
    IN  /\ us \in Seq([from : 0..Len(d), to : 0..Len(d)]) /\ us # <<>>
        /\ us[Len(us)].to = Len(d)
        /\ IF Codes(d) = <<>> THEN code = NotFound /\ Len(us) = 1 /\ us[1].from = 0
           ELSE /\ code # NotFound /\ code.offset = us[1].from
                /\ find_h26x_start_code(d, us[Len(us)].from) = NotFound
                /\ \A j \in 1..Len(us) - 1 :
                      LET next == find_h26x_start_code(d, us[j].from) IN
                      /\ next # NotFound /\ next.offset = us[j + 1].from
                      /\ next.offset - next.start_len = us[j].to

\* What the scan returns for the frames that are pushed: nothing, or where a start code
\* in the frame ends; for those that can be carried, where each unit begins and ends. (It
\* is recursive: this is evaluated, not proved.)
ASSUME ScanAssumption ==
    \A f \in DOMAIN Frames : \A r \in Frames[f] :
        /\ \A offset \in 0..Len(r.data) :
              LET code == find_h26x_start_code(r.data, offset) IN
              code = NotFound \/ (code.offset \in 0..Len(r.data) /\ code.start_len \in {3, 4})
        /\ f \in H26x /\ PlainFor(f, r) => ScanFindsUnits(r.data)

Own(k, from, to) == <<[frame |-> k, from |-> from, to |-> to, swapped |-> FALSE]>>

\* The packets on the wire from lo to hi carry the unit u of frame k and nothing else.
Carries(lo, hi, k, u) ==
    \/ lo = hi /\ wire[lo].kind = "SINGLE" /\ wire[lo].pieces = Own(k, u.from, u.to)
    \/ /\ lo < hi
       /\ \A i \in lo..hi :
             /\ wire[i].kind = "FRAG" /\ wire[i].type = pushed[k].data[u.from + 1]
             /\ wire[i].part = IF i = lo THEN "START" ELSE IF i = hi THEN "END" ELSE "MIDDLE"
             /\ wire[i].pieces = Own(k, u.from + NAL_HDR + (i - lo) * PAYLOAD_SIZE,
                                     IF i = hi THEN u.to
                                     ELSE u.from + NAL_HDR + (i - lo + 1) * PAYLOAD_SIZE)

SentAt(k) == {i \in 1..Len(wire) : wire[i].frame = k}

\* All units of frame k, and nothing else, in their order; generic frames in pieces.
WholeSent(k) ==
    \E first, last \in 1..Len(wire) :
        /\ SentAt(k) = first..last
        /\ IF format = "GENERIC"
           THEN \A i \in first..last :
                   wire[i].pieces = Own(k, (i - first) * PAYLOAD_SIZE,
                                        IF i = last THEN Len(pushed[k].data)
                                        ELSE (i - first + 1) * PAYLOAD_SIZE)
           ELSE LET us == Units(pushed[k].data) IN
                \E head \in [1..Len(us) + 1 -> first..last + 1] :
                   /\ head[1] = first /\ head[Len(us) + 1] = last + 1
                   /\ \A j \in 1..Len(us) : Carries(head[j], head[j + 1] - 1, k, us[j])

MarksTheEnd(k) ==
    \A i \in SentAt(k) :
        wire[i].marker <=> /\ SentAt(k) # {i}
                           /\ i + 1 \notin SentAt(k) \/ (format = "GENERIC" /\ i - 1 \notin SentAt(k))

PlainUntil(k) == \A j \in 1..k : Plain(pushed[j])

\* As long as only plain frames are pushed, whatever became of the earlier ones at the
\* socket, no frame is refused, and one that is accepted is sent with all its units, in
\* order, with their own types, nothing else among them, and the marker where the
\* receiver expects it.
WholeFrames ==
    \A k \in 1..Len(results) :
        PlainUntil(k) =>
            /\ results[k] # "RTP_INVALID_VALUE"
            /\ results[k] = "RTP_OK" => WholeSent(k) /\ MarksTheEnd(k)

\* As long as no frame is refused, no two packets have one number before all have been
\* used: those of one frame follow each other, also when some of an earlier one were
\* queued and never sent.
NoneRefused == \A k \in 1..Len(results) : results[k] # "RTP_INVALID_VALUE"
NumberedOnce ==
    NoneRefused =>
        \A i, j \in 1..Len(wire) : i < j =>
            /\ numbered <= SEQ_MOD => wire[i].seq # wire[j].seq
            /\ wire[i].frame = wire[j].frame => wire[j].seq = (wire[i].seq + j - i) % SEQ_MOD

\* Whatever is pushed and whatever fails: between two frames every transaction ever made
\* is free, once, and one that has come as far as the socket holds no packets, so that
\* its successor does not send them.
TransactionsKept ==
    /\ \A i \in 1..Len(free) : free[i].key \in queued => free[i].packets = <<>>
    /\ pc = "idle" => /\ active = NoTransaction /\ Len(free) = made
                      /\ {free[i].key : i \in 1..made} = 1..made

\* h26x.hh, push_h26x_frame(): "splits the input frame into NAL units [...] and fragments
\* the NAL unit into Fragmentation Units (FUs) which are pushed to frame queue. Return
\* RTP_OK on success": of a frame that is accepted every unit is sent, whole, in fragments
\* or as one of those in an aggregation packet, whatever is sent beside it.
UnitSent(k, u) ==
    \E lo, hi \in SentAt(k) :
        \/ Carries(lo, hi, k, u)
        \/ wire[lo].kind = "AGGR" /\ \E i \in DOMAIN wire[lo].pieces :
                                       <<wire[lo].pieces[i]>> = Own(k, u.from, u.to)

AllUnitsSent ==
    \A k \in 1..Len(results) :
        results[k] = "RTP_OK" => \A u \in ToSet(Units(pushed[k].data)) : UnitSent(k, u)
=============================================================================
