------------------------------ MODULE RtcpSource ------------------------------
(***************************************************************************)
(* What uvgRTP's RTCP keeps about one source of RTP packets (rtcp.cc): its *)
(* probation, the highest sequence number, and the losses it reports. The  *)
(* network loses, repeats and reorders the source's packets, or the source *)
(* is first heard of by a report.                                          *)
(***************************************************************************)
EXTENDS Integers, FiniteSets

CONSTANTS
    RTP_SEQ_MOD, MIN_SEQUENTIAL, MAX_DROPOUT, MAX_MISORDER,  \* 2^16, 2, 3000, 100
    MaxPackets,    \* bound: packets the source sends
    MaxInFlight    \* bound: packets under way, none overtaken by as many

SourceBounds ==
    /\ RTP_SEQ_MOD \in Nat \ {0, 1} /\ MIN_SEQUENTIAL \in Nat \ {0, 1}
    /\ MAX_DROPOUT \in Nat \ {0, 1} /\ MAX_MISORDER \in Nat
    /\ MAX_DROPOUT + MAX_MISORDER <= RTP_SEQ_MOD
    /\ MaxPackets \in Nat /\ MaxInFlight \in Nat

VARIABLES
    first,        \* the sequence number the source began with
    pkts_sent,
    flight,       \* packets under way, by their number from 1
    reached,      \* packets that have reached us
    counted,      \* history: those that were counted as received
    p,            \* rtcp_participant, or Unknown
    heard_of,     \* was the source first heard of by a report?
    last,         \* the packet before: its sequence number, was probation over?
    steady        \* what the last packet was: its verdict, did it follow the one before?

sourceVars == <<first, pkts_sent, flight, reached, counted, p, heard_of, last, steady>>

Unknown == [probation |-> 0, max_seq |-> 0, base_seq |-> 0, bad_seq |-> 0, cycles |-> 0,
            received_pkts |-> 0, dropped_pkts |-> 0, known |-> FALSE]
NoPacket == [seq |-> 0, valid |-> FALSE]

\* add_participant() by a Receiver or Sender Report leaves probation as new found it.
Uninitialised == 0..(MIN_SEQUENTIAL + 1)

Seq16(n) == n % RTP_SEQ_MOD
SeqOf(n) == Seq16(first + n)

Init ==
    /\ first \in 0..(RTP_SEQ_MOD - 1)
    /\ pkts_sent = 0 /\ flight = {} /\ reached = {} /\ counted = {}
    /\ p = Unknown /\ heard_of = FALSE
    /\ last = NoPacket
    /\ steady = [verdict |-> "RTP_OK", follows |-> FALSE]

-----------------------------------------------------------------------------
\* Mutant: the losses are counted from the number before.
init_participant_seq_keeps_base(q, seq) ==
    [q EXCEPT !.max_seq = seq, !.bad_seq = Seq16(RTP_SEQ_MOD) + 1]

\* init_participant_seq(). bad_seq is (uint16_t)RTP_SEQ_MOD + 1, which is 1.
init_participant_seq(q, seq) ==
    [q EXCEPT !.base_seq = seq, !.max_seq = seq, !.bad_seq = Seq16(RTP_SEQ_MOD) + 1]

\* init_new_participant().
init_new_participant(seq) ==
    init_participant_seq([Unknown EXCEPT !.known = TRUE, !.probation = MIN_SEQUENTIAL], seq)

\* A packet on probation. max_seq + 1 is an int, so 0 never follows the last number.
on_probation(q, seq) ==
    IF seq # q.max_seq + 1 THEN [q EXCEPT !.probation = MIN_SEQUENTIAL - 1, !.max_seq = seq]
    ELSE IF q.probation > 1 THEN [q EXCEPT !.probation = @ - 1, !.max_seq = seq]
    ELSE init_participant_seq([q EXCEPT !.probation = 0], seq)

\* A small step forwards. cycles is 16 bits wide: adding RTP_SEQ_MOD leaves it as it is.
in_order(q, seq) ==
    [q EXCEPT !.max_seq = seq,
              !.cycles = IF seq < q.max_seq THEN Seq16(@ + RTP_SEQ_MOD) ELSE @]

\* Mutant: the number after the jump is not remembered.
large_jump_forgets(q, seq) == IF seq = q.bad_seq THEN init_participant_seq(q, seq) ELSE q

\* A very large jump: believed when the packet that follows it comes next.
large_jump(q, seq) ==
    IF seq = q.bad_seq THEN init_participant_seq(q, seq)
    ELSE [q EXCEPT !.bad_seq = Seq16(seq + 1)]

\* update_participant_seq(): the new state and the verdict.
update_participant_seq(q, seq) ==
    LET udelta == Seq16(seq - q.max_seq)
        next == IF q.probation # 0 THEN on_probation(q, seq)
                ELSE IF udelta < MAX_DROPOUT THEN in_order(q, seq)
                ELSE IF udelta <= RTP_SEQ_MOD - MAX_MISORDER THEN large_jump(q, seq)
                ELSE q
        refused == \/ q.probation # 0 /\ next.probation # 0
                   \/ /\ q.probation = 0 /\ udelta \in MAX_DROPOUT..(RTP_SEQ_MOD - MAX_MISORDER)
                      /\ seq # q.bad_seq
    IN [state |-> next, verdict |-> IF refused THEN "RTP_GENERIC_ERROR" ELSE "RTP_OK"]

\* update_session_statistics(), as far as it counts packets.
update_session_statistics(q) ==
    LET received == q.received_pkts + 1
        dropped  == q.cycles + q.max_seq - q.base_seq + 1 - received
    IN [q EXCEPT !.received_pkts = received,
                 !.dropped_pkts = IF dropped >= 0 THEN dropped ELSE 0]

\* rtcp::recv_packet_handler().
recv_packet_handler(seq) ==
    LET updated == IF p.known THEN update_participant_seq(p, seq)
                   ELSE [state |-> init_new_participant(seq), verdict |-> "RTP_OK"]
    IN /\ p' = IF updated.verdict = "RTP_OK" THEN update_session_statistics(updated.state)
               ELSE updated.state
       /\ last' = [seq |-> seq, valid |-> p.known /\ p.probation = 0]
       /\ steady' = [verdict |-> updated.verdict, follows |-> last.valid /\ seq = Seq16(last.seq + 1)]

-----------------------------------------------------------------------------
source_sends ==
    /\ pkts_sent < MaxPackets /\ Cardinality(flight) < MaxInFlight
    /\ \A n \in flight : pkts_sent + 1 < n + MaxInFlight
    /\ pkts_sent' = pkts_sent + 1
    /\ flight' = flight \cup {pkts_sent + 1}
    /\ UNCHANGED <<first, reached, counted, p, heard_of, last, steady>>

packet_lost(n) ==
    /\ flight' = flight \ {n}
    /\ UNCHANGED <<first, pkts_sent, reached, counted, p, heard_of, last, steady>>

\* A packet that stays under way will be repeated (bound: once).
packet_arrives(n, stays) ==
    /\ stays => n \notin reached
    /\ flight' = IF stays THEN flight ELSE flight \ {n}
    /\ reached' = reached \cup {n}
    /\ recv_packet_handler(SeqOf(n))
    /\ counted' = IF steady'.verdict = "RTP_OK" THEN counted \cup {n} ELSE counted
    /\ UNCHANGED <<first, pkts_sent, heard_of>>

\* handle_sender_report_packet() and handle_receiver_report_packet() from someone unknown.
report_arrives ==
    /\ ~p.known
    /\ \E probation \in Uninitialised :
         p' = [Unknown EXCEPT !.known = TRUE, !.probation = probation]
    /\ heard_of' = TRUE
    /\ UNCHANGED <<first, pkts_sent, flight, reached, counted, last, steady>>

Next ==
    \/ source_sends \/ report_arrives
    \/ \E n \in flight : packet_lost(n) \/ \E stays \in BOOLEAN : packet_arrives(n, stays)

Spec == Init /\ [][Next]_sourceVars

-----------------------------------------------------------------------------
\* No source stays shut out: once its probation is over, of two packets that arrive one
\* after the other and follow each other in number the second is counted, whatever was
\* lost, repeated, reordered or wrapped before.
FollowerIsCounted == steady.follows => steady.verdict = "RTP_OK"

\* However the numbers wrap, jump and fall back, the losses we report never exceed the
\* packets that were not counted, because they have not arrived or were refused (one that
\* is refused as a jump passes for lost), unless a report was the first we heard of the
\* source (its base is then 0, not a number it sent).
LossNotOverstated ==
    ~heard_of => p.dropped_pkts <= Cardinality((1..pkts_sent) \ counted)
=============================================================================
