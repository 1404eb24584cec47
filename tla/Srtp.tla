--------------------------------- MODULE Srtp ---------------------------------
(***************************************************************************)
(* A media stream from one uvgRTP sender to one receiver: the sequence     *)
(* numbers and timestamps of rtp.cc, protected by srtp/base.cc and         *)
(* srtp/srtp.cc; or the reports about it, protected by srtp/srtcp.cc. Of   *)
(* a packet neither the roll-over counter nor the index is sent: each side *)
(* counts wraps of the 16-bit sequence number for itself, over a network   *)
(* that loses, repeats and reorders.                                       *)
(*                                                                         *)
(* A key stream is the key and index it is made from; a tag is known by    *)
(* its key, its packet and the counter it was computed over.               *)
(***************************************************************************)
EXTENDS Integers, FiniteSets

CONSTANTS
    SEQ_MOD,      \* sequence numbers: 2^16 in the code
    MAX_OFF,      \* 10000 in the code
    COUNT_MOD,    \* the 16 bits encrypt() takes of a report's number
    Modes,        \* what the stream's RCE_SRTP_* flags ask for
    MaxSent,      \* bound: packets of a run
    MaxOnWire     \* bound: packets under way

SrtpBounds ==
    /\ SEQ_MOD \in Nat \ {0, 1} /\ MAX_OFF \in Nat /\ COUNT_MOD \in Nat \ {0}
    /\ MaxSent \in Nat /\ MaxOnWire \in Nat
    /\ Modes \subseteq [user : BOOLEAN, cipher : BOOLEAN, auth : BOOLEAN, replay : BOOLEAN]

VARIABLES
    type,          \* srtp_ctx_->type: "SRTP" or "SRTCP"
    mode,          \* both sides' flags
    seq_, ts_,     \* rtp.cc: the next packet's sequence number, the frame's timestamp
    sent,          \* packets sent; of reports, rtcp_pkt_sent_count_
    roc,           \* srtp_ctx_->roc of the sender and of the receiver
    rts,           \* the receiver's srtp_ctx_->rts
    replay_list_,  \* the tags the receiver has seen
    wire,          \* packets under way
    got,           \* the packets that reached the receiver
    orderly,       \* so far they came one by one, in order, none missing or repeated
    out            \* what became of the last of them

srtpVars == <<type, mode, seq_, ts_, sent, roc, rts, replay_list_, wire, got, orderly, out>>

Last == SEQ_MOD - 1    \* 0xffff
Nothing == [result |-> "none", n |-> 0, used |-> <<>>, right |-> <<>>, late |-> FALSE]

\* init_user() copies the user's key to both directions; init_zrtp() gets a key for each,
\* the initiator's and the responder's (here: the sender's and the receiver's).
Master(side, direction) ==
    IF mode.user THEN "user"
    ELSE IF direction = "local" THEN side
    ELSE CHOOSE other \in {"sender", "receiver"} : other # side

\* One key per label from each master key.
derive_key(label, master) == <<label, master>>

\* init(): the session keys of a side, with the labels of the type.
init(side, direction) ==
    [enc  |-> derive_key(<<type, "ENCRYPTION">>, Master(side, direction)),
     auth |-> derive_key(<<type, "AUTHENTICATION">>, Master(side, direction))]

\* The key stream for a packet.
create_iv(key, index) == <<key, index>>

\* init(): the counters are zero; the first sequence number and timestamp are random.
Init ==
    /\ type \in {"SRTP", "SRTCP"} /\ mode \in Modes
    /\ seq_ \in 0..Last /\ ts_ \in {1, 2} /\ sent = 0
    /\ type = "SRTCP" => seq_ = 0 /\ ts_ = 1    \* reports have neither
    /\ roc = [s \in {"sender", "receiver"} |-> 0] /\ rts = 0
    /\ replay_list_ = {} /\ wire = {} /\ got = {} /\ orderly = TRUE
    /\ out = Nothing

-----------------------------------------------------------------------------
\* The roll-over counter after a packet: it moves when the last number goes by.
Rolled(counter, seq) == IF seq = Last THEN counter + 1 ELSE counter

\* encrypt(): the index is computed before the counter moves.
encrypt(counter, seq) == create_iv(init("sender", "local").enc, counter * SEQ_MOD + seq)

\* rtp::fill_header(): the timestamp is the clock's or the application's.
fill_header(ts) == [n |-> sent + 1, seq |-> seq_, ts |-> ts]

\* srtp::send_packet_handler(): the tag covers the packet and the counter as it is after
\* encrypt().
send_packet_handler(p, moved) ==
    [n |-> p.n, seq |-> p.seq, ts |-> p.ts, stream |-> encrypt(roc["sender"], p.seq),
     tag |-> <<init("sender", "local").auth, p.n, moved>>]

\* A packet goes out. With the null cipher the counter never moves.
send_packet(ts) ==
    LET moved == IF mode.cipher THEN Rolled(roc["sender"], seq_) ELSE roc["sender"]
    IN /\ type = "SRTP" /\ sent < MaxSent /\ Cardinality(wire) < MaxOnWire
       /\ sent' = sent + 1
       /\ seq_' = (seq_ + 1) % SEQ_MOD
       /\ ts_' = ts
       /\ roc' = [roc EXCEPT !["sender"] = moved]
       /\ wire' = wire \cup {send_packet_handler(fill_header(ts), moved)}
       /\ UNCHANGED <<type, mode, rts, replay_list_, got, orderly, out>>

lose_packet(p) ==
    /\ p \in wire /\ wire' = wire \ {p}
    /\ UNCHANGED <<type, mode, seq_, ts_, sent, roc, rts, replay_list_, got, orderly, out>>

-----------------------------------------------------------------------------
\* Mutant: the roll-over counter is not part of what is authenticated.
TagMatches_without_roc(p, counter) == TRUE

\* The tag computed over the packet and the receiver's counter.
TagMatches(p, counter) == p.tag = <<init("receiver", "remote").auth, p.n, counter>>

\* Only authenticated packets are looked up, by the first half of the tag.
is_replayed_packet(p) == mode.replay /\ p.tag \in replay_list_

\* What recv_packet_handler() returns for a packet.
Result(p) ==
    IF mode.auth /\ (~TagMatches(p, roc["receiver"]) \/ is_replayed_packet(p))
    THEN "RTP_GENERIC_ERROR"
    ELSE IF mode.cipher THEN "RTP_PKT_MODIFIED" ELSE "RTP_PKT_NOT_HANDLED"

\* The correction for packets overtaken by a wrap. The sum is an int's and no sequence
\* number is negative, so it is never made.
IndexOf(p) ==
    (IF p.ts = rts /\ p.seq + MAX_OFF < MAX_OFF THEN roc["receiver"] - 1 ELSE roc["receiver"])
        * SEQ_MOD + p.seq

\* srtp::recv_packet_handler(). A packet that stays is delivered again (bound: once).
recv_packet(p, stays) ==
    LET result  == Result(p)
        rolls   == result = "RTP_PKT_MODIFIED" /\ p.seq = Last
    IN /\ type = "SRTP" /\ p \in wire /\ (stays => p.n \notin got)
       /\ wire' = IF stays THEN wire ELSE wire \ {p}
       /\ roc' = [roc EXCEPT !["receiver"] = IF rolls THEN @ + 1 ELSE @]
       /\ rts' = IF rolls THEN p.ts ELSE rts
       /\ replay_list_' = IF mode.auth /\ mode.replay /\ result # "RTP_GENERIC_ERROR"
                          THEN replay_list_ \cup {p.tag} ELSE replay_list_
       /\ got' = got \cup {p.n}
       /\ orderly' = (orderly /\ p.n = Cardinality(got) + 1 /\ p.n \notin got)
       /\ out' = [result |-> result, n |-> p.n, right |-> p.stream,
                  used |-> IF result = "RTP_PKT_MODIFIED"
                           THEN create_iv(init("receiver", "remote").enc, IndexOf(p)) ELSE <<>>,
                  late |-> p.n \notin got /\ p.ts = rts /\ got = (1..(p.n + 1)) \ {p.n}]
       /\ UNCHANGED <<type, mode, seq_, ts_, sent>>

\* What else reaches the port: a hole puncher's byte, a late ZRTP message (whose version
\* bits are 0), a packet cut short inside its list of contributors.
Strays == {[size |-> 1, version |-> 0, cc |-> 0], [size |-> 24, version |-> 0, cc |-> 0],
           [size |-> 20, version |-> 2, cc |-> 3]}

\* rtp::packet_handler(); only what it has parsed goes on to recv_packet_handler().
packet_handler(d) ==
    IF d.size < 12 \/ d.version # 2 THEN "RTP_PKT_NOT_HANDLED"
    ELSE IF d.size - 12 < 4 * d.cc THEN "RTP_GENERIC_ERROR"
    ELSE "RTP_PKT_MODIFIED"

recv_stray(d) ==
    /\ type = "SRTP"
    /\ out' = [Nothing EXCEPT !.result = packet_handler(d)]
    /\ UNCHANGED <<type, mode, seq_, ts_, sent, roc, rts, replay_list_, wire, got, orderly>>

-----------------------------------------------------------------------------
\* srtcp::encrypt(): its seq has 16 bits.
encrypt_report(n) == create_iv(init("sender", "local").enc, n % COUNT_MOD)

\* srtcp::add_auth_tag(): over the report, with its number, and a counter that stays 0.
add_auth_tag(n) == <<init("sender", "local").auth, n, roc["sender"]>>

\* A report goes out with its number, encrypted unless the stream has the null cipher.
generate_report ==
    LET n == sent + 1
    IN /\ type = "SRTCP" /\ sent < MaxSent /\ Cardinality(wire) < MaxOnWire
       /\ sent' = n
       /\ wire' = wire \cup {[n |-> n, stream |-> encrypt_report(n), tag |-> add_auth_tag(n)]}
       /\ UNCHANGED <<type, mode, seq_, ts_, roc, rts, replay_list_, got, orderly, out>>

\* srtcp::verify_auth_tag()
verify_auth_tag(p) ==
    IF ~TagMatches(p, roc["receiver"]) THEN "RTP_AUTH_TAG_MISMATCH"
    ELSE IF is_replayed_packet(p) THEN "RTP_INVALID_VALUE"
    ELSE "RTP_OK"

\* srtcp::decrypt(): with 31 bits of the number.
decrypt(p) == create_iv(init("receiver", "remote").enc, p.n)

\* Every kind of report is verified and decrypted like this before it is read.
recv_report(p, stays) ==
    LET ret == verify_auth_tag(p)
    IN /\ type = "SRTCP" /\ p \in wire /\ (stays => p.n \notin got)
       /\ wire' = IF stays THEN wire ELSE wire \ {p}
       /\ replay_list_' = IF mode.replay /\ ret # "RTP_AUTH_TAG_MISMATCH"
                          THEN replay_list_ \cup {p.tag} ELSE replay_list_
       /\ got' = got \cup {p.n}
       /\ out' = [result |-> IF ret = "RTP_OK" THEN "RTP_OK" ELSE "RTP_AUTH_TAG_MISMATCH",
                  n |-> p.n, right |-> p.stream,
                  used |-> IF ret = "RTP_OK" /\ mode.cipher THEN decrypt(p) ELSE <<>>,
                  late |-> FALSE]
       /\ UNCHANGED <<type, mode, seq_, ts_, sent, roc, rts, orderly>>

Next ==
    \/ generate_report
    \/ \E d \in Strays : recv_stray(d)
    \/ \E ts \in {1, 2} : send_packet(ts)
    \/ \E p \in wire : lose_packet(p) \/ \E stays \in BOOLEAN : recv_packet(p, stays) \/ recv_report(p, stays)

Spec == Init /\ [][Next]_srtpVars

-----------------------------------------------------------------------------
Decrypted == out.used # <<>>

\* srtp.cc, srtcp.cc: no packet is decrypted with another key or index than it was
\* encrypted with. Of an authenticated stream, whatever the network lost, repeated or
\* reordered and however often the sequence number has wrapped (the two counters may drift
\* apart, but then the tag does not match); of any other stream, as long as nothing was
\* lost, repeated or overtaken; of reports, until their number leaves 16 bits.
DecryptedIsIntact ==
    Decrypted /\ (IF type = "SRTP" THEN mode.auth \/ orderly ELSE out.n < COUNT_MOD)
        => out.used = out.right

\* srtp.cc: a packet overtaken by the one that ends the round of sequence numbers, by no
\* more than MAX_OFF and in the same frame, is decrypted with the counter before the wrap.
\* (Every packet before it has arrived, and only the one after it too.)
OvertakenIsDecrypted == out.late /\ Decrypted => out.used = out.right
=============================================================================
