--------------------------------- MODULE Zrtp ---------------------------------
(***************************************************************************)
(* ZRTP key agreement (zrtp.cc, zrtp/*.cc) between two uvgRTP sessions: a  *)
(* Diffie-Hellman exchange for the first stream that succeeds, multistream *)
(* mode for those after it. Every stream has a port of its own, over which *)
(* messages are lost, repeated and reordered.                              *)
(*                                                                         *)
(* A message once sent may arrive any number of times, or never. A loop    *)
(* sends its message and waits; what does not interest it, and a timeout,  *)
(* cost it one of its tries. A chain of hashes H0..H3 is known by whose it *)
(* is and by the stream it was made for.                                   *)
(***************************************************************************)
EXTENDS Naturals

CONSTANTS
    HELLO_TRIES,    \* 20 in the code
    TRIES,          \* 10 in the code
    MaxStreams      \* bound: streams of a session

ZrtpBounds == {HELLO_TRIES, TRIES, MaxStreams} \subseteq Nat \ {0}

VARIABLES
    session_,   \* of each peer: where it is, session_ of zrtp.cc, initialized_
    msgs,       \* everything sent so far
    keys        \* the SRTP keys each peer has agreed on for its streams

zrtpVars == <<session_, msgs, keys>>

Peers == {"a", "b"}
Other(p) == CHOOSE q \in Peers : q # p
None == [type |-> "none"]

Init ==
    /\ session_ = [p \in Peers |->
           [pc |-> "closed", stream |-> 0, tries |-> 0, initialized_ |-> FALSE, msm |-> FALSE,
            hello_recv |-> FALSE, o_hash |-> None, key_agreement_type |-> "DH3k",
            role |-> "none", o_hvi |-> [hi |-> 0, lo |-> 0], r_hvi |-> [hi |-> 0, lo |-> 0],
            l_commit |-> None, hello |-> None, commit |-> None, dh |-> None,
            s0 |-> None, zrtp_key |-> None]]
    /\ msgs = {}
    /\ keys = [p \in Peers |-> [k \in {} |-> None]]

-----------------------------------------------------------------------------
\* The record s with some of its fields changed, or with more of them.
With(s, fields) ==
    [x \in DOMAIN s \cup DOMAIN fields |-> IF x \in DOMAIN fields THEN fields[x] ELSE s[x]]

\* init_session_hashes(): a chain H0..H3 from a new random H0.
init_session_hashes(p, stream) == [type |-> "H0..H3", of |-> p, made |-> stream]

\* hello::hello()
hello(p, stream, o_hash) ==
    [type |-> "Hello", from |-> p, stream |-> stream, hash |-> o_hash]

\* What the other messages' constructors have in common: every retry sends the same one.
Message(p, type) ==
    [type |-> type, from |-> p, stream |-> session_[p].stream, hash |-> session_[p].o_hash]

\* hello_ack::hello_ack()
hello_ack(p) == [type |-> "HelloACK", from |-> p, stream |-> session_[p].stream]

\* commit::commit() with the parameters of the session.
commit(p, mode, hvi) == With(Message(p, "Commit"), [key_agreement_type |-> mode, hvi |-> hvi])

\* dh_key_exchange::dh_key_exchange(): with the public key made for the stream.
dh_key_exchange(p, part) == Message(p, IF part = 1 THEN "DHPart1" ELSE "DHPart2")

\* confirm::confirm(): authenticated with the responder's or the initiator's key.
confirm(p, part, zrtp_key) ==
    LET type == IF part = 1 THEN "Confirm1" ELSE "Confirm2"
    IN With(Message(p, type), [mac |-> <<type, zrtp_key>>])

\* confack::confack()
confack(p) == Message(p, "Conf2ACK")

\* receiver::recv_msg(): what may arrive at the stream's port.
recv_msg(p, types) ==
    {m \in msgs : m.type \in types /\ m.from # p /\ m.stream = session_[p].stream}

\* The session goes on with some of its fields changed.
Becomes(p, fields) == session_' = [session_ EXCEPT ![p] = With(@, fields)]

\* The next round of the loop p is in, with nothing new to send, or its end.
Again(p, tries, fields) ==
    Becomes(p, With(fields, IF session_[p].tries < tries THEN [tries |-> session_[p].tries + 1]
                            ELSE [pc |-> "failed"]))

\* The next loop of p: its message is sent for the first time.
Loop(p, pc, fields, m) ==
    /\ Becomes(p, With(fields, [pc |-> pc, tries |-> 1]))
    /\ msgs' = msgs \cup {m}

\* A stream's session begins with its Hello; what is not named is kept.
Begins(p, msm, o_hash) ==
    LET stream == session_[p].stream + 1
    IN Loop(p, "hello",
            [stream |-> stream, msm |-> msm, hello_recv |-> FALSE, o_hash |-> o_hash],
            hello(p, stream, o_hash))

\* New hashes and a new public key.
init_dhm(p) == Begins(p, FALSE, init_session_hashes(p, session_[p].stream + 1))

\* The hashes and keys of the Diffie-Hellman exchange are kept.
init_msm(p) == Begins(p, TRUE, session_[p].o_hash)

\* init() of p's next stream.
init(p) ==
    /\ session_[p].pc \in {"closed", "ok", "failed"} /\ session_[p].stream < MaxStreams
    /\ IF session_[p].initialized_ THEN init_msm(p) ELSE init_dhm(p)
    /\ UNCHANGED keys

\* hello::parse_msg()
parse_hello(m) == [hello_recv |-> TRUE, hello |-> m]

\* begin_session(): every Hello is answered, the first one is kept.
recv_hello(p) ==
    /\ session_[p].pc = "hello"
    /\ \E m \in recv_msg(p, {"Hello"}) :
          Again(p, HELLO_TRIES, IF session_[p].hello_recv THEN <<>> ELSE parse_hello(m))
    /\ msgs' = msgs \cup {hello_ack(p)}
    /\ UNCHANGED keys

\* What our number may be: the hash of a message, or a nonce of half its length and zeroes.
Hvis(mode) == IF mode = "MULT" THEN {[hi |-> 0, lo |-> 1], [hi |-> 0, lo |-> 2]}
              ELSE {[hi |-> 1, lo |-> 3], [hi |-> 2, lo |-> 2]}

\* begin_session() returns, nobody answers a Hello any more; init_session() builds its
\* Commit. No two random numbers are equal.
recv_hello_ack(p) ==
    LET s     == session_[p]
        other == session_[Other(p)]
        mode  == IF s.msm THEN "MULT" ELSE "DH3k"
    IN /\ s.pc = "hello" /\ s.hello_recv /\ recv_msg(p, {"HelloACK"}) # {}
       /\ \E hvi \in Hvis(mode) :
             /\ other.stream = s.stream /\ other.pc # "hello" => hvi.lo # other.o_hvi.lo
             /\ Becomes(p, [pc |-> "drain", key_agreement_type |-> mode, o_hvi |-> hvi,
                            l_commit |-> commit(p, mode, hvi)])
       /\ UNCHANGED <<msgs, keys>>

-----------------------------------------------------------------------------
\* commit::parse_msg(): the peer's parameters replace ours; a nonce overwrites half of what
\* is known of the peer's number.
parse_commit(s, m) ==
    [commit |-> m, key_agreement_type |-> m.key_agreement_type,
     r_hvi |-> [hi |-> IF m.key_agreement_type = "MULT" THEN s.r_hvi.hi ELSE m.hvi.hi,
                lo |-> m.hvi.lo]]

\* Mutant: the halves of the numbers are compared each for itself.
are_we_initiator_by_halves(mode, ours, theirs) == ours.hi >= theirs.hi /\ ours.lo >= theirs.lo

\* The larger number's owner is the initiator; only half of it counts in multistream mode.
are_we_initiator(mode, ours, theirs) ==
    IF mode # "MULT" /\ ours.hi # theirs.hi THEN ours.hi > theirs.hi ELSE ours.lo >= theirs.lo

\* total_hash covers the responder's Hello and the initiator's Commit.
total_hash(p, s) ==
    IF s.role = "INITIATOR" THEN [hello |-> s.hello, commit |-> s.l_commit]
    ELSE [hello |-> hello(p, s.stream, s.o_hash), commit |-> s.commit]

\* generate_shared_secrets_dh(): and both DHParts.
generate_shared_secrets_dh(p, s, dh1, dh2) ==
    [type |-> "s0", total_hash |-> total_hash(p, s), dh |-> <<dh1, dh2>>]

\* generate_shared_secrets_msm().
generate_shared_secrets_msm(p, s) == [type |-> "s0", total_hash |-> total_hash(p, s)]

\* confirm::parse_msg(): the keys of the Confirms stay those of the Diffie-Hellman exchange.
confirm_parses(s, m) == m.type \in {"Confirm1", "Confirm2"} /\ m.mac = <<m.type, s.zrtp_key>>

\* validate_session(), with the H0 a Confirm discloses.
validate_session(s, h0) ==
    /\ s.hello.hash = h0 /\ s.dh.hash = h0
    /\ s.role = "RESPONDER" => s.commit.hash = h0

\* init_session() made us the responder: dh_part1(), or in multistream mode the secrets and
\* responder_finalize_session().
responder_goes_on(p, fields) ==
    LET responder == With(fields, [role |-> "RESPONDER"])
        s         == With(session_[p], responder)
    IN IF s.msm
       THEN Loop(p, "fin_r", With(responder, [s0 |-> generate_shared_secrets_msm(p, s)]),
                 confirm(p, 1, s.zrtp_key))
       ELSE Loop(p, "dh1", responder, dh_key_exchange(p, 1))

\* init_session(): the peer's Commit is there already ...
find_commit(p) ==
    /\ session_[p].pc = "drain"
    /\ \E m \in recv_msg(p, {"Commit"}) :
          responder_goes_on(p, parse_commit(session_[p], m))
    /\ UNCHANGED keys

\* ... or ours is sent first.
send_commit(p) ==
    /\ session_[p].pc = "drain"
    /\ Loop(p, "commit", [role |-> "INITIATOR"], session_[p].l_commit)
    /\ UNCHANGED keys

\* Both have sent one: the contention is resolved.
recv_commit(p) ==
    /\ session_[p].pc = "commit"
    /\ \E m \in recv_msg(p, {"Commit"}) :
          LET parsed == parse_commit(session_[p], m)
          IN IF are_we_initiator(parsed.key_agreement_type, session_[p].o_hvi, parsed.r_hvi)
             THEN Again(p, TRIES, parsed) /\ UNCHANGED msgs
             ELSE responder_goes_on(p, parsed)
    /\ UNCHANGED keys

\* initiator_finalize_session(), up to its loop.
initiator_finalizes(p, fields, m) ==
    LET s == With(session_[p], fields)
    IN IF confirm_parses(s, m) /\ validate_session(s, m.hash)
       THEN Loop(p, "fin_i", fields, confirm(p, 2, s.zrtp_key))
       ELSE Becomes(p, With(fields, [pc |-> "failed"])) /\ UNCHANGED msgs

\* dh_key_exchange::parse_msg() and the secrets that follow from both parts.
parse_dh(p, m, dh1, dh2) ==
    LET s0 == generate_shared_secrets_dh(p, session_[p], dh1, dh2)
    IN [dh |-> m, s0 |-> s0, zrtp_key |-> s0]

\* dh_part2(), up to its loop.
dh_part2(p, m) ==
    Loop(p, "dh2", parse_dh(p, m, m, dh_key_exchange(p, 2)), dh_key_exchange(p, 2))

\* A DHPart1 or a Confirm1 answers our Commit, whichever mode we are in: it is parsed as
\* the one the mode expects.
commit_is_answered(p) ==
    LET s == session_[p]
    IN /\ s.pc = "commit"
       /\ \E m \in recv_msg(p, {"DHPart1", "Confirm1"}) :
             IF s.msm
             THEN initiator_finalizes(p, [s0 |-> generate_shared_secrets_msm(p, s)], m)
             ELSE dh_part2(p, m)
       /\ UNCHANGED keys

-----------------------------------------------------------------------------
\* dh_part1() ends and responder_finalize_session() begins.
recv_dh_part2(p) ==
    /\ session_[p].pc = "dh1"
    /\ \E m \in recv_msg(p, {"DHPart2"}) :
          LET parsed == parse_dh(p, m, dh_key_exchange(p, 1), m)
          IN Loop(p, "fin_r", parsed, confirm(p, 1, parsed.zrtp_key))
    /\ UNCHANGED keys

\* dh_part2() ends and initiator_finalize_session() begins.
recv_confirm1(p) ==
    /\ session_[p].pc = "dh2"
    /\ \E m \in recv_msg(p, {"Confirm1"}) : initiator_finalizes(p, <<>>, m)
    /\ UNCHANGED keys

\* derive_key(): everything but the label is hashed into s0.
derive_key(label, s) == <<label, s.s0>>

\* Mutant: the responder's keys are not exchanged.
get_srtp_keys_alike(s) ==
    [role |-> s.role, our |-> derive_key("Initiator", s), their |-> derive_key("Responder", s)]

\* get_srtp_keys(), which media_stream::init() calls next if init() returns RTP_OK.
get_srtp_keys(s) ==
    LET initiator == derive_key("Initiator", s)
        responder == derive_key("Responder", s)
    IN IF s.role = "INITIATOR" THEN [role |-> s.role, our |-> initiator, their |-> responder]
       ELSE [role |-> s.role, our |-> responder, their |-> initiator]

\* The agreement is complete and init() returns RTP_OK, unless the setsockopt() with which
\* the Diffie-Hellman exchange ends fails, which the peer does not learn.
Succeeds(p) ==
    /\ \E pc \in IF session_[p].msm THEN {"ok"} ELSE {"ok", "failed"} :
          Becomes(p, [pc |-> pc, initialized_ |-> TRUE])
    /\ keys' = [keys EXCEPT ![p] =
                 With(@, [k \in {session_[p].stream} |-> get_srtp_keys(session_[p])])]

\* responder_finalize_session(): Conf2ACK is sent once. A Confirm2 with a wrong key costs a
\* try, a wrong chain of hashes ends the session.
recv_confirm2(p) ==
    LET s == session_[p]
    IN /\ s.pc = "fin_r"
       /\ \E m \in recv_msg(p, {"Confirm2"}) :
             IF confirm_parses(s, m) /\ validate_session(s, m.hash)
             THEN Succeeds(p) /\ msgs' = msgs \cup {confack(p)}
             ELSE /\ IF confirm_parses(s, m) THEN Becomes(p, [pc |-> "failed"])
                     ELSE Again(p, TRIES, <<>>)
                  /\ UNCHANGED <<msgs, keys>>

recv_conf2_ack(p) ==
    /\ session_[p].pc = "fin_i" /\ recv_msg(p, {"Conf2ACK"}) # {}
    /\ Succeeds(p)
    /\ UNCHANGED msgs

\* A try goes by without the message a loop waits for.
hello_timeout(p) ==
    /\ session_[p].pc = "hello" /\ Again(p, HELLO_TRIES, <<>>)
    /\ UNCHANGED <<msgs, keys>>

timeout(p) ==
    /\ session_[p].pc \in {"commit", "dh1", "dh2", "fin_r", "fin_i"} /\ Again(p, TRIES, <<>>)
    /\ UNCHANGED <<msgs, keys>>

\* packet_handler(), once the stream runs: what the peer repeats is refused, and a Confirm2
\* whose Conf2ACK was lost is not answered.
packet_handler(p) ==
    /\ session_[p].pc = "ok"
    /\ recv_msg(p, {"Hello", "HelloACK", "Commit", "DHPart1", "DHPart2", "Confirm1", "Confirm2",
                    "Conf2ACK"}) # {}
    /\ UNCHANGED zrtpVars

Next == \E p \in Peers :
    \/ init(p) \/ recv_hello(p) \/ recv_hello_ack(p) \/ hello_timeout(p)
    \/ find_commit(p) \/ send_commit(p) \/ recv_commit(p) \/ commit_is_answered(p)
    \/ recv_dh_part2(p) \/ recv_confirm1(p) \/ recv_confirm2(p) \/ recv_conf2_ack(p)
    \/ timeout(p) \/ packet_handler(p)

Spec == Init /\ [][Next]_zrtpVars

-----------------------------------------------------------------------------
\* init_session(): once two peers in the same mode have both agreed on roles for a stream,
\* the roles are opposite, whoever's Commit came first, crossed or was lost.
RolesOpposed ==
    LET Agreed(s) == s.pc \in {"dh1", "dh2", "fin_r", "fin_i", "ok"}
    IN session_["a"].stream = session_["b"].stream /\ session_["a"].msm = session_["b"].msm
          /\ Agreed(session_["a"]) /\ Agreed(session_["b"])
       => session_["a"].role # session_["b"].role

\* init(), get_srtp_keys(): an initiator only has keys after its responder, and then each
\* encrypts with what the other decrypts with, in either mode and after any failures.
KeysAgree ==
    \A p \in Peers : \A k \in DOMAIN keys[p] :
        /\ keys[p][k].role = "INITIATOR" => k \in DOMAIN keys[Other(p)]
        /\ k \in DOMAIN keys[Other(p)] => /\ keys[p][k].our = keys[Other(p)][k].their
                                          /\ keys[p][k].their = keys[Other(p)][k].our
=============================================================================
