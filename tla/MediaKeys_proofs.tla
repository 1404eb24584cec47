--------------------------- MODULE MediaKeys_proofs ---------------------------
(***************************************************************************)
(* Machine-checked proofs about the key agreement of two sessions (Zrtp),  *)
(* for any number of streams and of tries: the roles two peers agree on,   *)
(* and the keys they are given. Messages are never forgotten, so what a    *)
(* peer knows is stated by the messages that told it.                      *)
(***************************************************************************)
EXTENDS MediaParts, TLAPS

Fields ==
    {"pc", "stream", "tries", "initialized_", "msm", "hello_recv", "o_hash",
     "key_agreement_type", "role", "o_hvi", "r_hvi", "l_commit", "hello", "commit", "dh", "s0",
     "zrtp_key"}

\* The messages of a type that a peer has sent for a stream.
Of(M, type_, q, k) == {m \in M : m.type = type_ /\ m.from = q /\ m.stream = k}

Mode(msm) == IF msm THEN "MULT" ELSE "DH3k"

\* Who answers and who asks, seen from a peer with a role.
Responder(p, role) == IF role = "INITIATOR" THEN Keys!Other(p) ELSE p
Initiator(p, role) == IF role = "INITIATOR" THEN p ELSE Keys!Other(p)

\* A Commit that comes too late to make us the responder: our number is the larger.
Outbid(c, ours) == Keys!are_we_initiator(c.key_agreement_type, ours, c.hvi)

\* The secret of a Diffie-Hellman exchange carries the stream it was made for; one that is
\* kept for multistream mode is older than the stream.
Age(key)    == key.total_hash.commit.stream
Old(key, k) == key = Keys!None \/ Age(key) \in 0..(k - 1)

\* What the secret of stream k between responder r and initiator i is made of, and the key
\* that Confirms are authenticated with.
Founded(r, i, k, msm, secret, key, M) ==
    IF msm
    THEN /\ Old(key, k)
         /\ \E h \in Of(M, "Hello", r, k), c \in Of(M, "Commit", i, k) :
               secret = [type |-> "s0", total_hash |-> [hello |-> h, commit |-> c]]
    ELSE secret = key /\ secret.type = "s0" /\ Age(secret) = k

\* The initiator has sent the Confirm2 that shows its key.
Shown(i, k, key, M) == \E m \in Of(M, "Confirm2", i, k) : m.mac = <<"Confirm2", key>>

-----------------------------------------------------------------------------
\* What one peer's session is made of, where it may be, and what it has heard of the peer.
Shape(s) ==
    /\ DOMAIN s = Fields
    /\ s.stream \in Nat /\ s.msm \in BOOLEAN /\ s.hello_recv \in BOOLEAN
    /\ s.initialized_ \in BOOLEAN /\ s.o_hvi \in [hi : Nat, lo : Nat]
    /\ s.pc \in {"closed", "hello", "drain", "commit", "dh1", "dh2", "fin_r", "fin_i", "ok",
                 "failed"}

Greeted(p, s, M) ==
    /\ s.pc # "closed" => Keys!hello(p, s.stream, s.o_hash) \in M
    /\ s.pc = "closed" => s.stream = 0
    /\ s.hello_recv => s.hello \in Of(M, "Hello", Keys!Other(p), s.stream)
    /\ s.pc \in {"drain", "commit"} => s.hello_recv

Committed(p, s, M) ==
    /\ s.pc \in {"drain", "commit"} =>
          /\ s.l_commit \in Of({s.l_commit}, "Commit", p, s.stream)
          /\ s.l_commit.hvi = s.o_hvi /\ s.l_commit.key_agreement_type = Mode(s.msm)
    /\ s.pc = "commit" => s.role = "INITIATOR" /\ s.l_commit \in M

AsInitiator(p, s, M) ==
    /\ s.pc \in {"dh2", "fin_i"} => s.role = "INITIATOR"
    /\ s.pc \in {"dh2", "fin_i", "ok"} /\ s.role = "INITIATOR" =>
          \E m \in M : /\ m.type \in {"DHPart1", "Confirm1"}
                       /\ m.from = Keys!Other(p) /\ m.stream = s.stream

AsResponder(p, s, M) ==
    /\ s.pc \in {"dh1", "fin_r"} => s.role = "RESPONDER"
    /\ s.pc = "ok" => s.role \in {"INITIATOR", "RESPONDER"}
    /\ s.pc \in {"dh1", "fin_r", "ok"} /\ s.role = "RESPONDER" =>
          /\ s.commit \in Of(M, "Commit", Keys!Other(p), s.stream)
          /\ Of(M, "Commit", p, s.stream) # {} => ~Outbid(s.commit, s.o_hvi)

Secret(p, s, M) ==
    /\ Old(s.zrtp_key, s.stream + 1)
    /\ s.msm => Old(s.zrtp_key, s.stream)
    /\ s.pc = "dh2" /\ ~s.msm => s.s0 = s.zrtp_key /\ s.s0.type = "s0" /\ Age(s.s0) = s.stream
    /\ s.pc \in {"dh1", "dh2"} => ~s.msm
    /\ s.pc \in {"fin_r", "fin_i", "ok"} =>
          Founded(Responder(p, s.role), Initiator(p, s.role), s.stream, s.msm, s.s0, s.zrtp_key, M)
    /\ s.pc \in {"fin_i", "ok"} => Shown(Initiator(p, s.role), s.stream, s.zrtp_key, M)

\* What a message says of where its sender is.
Sent(m, s) ==
    /\ m.stream \in 0..s.stream
    /\ m.stream = s.stream =>
          /\ m.type = "Commit" =>
                /\ s.pc \notin {"closed", "hello", "drain"}
                /\ m.hvi = s.o_hvi /\ m.key_agreement_type = Mode(s.msm)
          /\ m.type \in {"DHPart1", "Confirm1"} =>
                s.role = "RESPONDER" /\ s.pc \in {"dh1", "fin_r", "ok", "failed"}
          /\ m.type = "Confirm2" => s.role = "INITIATOR" /\ s.pc \in {"fin_i", "ok", "failed"}

SessionInv(p, s, M) ==
    /\ Shape(s) /\ Greeted(p, s, M) /\ Committed(p, s, M) /\ AsInitiator(p, s, M)
    /\ AsResponder(p, s, M) /\ Secret(p, s, M)
    /\ \A m \in M : m.from = p => Sent(m, s)

\* Every message has a sender; of Hellos, Commits and Confirm2s there is one for a stream.
Said(M) ==
    /\ \A m \in M : m.from \in Keys!Peers /\ m.stream \in Nat
    /\ \A m1, m2 \in M : m1.type \in {"Hello", "Commit", "Confirm2"} /\ m1.type = m2.type
                           /\ m1.from = m2.from /\ m1.stream = m2.stream => m1 = m2

\* The keys of a stream: made by both roles from one secret.
Entry(role, secret) ==
    IF role = "INITIATOR"
    THEN [role |-> role, our |-> <<"Initiator", secret>>, their |-> <<"Responder", secret>>]
    ELSE [role |-> role, our |-> <<"Responder", secret>>, their |-> <<"Initiator", secret>>]

Given(p, k, e, M) ==
    /\ e.role \in {"INITIATOR", "RESPONDER"} /\ e = Entry(e.role, e.our[2])
    /\ \E m \in Of(M, "Confirm2", Initiator(p, e.role), k) : \E msm \in BOOLEAN :
          Founded(Responder(p, e.role), Initiator(p, e.role), k, msm, e.our[2], m.mac[2], M)
    /\ e.role = "INITIATOR" => Of(M, "Conf2ACK", Keys!Other(p), k) # {}

KeysInv(p, s, ks, M) ==
    /\ \A k \in DOMAIN ks :
          /\ k \in Nat /\ k <= s.stream /\ (k = s.stream => s.pc \in {"ok", "failed"})
          /\ Given(p, k, ks[k], M)
          /\ Of(M, "Confirm2", p, k) # {} => ks[k].role = "INITIATOR"
    /\ \A m \in M : m.type = "Conf2ACK" /\ m.from = p =>
          m.stream \in DOMAIN ks /\ ks[m.stream].role = "RESPONDER"

AgreementInv ==
    /\ DOMAIN session_ = Keys!Peers /\ DOMAIN keys = Keys!Peers
    /\ Said(msgs)
    /\ \A p \in Keys!Peers : SessionInv(p, session_[p], msgs) /\ KeysInv(p, session_[p], keys[p], msgs)

-----------------------------------------------------------------------------
(***************************************************************************)
(* Changed records.                                                        *)
(***************************************************************************)
LEMMA WithFields ==
    ASSUME NEW s, NEW f
    PROVE  /\ DOMAIN Keys!With(s, f) = DOMAIN s \cup DOMAIN f
           /\ \A x \in DOMAIN f : Keys!With(s, f)[x] = f[x]
           /\ \A x \in (DOMAIN s) \ DOMAIN f : Keys!With(s, f)[x] = s[x]
BY DEF Keys!With

LEMMA Others ==
    ASSUME NEW p \in Keys!Peers
    PROVE  /\ Keys!Other(p) \in Keys!Peers /\ Keys!Other(p) # p
           /\ Keys!Other(Keys!Other(p)) = p
           /\ \A q \in Keys!Peers : q = p \/ q = Keys!Other(p)
<1>1. Keys!Other("a") = "b"
  BY DEF Keys!Other, Keys!Peers
<1>2. Keys!Other("b") = "a"
  BY DEF Keys!Other, Keys!Peers
<1> QED
  BY <1>1, <1>2 DEF Keys!Peers

LEMMA CommitMade ==
    ASSUME NEW p, NEW mode_, NEW hvi
    PROVE  LET c == Keys!commit(p, mode_, hvi)
           IN /\ c.type = "Commit" /\ c.from = p /\ c.stream = session_[p].stream
              /\ c.hvi = hvi /\ c.key_agreement_type = mode_
BY DEF Keys!commit, Keys!With, Keys!Message

LEMMA ConfirmMade ==
    ASSUME NEW p, NEW part_ \in {1, 2}, NEW key
    PROVE  LET type_ == IF part_ = 1 THEN "Confirm1" ELSE "Confirm2"
               c     == Keys!confirm(p, part_, key)
           IN /\ c.type = type_ /\ c.from = p /\ c.stream = session_[p].stream
              /\ c.mac = <<type_, key>>
BY DEF Keys!confirm, Keys!With, Keys!Message

LEMMA FieldsBecome ==
    ASSUME NEW p \in Keys!Peers, NEW f, Keys!Becomes(p, f), DOMAIN session_ = Keys!Peers,
           DOMAIN session_[p] = Fields, DOMAIN f \subseteq Fields
    PROVE  /\ DOMAIN session_' = Keys!Peers /\ DOMAIN session_'[p] = Fields
           /\ session_'[Keys!Other(p)] = session_[Keys!Other(p)]
           /\ \A x \in DOMAIN f : session_'[p][x] = f[x]
           /\ \A x \in Fields \ DOMAIN f : session_'[p][x] = session_[p][x]
<1>1. session_' = [session_ EXCEPT ![p] = Keys!With(session_[p], f)]
  BY DEF Keys!Becomes
<1>2. session_'[p] = Keys!With(session_[p], f)
  BY <1>1
<1>3. /\ DOMAIN session_' = Keys!Peers
      /\ session_'[Keys!Other(p)] = session_[Keys!Other(p)]
  BY <1>1, Others
<1>4. /\ DOMAIN session_'[p] = Fields
      /\ \A x \in DOMAIN f : session_'[p][x] = f[x]
      /\ \A x \in Fields \ DOMAIN f : session_'[p][x] = session_[p][x]
  <2> HIDE DEF Fields
  <2>1. DOMAIN session_[p] \cup DOMAIN f = Fields
    OBVIOUS
  <2> QED
    BY <1>2, <2>1, WithFields
<1> QED
  BY <1>3, <1>4

\* What a step of a session leaves alone.
Keeps(s, t, fields) == \A x \in fields : t[x] = s[x]
Standing == {"stream", "msm", "initialized_", "o_hash", "o_hvi", "hello_recv", "hello", "zrtp_key"}
Agreeing == Standing \cup {"role", "l_commit"}

LEMMA LoopBegins ==
    ASSUME NEW p \in Keys!Peers, NEW pc, NEW f, NEW m, Keys!Loop(p, pc, f, m),
           DOMAIN session_ = Keys!Peers, DOMAIN session_[p] = Fields,
           DOMAIN f \subseteq Fields \ {"pc", "tries"}
    PROVE  /\ DOMAIN session_' = Keys!Peers /\ DOMAIN session_'[p] = Fields
           /\ session_'[Keys!Other(p)] = session_[Keys!Other(p)]
           /\ session_'[p].pc = pc
           /\ \A x \in DOMAIN f : session_'[p][x] = f[x]
           /\ \A x \in Fields \ ({"pc", "tries"} \cup DOMAIN f) : session_'[p][x] = session_[p][x]
           /\ msgs' = msgs \cup {m}
<1> DEFINE r == [pc |-> pc, tries |-> 1]
           g == Keys!With(f, r)
<1>1. DOMAIN r = {"pc", "tries"} /\ r["pc"] = pc
  OBVIOUS
<1>2. Keys!Becomes(p, g) /\ msgs' = msgs \cup {m}
  BY DEF Keys!Loop
<1>3. {"pc", "tries"} \subseteq Fields
  BY DEF Fields
<1> HIDE DEF r, Fields
<1>4. /\ DOMAIN g = DOMAIN f \cup {"pc", "tries"} /\ g["pc"] = pc
      /\ \A x \in DOMAIN f : g[x] = f[x]
  <2>1. /\ DOMAIN g = DOMAIN f \cup DOMAIN r
        /\ \A x \in DOMAIN r : g[x] = r[x]
        /\ \A x \in (DOMAIN f) \ DOMAIN r : g[x] = f[x]
    BY WithFields
  <2> QED
    BY <1>1, <2>1
<1> HIDE DEF g
<1>5. DOMAIN g \subseteq Fields
  BY <1>3, <1>4
<1>6. /\ DOMAIN session_' = Keys!Peers /\ DOMAIN session_'[p] = Fields
      /\ session_'[Keys!Other(p)] = session_[Keys!Other(p)]
      /\ \A x \in DOMAIN g : session_'[p][x] = g[x]
      /\ \A x \in Fields \ DOMAIN g : session_'[p][x] = session_[p][x]
  BY <1>2, <1>5, FieldsBecome
<1> QED
  BY <1>2, <1>4, <1>6

LEMMA LoopGoesOn ==
    ASSUME NEW p \in Keys!Peers, NEW n, NEW f, Keys!Again(p, n, f),
           DOMAIN session_ = Keys!Peers, DOMAIN session_[p] = Fields,
           DOMAIN f \subseteq Fields \ {"pc", "tries"}
    PROVE  /\ DOMAIN session_' = Keys!Peers /\ DOMAIN session_'[p] = Fields
           /\ session_'[Keys!Other(p)] = session_[Keys!Other(p)]
           /\ session_'[p].pc \in {session_[p].pc, "failed"}
           /\ \A x \in DOMAIN f : session_'[p][x] = f[x]
           /\ \A x \in Fields \ ({"pc", "tries"} \cup DOMAIN f) : session_'[p][x] = session_[p][x]
<1> DEFINE r == IF session_[p].tries < n THEN [tries |-> session_[p].tries + 1]
                ELSE [pc |-> "failed"]
           g == Keys!With(f, r)
<1>1. DOMAIN r = {"tries"} \/ (DOMAIN r = {"pc"} /\ r["pc"] = "failed")
  OBVIOUS
<1>2. Keys!Becomes(p, g)
  BY DEF Keys!Again
<1>3. {"pc", "tries"} \subseteq Fields /\ "pc" # "tries"
  BY DEF Fields
<1> HIDE DEF r, Fields
<1>4. /\ DOMAIN g = DOMAIN f \cup DOMAIN r
      /\ "pc" \in DOMAIN g => g["pc"] = "failed"
      /\ \A x \in DOMAIN f : g[x] = f[x]
  <2>1. /\ DOMAIN g = DOMAIN f \cup DOMAIN r
        /\ \A x \in DOMAIN r : g[x] = r[x]
        /\ \A x \in (DOMAIN f) \ DOMAIN r : g[x] = f[x]
    BY WithFields
  <2> QED
    BY <1>1, <2>1
<1> HIDE DEF g
<1>5. DOMAIN g \subseteq Fields
  BY <1>1, <1>3, <1>4
<1>6. /\ DOMAIN session_' = Keys!Peers /\ DOMAIN session_'[p] = Fields
      /\ session_'[Keys!Other(p)] = session_[Keys!Other(p)]
      /\ \A x \in DOMAIN g : session_'[p][x] = g[x]
      /\ \A x \in Fields \ DOMAIN g : session_'[p][x] = session_[p][x]
  BY <1>2, <1>5, FieldsBecome
<1> QED
  BY <1>1, <1>3, <1>4, <1>6

-----------------------------------------------------------------------------
(***************************************************************************)
(* What the other peer's messages and one's own steps do to a session.     *)
(***************************************************************************)
\* What a peer knows it does not unlearn.
LEMMA FoundedStays ==
    ASSUME NEW r, NEW i, NEW k, NEW msm, NEW secret, NEW key, NEW M, NEW N, M \subseteq N,
           Founded(r, i, k, msm, secret, key, M)
    PROVE  Founded(r, i, k, msm, secret, key, N)
BY DEF Founded, Of

LEMMA OtherSpeaks ==
    ASSUME NEW p \in Keys!Peers, NEW s, NEW M, NEW N, M \subseteq N, SessionInv(p, s, M),
           \A m \in N : m \in M \/ m.from = Keys!Other(p)
    PROVE  SessionInv(p, s, N)
<1>1. Greeted(p, s, N) /\ Committed(p, s, N) /\ AsInitiator(p, s, N) /\ Shape(s)
  BY DEF SessionInv, Greeted, Committed, AsInitiator, Of
<1>2. Of(N, "Commit", p, s.stream) = Of(M, "Commit", p, s.stream)
  BY Others DEF Of
<1>3. AsResponder(p, s, N)
  BY <1>2 DEF SessionInv, AsResponder, Of
<1>4. Secret(p, s, N)
  <2>1. Secret(p, s, M)
    BY DEF SessionInv
  <2>2. Shown(Initiator(p, s.role), s.stream, s.zrtp_key, M)
           => Shown(Initiator(p, s.role), s.stream, s.zrtp_key, N)
    BY DEF Shown, Of
  <2> QED
    BY <2>1, <2>2, FoundedStays DEF Secret
<1>5. \A m \in N : m.from = p => Sent(m, s)
  BY Others DEF SessionInv
<1> QED
  BY <1>1, <1>3, <1>4, <1>5 DEF SessionInv

\* A session that fails keeps what it has sent.
LEMMA SessionFails ==
    ASSUME NEW p \in Keys!Peers, NEW s, NEW t, NEW M, SessionInv(p, s, M), s.pc # "closed",
           Shape(t), t.pc = "failed", Keeps(s, t, Standing \cup {"role"})
    PROVE  SessionInv(p, t, M)
<1>1. /\ t.stream = s.stream /\ t.msm = s.msm /\ t.o_hash = s.o_hash /\ t.o_hvi = s.o_hvi
      /\ t.hello_recv = s.hello_recv /\ t.hello = s.hello /\ t.zrtp_key = s.zrtp_key
      /\ t.role = s.role
  BY DEF Keeps, Standing
<1>2. Greeted(p, t, M)
  BY <1>1 DEF SessionInv, Greeted
<1>3. Committed(p, t, M) /\ AsInitiator(p, t, M) /\ AsResponder(p, t, M)
  BY DEF Committed, AsInitiator, AsResponder
<1>4. Secret(p, t, M)
  BY <1>1 DEF SessionInv, Secret
<1>5. \A m \in M : m.from = p => Sent(m, t)
  BY <1>1 DEF SessionInv, Sent
<1> QED
  BY <1>2, <1>3, <1>4, <1>5 DEF SessionInv

\* A peer whose Commit is not answered waits, whatever other Commit it has read.
LEMMA CommitWaits ==
    ASSUME NEW p \in Keys!Peers, NEW s, NEW t, NEW M, SessionInv(p, s, M),
           Shape(t), s.pc = "commit", t.pc = "commit", Keeps(s, t, Agreeing)
    PROVE  SessionInv(p, t, M)
<1>1. /\ t.stream = s.stream /\ t.msm = s.msm /\ t.o_hash = s.o_hash /\ t.o_hvi = s.o_hvi
      /\ t.hello_recv = s.hello_recv /\ t.hello = s.hello /\ t.zrtp_key = s.zrtp_key
      /\ t.role = s.role /\ t.l_commit = s.l_commit
  BY DEF Keeps, Agreeing, Standing
<1>2. Greeted(p, t, M) /\ Committed(p, t, M)
  BY <1>1 DEF SessionInv, Greeted, Committed
<1>3. AsInitiator(p, t, M) /\ AsResponder(p, t, M)
  BY DEF AsInitiator, AsResponder
<1>4. Secret(p, t, M)
  BY <1>1 DEF SessionInv, Secret
<1>5. \A m \in M : m.from = p => Sent(m, t)
  BY <1>1 DEF SessionInv, Sent
<1> QED
  BY <1>2, <1>3, <1>4, <1>5 DEF SessionInv

\* A session that waits for another round is where it was.
LEMMA SessionWaits ==
    ASSUME NEW p \in Keys!Peers, NEW s, NEW t, NEW M, SessionInv(p, s, M),
           Shape(t), t.pc = s.pc, Keeps(s, t, Agreeing \cup {"commit", "s0"})
    PROVE  SessionInv(p, t, M)
<1>1. /\ t.stream = s.stream /\ t.msm = s.msm /\ t.o_hash = s.o_hash /\ t.o_hvi = s.o_hvi
      /\ t.hello_recv = s.hello_recv /\ t.hello = s.hello /\ t.zrtp_key = s.zrtp_key
      /\ t.role = s.role /\ t.l_commit = s.l_commit /\ t.commit = s.commit /\ t.s0 = s.s0
  BY DEF Keeps, Agreeing, Standing
<1>2. Greeted(p, t, M) /\ Committed(p, t, M)
  BY <1>1 DEF SessionInv, Greeted, Committed
<1>3. AsInitiator(p, t, M) /\ AsResponder(p, t, M)
  BY <1>1 DEF SessionInv, AsInitiator, AsResponder
<1>4. Secret(p, t, M)
  BY <1>1 DEF SessionInv, Secret
<1>5. \A m \in M : m.from = p => Sent(m, t)
  BY <1>1 DEF SessionInv, Sent
<1> QED
  BY <1>2, <1>3, <1>4, <1>5 DEF SessionInv

LEMMA SessionBegins ==
    ASSUME NEW p \in Keys!Peers, NEW s, NEW t, NEW M, SessionInv(p, s, M), Shape(t),
           t.pc = "hello", t.stream = s.stream + 1, ~t.hello_recv, t.zrtp_key = s.zrtp_key
    PROVE  SessionInv(p, t, M \cup {Keys!hello(p, t.stream, t.o_hash)})
<1> DEFINE h == Keys!hello(p, t.stream, t.o_hash)
           N == M \cup {h}
<1>1. h.type = "Hello" /\ h.from = p /\ h.stream = t.stream /\ h \in N
  BY DEF Keys!hello
<1>2. t.stream \in Nat /\ s.stream \in Nat /\ t.stream = s.stream + 1
  BY DEF Shape, SessionInv
<1> HIDE DEF h
<1>3. Greeted(p, t, N) /\ Committed(p, t, N) /\ AsInitiator(p, t, N) /\ AsResponder(p, t, N)
  BY <1>1 DEF Greeted, Committed, AsInitiator, AsResponder, h
<1>4. Secret(p, t, N)
  <2>1. Old(s.zrtp_key, s.stream + 1)
    BY DEF SessionInv, Secret
  <2>2. Old(t.zrtp_key, t.stream) /\ Old(t.zrtp_key, t.stream + 1)
    BY <1>2, <2>1 DEF Old
  <2> QED
    BY <2>2 DEF Secret
<1>5. ASSUME NEW m \in N, m.from = p PROVE Sent(m, t)
  <2>1. CASE m = h
    BY <1>1, <1>2, <2>1 DEF Sent
  <2>2. CASE m \in M
    <3>1. Sent(m, s)
      BY <1>5, <2>2 DEF SessionInv
    <3>2. m.stream \in 0..s.stream
      BY <3>1 DEF Sent
    <3>3. m.stream # t.stream /\ m.stream \in 0..t.stream
      BY <1>2, <3>2
    <3> QED
      BY <3>3 DEF Sent
  <2> QED
    BY <2>1, <2>2
<1> QED
  BY <1>3, <1>4, <1>5 DEF SessionInv, h

\* Anything but a Commit may be said that fits where the session is.
LEMMA SessionSpeaks ==
    ASSUME NEW p \in Keys!Peers, NEW s, NEW M, NEW m, SessionInv(p, s, M),
           m.type # "Commit", Sent(m, s)
    PROVE  SessionInv(p, s, M \cup {m})
<1> DEFINE N == M \cup {m}
<1>1. Greeted(p, s, N) /\ Committed(p, s, N) /\ AsInitiator(p, s, N) /\ Shape(s)
  BY DEF SessionInv, Greeted, Committed, AsInitiator, Of
<1>2. Of(N, "Commit", p, s.stream) = Of(M, "Commit", p, s.stream)
  BY DEF Of
<1>3. AsResponder(p, s, N)
  BY <1>2 DEF SessionInv, AsResponder, Of
<1>4. Secret(p, s, N)
  <2>1. Secret(p, s, M)
    BY DEF SessionInv
  <2>2. Shown(Initiator(p, s.role), s.stream, s.zrtp_key, M)
           => Shown(Initiator(p, s.role), s.stream, s.zrtp_key, N)
    BY DEF Shown, Of
  <2> QED
    BY <2>1, <2>2, FoundedStays DEF Secret
<1>5. \A c \in N : c.from = p => Sent(c, s)
  BY DEF SessionInv
<1> QED
  BY <1>1, <1>3, <1>4, <1>5 DEF SessionInv

\* The first Hello of the peer is kept.
LEMMA SessionGreets ==
    ASSUME NEW p \in Keys!Peers, NEW s, NEW t, NEW M, SessionInv(p, s, M), Shape(t),
           s.pc = "hello", t.pc \in {"hello", "failed"},
           Keeps(s, t, Standing \ {"hello_recv", "hello"}),
           t.hello \in Of(M, "Hello", Keys!Other(p), s.stream)
    PROVE  SessionInv(p, t, M)
<1>1. /\ t.stream = s.stream /\ t.msm = s.msm /\ t.o_hash = s.o_hash /\ t.o_hvi = s.o_hvi
      /\ t.zrtp_key = s.zrtp_key
  BY DEF Keeps, Standing
<1>2. Greeted(p, t, M) /\ Committed(p, t, M) /\ AsInitiator(p, t, M) /\ AsResponder(p, t, M)
  BY <1>1 DEF SessionInv, Greeted, Committed, AsInitiator, AsResponder
<1>3. Secret(p, t, M)
  BY <1>1 DEF SessionInv, Secret
<1>4. \A m \in M : m.from = p => Sent(m, t)
  BY <1>1 DEF SessionInv, Sent
<1> QED
  BY <1>2, <1>3, <1>4 DEF SessionInv

\* The Commit is built, and not sent yet.
LEMMA SessionPrepares ==
    ASSUME NEW p \in Keys!Peers, NEW s, NEW t, NEW M, SessionInv(p, s, M), Shape(t),
           s.pc = "hello", s.hello_recv, t.pc = "drain", Keeps(s, t, Standing \ {"o_hvi"}),
           t.l_commit.type = "Commit", t.l_commit.from = p, t.l_commit.stream = s.stream,
           t.l_commit.hvi = t.o_hvi, t.l_commit.key_agreement_type = Mode(s.msm)
    PROVE  SessionInv(p, t, M)
<1>1. /\ t.stream = s.stream /\ t.msm = s.msm /\ t.o_hash = s.o_hash
      /\ t.hello_recv = s.hello_recv /\ t.hello = s.hello /\ t.zrtp_key = s.zrtp_key
  BY DEF Keeps, Standing
<1>2. Greeted(p, t, M) /\ Committed(p, t, M) /\ AsInitiator(p, t, M) /\ AsResponder(p, t, M)
  BY <1>1 DEF SessionInv, Greeted, Committed, AsInitiator, AsResponder, Of
<1>3. Secret(p, t, M)
  BY <1>1 DEF SessionInv, Secret
<1>4. \A m \in M : m.from = p => Sent(m, t)
  BY <1>1 DEF SessionInv, Sent
<1> QED
  BY <1>2, <1>3, <1>4 DEF SessionInv

\* The Commit is sent.
LEMMA SessionCommits ==
    ASSUME NEW p \in Keys!Peers, NEW s, NEW t, NEW M, SessionInv(p, s, M), Shape(t),
           s.pc = "drain", t.pc = "commit", Keeps(s, t, Standing \cup {"l_commit"}),
           t.role = "INITIATOR"
    PROVE  SessionInv(p, t, M \cup {s.l_commit})
<1> DEFINE N == M \cup {s.l_commit}
<1>1. /\ t.stream = s.stream /\ t.msm = s.msm /\ t.o_hash = s.o_hash /\ t.o_hvi = s.o_hvi
      /\ t.hello_recv = s.hello_recv /\ t.hello = s.hello /\ t.zrtp_key = s.zrtp_key
      /\ t.l_commit = s.l_commit
  BY DEF Keeps, Standing
<1>2. /\ s.l_commit.type = "Commit" /\ s.l_commit.stream = s.stream
      /\ s.l_commit.hvi = s.o_hvi /\ s.l_commit.key_agreement_type = Mode(s.msm)
      /\ s.stream \in Nat
  BY DEF SessionInv, Committed, Of, Shape
<1>3. Greeted(p, t, N) /\ Committed(p, t, N) /\ AsInitiator(p, t, N) /\ AsResponder(p, t, N)
  BY <1>1 DEF SessionInv, Greeted, Committed, AsInitiator, AsResponder, Of
<1>4. Secret(p, t, N)
  BY <1>1 DEF SessionInv, Secret
<1>5. \A m \in M : m.from = p => Sent(m, t)
  BY <1>1 DEF SessionInv, Sent
<1>6. Sent(s.l_commit, t)
  BY <1>1, <1>2 DEF Sent
<1> QED
  BY <1>3, <1>4, <1>5, <1>6 DEF SessionInv

\* The peer's Commit makes us the responder of a Diffie-Hellman exchange.
LEMMA SessionYields ==
    ASSUME NEW p \in Keys!Peers, NEW s, NEW t, NEW M, SessionInv(p, s, M), Shape(t),
           s.pc \in {"drain", "commit"}, t.pc = "dh1", ~s.msm, Keeps(s, t, Standing),
           t.role = "RESPONDER", t.commit \in Of(M, "Commit", Keys!Other(p), s.stream),
           s.pc = "commit" => ~Outbid(t.commit, s.o_hvi)
    PROVE  SessionInv(p, t, M)
<1>1. /\ t.stream = s.stream /\ t.msm = s.msm /\ t.o_hash = s.o_hash /\ t.o_hvi = s.o_hvi
      /\ t.hello_recv = s.hello_recv /\ t.hello = s.hello /\ t.zrtp_key = s.zrtp_key
  BY DEF Keeps, Standing
<1>2. s.pc = "drain" => Of(M, "Commit", p, s.stream) = {}
  BY DEF SessionInv, Sent, Of
<1>3. Greeted(p, t, M) /\ Committed(p, t, M) /\ AsInitiator(p, t, M)
  BY <1>1 DEF SessionInv, Greeted, Committed, AsInitiator
<1>4. AsResponder(p, t, M)
  BY <1>1, <1>2 DEF AsResponder
<1>5. Secret(p, t, M)
  BY <1>1 DEF SessionInv, Secret
<1>6. \A m \in M : m.from = p => Sent(m, t)
  BY <1>1 DEF SessionInv, Sent
<1> QED
  BY <1>3, <1>4, <1>5, <1>6 DEF SessionInv

\* ... or of one in multistream mode, with the secret of both.
LEMMA SessionDerives ==
    ASSUME NEW p \in Keys!Peers, NEW s, NEW t, NEW M, SessionInv(p, s, M), Shape(t),
           s.pc \in {"drain", "commit"}, t.pc = "fin_r", s.msm, Keeps(s, t, Standing),
           t.role = "RESPONDER", t.commit \in Of(M, "Commit", Keys!Other(p), s.stream),
           s.pc = "commit" => ~Outbid(t.commit, s.o_hvi),
           t.s0 = [type |-> "s0", total_hash |->
                     [hello |-> Keys!hello(p, s.stream, s.o_hash), commit |-> t.commit]]
    PROVE  SessionInv(p, t, M)
<1>1. /\ t.stream = s.stream /\ t.msm = s.msm /\ t.o_hash = s.o_hash /\ t.o_hvi = s.o_hvi
      /\ t.hello_recv = s.hello_recv /\ t.hello = s.hello /\ t.zrtp_key = s.zrtp_key
  BY DEF Keeps, Standing
<1>2. s.pc = "drain" => Of(M, "Commit", p, s.stream) = {}
  BY DEF SessionInv, Sent, Of
<1>3. Greeted(p, t, M) /\ Committed(p, t, M) /\ AsInitiator(p, t, M)
  BY <1>1 DEF SessionInv, Greeted, Committed, AsInitiator
<1>4. AsResponder(p, t, M)
  BY <1>1, <1>2 DEF AsResponder
<1>5. Secret(p, t, M)
  <2>1. Keys!hello(p, s.stream, s.o_hash) \in Of(M, "Hello", p, s.stream)
    BY DEF SessionInv, Greeted, Keys!hello, Of
  <2>2. Old(s.zrtp_key, s.stream) /\ Old(s.zrtp_key, s.stream + 1)
    BY DEF SessionInv, Secret
  <2>3. Responder(p, t.role) = p /\ Initiator(p, t.role) = Keys!Other(p)
    BY DEF Responder, Initiator
  <2>4. Founded(p, Keys!Other(p), s.stream, s.msm, t.s0, s.zrtp_key, M)
    BY <2>1, <2>2 DEF Founded
  <2> QED
    BY <1>1, <2>2, <2>3, <2>4 DEF Secret
<1>6. \A m \in M : m.from = p => Sent(m, t)
  BY <1>1 DEF SessionInv, Sent
<1> QED
  BY <1>3, <1>4, <1>5, <1>6 DEF SessionInv

\* A DHPart1, or what is taken for one, answers our Commit.
LEMMA SessionAsks ==
    ASSUME NEW p \in Keys!Peers, NEW s, NEW t, NEW M, SessionInv(p, s, M), Shape(t),
           s.pc = "commit", t.pc = "dh2", ~s.msm, Keeps(s, t, Agreeing \ {"zrtp_key"}),
           \E m \in M : /\ m.type \in {"DHPart1", "Confirm1"}
                        /\ m.from = Keys!Other(p) /\ m.stream = s.stream,
           t.s0.type = "s0", Age(t.s0) = s.stream, t.zrtp_key = t.s0
    PROVE  SessionInv(p, t, M)
<1>1. /\ t.stream = s.stream /\ t.msm = s.msm /\ t.o_hash = s.o_hash /\ t.o_hvi = s.o_hvi
      /\ t.hello_recv = s.hello_recv /\ t.hello = s.hello
      /\ t.role = s.role /\ t.l_commit = s.l_commit
  BY DEF Keeps, Agreeing, Standing
<1>2. s.role = "INITIATOR" /\ s.stream \in Nat
  BY DEF SessionInv, Committed, Shape
<1>3. Greeted(p, t, M) /\ Committed(p, t, M) /\ AsInitiator(p, t, M) /\ AsResponder(p, t, M)
  BY <1>1, <1>2 DEF SessionInv, Greeted, Committed, AsInitiator, AsResponder
<1>4. Secret(p, t, M)
  <2>1. Old(t.zrtp_key, t.stream + 1)
    BY <1>1, <1>2 DEF Old
  <2> QED
    BY <1>1, <2>1 DEF Secret
<1>5. \A m \in M : m.from = p => Sent(m, t)
  BY <1>1 DEF SessionInv, Sent
<1> QED
  BY <1>3, <1>4, <1>5 DEF SessionInv

\* The DHPart2 comes: the responder has the secret.
LEMMA SessionReceives ==
    ASSUME NEW p \in Keys!Peers, NEW s, NEW t, NEW M, SessionInv(p, s, M), Shape(t),
           s.pc = "dh1", t.pc = "fin_r", Keeps(s, t, (Agreeing \ {"zrtp_key"}) \cup {"commit"}),
           t.s0.type = "s0", Age(t.s0) = s.stream, t.zrtp_key = t.s0
    PROVE  SessionInv(p, t, M)
<1>1. /\ t.stream = s.stream /\ t.msm = s.msm /\ t.o_hash = s.o_hash /\ t.o_hvi = s.o_hvi
      /\ t.hello_recv = s.hello_recv /\ t.hello = s.hello
      /\ t.role = s.role /\ t.commit = s.commit
  BY DEF Keeps, Agreeing, Standing
<1>2. s.role = "RESPONDER" /\ s.stream \in Nat /\ ~s.msm
  BY DEF SessionInv, AsResponder, Shape, Secret
<1>3. Greeted(p, t, M) /\ Committed(p, t, M) /\ AsInitiator(p, t, M)
  BY <1>1, <1>2 DEF SessionInv, Greeted, Committed, AsInitiator
<1>4. AsResponder(p, t, M)
  BY <1>1, <1>2 DEF SessionInv, AsResponder
<1>5. Secret(p, t, M)
  <2>1. Old(t.zrtp_key, t.stream + 1)
    BY <1>1, <1>2 DEF Old
  <2> QED
    BY <1>1, <1>2, <2>1 DEF Secret, Founded
<1>6. \A m \in M : m.from = p => Sent(m, t)
  BY <1>1 DEF SessionInv, Sent
<1> QED
  BY <1>3, <1>4, <1>5, <1>6 DEF SessionInv

\* The initiator has the secret and shows its key.
LEMMA SessionShows ==
    ASSUME NEW p \in Keys!Peers, NEW s, NEW t, NEW M, NEW m, SessionInv(p, s, M), Shape(t),
           s.pc \in {"commit", "dh2"}, t.pc = "fin_i", Keeps(s, t, Agreeing),
           \E c \in M : /\ c.type \in {"DHPart1", "Confirm1"}
                        /\ c.from = Keys!Other(p) /\ c.stream = s.stream,
           Founded(Keys!Other(p), p, s.stream, s.msm, t.s0, s.zrtp_key, M),
           m.type = "Confirm2", m.from = p, m.stream = s.stream,
           m.mac = <<"Confirm2", s.zrtp_key>>
    PROVE  SessionInv(p, t, M \cup {m})
<1> DEFINE N == M \cup {m}
<1>1. /\ t.stream = s.stream /\ t.msm = s.msm /\ t.o_hash = s.o_hash /\ t.o_hvi = s.o_hvi
      /\ t.hello_recv = s.hello_recv /\ t.hello = s.hello /\ t.zrtp_key = s.zrtp_key
      /\ t.role = s.role /\ t.l_commit = s.l_commit
  BY DEF Keeps, Agreeing, Standing
<1>2. s.role = "INITIATOR" /\ s.stream \in Nat
  BY DEF SessionInv, Committed, AsInitiator, Shape
<1>3. Greeted(p, t, N) /\ Committed(p, t, N) /\ AsResponder(p, t, N)
  BY <1>1, <1>2 DEF SessionInv, Greeted, Committed, AsResponder, Of
<1>4. AsInitiator(p, t, N)
  BY <1>1, <1>2 DEF AsInitiator
<1>5. Secret(p, t, N)
  <2>1. Founded(Keys!Other(p), p, s.stream, s.msm, t.s0, s.zrtp_key, N)
    BY FoundedStays
  <2>2. Shown(p, s.stream, s.zrtp_key, N)
    BY DEF Shown, Of
  <2>3. Responder(p, t.role) = Keys!Other(p) /\ Initiator(p, t.role) = p
    BY <1>1, <1>2 DEF Responder, Initiator
  <2>4. Old(s.zrtp_key, s.stream + 1) /\ (s.msm => Old(s.zrtp_key, s.stream))
    BY DEF SessionInv, Secret
  <2> QED
    BY <1>1, <2>1, <2>2, <2>3, <2>4 DEF Secret
<1>6. \A c \in M : c.from = p => Sent(c, t)
  BY <1>1 DEF SessionInv, Sent
<1>7. Sent(m, t)
  BY <1>1, <1>2 DEF Sent
<1> QED
  BY <1>3, <1>4, <1>5, <1>6, <1>7 DEF SessionInv

\* The agreement is complete.
LEMMA SessionEnds ==
    ASSUME NEW p \in Keys!Peers, NEW s, NEW t, NEW M, SessionInv(p, s, M), Shape(t),
           s.pc \in {"fin_r", "fin_i"}, t.pc \in {"ok", "failed"},
           Keeps(s, t, (Agreeing \ {"initialized_"}) \cup {"commit", "s0"}),
           Shown(Initiator(p, s.role), s.stream, s.zrtp_key, M)
    PROVE  SessionInv(p, t, M)
<1>1. /\ t.stream = s.stream /\ t.msm = s.msm /\ t.o_hash = s.o_hash /\ t.o_hvi = s.o_hvi
      /\ t.hello_recv = s.hello_recv /\ t.hello = s.hello /\ t.zrtp_key = s.zrtp_key
      /\ t.role = s.role /\ t.commit = s.commit /\ t.s0 = s.s0
  BY DEF Keeps, Agreeing, Standing
<1>2. Greeted(p, t, M) /\ Committed(p, t, M)
  BY <1>1 DEF SessionInv, Greeted, Committed
<1>3. AsInitiator(p, t, M)
  BY <1>1 DEF SessionInv, AsInitiator, AsResponder
<1>4. AsResponder(p, t, M)
  BY <1>1 DEF SessionInv, AsInitiator, AsResponder
<1>5. Secret(p, t, M)
  BY <1>1 DEF SessionInv, Secret
<1>6. \A c \in M : c.from = p => Sent(c, t)
  BY <1>1 DEF SessionInv, Sent
<1> QED
  BY <1>2, <1>3, <1>4, <1>5, <1>6 DEF SessionInv

-----------------------------------------------------------------------------
(***************************************************************************)
(* The messages, and the keys that were given.                             *)
(***************************************************************************)
LEMMA GivenStays ==
    ASSUME NEW p, NEW k, NEW e, NEW M, NEW N, M \subseteq N, Given(p, k, e, M)
    PROVE  Given(p, k, e, N)
<1>1. PICK m \in Of(M, "Confirm2", Initiator(p, e.role), k), msm \in BOOLEAN :
          Founded(Responder(p, e.role), Initiator(p, e.role), k, msm, e.our[2], m.mac[2], M)
  BY DEF Given
<1>2. Founded(Responder(p, e.role), Initiator(p, e.role), k, msm, e.our[2], m.mac[2], N)
  BY <1>1, FoundedStays
<1>3. m \in Of(N, "Confirm2", Initiator(p, e.role), k)
  BY <1>1 DEF Of
<1>4. e.role = "INITIATOR" => Of(N, "Conf2ACK", Keys!Other(p), k) # {}
  BY DEF Given, Of
<1> QED
  BY <1>2, <1>3, <1>4 DEF Given

LEMMA KeysStay ==
    ASSUME NEW p \in Keys!Peers, NEW s, NEW t, NEW ks, NEW M, NEW N, KeysInv(p, s, ks, M),
           M \subseteq N, s.stream \in Nat,
           (t.stream = s.stream /\ s.pc \notin {"ok", "failed"}) \/ t.stream = s.stream + 1,
           \A m \in N : m \in M \/ (m.from = p /\ m.stream = t.stream /\ m.type # "Conf2ACK")
    PROVE  KeysInv(p, t, ks, N)
<1>1. ASSUME NEW k \in DOMAIN ks
      PROVE  /\ k \in Nat /\ k < t.stream /\ Given(p, k, ks[k], N)
             /\ Of(N, "Confirm2", p, k) # {} => ks[k].role = "INITIATOR"
  <2>1. /\ k \in Nat /\ k <= s.stream /\ (k = s.stream => s.pc \in {"ok", "failed"})
        /\ Given(p, k, ks[k], M)
    BY DEF KeysInv
  <2>2. k < t.stream
    BY <2>1
  <2>3. Of(N, "Confirm2", p, k) = Of(M, "Confirm2", p, k)
    BY <2>2, <2>1 DEF Of
  <2> QED
    BY <2>1, <2>2, <2>3, GivenStays DEF KeysInv
<1>2. \A m \in N : m.type = "Conf2ACK" /\ m.from = p =>
          m.stream \in DOMAIN ks /\ ks[m.stream].role = "RESPONDER"
  BY DEF KeysInv
<1>3. \A k \in DOMAIN ks : k \in Nat /\ k <= t.stream /\ k # t.stream
  BY <1>1
<1> QED
  BY <1>1, <1>2, <1>3 DEF KeysInv

LEMMA KeysHear ==
    ASSUME NEW p \in Keys!Peers, NEW s, NEW ks, NEW M, NEW N, KeysInv(p, s, ks, M),
           M \subseteq N, \A m \in N : m \in M \/ m.from = Keys!Other(p)
    PROVE  KeysInv(p, s, ks, N)
<1>1. \A k \in DOMAIN ks : Of(N, "Confirm2", p, k) = Of(M, "Confirm2", p, k)
  BY Others DEF Of
<1>2. \A k \in DOMAIN ks : Given(p, k, ks[k], N)
  BY GivenStays DEF KeysInv
<1>3. \A m \in N : m.type = "Conf2ACK" /\ m.from = p =>
          m.stream \in DOMAIN ks /\ ks[m.stream].role = "RESPONDER"
  BY Others DEF KeysInv
<1> QED
  BY <1>1, <1>2, <1>3 DEF KeysInv

LEMMA SaidGrows ==
    ASSUME NEW M, Said(M), NEW m, m.from \in Keys!Peers, m.stream \in Nat,
           m.type \in {"Hello", "Commit", "Confirm2"} =>
              \A c \in Of(M, m.type, m.from, m.stream) : c = m
    PROVE  Said(M \cup {m})
<1>1. \A c \in M \cup {m} : c.from \in Keys!Peers /\ c.stream \in Nat
  BY DEF Said
<1>2. ASSUME NEW c1 \in M \cup {m}, NEW c2 \in M \cup {m},
             c1.type \in {"Hello", "Commit", "Confirm2"}, c1.type = c2.type, c1.from = c2.from,
             c1.stream = c2.stream
      PROVE  c1 = c2
  <2>1. CASE c1 \in M /\ c2 \in M
    BY <1>2, <2>1 DEF Said
  <2>2. CASE c1 = m /\ c2 \in M
    BY <1>2, <2>2 DEF Of
  <2>3. CASE c1 \in M /\ c2 = m
    BY <1>2, <2>3 DEF Of
  <2> QED
    BY <2>1, <2>2, <2>3
<1> QED
  BY <1>1, <1>2 DEF Said

\* A step of one peer that gives no keys.
LEMMA PeerSteps ==
    ASSUME AgreementInv, NEW p \in Keys!Peers, keys' = keys,
           DOMAIN session_' = Keys!Peers,
           session_'[Keys!Other(p)] = session_[Keys!Other(p)],
           msgs \subseteq msgs', Said(msgs'), SessionInv(p, session_'[p], msgs'),
           \/ session_'[p].stream = session_[p].stream /\ session_[p].pc \notin {"ok", "failed"}
           \/ session_'[p].stream = session_[p].stream + 1,
           \A m \in msgs' :
              m \in msgs \/ (m.from = p /\ m.stream = session_'[p].stream /\ m.type # "Conf2ACK")
    PROVE  AgreementInv'
<1> DEFINE q == Keys!Other(p)
<1>1. q \in Keys!Peers /\ Keys!Other(q) = p /\ q # p
  BY Others
<1>2. SessionInv(q, session_[q], msgs')
  <2>1. SessionInv(q, session_[q], msgs)
    BY <1>1 DEF AgreementInv
  <2>2. \A m \in msgs' : m \in msgs \/ m.from = Keys!Other(q)
    BY <1>1
  <2> HIDE DEF q
  <2> QED
    BY <1>1, <2>1, <2>2, OtherSpeaks
<1>3. KeysInv(q, session_[q], keys[q], msgs')
  <2>1. KeysInv(q, session_[q], keys[q], msgs)
    BY <1>1 DEF AgreementInv
  <2>2. \A m \in msgs' : m \in msgs \/ m.from = Keys!Other(q)
    BY <1>1
  <2> HIDE DEF q
  <2> QED
    BY <1>1, <2>1, <2>2, KeysHear
<1>4. KeysInv(p, session_'[p], keys[p], msgs')
  <2>1. KeysInv(p, session_[p], keys[p], msgs) /\ session_[p].stream \in Nat
    BY DEF AgreementInv, SessionInv, Shape
  <2> QED
    BY <2>1, KeysStay
<1>5. \A x \in Keys!Peers : /\ SessionInv(x, session_'[x], msgs')
                            /\ KeysInv(x, session_'[x], keys'[x], msgs')
  BY <1>1, <1>2, <1>3, <1>4, Others
<1> QED
  BY <1>5 DEF AgreementInv

LEMMA PeerSays ==
    ASSUME AgreementInv, NEW p \in Keys!Peers, NEW m, keys' = keys,
           DOMAIN session_' = Keys!Peers,
           session_'[Keys!Other(p)] = session_[Keys!Other(p)],
           msgs' = msgs \cup {m}, m.from = p, m.stream = session_'[p].stream,
           m.type # "Conf2ACK",
           m.type \in {"Hello", "Commit", "Confirm2"} =>
              Of(msgs, m.type, p, session_'[p].stream) = {},
           SessionInv(p, session_'[p], msgs'),
           \/ session_'[p].stream = session_[p].stream /\ session_[p].pc \notin {"ok", "failed"}
           \/ session_'[p].stream = session_[p].stream + 1
    PROVE  AgreementInv'
<1>1. Said(msgs) /\ m.from \in Keys!Peers /\ m.stream \in Nat
  BY DEF AgreementInv, SessionInv, Shape
<1>2. Said(msgs')
  BY <1>1, SaidGrows
<1>3. msgs \subseteq msgs'
      /\ \A c \in msgs' :
            c \in msgs \/ (c.from = p /\ c.stream = session_'[p].stream /\ c.type # "Conf2ACK")
  OBVIOUS
<1> QED
  BY <1>2, <1>3, PeerSteps

LEMMA PeerIsSilent ==
    ASSUME AgreementInv, NEW p \in Keys!Peers, keys' = keys, msgs' = msgs,
           DOMAIN session_' = Keys!Peers,
           session_'[Keys!Other(p)] = session_[Keys!Other(p)],
           SessionInv(p, session_'[p], msgs),
           session_'[p].stream = session_[p].stream /\ session_[p].pc \notin {"ok", "failed"}
    PROVE  AgreementInv'
<1>1. Said(msgs') /\ SessionInv(p, session_'[p], msgs')
  BY DEF AgreementInv
<1>2. msgs \subseteq msgs'
      /\ \A c \in msgs' :
            c \in msgs \/ (c.from = p /\ c.stream = session_'[p].stream /\ c.type # "Conf2ACK")
  OBVIOUS
<1> QED
  BY <1>1, <1>2, PeerSteps

LEMMA ShapeStays ==
    ASSUME NEW s, NEW t, Shape(s), DOMAIN t = Fields,
           Keeps(s, t, {"stream", "msm", "initialized_", "hello_recv", "o_hvi"}),
           t.pc \in {"closed", "hello", "drain", "commit", "dh1", "dh2", "fin_r", "fin_i", "ok",
                    "failed"}
    PROVE  Shape(t)
BY DEF Shape, Keeps

LEMMA AtRest ==
    ASSUME AgreementInv, NEW p \in Keys!Peers
    PROVE  /\ DOMAIN session_ = Keys!Peers /\ DOMAIN session_[p] = Fields /\ Said(msgs)
           /\ SessionInv(p, session_[p], msgs) /\ Shape(session_[p])
           /\ session_[p].stream \in Nat
BY DEF AgreementInv, SessionInv, Shape

\* What arrives is the peer's, and for this stream.
LEMMA Arrives ==
    ASSUME AgreementInv, NEW p \in Keys!Peers, NEW types, NEW m \in Keys!recv_msg(p, types)
    PROVE  /\ m \in msgs /\ m.type \in types /\ m.from = Keys!Other(p)
           /\ m.stream = session_[p].stream
BY Others DEF Keys!recv_msg, AgreementInv, Said

-----------------------------------------------------------------------------
(***************************************************************************)
(* The steps.                                                              *)
(***************************************************************************)
LEMMA BeginsKeeps ==
    ASSUME AgreementInv, NEW p \in Keys!Peers, NEW msm \in BOOLEAN, NEW o_hash,
           Keys!Begins(p, msm, o_hash), UNCHANGED keys
    PROVE  AgreementInv'
<1> DEFINE k == session_[p].stream + 1
           f == [stream |-> k, msm |-> msm, hello_recv |-> FALSE, o_hash |-> o_hash]
           h == Keys!hello(p, k, o_hash)
<1>1. /\ DOMAIN f = {"stream", "msm", "hello_recv", "o_hash"}
      /\ f["stream"] = k /\ f["msm"] = msm /\ f["hello_recv"] = FALSE /\ f["o_hash"] = o_hash
  OBVIOUS
<1>2. Keys!Loop(p, "hello", f, h)
  BY DEF Keys!Begins
<1> HIDE DEF f, k, h
<1>3. DOMAIN f \subseteq Fields \ {"pc", "tries"}
  BY <1>1 DEF Fields
<1>4. /\ DOMAIN session_' = Keys!Peers /\ DOMAIN session_'[p] = Fields
      /\ session_'[Keys!Other(p)] = session_[Keys!Other(p)]
      /\ session_'[p].pc = "hello"
      /\ \A x \in DOMAIN f : session_'[p][x] = f[x]
      /\ \A x \in Fields \ ({"pc", "tries"} \cup DOMAIN f) : session_'[p][x] = session_[p][x]
      /\ msgs' = msgs \cup {h}
  BY <1>2, <1>3, AtRest, LoopBegins
<1>5. /\ session_'[p].stream = k /\ session_'[p].msm = msm /\ session_'[p].hello_recv = FALSE
      /\ session_'[p].o_hash = o_hash /\ session_'[p].zrtp_key = session_[p].zrtp_key
      /\ session_'[p].o_hvi = session_[p].o_hvi
      /\ session_'[p].initialized_ = session_[p].initialized_
  BY <1>1, <1>4 DEF Fields
<1>6. Shape(session_'[p])
  <2>1. session_'[p].msm \in BOOLEAN /\ session_'[p].hello_recv \in BOOLEAN
    BY <1>5, Zenon
  <2>2. session_'[p].initialized_ \in BOOLEAN
    BY <1>5, AtRest, Zenon DEF Shape
  <2> QED
    BY <1>4, <1>5, <2>1, <2>2, AtRest DEF Shape, k
<1>7. SessionInv(p, session_'[p], msgs')
  BY <1>4, <1>5, <1>6, AtRest, SessionBegins DEF k, h
<1>8. /\ h.from = p /\ h.stream = k /\ h.type = "Hello"
      /\ session_'[p].stream = session_[p].stream + 1
  BY <1>5 DEF h, k, Keys!hello
<1>9. Of(msgs, "Hello", p, k) = {}
  BY AtRest DEF Of, SessionInv, Sent, k
<1> QED
  BY <1>4, <1>5, <1>7, <1>8, <1>9, PeerSays

LEMMA NoFields == DOMAIN <<>> = {}
OBVIOUS

\* A Hello of the peer.
LEMMA HelloKeeps ==
    ASSUME AgreementInv, NEW p \in Keys!Peers, Keys!recv_hello(p)
    PROVE  AgreementInv'
<1> DEFINE s == session_[p]
           a == Keys!hello_ack(p)
<1>1. PICK m \in Of(msgs, "Hello", Keys!Other(p), s.stream) :
         Keys!Again(p, HELLO_TRIES, IF s.hello_recv THEN <<>> ELSE Keys!parse_hello(m))
  <2>1. PICK m \in Keys!recv_msg(p, {"Hello"}) :
           Keys!Again(p, HELLO_TRIES, IF s.hello_recv THEN <<>> ELSE Keys!parse_hello(m))
    BY DEF Keys!recv_hello
  <2>2. m \in msgs /\ m.type = "Hello" /\ m.from = Keys!Other(p) /\ m.stream = s.stream
    BY Arrives
  <2> QED
    BY <2>1, <2>2 DEF Of
<1>2. s.pc = "hello" /\ msgs' = msgs \cup {a} /\ keys' = keys
  BY DEF Keys!recv_hello
<1> DEFINE f == IF s.hello_recv THEN <<>> ELSE Keys!parse_hello(m)
<1>3. \/ DOMAIN f = {} /\ s.hello_recv
      \/ DOMAIN f = {"hello_recv", "hello"} /\ f["hello_recv"] = TRUE /\ f["hello"] = m
  BY NoFields DEF Keys!parse_hello
<1> HIDE DEF f
<1>4. DOMAIN f \subseteq Fields \ {"pc", "tries"}
  BY <1>3 DEF Fields
<1>5. /\ DOMAIN session_' = Keys!Peers /\ DOMAIN session_'[p] = Fields
      /\ session_'[Keys!Other(p)] = session_[Keys!Other(p)]
      /\ session_'[p].pc \in {s.pc, "failed"}
      /\ \A x \in DOMAIN f : session_'[p][x] = f[x]
      /\ \A x \in Fields \ ({"pc", "tries"} \cup DOMAIN f) : session_'[p][x] = s[x]
  BY <1>1, <1>4, AtRest, LoopGoesOn DEF f
<1>6. session_'[p].stream = s.stream
  BY <1>3, <1>5 DEF Fields
<1>7. SessionInv(p, session_'[p], msgs)
  <2>1. CASE DOMAIN f = {}
    <3>1. Keeps(s, session_'[p], Agreeing \cup {"commit", "s0"})
      BY <1>5, <2>1 DEF Keeps, Agreeing, Standing, Fields
    <3>2. Shape(session_'[p])
      BY <1>2, <1>5, <3>1, AtRest, ShapeStays DEF Keeps, Agreeing, Standing
    <3>3. Keeps(s, session_'[p], Standing \cup {"role"})
      BY <3>1 DEF Keeps, Agreeing
    <3> QED
      BY <1>2, <1>5, <3>1, <3>2, <3>3, AtRest, SessionWaits, SessionFails
  <2>2. CASE DOMAIN f = {"hello_recv", "hello"} /\ f["hello_recv"] = TRUE /\ f["hello"] = m
    <3>1. Keeps(s, session_'[p], Standing \ {"hello_recv", "hello"}) /\ session_'[p].hello = m
      BY <1>5, <2>2 DEF Keeps, Standing, Fields
    <3>2. session_'[p].hello_recv \in BOOLEAN
      BY <1>5, <2>2
    <3>3. Shape(session_'[p])
      BY <1>2, <1>5, <3>1, <3>2, AtRest DEF Shape, Keeps, Standing
    <3> QED
      BY <1>1, <1>2, <1>5, <3>1, <3>3, AtRest, SessionGreets
  <2> QED
    BY <1>3, <2>1, <2>2
<1>8. /\ a.from = p /\ a.stream = s.stream /\ a.type = "HelloACK"
      /\ a.type # "Commit" /\ a.type # "Conf2ACK"
  BY DEF Keys!hello_ack
<1> HIDE DEF a
<1>9. SessionInv(p, session_'[p], msgs')
  <2>1. Sent(a, session_'[p])
    BY <1>6, <1>8, AtRest DEF Sent
  <2> QED
    BY <1>2, <1>7, <1>8, <2>1, SessionSpeaks
<1> QED
  BY <1>2, <1>5, <1>6, <1>8, <1>9, PeerSays

\* The Commit is built.
LEMMA HelloAckKeeps ==
    ASSUME AgreementInv, NEW p \in Keys!Peers, Keys!recv_hello_ack(p)
    PROVE  AgreementInv'
<1> DEFINE s == session_[p]
<1>1. PICK hvi \in Keys!Hvis(Mode(s.msm)) :
         Keys!Becomes(p, [pc |-> "drain", key_agreement_type |-> Mode(s.msm), o_hvi |-> hvi,
                          l_commit |-> Keys!commit(p, Mode(s.msm), hvi)])
  BY DEF Keys!recv_hello_ack, Mode
<1>2. s.pc = "hello" /\ s.hello_recv /\ msgs' = msgs /\ keys' = keys
  BY DEF Keys!recv_hello_ack
<1> DEFINE f == [pc |-> "drain", key_agreement_type |-> Mode(s.msm), o_hvi |-> hvi,
                 l_commit |-> Keys!commit(p, Mode(s.msm), hvi)]
<1>3. /\ DOMAIN f = {"pc", "key_agreement_type", "o_hvi", "l_commit"}
      /\ f["pc"] = "drain" /\ f["o_hvi"] = hvi
      /\ f["l_commit"] = Keys!commit(p, Mode(s.msm), hvi)
  OBVIOUS
<1>4. hvi \in [hi : Nat, lo : Nat]
  BY DEF Keys!Hvis, Mode
<1> HIDE DEF f
<1>5. /\ DOMAIN session_' = Keys!Peers /\ DOMAIN session_'[p] = Fields
      /\ session_'[Keys!Other(p)] = session_[Keys!Other(p)]
      /\ \A x \in DOMAIN f : session_'[p][x] = f[x]
      /\ \A x \in Fields \ DOMAIN f : session_'[p][x] = s[x]
  <2>1. DOMAIN f \subseteq Fields
    BY <1>3 DEF Fields
  <2> QED
    BY <1>1, <2>1, AtRest, FieldsBecome DEF f
<1>6. /\ session_'[p].pc = "drain" /\ session_'[p].o_hvi = hvi
      /\ session_'[p].l_commit = Keys!commit(p, Mode(s.msm), hvi)
      /\ Keeps(s, session_'[p], Standing \ {"o_hvi"})
  BY <1>3, <1>5 DEF Keeps, Standing, Fields
<1>7. Shape(session_'[p])
  BY <1>4, <1>5, <1>6, AtRest DEF Shape, Keeps, Standing
<1>8. SessionInv(p, session_'[p], msgs)
  <2>1. LET c == Keys!commit(p, Mode(s.msm), hvi)
        IN /\ c.type = "Commit" /\ c.from = p /\ c.stream = s.stream /\ c.hvi = hvi
           /\ c.key_agreement_type = Mode(s.msm)
    BY CommitMade
  <2> QED
    BY <1>2, <1>6, <1>7, <2>1, AtRest, SessionPrepares
<1>9. session_'[p].stream = s.stream
  BY <1>6 DEF Keeps, Standing
<1> QED
  BY <1>2, <1>5, <1>8, <1>9, PeerIsSilent

\* It is sent.
LEMMA SendCommitKeeps ==
    ASSUME AgreementInv, NEW p \in Keys!Peers, Keys!send_commit(p)
    PROVE  AgreementInv'
<1> DEFINE s == session_[p]
           f == [role |-> "INITIATOR"]
<1>1. s.pc = "drain" /\ keys' = keys /\ Keys!Loop(p, "commit", f, s.l_commit)
  BY DEF Keys!send_commit
<1>2. DOMAIN f = {"role"} /\ f["role"] = "INITIATOR"
  OBVIOUS
<1> HIDE DEF f
<1>3. /\ DOMAIN session_' = Keys!Peers /\ DOMAIN session_'[p] = Fields
      /\ session_'[Keys!Other(p)] = session_[Keys!Other(p)]
      /\ session_'[p].pc = "commit"
      /\ \A x \in DOMAIN f : session_'[p][x] = f[x]
      /\ \A x \in Fields \ ({"pc", "tries"} \cup DOMAIN f) : session_'[p][x] = s[x]
      /\ msgs' = msgs \cup {s.l_commit}
  <2>1. DOMAIN f \subseteq Fields \ {"pc", "tries"}
    BY <1>2 DEF Fields
  <2> QED
    BY <1>1, <2>1, AtRest, LoopBegins
<1>4. session_'[p].role = "INITIATOR" /\ Keeps(s, session_'[p], Standing \cup {"l_commit"})
  BY <1>2, <1>3 DEF Keeps, Standing, Fields
<1>5. Shape(session_'[p])
  BY <1>3, <1>4, AtRest, ShapeStays DEF Keeps, Standing
<1>6. SessionInv(p, session_'[p], msgs')
  BY <1>1, <1>3, <1>4, <1>5, AtRest, SessionCommits
<1>7. /\ s.l_commit.from = p /\ s.l_commit.stream = s.stream /\ s.l_commit.type = "Commit"
      /\ Of(msgs, "Commit", p, s.stream) = {}
  BY <1>1, AtRest DEF SessionInv, Committed, Sent, Of
<1>8. session_'[p].stream = s.stream
  BY <1>4 DEF Keeps, Standing
<1> QED
  BY <1>1, <1>3, <1>6, <1>7, <1>8, PeerSays

\* A try goes by.
LEMMA TimeoutKeeps ==
    ASSUME AgreementInv, NEW p \in Keys!Peers, NEW n, Keys!Again(p, n, <<>>),
           session_[p].pc \notin {"closed", "ok", "failed"}, UNCHANGED <<msgs, keys>>
    PROVE  AgreementInv'
<1> DEFINE s == session_[p]
<1>1. /\ DOMAIN session_' = Keys!Peers /\ DOMAIN session_'[p] = Fields
      /\ session_'[Keys!Other(p)] = session_[Keys!Other(p)]
      /\ session_'[p].pc \in {s.pc, "failed"}
      /\ \A x \in Fields \ {"pc", "tries"} : session_'[p][x] = s[x]
  BY NoFields, AtRest, LoopGoesOn
<1>2. Keeps(s, session_'[p], Agreeing \cup {"commit", "s0"})
  BY <1>1 DEF Keeps, Agreeing, Standing, Fields
<1>3. Shape(session_'[p])
  BY <1>1, <1>2, AtRest, ShapeStays DEF Keeps, Agreeing, Standing, Shape
<1>4. Keeps(s, session_'[p], Standing \cup {"role"}) /\ session_'[p].stream = s.stream
  BY <1>2 DEF Keeps, Agreeing, Standing
<1>5. SessionInv(p, session_'[p], msgs)
  BY <1>1, <1>2, <1>3, <1>4, AtRest, SessionWaits, SessionFails
<1> QED
  BY <1>1, <1>4, <1>5, PeerIsSilent

\* The peer's Commit is taken.
LEMMA ResponderKeeps ==
    ASSUME AgreementInv, NEW p \in Keys!Peers, UNCHANGED keys,
           NEW m \in Of(msgs, "Commit", Keys!Other(p), session_[p].stream),
           session_[p].pc \in {"drain", "commit"},
           session_[p].pc = "commit" => ~Outbid(m, session_[p].o_hvi),
           Keys!responder_goes_on(p, Keys!parse_commit(session_[p], m))
    PROVE  AgreementInv'
<1> DEFINE s == session_[p]
           f == Keys!parse_commit(s, m)
           r == Keys!With(f, [role |-> "RESPONDER"])
           u == Keys!With(s, r)
           z == Keys!generate_shared_secrets_msm(p, u)
<1>1. /\ DOMAIN r = {"commit", "key_agreement_type", "r_hvi", "role"}
      /\ r["role"] = "RESPONDER" /\ r["commit"] = m
  <2>1. DOMAIN f = {"commit", "key_agreement_type", "r_hvi"} /\ f["commit"] = m
    BY DEF Keys!parse_commit
  <2> HIDE DEF f
  <2> QED
    BY <2>1 DEF Keys!With
<1>2. /\ u.msm = s.msm /\ u.role = "RESPONDER" /\ u.commit = m /\ u.stream = s.stream
      /\ u.o_hash = s.o_hash /\ u.zrtp_key = s.zrtp_key
  <2> HIDE DEF r
  <2>1. {"msm", "role", "commit", "stream", "o_hash", "zrtp_key"} \subseteq DOMAIN s
    BY AtRest DEF Fields
  <2>2. /\ \A x \in DOMAIN r : u[x] = r[x]
        /\ \A x \in (DOMAIN s) \ DOMAIN r : u[x] = s[x]
    <3> HIDE DEF s, f, z
    <3>1. LET w == Keys!With(s, r)
          IN /\ DOMAIN w = DOMAIN s \cup DOMAIN r
             /\ \A x \in DOMAIN r : w[x] = r[x]
             /\ \A x \in (DOMAIN s) \ DOMAIN r : w[x] = s[x]
      BY WithFields
    <3> QED
      BY <3>1
  <2> QED
    BY <1>1, <2>1, <2>2
<1>3. IF s.msm THEN Keys!Loop(p, "fin_r", Keys!With(r, [s0 |-> z]), Keys!confirm(p, 1, s.zrtp_key))
      ELSE Keys!Loop(p, "dh1", r, Keys!dh_key_exchange(p, 1))
  BY <1>2 DEF Keys!responder_goes_on
<1>4. z = [type |-> "s0", total_hash |->
             [hello |-> Keys!hello(p, s.stream, s.o_hash), commit |-> m]]
  <2> HIDE DEF u
  <2> QED
    BY <1>2 DEF Keys!generate_shared_secrets_msm, Keys!total_hash
<1> HIDE DEF r, u, z, f
<1>5. CASE ~s.msm
  <2> DEFINE d == Keys!dh_key_exchange(p, 1)
  <2>1. d.type = "DHPart1" /\ d.from = p /\ d.stream = s.stream
    BY DEF Keys!dh_key_exchange, Keys!Message
  <2>2. Keys!Loop(p, "dh1", r, d)
    BY <1>3, <1>5
  <2> HIDE DEF d
  <2>3. /\ DOMAIN session_' = Keys!Peers /\ DOMAIN session_'[p] = Fields
        /\ session_'[Keys!Other(p)] = session_[Keys!Other(p)]
        /\ session_'[p].pc = "dh1"
        /\ \A x \in DOMAIN r : session_'[p][x] = r[x]
        /\ \A x \in Fields \ ({"pc", "tries"} \cup DOMAIN r) : session_'[p][x] = s[x]
        /\ msgs' = msgs \cup {d}
    <3>1. DOMAIN r \subseteq Fields \ {"pc", "tries"}
      BY <1>1 DEF Fields
    <3> QED
      BY <2>2, <3>1, AtRest, LoopBegins
  <2>4. /\ session_'[p].role = "RESPONDER" /\ session_'[p].commit = m
        /\ Keeps(s, session_'[p], Standing)
    BY <1>1, <2>3 DEF Keeps, Standing, Fields
  <2>5. Shape(session_'[p]) /\ session_'[p].stream = s.stream
    BY <2>3, <2>4, AtRest, ShapeStays DEF Keeps, Standing
  <2>6. SessionInv(p, session_'[p], msgs)
    BY <1>5, <2>3, <2>4, <2>5, AtRest, SessionYields
  <2>7. SessionInv(p, session_'[p], msgs')
    <3>1. Sent(d, session_'[p])
      BY <2>1, <2>3, <2>4, <2>5, AtRest DEF Sent
    <3> QED
      BY <2>1, <2>3, <2>6, <3>1, SessionSpeaks
  <2> QED
    BY <2>1, <2>3, <2>5, <2>7, PeerSays
<1>6. CASE s.msm
  <2> DEFINE g == Keys!With(r, [s0 |-> z])
             c == Keys!confirm(p, 1, s.zrtp_key)
  <2>1. c.type = "Confirm1" /\ c.from = p /\ c.stream = s.stream
    BY ConfirmMade
  <2>2. Keys!Loop(p, "fin_r", g, c)
    BY <1>3, <1>6
  <2>3. /\ DOMAIN g = {"commit", "key_agreement_type", "r_hvi", "role", "s0"}
        /\ g["role"] = "RESPONDER" /\ g["commit"] = m /\ g["s0"] = z
    BY <1>1 DEF Keys!With
  <2> HIDE DEF c, g
  <2>4. /\ DOMAIN session_' = Keys!Peers /\ DOMAIN session_'[p] = Fields
        /\ session_'[Keys!Other(p)] = session_[Keys!Other(p)]
        /\ session_'[p].pc = "fin_r"
        /\ \A x \in DOMAIN g : session_'[p][x] = g[x]
        /\ \A x \in Fields \ ({"pc", "tries"} \cup DOMAIN g) : session_'[p][x] = s[x]
        /\ msgs' = msgs \cup {c}
    <3>1. DOMAIN g \subseteq Fields \ {"pc", "tries"}
      BY <2>3 DEF Fields
    <3> QED
      BY <2>2, <3>1, AtRest, LoopBegins
  <2>5. /\ session_'[p].role = "RESPONDER" /\ session_'[p].commit = m /\ session_'[p].s0 = z
        /\ Keeps(s, session_'[p], Standing)
    BY <2>3, <2>4 DEF Keeps, Standing, Fields
  <2>6. Shape(session_'[p]) /\ session_'[p].stream = s.stream
    BY <2>4, <2>5, AtRest, ShapeStays DEF Keeps, Standing
  <2>7. SessionInv(p, session_'[p], msgs)
    BY <1>4, <1>6, <2>4, <2>5, <2>6, AtRest, SessionDerives
  <2>8. SessionInv(p, session_'[p], msgs')
    <3>1. Sent(c, session_'[p])
      BY <2>1, <2>4, <2>5, <2>6, AtRest DEF Sent
    <3> QED
      BY <2>1, <2>4, <2>7, <3>1, SessionSpeaks
  <2> QED
    BY <2>1, <2>4, <2>6, <2>8, PeerSays
<1> QED
  BY <1>5, <1>6

LEMMA FindCommitKeeps ==
    ASSUME AgreementInv, NEW p \in Keys!Peers, Keys!find_commit(p)
    PROVE  AgreementInv'
<1>1. PICK m \in Keys!recv_msg(p, {"Commit"}) :
         Keys!responder_goes_on(p, Keys!parse_commit(session_[p], m))
  BY DEF Keys!find_commit
<1>2. m \in Of(msgs, "Commit", Keys!Other(p), session_[p].stream)
  BY Arrives DEF Of
<1> QED
  BY <1>1, <1>2, ResponderKeeps DEF Keys!find_commit

\* Both have sent a Commit; whose number is the smaller answers.
LEMMA RecvCommitKeeps ==
    ASSUME AgreementInv, NEW p \in Keys!Peers, Keys!recv_commit(p)
    PROVE  AgreementInv'
<1> DEFINE s == session_[p]
           parsed(m) == Keys!parse_commit(s, m)
           wins(m) == Keys!are_we_initiator(parsed(m).key_agreement_type, s.o_hvi, parsed(m).r_hvi)
<1>1. PICK m \in Keys!recv_msg(p, {"Commit"}) :
         IF wins(m) THEN Keys!Again(p, TRIES, parsed(m)) /\ UNCHANGED msgs
         ELSE Keys!responder_goes_on(p, parsed(m))
  BY DEF Keys!recv_commit
<1>2. s.pc = "commit" /\ keys' = keys
  BY DEF Keys!recv_commit
<1>3. m \in Of(msgs, "Commit", Keys!Other(p), s.stream)
  BY Arrives DEF Of
<1>4. wins(m) <=> Outbid(m, s.o_hvi)
  BY DEF Outbid, Keys!are_we_initiator, Keys!parse_commit
<1>5. CASE ~wins(m)
  BY <1>1, <1>2, <1>3, <1>4, <1>5, ResponderKeeps
<1>6. CASE wins(m)
  <2> DEFINE f == parsed(m)
  <2>1. Keys!Again(p, TRIES, f) /\ msgs' = msgs
    BY <1>1, <1>6
  <2>2. DOMAIN f = {"commit", "key_agreement_type", "r_hvi"}
    BY DEF Keys!parse_commit
  <2> HIDE DEF f
  <2>3. /\ DOMAIN session_' = Keys!Peers /\ DOMAIN session_'[p] = Fields
        /\ session_'[Keys!Other(p)] = session_[Keys!Other(p)]
        /\ session_'[p].pc \in {s.pc, "failed"}
        /\ \A x \in Fields \ ({"pc", "tries"} \cup DOMAIN f) : session_'[p][x] = s[x]
    <3>1. DOMAIN f \subseteq Fields \ {"pc", "tries"}
      BY <2>2 DEF Fields
    <3> QED
      BY <2>1, <3>1, AtRest, LoopGoesOn
  <2>4. Keeps(s, session_'[p], Agreeing)
    BY <2>2, <2>3 DEF Keeps, Agreeing, Standing, Fields
  <2>5. Shape(session_'[p]) /\ session_'[p].stream = s.stream
    BY <1>2, <2>3, <2>4, AtRest, ShapeStays DEF Keeps, Agreeing, Standing
  <2>6. SessionInv(p, session_'[p], msgs)
    BY <1>2, <2>3, <2>4, <2>5, AtRest, SessionFails, CommitWaits DEF Keeps, Agreeing
  <2> QED
    BY <1>2, <2>1, <2>3, <2>5, <2>6, PeerIsSilent
<1> QED
  BY <1>5, <1>6

\* A peer gives up.
LEMMA FailureKeeps ==
    ASSUME AgreementInv, NEW p \in Keys!Peers, NEW g, Keys!Becomes(p, g),
           DOMAIN g \subseteq {"pc", "s0"}, "pc" \in DOMAIN g, g["pc"] = "failed",
           session_[p].pc \notin {"closed", "ok", "failed"}, UNCHANGED <<msgs, keys>>
    PROVE  AgreementInv'
<1> DEFINE s == session_[p]
<1>2. /\ DOMAIN session_' = Keys!Peers /\ DOMAIN session_'[p] = Fields
      /\ session_'[Keys!Other(p)] = session_[Keys!Other(p)]
      /\ \A x \in DOMAIN g : session_'[p][x] = g[x]
      /\ \A x \in Fields \ DOMAIN g : session_'[p][x] = s[x]
  <2>1. DOMAIN g \subseteq Fields
    BY DEF Fields
  <2> QED
    BY <2>1, AtRest, FieldsBecome
<1>3. session_'[p].pc = "failed" /\ Keeps(s, session_'[p], Standing \cup {"role"})
  BY <1>2 DEF Keeps, Standing, Fields
<1>4. Shape(session_'[p]) /\ session_'[p].stream = s.stream
  BY <1>2, <1>3, AtRest, ShapeStays DEF Keeps, Standing
<1>5. SessionInv(p, session_'[p], msgs)
  BY <1>3, <1>4, AtRest, SessionFails
<1> QED
  BY <1>2, <1>4, <1>5, PeerIsSilent

\* A Confirm1, or what is taken for one, is checked.
LEMMA FinalizeKeeps ==
    ASSUME AgreementInv, NEW p \in Keys!Peers, UNCHANGED keys, NEW f, DOMAIN f \subseteq {"s0"},
           NEW m \in Keys!recv_msg(p, {"DHPart1", "Confirm1"}),
           session_[p].pc \in {"commit", "dh2"}, Keys!initiator_finalizes(p, f, m),
           Founded(Keys!Other(p), p, session_[p].stream, session_[p].msm,
                   Keys!With(session_[p], f).s0, session_[p].zrtp_key, msgs)
    PROVE  AgreementInv'
<1> DEFINE s == session_[p]
           u == Keys!With(s, f)
           c == Keys!confirm(p, 2, s.zrtp_key)
<1>1. u.zrtp_key = s.zrtp_key /\ u.s0 = IF "s0" \in DOMAIN f THEN f["s0"] ELSE s.s0
  <2>1. "zrtp_key" \in DOMAIN s /\ "s0" \in DOMAIN s
    BY AtRest DEF Fields
  <2> QED
    BY <2>1 DEF Keys!With
<1>2. \/ Keys!Loop(p, "fin_i", f, c)
      \/ Keys!Becomes(p, Keys!With(f, [pc |-> "failed"])) /\ UNCHANGED msgs
  BY <1>1 DEF Keys!initiator_finalizes
<1>3. CASE Keys!Becomes(p, Keys!With(f, [pc |-> "failed"])) /\ UNCHANGED msgs
  <2> DEFINE g == Keys!With(f, [pc |-> "failed"])
  <2>1. DOMAIN g \subseteq {"pc", "s0"} /\ "pc" \in DOMAIN g /\ g["pc"] = "failed"
    BY DEF Keys!With
  <2> HIDE DEF g
  <2> QED
    BY <1>3, <2>1, FailureKeeps DEF g
<1>4. CASE Keys!Loop(p, "fin_i", f, c)
  <2>1. /\ c.type = "Confirm2" /\ c.from = p /\ c.stream = s.stream
        /\ c.mac = <<"Confirm2", s.zrtp_key>>
    BY ConfirmMade
  <2> HIDE DEF c
  <2>2. /\ DOMAIN session_' = Keys!Peers /\ DOMAIN session_'[p] = Fields
        /\ session_'[Keys!Other(p)] = session_[Keys!Other(p)]
        /\ session_'[p].pc = "fin_i"
        /\ \A x \in DOMAIN f : session_'[p][x] = f[x]
        /\ \A x \in Fields \ ({"pc", "tries"} \cup DOMAIN f) : session_'[p][x] = s[x]
        /\ msgs' = msgs \cup {c}
    <3>1. DOMAIN f \subseteq Fields \ {"pc", "tries"}
      BY DEF Fields
    <3> QED
      BY <1>4, <3>1, AtRest, LoopBegins
  <2>3. Keeps(s, session_'[p], Agreeing) /\ session_'[p].s0 = u.s0
    BY <1>1, <2>2 DEF Keeps, Agreeing, Standing, Fields
  <2>4. Shape(session_'[p]) /\ session_'[p].stream = s.stream
    BY <2>2, <2>3, AtRest, ShapeStays DEF Keeps, Agreeing, Standing
  <2>5. \E d \in msgs : /\ d.type \in {"DHPart1", "Confirm1"}
                        /\ d.from = Keys!Other(p) /\ d.stream = s.stream
    BY Arrives
  <2>6. SessionInv(p, session_'[p], msgs')
    <3>1. Founded(Keys!Other(p), p, s.stream, s.msm, session_'[p].s0, s.zrtp_key, msgs)
      BY <2>3
    <3> QED
      BY <2>1, <2>2, <2>3, <2>4, <2>5, <3>1, AtRest, SessionShows
  <2>7. Of(msgs, "Confirm2", p, s.stream) = {}
    BY AtRest DEF SessionInv, Sent, Of
  <2> QED
    BY <2>1, <2>2, <2>4, <2>6, <2>7, PeerSays
<1> QED
  BY <1>2, <1>3, <1>4

\* An answer to our Commit.
LEMMA AnswerKeeps ==
    ASSUME AgreementInv, NEW p \in Keys!Peers, Keys!commit_is_answered(p)
    PROVE  AgreementInv'
<1> DEFINE s == session_[p]
           z == Keys!generate_shared_secrets_msm(p, s)
<1>1. PICK m \in Keys!recv_msg(p, {"DHPart1", "Confirm1"}) :
         IF s.msm THEN Keys!initiator_finalizes(p, [s0 |-> z], m) ELSE Keys!dh_part2(p, m)
  BY DEF Keys!commit_is_answered
<1>2. s.pc = "commit" /\ keys' = keys
  BY DEF Keys!commit_is_answered
<1>3. /\ s.role = "INITIATOR" /\ s.hello \in Of(msgs, "Hello", Keys!Other(p), s.stream)
      /\ s.l_commit \in Of(msgs, "Commit", p, s.stream)
  BY <1>2, AtRest DEF SessionInv, Greeted, Committed, Of
<1>4. CASE s.msm
  <2>1. z = [type |-> "s0", total_hash |-> [hello |-> s.hello, commit |-> s.l_commit]]
    BY <1>3 DEF Keys!generate_shared_secrets_msm, Keys!total_hash
  <2> HIDE DEF z
  <2> DEFINE f == [s0 |-> z]
  <2>2. DOMAIN f = {"s0"} /\ Keys!With(s, f).s0 = z
    BY DEF Keys!With
  <2>3. Founded(Keys!Other(p), p, s.stream, s.msm, z, s.zrtp_key, msgs)
    <3>1. Old(s.zrtp_key, s.stream)
      BY <1>4, AtRest DEF SessionInv, Secret
    <3> QED
      BY <1>3, <1>4, <2>1, <3>1 DEF Founded
  <2>4. Keys!initiator_finalizes(p, f, m)
    BY <1>1, <1>4
  <2> HIDE DEF f
  <2> QED
    BY <1>2, <2>2, <2>3, <2>4, FinalizeKeeps
<1>5. CASE ~s.msm
  <2> DEFINE d  == Keys!dh_key_exchange(p, 2)
             s0 == Keys!generate_shared_secrets_dh(p, s, m, d)
             f  == Keys!parse_dh(p, m, m, d)
  <2>1. d.type = "DHPart2" /\ d.from = p /\ d.stream = s.stream
    BY DEF Keys!dh_key_exchange, Keys!Message
  <2>2. s0.type = "s0" /\ Age(s0) = s.stream
    BY <1>3 DEF Keys!generate_shared_secrets_dh, Keys!total_hash, Age, Of
  <2>3. Keys!Loop(p, "dh2", f, d)
    BY <1>1, <1>5 DEF Keys!dh_part2
  <2>4. DOMAIN f = {"dh", "s0", "zrtp_key"} /\ f["s0"] = s0 /\ f["zrtp_key"] = s0
    BY DEF Keys!parse_dh
  <2> HIDE DEF d, s0, f
  <2>5. /\ DOMAIN session_' = Keys!Peers /\ DOMAIN session_'[p] = Fields
        /\ session_'[Keys!Other(p)] = session_[Keys!Other(p)]
        /\ session_'[p].pc = "dh2"
        /\ \A x \in DOMAIN f : session_'[p][x] = f[x]
        /\ \A x \in Fields \ ({"pc", "tries"} \cup DOMAIN f) : session_'[p][x] = s[x]
        /\ msgs' = msgs \cup {d}
    <3>1. DOMAIN f \subseteq Fields \ {"pc", "tries"}
      BY <2>4 DEF Fields
    <3> QED
      BY <2>3, <3>1, AtRest, LoopBegins
  <2>6. /\ Keeps(s, session_'[p], Agreeing \ {"zrtp_key"})
        /\ session_'[p].s0 = s0 /\ session_'[p].zrtp_key = s0
    BY <2>4, <2>5 DEF Keeps, Agreeing, Standing, Fields
  <2>7. Shape(session_'[p]) /\ session_'[p].stream = s.stream
    BY <2>5, <2>6, AtRest, ShapeStays DEF Keeps, Agreeing, Standing
  <2>8. SessionInv(p, session_'[p], msgs)
    <3>1. \E c \in msgs : /\ c.type \in {"DHPart1", "Confirm1"}
                          /\ c.from = Keys!Other(p) /\ c.stream = s.stream
      BY Arrives
    <3> QED
      BY <1>2, <1>5, <2>2, <2>5, <2>6, <2>7, <3>1, AtRest, SessionAsks
  <2>9. SessionInv(p, session_'[p], msgs')
    <3>1. Sent(d, session_'[p])
      BY <2>1, <2>7, AtRest DEF Sent
    <3> QED
      BY <2>1, <2>5, <2>8, <3>1, SessionSpeaks
  <2> QED
    BY <1>2, <2>1, <2>5, <2>7, <2>9, PeerSays
<1> QED
  BY <1>1, <1>4, <1>5

LEMMA DhPart2Keeps ==
    ASSUME AgreementInv, NEW p \in Keys!Peers, Keys!recv_dh_part2(p)
    PROVE  AgreementInv'
<1> DEFINE s == session_[p]
           d == Keys!dh_key_exchange(p, 1)
           parsed(m) == Keys!parse_dh(p, m, d, m)
<1>1. PICK m \in Keys!recv_msg(p, {"DHPart2"}) :
         Keys!Loop(p, "fin_r", parsed(m), Keys!confirm(p, 1, parsed(m).zrtp_key))
  BY DEF Keys!recv_dh_part2
<1>2. s.pc = "dh1" /\ keys' = keys
  BY DEF Keys!recv_dh_part2
<1>3. s.role = "RESPONDER" /\ s.commit.stream = s.stream
  BY <1>2, AtRest DEF SessionInv, AsResponder, Of
<1> DEFINE s0 == Keys!generate_shared_secrets_dh(p, s, d, m)
           f  == parsed(m)
           c  == Keys!confirm(p, 1, f.zrtp_key)
<1>4. s0.type = "s0" /\ Age(s0) = s.stream
  BY <1>3 DEF Keys!generate_shared_secrets_dh, Keys!total_hash, Age
<1>5. DOMAIN f = {"dh", "s0", "zrtp_key"} /\ f["s0"] = s0 /\ f["zrtp_key"] = s0
  BY DEF Keys!parse_dh
<1>6. c.type = "Confirm1" /\ c.from = p /\ c.stream = s.stream
  BY ConfirmMade
<1>7. Keys!Loop(p, "fin_r", f, c)
  BY <1>1
<1> HIDE DEF s0, f, c
<1>8. /\ DOMAIN session_' = Keys!Peers /\ DOMAIN session_'[p] = Fields
      /\ session_'[Keys!Other(p)] = session_[Keys!Other(p)]
      /\ session_'[p].pc = "fin_r"
      /\ \A x \in DOMAIN f : session_'[p][x] = f[x]
      /\ \A x \in Fields \ ({"pc", "tries"} \cup DOMAIN f) : session_'[p][x] = s[x]
      /\ msgs' = msgs \cup {c}
  <2>1. DOMAIN f \subseteq Fields \ {"pc", "tries"}
    BY <1>5 DEF Fields
  <2> QED
    BY <1>7, <2>1, AtRest, LoopBegins
<1>9. /\ Keeps(s, session_'[p], (Agreeing \ {"zrtp_key"}) \cup {"commit"})
      /\ session_'[p].s0 = s0 /\ session_'[p].zrtp_key = s0
  BY <1>5, <1>8 DEF Keeps, Agreeing, Standing, Fields
<1>10. Shape(session_'[p]) /\ session_'[p].stream = s.stream /\ session_'[p].role = "RESPONDER"
  BY <1>3, <1>8, <1>9, AtRest, ShapeStays DEF Keeps, Agreeing, Standing
<1>11. SessionInv(p, session_'[p], msgs)
  BY <1>2, <1>4, <1>8, <1>9, <1>10, AtRest, SessionReceives
<1>12. SessionInv(p, session_'[p], msgs')
  <2>1. Sent(c, session_'[p])
    BY <1>6, <1>8, <1>10, AtRest DEF Sent
  <2> QED
    BY <1>6, <1>8, <1>11, <2>1, SessionSpeaks
<1> QED
  BY <1>2, <1>6, <1>8, <1>10, <1>12, PeerSays

LEMMA Confirm1Keeps ==
    ASSUME AgreementInv, NEW p \in Keys!Peers, Keys!recv_confirm1(p)
    PROVE  AgreementInv'
<1> DEFINE s == session_[p]
<1>1. PICK m \in Keys!recv_msg(p, {"Confirm1"}) : Keys!initiator_finalizes(p, <<>>, m)
  BY DEF Keys!recv_confirm1
<1>2. s.pc = "dh2" /\ keys' = keys
  BY DEF Keys!recv_confirm1
<1>3. m \in Keys!recv_msg(p, {"DHPart1", "Confirm1"})
  BY DEF Keys!recv_msg
<1>4. Keys!With(s, <<>>).s0 = s.s0
  <2>1. "s0" \in DOMAIN s
    BY AtRest DEF Fields
  <2> QED
    BY <2>1, NoFields, WithFields
<1>5. Founded(Keys!Other(p), p, s.stream, s.msm, s.s0, s.zrtp_key, msgs)
  BY <1>2, AtRest DEF SessionInv, Secret, Founded
<1> QED
  BY <1>1, <1>2, <1>3, <1>4, <1>5, NoFields, FinalizeKeeps

-----------------------------------------------------------------------------
\* The keys of the session that succeeds are added; the message is a Conf2ACK or an old one.
LEMMA SuccessKeeps ==
    ASSUME AgreementInv, NEW p \in Keys!Peers, session_[p].pc \in {"fin_r", "fin_i"},
           Keys!Succeeds(p),
           Shown(Initiator(p, session_[p].role), session_[p].stream, session_[p].zrtp_key, msgs),
           session_[p].role = "INITIATOR" =>
              Of(msgs, "Conf2ACK", Keys!Other(p), session_[p].stream) # {},
           \/ msgs' = msgs
           \/ session_[p].role = "RESPONDER" /\ msgs' = msgs \cup {Keys!confack(p)}
    PROVE  AgreementInv'
<1> DEFINE s == session_[p]
           k == s.stream
           e == Keys!get_srtp_keys(s)
           c == Keys!confack(p)
           q == Keys!Other(p)
<1>0. PICK pc \in {"ok", "failed"} : Keys!Becomes(p, [pc |-> pc, initialized_ |-> TRUE])
  BY DEF Keys!Succeeds
<1> DEFINE f == [pc |-> pc, initialized_ |-> TRUE]
<1>1. /\ DOMAIN f = {"pc", "initialized_"} /\ f["pc"] = pc /\ f["initialized_"] = TRUE
      /\ Keys!Becomes(p, f)
  BY <1>0
<1>2. keys' = [keys EXCEPT ![p] = Keys!With(keys[p], [x \in {k} |-> e])]
  BY DEF Keys!Succeeds
<1>3. c.type = "Conf2ACK" /\ c.from = p /\ c.stream = k
  BY DEF Keys!confack, Keys!Message
<1>4. s.role \in {"INITIATOR", "RESPONDER"}
  BY AtRest DEF SessionInv, AsInitiator, AsResponder
<1>5. e = Entry(s.role, s.s0)
  BY <1>4 DEF Keys!get_srtp_keys, Keys!derive_key, Entry
<1> HIDE DEF f, c
<1>6. /\ DOMAIN session_' = Keys!Peers /\ DOMAIN session_'[p] = Fields
      /\ session_'[q] = session_[q]
      /\ \A x \in DOMAIN f : session_'[p][x] = f[x]
      /\ \A x \in Fields \ DOMAIN f : session_'[p][x] = s[x]
  <2>1. DOMAIN f \subseteq Fields
    BY <1>1 DEF Fields
  <2> QED
    BY <1>1, <2>1, AtRest, FieldsBecome
<1>7. /\ session_'[p].pc \in {"ok", "failed"} /\ session_'[p].initialized_ = TRUE
      /\ Keeps(s, session_'[p], (Agreeing \ {"initialized_"}) \cup {"commit", "s0"})
  BY <1>1, <1>6 DEF Keeps, Agreeing, Standing, Fields
<1>8. Shape(session_'[p]) /\ session_'[p].stream = k
  <2>1. session_'[p].initialized_ \in BOOLEAN
    BY <1>7
  <2> QED
    BY <1>6, <1>7, <2>1, AtRest DEF Shape, Keeps, Agreeing, Standing
<1>9. SessionInv(p, session_'[p], msgs)
  BY <1>7, <1>8, AtRest, SessionEnds
<1>10. SessionInv(p, session_'[p], msgs')
  <2>1. Sent(c, session_'[p])
    BY <1>3, <1>8, AtRest DEF Sent
  <2> QED
    BY <1>3, <1>9, <2>1, SessionSpeaks DEF c
<1>11. msgs \subseteq msgs' /\ \A m \in msgs' : m \in msgs \/ m.from = p
  BY <1>3 DEF c
<1>12. Said(msgs')
  BY <1>3, AtRest, SaidGrows DEF c
<1>13. /\ SessionInv(q, session_'[q], msgs') /\ KeysInv(q, session_'[q], keys'[q], msgs')
  <2>1. q \in Keys!Peers /\ Keys!Other(q) = p /\ q # p
    BY Others
  <2>2. SessionInv(q, session_[q], msgs) /\ KeysInv(q, session_[q], keys[q], msgs)
    BY <2>1 DEF AgreementInv
  <2>3. keys'[q] = keys[q]
    BY <1>2, <2>1 DEF AgreementInv
  <2> HIDE DEF q
  <2> QED
    BY <1>6, <1>11, <2>1, <2>2, <2>3, OtherSpeaks, KeysHear
<1>14. KeysInv(p, session_'[p], keys'[p], msgs')
  <2> DEFINE ks == keys[p]
             kt == keys'[p]
  <2>1. KeysInv(p, s, ks, msgs) /\ k \in Nat
    BY AtRest DEF AgreementInv
  <2>2. k \notin DOMAIN ks
    BY <2>1 DEF KeysInv
  <2>3. DOMAIN kt = DOMAIN ks \cup {k} /\ kt[k] = e /\ \A j \in DOMAIN ks : kt[j] = ks[j]
    <3> DEFINE g == [x \in {k} |-> e]
    <3>1. DOMAIN g = {k} /\ g[k] = e
      OBVIOUS
    <3>2. kt = Keys!With(ks, g)
      BY <1>2 DEF AgreementInv
    <3> HIDE DEF g, ks, e, k
    <3>3. LET w == Keys!With(ks, g)
          IN /\ DOMAIN w = DOMAIN ks \cup DOMAIN g
             /\ \A x \in DOMAIN g : w[x] = g[x]
             /\ \A x \in (DOMAIN ks) \ DOMAIN g : w[x] = ks[x]
      BY WithFields
    <3> HIDE DEF kt
    <3> QED
      BY <2>2, <3>1, <3>2, <3>3
  <2>4. Given(p, k, e, msgs)
    <3>1. e.role = s.role /\ e.our[2] = s.s0 /\ e = Entry(e.role, e.our[2])
      BY <1>4, <1>5 DEF Entry
    <3>2. PICK m \in Of(msgs, "Confirm2", Initiator(p, s.role), k) :
             m.mac = <<"Confirm2", s.zrtp_key>>
      BY DEF Shown
    <3>3. Founded(Responder(p, s.role), Initiator(p, s.role), k, s.msm, s.s0, s.zrtp_key, msgs)
          /\ s.msm \in BOOLEAN
      BY AtRest DEF SessionInv, Secret, Shape
    <3>4. m.mac[2] = s.zrtp_key
      BY <3>2
    <3> HIDE DEF e, k
    <3>5. \E c2 \in Of(msgs, "Confirm2", Initiator(p, e.role), k) : \E msm \in BOOLEAN :
             Founded(Responder(p, e.role), Initiator(p, e.role), k, msm, e.our[2], c2.mac[2], msgs)
      BY <3>1, <3>2, <3>3, <3>4
    <3>6. e.role = "INITIATOR" => Of(msgs, "Conf2ACK", q, k) # {}
      BY <3>1 DEF k
    <3> QED
      BY <1>4, <3>1, <3>5, <3>6 DEF Given
  <2>5. Given(p, k, e, msgs') /\ \A j \in DOMAIN ks : Given(p, j, ks[j], msgs')
    BY <1>11, <2>1, <2>4, GivenStays DEF KeysInv
  <2>6. \A j : Of(msgs', "Confirm2", p, j) = Of(msgs, "Confirm2", p, j)
    BY <1>3 DEF Of, c
  <2>7. Of(msgs, "Confirm2", p, k) # {} => e.role = "INITIATOR"
    <3>1. Of(msgs, "Confirm2", p, k) # {} => s.role = "INITIATOR"
      BY AtRest DEF SessionInv, Sent, Of
    <3> QED
      BY <1>5, <3>1 DEF Entry
  <2>8. ASSUME NEW m \in msgs', m.type = "Conf2ACK", m.from = p
        PROVE  m.stream \in DOMAIN kt /\ kt[m.stream].role = "RESPONDER"
    <3>1. CASE m \in msgs
      BY <2>1, <2>3, <2>8, <3>1 DEF KeysInv
    <3>2. CASE m = c /\ s.role = "RESPONDER"
      <4>1. e.role = "RESPONDER"
        BY <1>5, <3>2 DEF Entry
      <4> QED
        BY <1>3, <2>3, <3>2, <4>1
    <3> QED
      BY <2>8, <3>1, <3>2 DEF c
  <2> HIDE DEF ks, kt, e, k
  <2>9. \A j \in DOMAIN kt : /\ j \in Nat /\ j <= k
                             /\ Given(p, j, kt[j], msgs')
                             /\ Of(msgs', "Confirm2", p, j) # {} => kt[j].role = "INITIATOR"
    <3>1. \A j \in DOMAIN ks : /\ j \in Nat /\ j <= k
                               /\ Of(msgs, "Confirm2", p, j) # {} => ks[j].role = "INITIATOR"
      BY <2>1 DEF KeysInv, k
    <3> QED
      BY <2>1, <2>3, <2>5, <2>6, <2>7, <3>1
  <2> QED
    BY <1>7, <1>8, <2>8, <2>9 DEF KeysInv, kt, k
<1>15. /\ DOMAIN keys' = Keys!Peers /\ DOMAIN session_' = Keys!Peers
  BY <1>2, <1>6 DEF AgreementInv
<1> QED
  BY <1>10, <1>12, <1>13, <1>14, <1>15, Others DEF AgreementInv

LEMMA Confirm2Keeps ==
    ASSUME AgreementInv, NEW p \in Keys!Peers, Keys!recv_confirm2(p)
    PROVE  AgreementInv'
<1> DEFINE s == session_[p]
           f == [pc |-> "failed"]
<1>1. PICK m \in Keys!recv_msg(p, {"Confirm2"}) :
         IF Keys!confirm_parses(s, m) /\ Keys!validate_session(s, m.hash)
         THEN Keys!Succeeds(p) /\ msgs' = msgs \cup {Keys!confack(p)}
         ELSE /\ IF Keys!confirm_parses(s, m) THEN Keys!Becomes(p, f)
                 ELSE Keys!Again(p, TRIES, <<>>)
              /\ UNCHANGED <<msgs, keys>>
  BY DEF Keys!recv_confirm2
<1>2. s.pc = "fin_r" /\ s.role = "RESPONDER"
  BY AtRest DEF Keys!recv_confirm2, SessionInv, AsResponder
<1>3. CASE Keys!Succeeds(p) /\ msgs' = msgs \cup {Keys!confack(p)} /\ Keys!confirm_parses(s, m)
  <2>1. m \in Of(msgs, "Confirm2", Keys!Other(p), s.stream)
    BY Arrives DEF Of
  <2>2. m.mac = <<"Confirm2", s.zrtp_key>>
    BY <1>3, <2>1 DEF Keys!confirm_parses, Of
  <2>3. Shown(Initiator(p, s.role), s.stream, s.zrtp_key, msgs)
    BY <1>2, <2>1, <2>2 DEF Shown, Initiator
  <2> QED
    BY <1>2, <1>3, <2>3, SuccessKeeps
<1>4. CASE Keys!Becomes(p, f) /\ UNCHANGED <<msgs, keys>>
  <2>1. DOMAIN f \subseteq {"pc", "s0"} /\ "pc" \in DOMAIN f /\ f["pc"] = "failed"
    OBVIOUS
  <2> HIDE DEF f
  <2> QED
    BY <1>2, <1>4, <2>1, FailureKeeps
<1>5. CASE Keys!Again(p, TRIES, <<>>) /\ UNCHANGED <<msgs, keys>>
  BY <1>2, <1>5, TimeoutKeeps
<1> QED
  BY <1>1, <1>3, <1>4, <1>5

LEMMA Conf2AckKeeps ==
    ASSUME AgreementInv, NEW p \in Keys!Peers, Keys!recv_conf2_ack(p)
    PROVE  AgreementInv'
<1>1. /\ session_[p].pc = "fin_i" /\ Keys!Succeeds(p) /\ msgs' = msgs
      /\ Keys!recv_msg(p, {"Conf2ACK"}) # {}
  BY DEF Keys!recv_conf2_ack
<1>2. Shown(Initiator(p, session_[p].role), session_[p].stream, session_[p].zrtp_key, msgs)
  BY <1>1, AtRest DEF SessionInv, Secret
<1>3. Of(msgs, "Conf2ACK", Keys!Other(p), session_[p].stream) # {}
  BY <1>1, Arrives DEF Of
<1> QED
  BY <1>1, <1>2, <1>3, SuccessKeeps

-----------------------------------------------------------------------------
(***************************************************************************)
(* The invariant, and what it says.                                        *)
(***************************************************************************)
LEMMA AgreementStarts == Keys!Init => AgreementInv
<1> SUFFICES ASSUME Keys!Init PROVE AgreementInv
  OBVIOUS
<1>1. ASSUME NEW p \in Keys!Peers
      PROVE  SessionInv(p, session_[p], msgs) /\ KeysInv(p, session_[p], keys[p], msgs)
  <2> DEFINE s == session_[p]
  <2>1. /\ DOMAIN s = Fields /\ s.pc = "closed" /\ s.stream = 0 /\ s.msm = FALSE
        /\ s.hello_recv = FALSE /\ s.initialized_ = FALSE /\ s.o_hvi = [hi |-> 0, lo |-> 0]
        /\ s.zrtp_key = Keys!None
    BY DEF Keys!Init, Fields
  <2>2. DOMAIN keys[p] = {} /\ msgs = {}
    BY DEF Keys!Init
  <2> HIDE DEF s
  <2>3. Shape(s)
    <3>1. s.msm \in BOOLEAN /\ s.hello_recv \in BOOLEAN /\ s.initialized_ \in BOOLEAN
      BY <2>1, Zenon
    <3> QED
      BY <2>1, <3>1 DEF Shape
  <2>4. Greeted(p, s, msgs) /\ Committed(p, s, msgs) /\ AsInitiator(p, s, msgs)
        /\ AsResponder(p, s, msgs)
    BY <2>1 DEF Greeted, Committed, AsInitiator, AsResponder
  <2>5. Secret(p, s, msgs)
    BY <2>1 DEF Secret, Old
  <2>6. KeysInv(p, s, keys[p], msgs)
    BY <2>2 DEF KeysInv
  <2> QED
    BY <2>2, <2>3, <2>4, <2>5, <2>6 DEF SessionInv, s
<1>2. DOMAIN session_ = Keys!Peers /\ DOMAIN keys = Keys!Peers /\ Said(msgs)
  BY DEF Keys!Init, Said
<1> QED
  BY <1>1, <1>2 DEF AgreementInv

LEMMA AgreementStep == AgreementInv /\ [Keys!Next]_zrtpVars => AgreementInv'
<1> SUFFICES ASSUME AgreementInv, [Keys!Next]_zrtpVars PROVE AgreementInv'
  OBVIOUS
<1>1. CASE UNCHANGED zrtpVars
  BY <1>1 DEF zrtpVars, AgreementInv
<1>2. ASSUME NEW p \in Keys!Peers, Keys!init(p) PROVE AgreementInv'
  <2>1. session_[p].initialized_ \in BOOLEAN /\ UNCHANGED keys
    BY <1>2, AtRest DEF Shape, Keys!init
  <2>2. CASE session_[p].initialized_
    <3>1. Keys!Begins(p, TRUE, session_[p].o_hash)
      BY <1>2, <2>2 DEF Keys!init, Keys!init_msm
    <3> QED
      BY <2>1, <3>1, BeginsKeeps
  <2>3. CASE ~session_[p].initialized_
    <3> DEFINE o == Keys!init_session_hashes(p, session_[p].stream + 1)
    <3>1. Keys!Begins(p, FALSE, o)
      BY <1>2, <2>3 DEF Keys!init, Keys!init_dhm
    <3> HIDE DEF o
    <3> QED
      BY <2>1, <3>1, BeginsKeeps
  <2> QED
    BY <2>1, <2>2, <2>3
<1>3. ASSUME NEW p \in Keys!Peers, Keys!hello_timeout(p) PROVE AgreementInv'
  BY <1>3, TimeoutKeeps DEF Keys!hello_timeout
<1>4. ASSUME NEW p \in Keys!Peers, Keys!timeout(p) PROVE AgreementInv'
  BY <1>4, TimeoutKeeps DEF Keys!timeout
<1>5. ASSUME NEW p \in Keys!Peers, Keys!packet_handler(p) PROVE AgreementInv'
  BY <1>1, <1>5 DEF Keys!packet_handler, Keys!zrtpVars, zrtpVars
<1> QED
  BY <1>1, <1>2, <1>3, <1>4, <1>5, HelloKeeps, HelloAckKeeps, FindCommitKeeps, SendCommitKeeps,
     RecvCommitKeeps, AnswerKeeps, DhPart2Keeps, Confirm1Keeps, Confirm2Keeps, Conf2AckKeeps
     DEF Keys!Next

\* The numbers of two peers are compared by the same rule on both sides.
LEMMA OneIsInitiator ==
    ASSUME NEW mode_, NEW x \in [hi : Nat, lo : Nat], NEW y \in [hi : Nat, lo : Nat]
    PROVE  Keys!are_we_initiator(mode_, x, y) \/ Keys!are_we_initiator(mode_, y, x)
BY DEF Keys!are_we_initiator

LEMMA InvariantOpposes == AgreementInv => RolesOpposed
<1> SUFFICES ASSUME AgreementInv,
                    session_["a"].stream = session_["b"].stream,
                    session_["a"].msm = session_["b"].msm,
                    session_["a"].pc \in {"dh1", "dh2", "fin_r", "fin_i", "ok"},
                    session_["b"].pc \in {"dh1", "dh2", "fin_r", "fin_i", "ok"},
                    session_["a"].role = session_["b"].role
             PROVE  FALSE
  BY DEF RolesOpposed, Keys!RolesOpposed
<1> DEFINE a == session_["a"]
           b == session_["b"]
<1>1. /\ "a" \in Keys!Peers /\ "b" \in Keys!Peers
      /\ Keys!Other("a") = "b" /\ Keys!Other("b") = "a"
  BY Others DEF Keys!Peers
<1>2. SessionInv("a", a, msgs) /\ SessionInv("b", b, msgs)
  BY <1>1 DEF AgreementInv
<1> HIDE DEF a, b
<1>3. a.role \in {"INITIATOR", "RESPONDER"}
  BY <1>2 DEF SessionInv, AsInitiator, AsResponder, a
<1>4. CASE a.role = "INITIATOR"
  <2>1. a.pc \in {"dh2", "fin_i", "ok"}
    BY <1>2, <1>4 DEF SessionInv, AsResponder, a
  <2>2. PICK m \in msgs : /\ m.type \in {"DHPart1", "Confirm1"}
                         /\ m.from = "b" /\ m.stream = a.stream
    BY <1>1, <1>2, <1>4, <2>1 DEF SessionInv, AsInitiator
  <2>3. b.role = "RESPONDER"
    BY <1>2, <2>2 DEF SessionInv, Sent, a, b
  <2> QED
    BY <1>4, <2>3 DEF a, b
<1>5. CASE a.role = "RESPONDER"
  <2>1. a.pc \in {"dh1", "fin_r", "ok"} /\ b.pc \in {"dh1", "fin_r", "ok"}
        /\ b.role = "RESPONDER" /\ a.stream = b.stream /\ a.msm = b.msm
    BY <1>2, <1>5 DEF SessionInv, AsInitiator, a, b
  <2>2. /\ a.commit \in Of(msgs, "Commit", "b", a.stream)
        /\ Of(msgs, "Commit", "a", a.stream) # {} => ~Outbid(a.commit, a.o_hvi)
    BY <1>1, <1>2, <1>5, <2>1 DEF SessionInv, AsResponder
  <2>3. /\ b.commit \in Of(msgs, "Commit", "a", b.stream)
        /\ Of(msgs, "Commit", "b", b.stream) # {} => ~Outbid(b.commit, b.o_hvi)
    BY <1>1, <1>2, <2>1 DEF SessionInv, AsResponder
  <2>4. a.commit.hvi = b.o_hvi /\ a.commit.key_agreement_type = Mode(a.msm)
    BY <1>2, <2>1, <2>2 DEF SessionInv, Sent, Of
  <2>5. b.commit.hvi = a.o_hvi /\ b.commit.key_agreement_type = Mode(a.msm)
    BY <1>2, <2>1, <2>3 DEF SessionInv, Sent, Of
  <2>6. ~Outbid(a.commit, a.o_hvi) /\ ~Outbid(b.commit, b.o_hvi)
    BY <2>1, <2>2, <2>3
  <2>7. a.o_hvi \in [hi : Nat, lo : Nat] /\ b.o_hvi \in [hi : Nat, lo : Nat]
    BY <1>2 DEF SessionInv, Shape
  <2> QED
    BY <2>4, <2>5, <2>6, <2>7, OneIsInitiator DEF Outbid
<1> QED
  BY <1>3, <1>4, <1>5

\* One Confirm2 shows one key, and it is either this stream's secret or an older one.
LEMMA OneSecret ==
    ASSUME NEW r, NEW i, NEW k, NEW M, Said(M), NEW key, NEW x, NEW y,
           \E msm \in BOOLEAN : Founded(r, i, k, msm, x, key, M),
           \E msm \in BOOLEAN : Founded(r, i, k, msm, y, key, M)
    PROVE  x = y
<1>1. PICK mx \in BOOLEAN : Founded(r, i, k, mx, x, key, M)
  OBVIOUS
<1>2. PICK my \in BOOLEAN : Founded(r, i, k, my, y, key, M)
  OBVIOUS
<1>3. ASSUME Old(key, k), key.type = "s0", Age(key) = k PROVE FALSE
  <2>1. key # Keys!None
    BY <1>3 DEF Keys!None
  <2> QED
    BY <1>3, <2>1 DEF Old
<1>4. CASE mx /\ my
  <2>1. \E h \in Of(M, "Hello", r, k), c \in Of(M, "Commit", i, k) :
           x = [type |-> "s0", total_hash |-> [hello |-> h, commit |-> c]]
    BY <1>1, <1>4 DEF Founded
  <2>2. \E h \in Of(M, "Hello", r, k), c \in Of(M, "Commit", i, k) :
           y = [type |-> "s0", total_hash |-> [hello |-> h, commit |-> c]]
    BY <1>2, <1>4 DEF Founded
  <2>3. /\ \A h1, h2 \in Of(M, "Hello", r, k) : h1 = h2
        /\ \A c1, c2 \in Of(M, "Commit", i, k) : c1 = c2
    BY DEF Said, Of
  <2> QED
    BY <2>1, <2>2, <2>3
<1>5. CASE ~mx /\ ~my
  BY <1>1, <1>2, <1>5 DEF Founded
<1>6. CASE mx /\ ~my
  BY <1>1, <1>2, <1>3, <1>6 DEF Founded
<1>7. CASE ~mx /\ my
  BY <1>1, <1>2, <1>3, <1>7 DEF Founded
<1> QED
  BY <1>4, <1>5, <1>6, <1>7

LEMMA InvariantFits == AgreementInv => KeysAgree
<1> SUFFICES ASSUME AgreementInv, NEW p \in Keys!Peers, NEW k \in DOMAIN keys[p]
             PROVE  LET q == Keys!Other(p)
                    IN /\ keys[p][k].role = "INITIATOR" => k \in DOMAIN keys[q]
                       /\ k \in DOMAIN keys[q] => /\ keys[p][k].our = keys[q][k].their
                                                 /\ keys[p][k].their = keys[q][k].our
  BY DEF KeysAgree, Keys!KeysAgree
<1> DEFINE q == Keys!Other(p)
           e == keys[p][k]
           d == keys[q][k]
<1>1. q \in Keys!Peers /\ Keys!Other(q) = p /\ q # p
  BY Others
<1>2. KeysInv(p, session_[p], keys[p], msgs) /\ KeysInv(q, session_[q], keys[q], msgs)
      /\ Said(msgs)
  BY <1>1 DEF AgreementInv
<1> HIDE DEF q
<1>3. Given(p, k, e, msgs)
  BY <1>2 DEF KeysInv
<1>4. e.role = "INITIATOR" => k \in DOMAIN keys[q]
  BY <1>2, <1>3 DEF Given, KeysInv, Of, q
<1>5. ASSUME k \in DOMAIN keys[q] PROVE e.our = d.their /\ e.their = d.our
  <2>1. Given(q, k, d, msgs)
    BY <1>2, <1>5 DEF KeysInv
  <2>2. e.role = "INITIATOR" => d.role = "RESPONDER"
    BY <1>2, <1>3 DEF Given, KeysInv, Of, q
  <2>3. e.role = "RESPONDER" => d.role = "INITIATOR"
    <3>1. e.role = "RESPONDER" => Of(msgs, "Confirm2", q, k) # {}
      BY <1>3 DEF Given, Initiator, q
    <3> QED
      BY <1>2, <1>5, <3>1 DEF KeysInv
  <2>4. e.role \in {"INITIATOR", "RESPONDER"} /\ e = Entry(e.role, e.our[2])
    BY <1>3 DEF Given
  <2>5. d = Entry(d.role, d.our[2])
    BY <2>1 DEF Given
  <2> DEFINE r == Responder(p, e.role)
             i == Initiator(p, e.role)
  <2>6. r = Responder(q, d.role) /\ i = Initiator(q, d.role)
    BY <1>1, <2>2, <2>3, <2>4 DEF Responder, Initiator, q
  <2> HIDE DEF r, i, e, d
  <2>7. PICK m \in Of(msgs, "Confirm2", i, k) :
           \E msm \in BOOLEAN : Founded(r, i, k, msm, e.our[2], m.mac[2], msgs)
    BY <1>3 DEF Given, r, i
  <2>8. PICK n \in Of(msgs, "Confirm2", i, k) :
           \E msm \in BOOLEAN : Founded(r, i, k, msm, d.our[2], n.mac[2], msgs)
    BY <2>1, <2>6 DEF Given
  <2>9. m = n
    BY <1>2, <2>7, <2>8 DEF Said, Of
  <2>10. e.our[2] = d.our[2]
    BY <1>2, <2>7, <2>8, <2>9, OneSecret
  <2> QED
    BY <2>2, <2>3, <2>4, <2>5, <2>10 DEF Entry
<1> QED
  BY <1>4, <1>5 DEF e, d, q

-----------------------------------------------------------------------------
LEMMA AgreementKept == AgreementInv /\ [Next]_vars => AgreementInv'
<1>1. [Next]_vars => [Keys!Next]_zrtpVars
  BY DEF Next, Stream, KeepAlive, Encrypt, Count, Report, Agree, vars, zrtpVars
<1> QED
  BY <1>1, AgreementStep

\* init_session() of zrtp.cc: for any number of streams and of tries, two peers in the same
\* mode that have both agreed on roles for a stream have opposite ones.
THEOREM RolesAreOpposite == Spec => []RolesOpposed
<1>1. Init => AgreementInv
  BY AgreementStarts DEF Init
<1> QED
  BY <1>1, AgreementKept, InvariantOpposes, PTL DEF Spec

\* init() and get_srtp_keys() of zrtp.cc: for any number of streams and of tries, an
\* initiator never has keys alone, and the keys of two peers fit each other.
THEOREM KeysFit == Spec => []KeysAgree
<1>1. Init => AgreementInv
  BY AgreementStarts DEF Init
<1> QED
  BY <1>1, AgreementKept, InvariantFits, PTL DEF Spec
=============================================================================
