----------------------------- MODULE MediaStream -----------------------------
(***************************************************************************)
(* The life of uvgRTP's sessions and media streams (lib.cc, session.cc,    *)
(* media_stream.cc): which parts a stream has built when a step of its     *)
(* set-up fails, what its pointers are worth after that, what later calls  *)
(* do with them, and which detached threads run on when a stream is gone.  *)
(* The parts' own behaviour, their misuse of what they hold included, is   *)
(* in the other modules.                                                   *)
(*                                                                         *)
(* Each call is atomic: an application uses a stream from one thread, and  *)
(* create_stream() holds session_mtx_. new never returns null. Streams are *)
(* told apart by their random 32-bit keys, which are taken to differ.      *)
(***************************************************************************)
EXTENDS Naturals, Sequences, FiniteSets

CONSTANTS
    Streams,        \* the streams an application creates
    FlagSets,       \* the RCE_* flags it may ask for
    MaxContexts     \* bound: calls of add_srtp_ctx() for a stream

FlagsBound ==
    \A f \in FlagSets : f \subseteq {"SCD", "SRTP", "ZRTP", "USER", "RTCP", "HOLEPUNCH"}

VARIABLES
    session,       \* "none", "open", "destroyed"
    process,       \* "running"; "undefined" once freed or null memory was used
    streams_,      \* the stream: "new", "rejected", "leaked", "listed", "erased"
    flags_, fmt_,  \* as given to create_stream(); fmt_: is the format supported?
    part,          \* what each stream's parts are worth: "null", "live", "freed"
    loose,         \* <<s, t>>: the thread t of the stream s runs, and stop() would not wait
                   \* for it
    initialized_,
    contexts,      \* calls of add_srtp_ctx() so far
    refused,       \* has the last of them failed?
    result         \* what the application's last call returned

mediaVars == <<session, process, streams_, flags_, fmt_, part, loose, initialized_, contexts,
               refused, result>>
bookVars == <<session, streams_, flags_, fmt_>>
streamVars == <<part, loose, initialized_, contexts, refused>>

\* What a stream has pointers to, and what its parts have made that no destructor deletes:
\* ~media(), ~base_srtp() and ~rtcp() are empty.
Pointed == {"socket", "pkt_dispatcher", "rtp", "rtcp", "srtp", "srtcp", "media", "holepuncher"}
Inner == {"fqueue", "srtp_ctx", "srtcp_ctx", "participant"}
Parts == Pointed \cup Inner

Init ==
    /\ session = "none" /\ process = "running"
    /\ streams_ = [s \in Streams |-> "new"]
    /\ flags_ = [s \in Streams |-> {}] /\ fmt_ = [s \in Streams |-> TRUE]
    /\ part = [s \in Streams |-> [p \in Parts |-> "null"]] /\ loose = {}
    /\ initialized_ = [s \in Streams |-> FALSE]
    /\ contexts = [s \in Streams |-> 0]
    /\ refused = [s \in Streams |-> FALSE]
    /\ result = "none"

Running == process = "running" /\ session = "open"

-----------------------------------------------------------------------------
(***************************************************************************)
(* Building a stream's parts, and freeing them when a step fails.          *)
(***************************************************************************)
\* The order of the three set-ups; a step fails after its part was made. The participant is
\* add_participant()'s, with a socket of its own.
PlainOrder == <<"socket", "pkt_dispatcher", "rtp", "rtcp", "media", "fqueue", "holepuncher",
                "participant">>
SecureOrder == <<"socket", "pkt_dispatcher", "rtp", "srtp_ctx", "srtp", "srtcp_ctx", "srtcp",
                 "rtcp", "media", "fqueue", "holepuncher", "participant">>

NotAsked(f) == (IF "HOLEPUNCH" \in f THEN {} ELSE {"holepuncher"})
                 \cup (IF "RTCP" \in f THEN {} ELSE {"participant"})

\* The parts made when set-up ends at the step fail, or does not fail.
Made(f, order, fail) ==
    LET last == IF fail = "nothing" THEN Len(order)
                ELSE CHOOSE i \in DOMAIN order : order[i] = fail
    IN {order[i] : i \in 1..last} \ NotAsked(f)

\* The detached threads of a stream.
Threads(f) == {"dispatcher"} \cup (IF "HOLEPUNCH" \in f THEN {"holepuncher"} ELSE {})
                \cup (IF "RTCP" \in f THEN {"rtcp"} ELSE {})

\* The stream's port is taken by the socket it has bound before: bind() fails.
PortTaken(s) == part[s]["socket"] = "live"

\* init_connection(): socket, bind and the two buffer sizes may fail.
\* create_media() fails, and only it, for a format it does not know.
MayFail(s, supported, handshake) ==
    IF PortTaken(s) THEN {"socket"}
    ELSE {"socket"} \cup handshake \cup {IF supported THEN "nothing" ELSE "media"}

\* The pointers after the set-up came as far as fail, before anything is freed.
create_media(old, made, fail) ==
    [p \in Parts |-> IF p \notin made THEN old[p]
                     ELSE IF p = "media" /\ fail = "media" THEN "null" ELSE "live"]

\* Mutant: the socket is forgotten.
free_resources_not_socket(ptr) ==
    [p \in Parts |-> IF ptr[p] = "live" /\ p \in Pointed \ {"socket"} THEN "freed" ELSE ptr[p]]

\* free_resources() deletes through every pointer and sets none to null.
free_resources(ptr) ==
    [p \in Parts |-> IF ptr[p] = "live" /\ p \in Pointed THEN "freed" ELSE ptr[p]]

\* Deleting what was deleted before.
FreesTwice(ptr) == \E p \in Pointed : ptr[p] = "freed"

\* The set-up ends at the step fail; freeing says whether the failing step frees. What is
\* initialised has a running dispatcher, which is then deleted under its thread. The RTCP
\* thread is not started when add_participant() failed, of which nobody takes notice.
SetUp(s, f, order, fail, freeing) ==
    LET built == create_media(part[s], Made(f, order, fail), fail)
        fails == fail # "nothing"
    IN /\ part' = [part EXCEPT ![s] = IF fails /\ freeing THEN free_resources(built) ELSE built]
       /\ IF fails THEN UNCHANGED loose
          ELSE \E unstarted \in {{}, {"rtcp"}} :
                    loose' = loose \cup {<<s, t>> : t \in Threads(f) \ unstarted}
       /\ initialized_' = [initialized_ EXCEPT ![s] = @ \/ ~fails]
       /\ process' = IF fails /\ freeing /\ (FreesTwice(built) \/ initialized_[s])
                     THEN "undefined" ELSE process
       /\ result' = IF fails THEN "error" ELSE "ok"

-----------------------------------------------------------------------------
(***************************************************************************)
(* Sessions and streams (lib.cc, session.cc).                              *)
(***************************************************************************)
\* An empty address gives no session, which changes nothing.
create_session ==
    /\ session = "none" /\ session' = "open"
    /\ result' = "ok"
    /\ UNCHANGED <<process, streams_, flags_, fmt_, streamVars>>

Creates(s, f, supported, entry) ==
    /\ Running /\ streams_[s] = "new"
    /\ streams_' = [streams_ EXCEPT ![s] = entry]
    /\ flags_' = [flags_ EXCEPT ![s] = f]
    /\ fmt_' = [fmt_ EXCEPT ![s] = supported]
    /\ UNCHANGED <<session, contexts, refused>>

\* Nothing is made for the system call dispatcher.
create_stream_scd(s, f) ==
    /\ "SCD" \in f
    /\ Creates(s, f, TRUE, "rejected")
    /\ result' = "error"
    /\ UNCHANGED <<process, part, loose, initialized_>>

\* Mutant: the stream is entered in the table before it is initialised.
create_stream_plain_lists_first(s, f, supported) ==
    /\ f \cap {"SCD", "SRTP"} = {}
    /\ \E fail \in MayFail(s, supported, {}) :
         /\ Creates(s, f, supported, "listed")
         /\ SetUp(s, f, PlainOrder, fail, TRUE)

\* media_stream::init(). A stream whose set-up failed is forgotten, not deleted.
create_stream_plain(s, f, supported) ==
    /\ f \cap {"SCD", "SRTP"} = {}
    /\ \E fail \in MayFail(s, supported, {}) :
         /\ Creates(s, f, supported, IF fail = "nothing" THEN "listed" ELSE "leaked")
         /\ SetUp(s, f, PlainOrder, fail, TRUE)

\* media_stream::init(zrtp), whether or not a user's key was asked for too: the handshake
\* comes after rtp, either derivation of keys may fail, and a failed connection returns
\* without freeing.
create_stream_zrtp(s, f, supported) ==
    /\ {"SRTP", "ZRTP"} \subseteq f /\ "SCD" \notin f
    /\ \E fail \in MayFail(s, supported, {"rtp", "srtp", "srtcp"}) :
         /\ Creates(s, f, supported, IF fail = "nothing" THEN "listed" ELSE "leaked")
         /\ SetUp(s, f, SecureOrder, fail, fail # "socket")

\* With a key of the user's, set-up waits for add_srtp_ctx(); with no way to get keys the
\* stream is refused, and forgotten too.
create_stream_user(s, f, supported) ==
    /\ "SRTP" \in f /\ f \cap {"SCD", "ZRTP"} = {}
    /\ Creates(s, f, supported, IF "USER" \in f THEN "listed" ELSE "leaked")
    /\ result' = IF "USER" \in f THEN "ok" ELSE "error"
    /\ UNCHANGED <<process, part, loose, initialized_>>

\* ~media_stream() calls stop() on the dispatcher without a look, on RTCP and the hole
\* puncher if their flags are set, and frees what the pointers lead to.
DestroysSafely(s) ==
    /\ part[s]["pkt_dispatcher"] = "live"
    /\ "RTCP" \in flags_[s] => part[s]["rtcp"] = "live"
    /\ "HOLEPUNCH" \in flags_[s] => part[s]["holepuncher"] = "live"
    /\ ~FreesTwice(part[s])

\* A thread that is not waited for may look at its flag between stop() and the freeing.
Destroy(gone) ==
    IF \A s \in gone : DestroysSafely(s)
    THEN /\ streams_' = [s \in Streams |-> IF s \in gone THEN "erased" ELSE streams_[s]]
         /\ part' = [s \in Streams |-> IF s \in gone THEN free_resources(part[s]) ELSE part[s]]
         /\ \E ended \in SUBSET {x \in loose : x[1] \in gone} : loose' = loose \ ended
         /\ UNCHANGED process
    ELSE process' = "undefined" /\ UNCHANGED <<streams_, part, loose>>

\* destroy_stream() of a stream the application still holds. The entry stays, as null.
destroy_stream(s) ==
    /\ Running /\ streams_[s] = "listed"
    /\ Destroy({s})
    /\ result' = "ok"
    /\ UNCHANGED <<session, flags_, fmt_, initialized_, contexts, refused>>

\* destroy_session(): ~session() destroys every stream in the table that is not null.
destroy_session ==
    /\ Running /\ session' = "destroyed"
    /\ Destroy({s \in Streams : streams_[s] = "listed"})
    /\ result' = "ok"
    /\ UNCHANGED <<flags_, fmt_, initialized_, contexts, refused>>

-----------------------------------------------------------------------------
(***************************************************************************)
(* A stream in the application's hands (media_stream.cc).                  *)
(***************************************************************************)
Held(s) == Running /\ streams_[s] = "listed"

\* add_srtp_ctx(): the connection comes first, then the look at the flags, which frees
\* everything too; after that as for ZRTP, with keys whose derivation cannot fail.
add_srtp_ctx(s) ==
    /\ Held(s) /\ contexts[s] < MaxContexts
    /\ contexts' = [contexts EXCEPT ![s] = @ + 1]
    /\ \E fail \in MayFail(s, fmt_[s], {}) :
         LET wanted == {"SRTP", "USER"} \subseteq flags_[s]
             ends == IF wanted THEN fail ELSE "socket"
         IN /\ SetUp(s, flags_[s], SecureOrder, ends, TRUE)
            /\ refused' = [refused EXCEPT ![s] = ends # "nothing"]
    /\ UNCHANGED bookVars

\* A call that needs the parts used: not before the stream is initialised.
Uses(s, used) ==
    /\ Held(s)
    /\ result' = IF initialized_[s] THEN "ok" ELSE "RTP_NOT_INITIALIZED"
    /\ process' = IF initialized_[s] /\ \E p \in used : part[s][p] # "live"
                  THEN "undefined" ELSE process
    /\ UNCHANGED <<bookVars, streamVars>>

\* The four push_frame()s; those with a timestamp set it and clear it again.
push_frame(s) ==
    Uses(s, {"media", "rtp", "socket"}
              \cup (IF "HOLEPUNCH" \in flags_[s] THEN {"holepuncher"} ELSE {}))

\* Both pull_frame()s and install_receive_hook().
pull_frame(s) == Uses(s, {"pkt_dispatcher"})

\* configure_ctx(): socket options, or a value of the RTP context; a value out of range
\* is turned down.
configure_ctx(s) == Uses(s, {"socket", "rtp"})

-----------------------------------------------------------------------------
(***************************************************************************)
(* The detached threads.                                                   *)
(***************************************************************************)
\* The dispatcher's thread takes exit_mtx_: from now on its stop() waits for it.
dispatcher_runs(s) ==
    /\ process = "running" /\ streams_[s] = "listed"
    /\ <<s, "dispatcher">> \in loose
    /\ loose' = loose \ {<<s, "dispatcher">>}
    /\ UNCHANGED <<bookVars, process, part, initialized_, contexts, refused, result>>

\* keepalive() wakes, rtcp_runner() comes back from poll(), the dispatcher's thread begins:
\* on an object that was deleted.
thread_outlives(s) ==
    /\ process = "running" /\ streams_[s] = "erased"
    /\ \E x \in loose : x[1] = s
    /\ process' = "undefined"
    /\ UNCHANGED <<bookVars, streamVars, result>>

Next ==
    \/ create_session \/ destroy_session
    \/ \E s \in Streams :
         \/ \E f \in FlagSets :
              \/ create_stream_scd(s, f)
              \/ \E supported \in BOOLEAN :
                   \/ create_stream_plain(s, f, supported)
                   \/ create_stream_zrtp(s, f, supported)
                   \/ create_stream_user(s, f, supported)
         \/ destroy_stream(s) \/ add_srtp_ctx(s)
         \/ push_frame(s) \/ pull_frame(s) \/ configure_ctx(s)
         \/ dispatcher_runs(s) \/ thread_outlives(s)

Spec == Init /\ [][Next]_mediaVars

-----------------------------------------------------------------------------
\* Whatever fails while streams are made, used and destroyed, in any order: a stream's
\* parts are only misused if it is in the application's hands and still waits for its key
\* (its dispatcher is null when it is destroyed) or was refused one (its pointers dangle),
\* or if one of its threads outlived it: the dispatcher's, when it had not begun, or one of
\* the two that stop() never waits for, when the application asked for it.
MisuseHasCause ==
    process = "undefined" =>
        \E s \in Streams :
            \/ /\ streams_[s] = "listed"
               /\ refused[s] \/ ("USER" \in flags_[s] /\ ~initialized_[s])
            \/ /\ streams_[s] = "erased"
               /\ \E t \in Threads(flags_[s]) : <<s, t>> \in loose

\* What may outlive a session: the socket of a ZRTP stream whose connection failed, and
\* what no destructor deletes, of streams that had it: the frame queue of a known format,
\* the contexts of encryption, the participant of a stream with reports. No failing step
\* leaks anything else, even when the stream object itself is forgotten.
LeaksHaveCause ==
    session = "destroyed" /\ process = "running" =>
        \A s \in Streams, p \in Parts :
            part[s][p] = "live" =>
                \/ p = "socket" /\ streams_[s] = "leaked" /\ "ZRTP" \in flags_[s]
                \/ p = "fqueue" /\ streams_[s] = "erased" /\ fmt_[s]
                \/ p \in {"srtp_ctx", "srtcp_ctx"} /\ "SRTP" \in flags_[s]
                \/ p = "participant" /\ streams_[s] = "erased" /\ "RTCP" \in flags_[s]
=============================================================================
