------------------------------ MODULE MediaParts ------------------------------
(***************************************************************************)
(* The parts of a uvgRTP media stream beside its dispatcher and its        *)
(* formats: how it is made and freed, its key agreement, its encryption,   *)
(* the reports about it and the sources they are about, its hole puncher.  *)
(* Each keeps state of its own behind an interface of a few calls, so a    *)
(* behaviour is one of a single part; the others keep their initial        *)
(* states.                                                                 *)
(***************************************************************************)
EXTENDS Integers, FiniteSets, TLC

CONSTANTS
    Streams, FlagSets, MaxContexts,                            \* MediaStream
    THRESHOLD, SLEEP,                                          \* HolePuncher
    SEQ_MOD, MAX_OFF, COUNT_MOD, MaxSent, MaxOnWire,           \* Srtp
    RTP_SEQ_MOD, MIN_SEQUENTIAL, MAX_DROPOUT, MAX_MISORDER, MaxPackets, MaxInFlight,
                                                               \* RtcpSource
    Ssrcs,                                                     \* Rtcp
    HELLO_TRIES, TRIES, MaxStreams                             \* Zrtp

VARIABLES
    at_work,   \* the part at work (never changes)
    session, process, streams_, flags_, fmt_, part, loose, initialized_, contexts, refused, result,
    hole_app, thread, hole_active_, asleep, idle, silence, send_failed,
    type, mode, seq_, ts_, sent, roc, rts, replay_list_, wire, got, orderly, out,
    first, pkts_sent, flight, reached, counted, participant, heard_of, last, steady,
    app, active_, runner, about, dispatcher, source, initial, participants_, closed,
    num_receivers_, senders_, our_role_, room, watched, frame, hook, taking, fault, seen,
    raced,
    session_, msgs, keys

Media   == INSTANCE MediaStream
Hole    == INSTANCE HolePuncher WITH app <- hole_app, active_ <- hole_active_
Crypto  == INSTANCE Srtp WITH
               Modes <- [user : BOOLEAN, cipher : BOOLEAN, auth : BOOLEAN, replay : BOOLEAN]
Source  == INSTANCE RtcpSource WITH p <- participant
Reports == INSTANCE Rtcp
Keys    == INSTANCE Zrtp

ASSUME MediaAssumption ==
    /\ Media!FlagsBound /\ Hole!HoleBounds /\ Crypto!SrtpBounds /\ Source!SourceBounds
    /\ Keys!ZrtpBounds

mediaVars  == <<session, process, streams_, flags_, fmt_, part, loose, initialized_, contexts,
                refused, result>>
holeVars   == <<hole_app, thread, hole_active_, asleep, idle, silence, send_failed>>
srtpVars   == <<type, mode, seq_, ts_, sent, roc, rts, replay_list_, wire, got, orderly, out>>
sourceVars == <<first, pkts_sent, flight, reached, counted, participant, heard_of, last,
                steady>>
rtcpVars   == <<app, active_, runner, about, dispatcher, source, initial, participants_,
                closed, num_receivers_, senders_, our_role_, room, watched, frame, hook,
                taking, fault, seen, raced>>
zrtpVars   == <<session_, msgs, keys>>
vars == <<at_work, mediaVars, holeVars, srtpVars, sourceVars, rtcpVars, zrtpVars>>

Init ==
    /\ at_work \in {"media", "hole", "srtp", "source", "rtcp", "zrtp"}
    /\ Media!Init /\ Hole!Init /\ Crypto!Init /\ Source!Init /\ Reports!Init /\ Keys!Init
    \* What a part that rests might begin with makes no difference.
    /\ at_work # "hole" => idle = 0
    /\ at_work # "srtp" =>
         type = "SRTP" /\ mode = [user |-> TRUE, cipher |-> TRUE, auth |-> TRUE, replay |-> TRUE]
         /\ seq_ = 0 /\ ts_ = 1
    /\ at_work # "source" => first = 0
    /\ at_work # "rtcp" => watched = "sender"

Stream    == /\ at_work = "media" /\ Media!Next
             /\ UNCHANGED <<at_work, holeVars, srtpVars, sourceVars, rtcpVars, zrtpVars>>
KeepAlive == /\ at_work = "hole" /\ Hole!Next
             /\ UNCHANGED <<at_work, mediaVars, srtpVars, sourceVars, rtcpVars, zrtpVars>>
Encrypt   == /\ at_work = "srtp" /\ Crypto!Next
             /\ UNCHANGED <<at_work, mediaVars, holeVars, sourceVars, rtcpVars, zrtpVars>>
Count     == /\ at_work = "source" /\ Source!Next
             /\ UNCHANGED <<at_work, mediaVars, holeVars, srtpVars, rtcpVars, zrtpVars>>
Report    == /\ at_work = "rtcp" /\ Reports!Next
             /\ UNCHANGED <<at_work, mediaVars, holeVars, srtpVars, sourceVars, zrtpVars>>
Agree     == /\ at_work = "zrtp" /\ Keys!Next
             /\ UNCHANGED <<at_work, mediaVars, holeVars, srtpVars, sourceVars, rtcpVars>>

\* Streams and sources are interchangeable.
Symmetry == Permutations(Streams) \cup Permutations(Ssrcs)

Next == Stream \/ KeepAlive \/ Encrypt \/ Count \/ Report \/ Agree

Spec == Init /\ [][Next]_vars

-----------------------------------------------------------------------------
\* session.cc, media_stream.cc: a stream is only misused while it waits for its key, after
\* it was refused one, or by a detached thread that outlived it.
MisuseHasCause == Media!MisuseHasCause

\* media_stream.cc, media.cc, srtp/base.cc, rtcp.cc: what may outlive a session.
LeaksHaveCause == Media!LeaksHaveCause

\* holepuncher.cc: the firewall never sees silence as long as the threshold and a sleep.
HoleKeptOpen == Hole!HoleKeptOpen

\* srtp.cc, srtcp.cc: a packet or report is decrypted with the key stream it was
\* encrypted with, or refused, as long as the reports' number has 16 bits.
DecryptedIsIntact == Crypto!DecryptedIsIntact

\* srtp.cc: the comment on packets overtaken by a wrap; refuted.
OvertakenIsDecrypted == Crypto!OvertakenIsDecrypted

\* rtcp.cc: a source that keeps sending is counted again after any disturbance.
FollowerIsCounted == Source!FollowerIsCounted

\* rtcp.cc: no more losses are reported than packets were not counted.
LossNotOverstated == Source!LossNotOverstated

\* rtcp.cc: with one source, a participant without a socket is not used.
OneSourceHasSocket == Reports!OneSourceHasSocket

\* rtcp.cc, rtcp/*.cc: a frame is freed once, and found by no pointer that was not set, but
\* for a take, a late hook and the window of an entry.
FramesFreedOnce == Reports!FramesFreedOnce

\* zrtp.cc: two peers never take the same role in a stream.
RolesOpposed == Keys!RolesOpposed

\* zrtp.cc: the keys two peers are given fit each other.
KeysAgree == Keys!KeysAgree
===============================================================================
