--------------------------------- MODULE Rtcp ---------------------------------
(***************************************************************************)
(* The threads of an uvgRTP stream with RCE_RTCP around its participants_: *)
(* rtcp_runner(), detached, which reads RTCP packets and sends reports,    *)
(* the packet dispatcher's thread, which enters the source of every RTP    *)
(* packet, and the application. There is no lock. A step here is what one  *)
(* thread does between two of its accesses to the shared state.            *)
(*                                                                         *)
(* A participant made when initial_participants_ is empty is "fake": its   *)
(* socket pointer is never set.                                            *)
(***************************************************************************)
EXTENDS Naturals, FiniteSets

CONSTANT Ssrcs    \* sources that RTP and RTCP packets may name

Kinds == {"sender", "receiver", "sdes"}    \* packets kept for the application

VARIABLES
    app,              \* the stream: "new", "added", "started", "stopped", "destroyed"
    active_,
    runner, about,    \* rtcp_runner(): where it is, the packet it handles
    dispatcher, source, \* the dispatcher's thread in recv_packet_handler(), and the RTP source
    initial,          \* is the participant of add_participant() in initial_participants_?
    participants_,    \* each source: "none", "real", "fake"
    closed,           \* was the real participant's socket closed? sockets_ still names it
    num_receivers_, senders_, our_role_,
    room,             \* report blocks there is room for in the frame being made
    watched,          \* the kind of packet frame and hook are about (never changes)
    frame,            \* each source's s_frame, r_frame or sdes_frame: "none", "kept", "freed",
                      \* "wild" (never set)
    hook,             \* sender_hook_, receiver_hook_ or sdes_hook_: "none", "early", or
                      \* "late" (installed when a frame was kept)
    taking,           \* the source a get_*_packet() is about, with the pointer it has read
    fault,            \* the first misuse of memory; nothing is said of what follows
    seen, raced       \* history: sources named, did both threads add the same one

rtcpVars == <<app, active_, runner, about, dispatcher, source, initial, participants_, closed,
              num_receivers_, senders_, our_role_, room, watched, frame, hook, taking, fault,
              seen, raced>>

None == "none"
NoPacket == [of |-> None, kind |-> None]
Free == [of |-> None, had |-> "none"]

\* rtcp::rtcp()
Init ==
    /\ app = "new" /\ active_ = FALSE
    /\ runner = "none" /\ about = NoPacket
    /\ dispatcher = "idle" /\ source = None
    /\ initial = FALSE /\ closed = FALSE
    /\ participants_ = [s \in Ssrcs |-> "none"]
    /\ num_receivers_ = 0 /\ senders_ = 0 /\ our_role_ = "RECEIVER" /\ room = 0
    /\ watched \in Kinds
    /\ frame = [s \in Ssrcs |-> "none"] /\ hook = "none" /\ taking = Free
    /\ fault = "none"
    /\ seen = {} /\ raced = FALSE

Sound == fault = "none"
Known == {s \in Ssrcs : participants_[s] # "none"}
Misuse(kind, when) == fault' = IF when THEN kind ELSE fault

bookVars == <<initial, participants_, closed, num_receivers_, senders_>>
frameVars == <<watched, frame, hook>>
appVars == <<app, active_, our_role_, taking>>
threadVars == <<runner, about, dispatcher, source, room>>
historyVars == <<seen, raced>>

\* A frame through every participant's socket.
SendToAll == Misuse("wild socket", \E s \in Known : participants_[s] = "fake")

-----------------------------------------------------------------------------
(***************************************************************************)
(* The application's thread.                                               *)
(***************************************************************************)
AppGoes(from, to) == Sound /\ app = from /\ app' = to /\ taking = Free

\* add_participant() with our port and the peer's: it may fail, and media_stream takes no
\* notice.
add_participant ==
    /\ AppGoes("new", "added")
    /\ initial' \in BOOLEAN
    /\ UNCHANGED <<active_, our_role_, taking, threadVars, participants_, closed, num_receivers_,
                   senders_, frameVars, fault, historyVars>>

\* start(): sockets_ is empty after a failure.
start ==
    /\ AppGoes("added", "started")
    /\ active_' = initial
    /\ runner' = IF initial THEN "loop" ELSE "none"
    /\ UNCHANGED <<our_role_, taking, about, dispatcher, source, room, bookVars, frameVars,
                   fault, historyVars>>

\* update_sender_stats(), for every packet that goes out.
update_sender_stats ==
    /\ AppGoes("started", "started") /\ our_role_' = "SENDER"
    /\ UNCHANGED <<active_, taking, threadVars, bookVars, frameVars, fault, historyVars>>

\* install_sender_hook(), install_receiver_hook(), install_sdes_hook()
install_hook(kind) ==
    /\ AppGoes("started", "started") /\ kind = watched
    /\ hook' = CASE hook # "none"                        -> hook
                 [] \E s \in Known : frame[s] = "kept" -> "late"
                 [] OTHER                               -> "early"
    /\ UNCHANGED <<active_, our_role_, taking, threadVars, bookVars, watched, frame, fault,
                   historyVars>>

install_sender_hook   == install_hook("sender")
install_receiver_hook == install_hook("receiver")
install_sdes_hook     == install_hook("sdes")

\* get_sender_packet(), get_receiver_packet(), get_sdes_packet() read the pointer ...
get_packet(kind, s) ==
    /\ AppGoes("started", "started") /\ kind = watched
    /\ participants_[s] # "none"
    /\ taking' = [of |-> s, had |-> frame[s]]
    /\ fault' = CASE frame[s] = "freed" -> "frame freed"
                  [] frame[s] = "wild"  -> "frame wild"
                  [] OTHER              -> fault
    /\ UNCHANGED <<active_, our_role_, threadVars, bookVars, frameVars, historyVars>>

get_sender_packet(s)   == get_packet("sender", s)
get_receiver_packet(s) == get_packet("receiver", s)
get_sdes_packet(s)     == get_packet("sdes", s)

\* Mutant: the pointer is not cleared and names what is now the application's.
get_packet_returns_names_it ==
    /\ Sound /\ taking # Free
    /\ frame' = [frame EXCEPT ![taking.of] = IF @ = "kept" THEN "freed" ELSE @]
    /\ taking' = Free
    /\ Misuse("null participant", participants_[taking.of] = "none")
    /\ UNCHANGED <<app, active_, our_role_, watched, hook, threadVars, bookVars, historyVars>>

\* ... and clear it.
get_packet_returns ==
    /\ Sound /\ taking # Free
    /\ frame' = [frame EXCEPT ![taking.of] = "none"] /\ taking' = Free
    /\ Misuse("null participant", participants_[taking.of] = "none")
    /\ UNCHANGED <<app, active_, our_role_, watched, hook, threadVars, bookVars, historyVars>>

\* send_sdes_packet(), send_app_packet(), send_bye_packet()
AppSends ==
    /\ AppGoes("started", "started") /\ SendToAll
    /\ UNCHANGED <<active_, our_role_, taking, threadVars, bookVars, frameVars, historyVars>>

send_sdes_packet == AppSends
send_app_packet  == AppSends

send_bye_packet == SendToAll

\* stop(): with a thread, a BYE; without one, every participant's socket is deleted.
stop ==
    /\ AppGoes("started", "stopped")
    /\ active_' = FALSE
    /\ send_bye_packet
    /\ UNCHANGED <<our_role_, taking, threadVars, bookVars, frameVars, historyVars>>

\* ~media_stream(): after stop(), and when the dispatcher's thread has ended.
destroy ==
    /\ AppGoes("stopped", "destroyed") /\ dispatcher = "idle"
    /\ UNCHANGED <<active_, our_role_, taking, threadVars, bookVars, frameVars, fault,
                   historyVars>>

-----------------------------------------------------------------------------
(***************************************************************************)
(* add_participant(ssrc), of either thread.                                *)
(***************************************************************************)
\* Mutant: who is in the table is given a new participant too.
Enters_always(s) == TRUE

\* is_participant()
Enters(s) == participants_[s] = "none"

\* Neither a participant of before nor a new one has its frames set; what new finds in
\* memory may be zero.
Entered(s) ==
    /\ participants_' = [participants_ EXCEPT ![s] = IF initial THEN "real" ELSE "fake"]
    /\ initial' = FALSE
    /\ \E found \in {"none", "wild"} : frame' = [frame EXCEPT ![s] = found]
    /\ UNCHANGED <<closed, watched, hook>>

\* num_receivers_ and the frames of the new entry; a source of RTP is a sender too.
Counted(s, sender) ==
    /\ num_receivers_' = num_receivers_ + 1
    /\ senders_' = senders_ + (IF sender THEN 1 ELSE 0)
    /\ frame' = [frame EXCEPT ![s] = "none"]
    /\ Misuse("null participant", participants_[s] = "none")
    /\ UNCHANGED <<initial, participants_, closed, watched, hook>>

-----------------------------------------------------------------------------
(***************************************************************************)
(* The dispatcher's thread: recv_packet_handler() for an RTP packet.       *)
(***************************************************************************)
DispatcherGoes(from, to) ==
    /\ Sound /\ app # "destroyed"
    /\ dispatcher = from /\ dispatcher' = to
    /\ UNCHANGED <<appVars, runner, about, room>>

recv_packet_handler(s) ==
    /\ app \in {"started", "stopped"}
    /\ DispatcherGoes("idle", IF Enters(s) THEN "add" ELSE "use")
    /\ source' = s /\ seen' = seen \cup {s}
    /\ raced' = (raced \/ (Enters(s) /\ runner = "add" /\ about.of = s))
    /\ UNCHANGED <<bookVars, frameVars, fault>>

dispatcher_adds ==
    /\ DispatcherGoes("add", "count")
    /\ Entered(source)
    /\ UNCHANGED <<source, num_receivers_, senders_, fault, historyVars>>

dispatcher_counts ==
    /\ DispatcherGoes("count", "use")
    /\ Counted(source, TRUE)
    /\ UNCHANGED <<source, historyVars>>

\* update_participant_seq() or the initial values, then update_session_statistics().
dispatcher_uses ==
    /\ DispatcherGoes("use", "idle")
    /\ source' = None
    /\ Misuse("null participant", participants_[source] = "none")
    /\ UNCHANGED <<bookVars, frameVars, historyVars>>

-----------------------------------------------------------------------------
(***************************************************************************)
(* The runner's thread.                                                    *)
(***************************************************************************)
RunnerGoes(from, to) ==
    /\ Sound /\ app # "destroyed"
    /\ runner = from /\ runner' = to
    /\ UNCHANGED <<appVars, dispatcher, source, watched, hook>>

\* The end of a round: a report only when it took MIN_TIMEOUT.
RoundEnds(from) == \E to \in {"loop", "report"} : RunnerGoes(from, to)

rtcp_runner ==
    /\ RunnerGoes("loop", IF active_ THEN "poll" ELSE "ended")
    /\ UNCHANGED <<about, room, bookVars, frame, fault, historyVars>>

\* poll() timed out or was interrupted. With a closed socket it fails at once.
poll ==
    /\ IF closed THEN RunnerGoes("poll", "loop") ELSE RoundEnds("poll")
    /\ UNCHANGED <<about, room, bookVars, frame, fault, historyVars>>

\* A wrong version, padding, a type above BYE (so every APP packet) or a wrong tag.
packet_refused ==
    /\ ~closed /\ RoundEnds("poll")
    /\ UNCHANGED <<about, room, bookVars, frame, fault, historyVars>>

\* Whoever sends a report and is not known is entered. SDES packets go to the entry
\* without a look.
handle_incoming_packet(kind, s) ==
    LET enters == kind # "sdes" /\ Enters(s)
    IN /\ ~closed
       /\ RunnerGoes("poll", IF enters THEN "add" ELSE "use")
       /\ about' = [of |-> s, kind |-> kind] /\ seen' = seen \cup {s}
       /\ raced' = (raced \/ (enters /\ dispatcher = "add" /\ source = s))
       /\ UNCHANGED <<room, bookVars, frame, fault>>

runner_adds ==
    /\ RunnerGoes("add", "count")
    /\ Entered(about.of)
    /\ UNCHANGED <<about, num_receivers_, senders_, room, fault, historyVars>>

runner_counts ==
    /\ RunnerGoes("count", "use")
    /\ Counted(about.of, FALSE)
    /\ UNCHANGED <<about, room, historyVars>>

\* The frame kept before is deleted; the new one is kept, or given to the hook and the
\* pointer left as it is.
Replaced(s) ==
    frame' = [frame EXCEPT ![s] =
                 CASE hook = "none" -> "kept" [] hook # "none" /\ @ = "none" -> "none"
                   [] OTHER -> "freed"]

\* A packet of a kind at its source's entry; keeps: does it get as far as the frame?
EntryUsed(kind, keeps) ==
    LET s == about.of
        mine == keeps /\ kind = watched
        twice == frame[s] = "freed" \/ taking = [of |-> s, had |-> "kept"]
    IN /\ about.kind = kind /\ RoundEnds("use")
       /\ about' = NoPacket
       /\ IF mine THEN Replaced(s) ELSE UNCHANGED frame
       /\ fault' = CASE participants_[s] = "none" -> "null participant"
                     [] mine /\ twice             -> "frame freed"
                     [] mine /\ frame[s] = "wild" -> "frame wild"
                     [] OTHER                     -> fault
       /\ UNCHANGED <<room, bookVars, historyVars>>

handle_sender_report_packet == EntryUsed("sender", TRUE)

\* A report without blocks is refused.
handle_receiver_report_packet == \E blocks \in BOOLEAN : EntryUsed("receiver", blocks)

handle_sdes_packet == EntryUsed("sdes", TRUE)

\* The socket is closed with the participant, whose frames are lost; num_receivers_ stays.
handle_bye_packet(s) ==
    /\ ~closed /\ RoundEnds("poll")
    /\ participants_' = [participants_ EXCEPT ![s] = "none"]
    /\ closed' = (participants_[s] = "real")
    /\ Misuse("wild socket", participants_[s] = "fake")
    /\ seen' = seen \cup {s}
    /\ frame' = [frame EXCEPT ![s] = "none"]
    /\ UNCHANGED <<about, initial, num_receivers_, senders_, room, raced>>

\* generate_report(): no report without a sender; the frame has room for num_receivers_.
generate_report(role) ==
    /\ our_role_ = role
    /\ RunnerGoes("report", IF senders_ = 0 THEN "loop" ELSE "send")
    /\ room' = num_receivers_
    /\ UNCHANGED <<about, bookVars, frame, fault, historyVars>>

generate_sender_report   == generate_report("SENDER")
generate_receiver_report == generate_report("RECEIVER")

\* A block for every participant, then the frame through every participant's socket.
send_report ==
    /\ RunnerGoes("send", "loop")
    /\ IF Cardinality(Known) > room THEN fault' = "overrun" ELSE SendToAll
    /\ UNCHANGED <<about, room, bookVars, frame, historyVars>>

\* The detached thread goes on when the object is gone.
runner_outlives ==
    /\ Sound /\ app = "destroyed" /\ runner \notin {"none", "ended"}
    /\ fault' = "object freed"
    /\ UNCHANGED <<appVars, threadVars, bookVars, frameVars, historyVars>>

-----------------------------------------------------------------------------
Next ==
    \/ add_participant \/ start \/ update_sender_stats \/ get_packet_returns
    \/ install_sender_hook \/ install_receiver_hook \/ install_sdes_hook
    \/ send_sdes_packet \/ send_app_packet \/ stop \/ destroy
    \/ dispatcher_adds \/ dispatcher_counts \/ dispatcher_uses
    \/ rtcp_runner \/ poll \/ packet_refused \/ runner_adds \/ runner_counts
    \/ handle_sender_report_packet \/ handle_receiver_report_packet \/ handle_sdes_packet
    \/ generate_sender_report \/ generate_receiver_report \/ send_report \/ runner_outlives
    \/ \E s \in Ssrcs :
         \/ get_sender_packet(s) \/ get_receiver_packet(s) \/ get_sdes_packet(s)
         \/ recv_packet_handler(s) \/ handle_bye_packet(s)
         \/ \E kind \in Kinds : handle_incoming_packet(kind, s)

Spec == Init /\ [][Next]_rtcpVars

-----------------------------------------------------------------------------
\* A participant without a socket is used for nothing while one source, whose socket is not
\* closed, is heard and our port could be bound, unless both threads met it first at the
\* same time.
OneSourceHasSocket ==
    fault = "wild socket" => Cardinality(seen) > 1 \/ closed \/ raced \/ runner = "none"

\* A frame kept for the application is only freed twice, or while the application has it,
\* when it is taken during the arrival of the next or a hook is installed over kept frames;
\* a pointer to a frame is only used before it is set between the entry of its source by
\* one thread and the counting of that entry.
FramesFreedOnce ==
    /\ fault = "frame freed" => hook = "late" \/ taking # Free
    /\ fault = "frame wild" => "count" \in {dispatcher, runner}
=============================================================================
