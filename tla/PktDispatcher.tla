---------------------------- MODULE PktDispatcher ----------------------------
(***************************************************************************)
(* uvgRTP's packet dispatcher (pkt_dispatch.cc, runner.cc): the thread     *)
(* that reads the socket and passes packets through the installed          *)
(* handlers, the application's thread that creates and destroys the media  *)
(* stream, and one consumer that pulls frames. The threads meet at         *)
(* active_, exit_mtx_, the frame queue and the receive hook.               *)
(*                                                                         *)
(* What a handler makes of a packet is external: a packet's kind says what *)
(* each handler returns for it. A frame is its number in the order frames  *)
(* become ready.                                                           *)
(*                                                                         *)
(* The queue is only touched under frames_mtx_, except by empty(): with    *)
(* one consumer a push under way can only make it say "not empty" before   *)
(* the frame is there, and the consumer then waits for the mutex.          *)
(***************************************************************************)
EXTENDS Naturals, Sequences, FiniteSets

CONSTANTS
    Kinds,        \* what arrives: the results of primary and auxiliary handlers
    MaxPackets,   \* bound: packets that arrive
    MaxTimeout    \* bound: the timeout of pull_frame(timeout)

Results == {"OK", "NOT_HANDLED", "MODIFIED", "ERROR", "READY", "MULTIPLE"}

ASSUME KindsAssumption ==
    \A k \in Kinds : k.primary \in Seq(Results) \ {<<>>} /\ k.aux \in Seq(Results)
ASSUME BoundsAssumption == MaxPackets \in Nat /\ MaxTimeout \in Nat

VARIABLES
    app_pc,       \* the application: start(), running, stop(), destruction
    runner_pc,    \* where runner() is
    puller_pc,    \* where the consumer is: "idle", "poll", "take"
    active_,
    exit_mtx_,    \* who holds it: "free", "runner", "app"
    frames_,      \* the frame queue
    recv_hook_,   \* is a hook installed?
    hook_arg,     \* has its argument been set?
    inbox,        \* packets in the socket's buffer
    arrivals,     \* packets that have arrived
    pending,      \* frames the handlers have ready for return_frame()
    again,        \* did the last primary handler return RTP_OK?
    timeout,      \* milliseconds the consumer still waits
    produced,     \* frames made so far
    pulled,       \* what pull_frame() has returned
    hooked,       \* what the hook has been called with
    was_looping   \* history: was the receive loop entered when stop() began?

settingVars == <<active_, recv_hook_, hook_arg, was_looping>>
workVars == <<pending, again, produced>>
queueVars == <<frames_, hooked>>
netVars == <<inbox, arrivals>>
pullerVars == <<puller_pc, timeout, pulled>>
vars == <<app_pc, runner_pc, exit_mtx_, settingVars, workVars, queueVars, netVars, pullerVars>>

InLoop == {"check", "recv", "return", "exit"}
Forever == MaxTimeout + 1   \* the pull_frame() without a timeout

Init ==
    /\ app_pc = "start" /\ runner_pc = "none" /\ puller_pc = "idle"
    /\ active_ = FALSE
    /\ exit_mtx_ = "free"
    /\ frames_ = <<>>
    /\ recv_hook_ = FALSE /\ hook_arg = FALSE
    /\ inbox = <<>> /\ arrivals = 0
    /\ pending = <<>> /\ again = FALSE
    /\ timeout = 0
    /\ produced = 0 /\ pulled = <<>> /\ hooked = <<>>
    /\ was_looping = FALSE

Alive == app_pc # "destroyed"

\* A packet reaches the socket's buffer (external).
PacketArrives ==
    /\ Alive /\ arrivals < MaxPackets
    /\ arrivals' = arrivals + 1
    /\ \E k \in Kinds : inbox' = Append(inbox, k)
    /\ UNCHANGED <<app_pc, runner_pc, exit_mtx_, settingVars, workVars, queueVars, pullerVars>>

-----------------------------------------------------------------------------
(***************************************************************************)
(* The application's thread.                                               *)
(***************************************************************************)
AppGoes(from, to) ==
    /\ app_pc = from /\ app_pc' = to
    /\ UNCHANGED <<workVars, queueVars, netVars, pullerVars>>

\* start() detaches the thread before it raises active_.
start ==
    /\ AppGoes("start", "activate")
    /\ runner_pc' = "spin"
    /\ UNCHANGED <<exit_mtx_, settingVars>>

runner_start ==
    /\ AppGoes("activate", "running")
    /\ active_' = TRUE
    /\ UNCHANGED <<runner_pc, exit_mtx_, recv_hook_, hook_arg, was_looping>>

\* A media stream takes a hook only once it is initialised, with the runner at work;
\* the hook is stored before its argument.
install_receive_hook ==
    /\ AppGoes("running", "hook_arg") /\ ~recv_hook_
    /\ recv_hook_' = TRUE
    /\ UNCHANGED <<runner_pc, exit_mtx_, active_, hook_arg, was_looping>>

install_receive_hook_arg ==
    /\ AppGoes("hook_arg", "running")
    /\ hook_arg' = TRUE
    /\ UNCHANGED <<runner_pc, exit_mtx_, active_, recv_hook_, was_looping>>

\* stop(), called by the stream's destructor.
stop ==
    /\ AppGoes("running", "stopping")
    /\ active_' = FALSE
    /\ was_looping' = (runner_pc \in InLoop)
    /\ UNCHANGED <<runner_pc, exit_mtx_, recv_hook_, hook_arg>>

\* Mutant: try_lock() is called once, whatever it returns.
stop_try_lock_once ==
    /\ AppGoes("stopping", "unlock")
    /\ exit_mtx_' = IF exit_mtx_ = "free" THEN "app" ELSE exit_mtx_
    /\ UNCHANGED <<runner_pc, settingVars>>

\* The loop around try_lock().
stop_try_lock ==
    /\ AppGoes("stopping", "unlock") /\ exit_mtx_ = "free"
    /\ exit_mtx_' = "app"
    /\ UNCHANGED <<runner_pc, settingVars>>

stop_unlock ==
    /\ AppGoes("unlock", "stopped")
    /\ exit_mtx_' = "free"
    /\ UNCHANGED <<runner_pc, settingVars>>

\* The destructor goes on to delete socket and dispatcher. That nobody is inside
\* pull_frame() then is the application's duty; what the runner does with the freed
\* object is undefined, and the model stops there.
free_resources ==
    /\ AppGoes("stopped", "destroyed") /\ puller_pc = "idle"
    /\ UNCHANGED <<runner_pc, exit_mtx_, settingVars>>

-----------------------------------------------------------------------------
(***************************************************************************)
(* The dispatcher's thread.                                                *)
(***************************************************************************)
RunnerGoes(from, to) ==
    /\ Alive
    /\ runner_pc = from /\ runner_pc' = to
    /\ UNCHANGED <<app_pc, settingVars, workVars, queueVars, netVars, pullerVars>>

runner_spin == RunnerGoes("spin", "lock") /\ active_ /\ UNCHANGED exit_mtx_

runner_lock ==
    /\ RunnerGoes("lock", "check") /\ exit_mtx_ = "free"
    /\ exit_mtx_' = "runner"

\* select() returns, for a packet or after its 1.5 ms.
runner_select == RunnerGoes("check", "recv") /\ active_ /\ UNCHANGED exit_mtx_

\* select() fails, EINTR included; active_ stays as it is.
runner_select_fails == RunnerGoes("check", "exit") /\ active_ /\ UNCHANGED exit_mtx_

runner_stopped == RunnerGoes("check", "exit") /\ ~active_ /\ UNCHANGED exit_mtx_

\* recvfrom() finds nothing, or fails: back to the outer loop.
runner_recv_nothing == RunnerGoes("recv", "check") /\ UNCHANGED exit_mtx_

\* The frames of one primary handler's auxiliary handlers: each handler is called,
\* whatever the one before it returned, for break only leaves the switch.
call_aux_handlers(aux) ==
    Cardinality({i \in DOMAIN aux : aux[i] = "READY"})
      + 2 * Cardinality({i \in DOMAIN aux : aux[i] = "MULTIPLE"})

\* A packet goes to every primary handler, and through the auxiliary ones of each that
\* made a frame of it; only the last one's result decides whether recvfrom() comes
\* next or active_ is read again.
runner_recv ==
    /\ Alive /\ runner_pc = "recv" /\ inbox # <<>>
    /\ LET k == Head(inbox)
           n == call_aux_handlers(k.aux)
                  * Cardinality({i \in DOMAIN k.primary : k.primary[i] = "MODIFIED"})
           ok == k.primary[Len(k.primary)] = "OK"
       IN /\ produced' = produced + n
          /\ pending' = [i \in 1..n |-> produced + i]
          /\ again' = ok
          /\ runner_pc' = IF n > 0 THEN "return" ELSE IF ok THEN "recv" ELSE "check"
    /\ inbox' = Tail(inbox)
    /\ UNCHANGED <<app_pc, exit_mtx_, settingVars, queueVars, arrivals, pullerVars>>

\* Mutant: the frame is queued even when the hook has been called (no else).
return_frame_both ==
    /\ Alive /\ runner_pc = "return"
    /\ hooked' = IF recv_hook_
                 THEN Append(hooked, [frame |-> Head(pending), arg |-> hook_arg])
                 ELSE hooked
    /\ frames_' = Append(frames_, Head(pending))
    /\ pending' = Tail(pending)
    /\ runner_pc' = IF Len(pending) > 1 THEN "return" ELSE IF again THEN "recv" ELSE "check"
    /\ UNCHANGED <<app_pc, exit_mtx_, settingVars, again, produced, netVars, pullerVars>>

\* Mutant: the runner waits until the consumer has taken the frame before.
return_frame_waits ==
    /\ Alive /\ runner_pc = "return"
    /\ recv_hook_ \/ frames_ = <<>>
    /\ IF recv_hook_
       THEN /\ hooked' = Append(hooked, [frame |-> Head(pending), arg |-> hook_arg])
            /\ UNCHANGED frames_
       ELSE /\ frames_' = Append(frames_, Head(pending))
            /\ UNCHANGED hooked
    /\ pending' = Tail(pending)
    /\ runner_pc' = IF Len(pending) > 1 THEN "return" ELSE IF again THEN "recv" ELSE "check"
    /\ UNCHANGED <<app_pc, exit_mtx_, settingVars, again, produced, netVars, pullerVars>>

\* return_frame(): to the hook if there is one by now, to the queue otherwise.
return_frame ==
    /\ Alive /\ runner_pc = "return"
    /\ IF recv_hook_
       THEN /\ hooked' = Append(hooked, [frame |-> Head(pending), arg |-> hook_arg])
            /\ UNCHANGED frames_
       ELSE /\ frames_' = Append(frames_, Head(pending))
            /\ UNCHANGED hooked
    /\ pending' = Tail(pending)
    /\ runner_pc' = IF Len(pending) > 1 THEN "return" ELSE IF again THEN "recv" ELSE "check"
    /\ UNCHANGED <<app_pc, exit_mtx_, settingVars, again, produced, netVars, pullerVars>>

\* Mutant: the mutex is not given back.
runner_exit_keeps_lock == RunnerGoes("exit", "done") /\ UNCHANGED exit_mtx_

runner_exit == RunnerGoes("exit", "done") /\ exit_mtx_' = "free"

-----------------------------------------------------------------------------
(***************************************************************************)
(* The consumer, in pull_frame() or pull_frame(timeout).                   *)
(***************************************************************************)
PullerGoes(from, to) ==
    /\ puller_pc = from /\ puller_pc' = to
    /\ UNCHANGED <<app_pc, runner_pc, exit_mtx_, settingVars, workVars, hooked, netVars>>

pull_frame ==
    /\ PullerGoes("idle", "poll") /\ app_pc \in {"running", "hook_arg"}
    /\ timeout' \in 0..Forever
    /\ UNCHANGED <<frames_, pulled>>

pull_frame_sleep ==
    /\ PullerGoes("poll", "poll")
    /\ frames_ = <<>> /\ active_ /\ timeout > 0
    /\ timeout' = IF timeout = Forever THEN timeout ELSE timeout - 1
    /\ UNCHANGED <<frames_, pulled>>

pull_frame_null ==
    /\ PullerGoes("poll", "idle")
    /\ ~active_ \/ (timeout = 0 /\ frames_ = <<>>)
    /\ UNCHANGED <<timeout, frames_, pulled>>

pull_frame_found ==
    /\ PullerGoes("poll", "take")
    /\ active_ /\ frames_ # <<>>
    /\ UNCHANGED <<timeout, frames_, pulled>>

\* front() and erase() under frames_mtx_.
pull_frame_take ==
    /\ PullerGoes("take", "idle") /\ frames_ # <<>>
    /\ pulled' = Append(pulled, Head(frames_))
    /\ frames_' = Tail(frames_)
    /\ UNCHANGED timeout

-----------------------------------------------------------------------------
App ==
    \/ start \/ runner_start
    \/ install_receive_hook \/ install_receive_hook_arg
    \/ stop \/ stop_try_lock \/ stop_unlock \/ free_resources

Runner ==
    \/ runner_spin \/ runner_lock
    \/ runner_select \/ runner_select_fails \/ runner_stopped
    \/ runner_recv \/ runner_recv_nothing \/ return_frame \/ runner_exit

Puller ==
    \/ pull_frame \/ pull_frame_sleep \/ pull_frame_null
    \/ pull_frame_found \/ pull_frame_take

Next == PacketArrives \/ App \/ Runner \/ Puller

Spec == Init /\ [][Next]_vars

\* The runner and a stop() under way are scheduled fairly. Whether the application
\* stops, hooks or pulls is its own affair; recvfrom() does not fail for ever while a
\* packet waits.
Fairness ==
    /\ WF_vars(stop_try_lock \/ stop_unlock)
    /\ WF_vars(Runner)
    /\ SF_vars(runner_recv)

FairSpec == Spec /\ Fairness

-----------------------------------------------------------------------------
Increasing(s) == \A i, j \in DOMAIN s : i < j => s[i] < s[j]
HookedFrames == [i \in DOMAIN hooked |-> hooked[i].frame]
SetOf(s) == {s[i] : i \in DOMAIN s}

\* Every frame the handlers made is handed over once, in the order they were made: it
\* is still the runner's, or in the queue, or was pulled, or went to the hook, never
\* two of these, even when a hook is installed while frames are queued or returned.
HandedOverOnce ==
    LET polled == pulled \o frames_ IN
    /\ Increasing(polled) /\ Increasing(HookedFrames)
    /\ SetOf(polled) \cup SetOf(HookedFrames) \cup SetOf(pending) = 1..produced
    /\ Len(polled) + Len(hooked) + Len(pending) = produced

\* A receive loop that had been entered when stop() was called is over, its mutex
\* released, when stop() returns and when the stream is destroyed.
LoopLeftBeforeDestruction ==
    app_pc \in {"stopped", "destroyed"} /\ was_looping =>
        runner_pc = "done" /\ exit_mtx_ = "free"

\* stop() returns whether the runner is in its loop, has left it after an error, or has
\* not reached it yet.
StopReturns == app_pc = "stopping" ~> app_pc = "stopped"

\* Packets in the socket's buffer are read, errors of recvfrom() and a consumer that
\* never pulls notwithstanding, until stop() is called or the loop ends by an error.
PacketsAreRead == inbox # <<>> ~> inbox = <<>> \/ ~active_ \/ runner_pc \in {"exit", "done"}

\* pkt_dispatch.hh, stop(): "Stop the RTP packet dispatcher and wait until the receive
\* loop is exited to make sure that destroying the object in media_stream.cc is safe".
DestructionIsSafe == app_pc = "destroyed" => runner_pc \in {"none", "done"}
=============================================================================
