----------------------------- MODULE HolePuncher -----------------------------
(***************************************************************************)
(* uvgRTP's hole puncher (holepuncher.cc on top of runner.cc): a detached  *)
(* thread that sends a byte when the application has not sent for a while, *)
(* so that the firewall on the way keeps the hole open. The application's  *)
(* thread notifies it before every push_frame().                           *)
(*                                                                         *)
(* Time passes in ticks, several to a sleep, so that a push may fall       *)
(* between two looks of the thread. The scheduler runs the thread in the   *)
(* tick in which its sleep ends, and the system's clock runs evenly.       *)
(***************************************************************************)
EXTENDS Naturals

CONSTANTS
    THRESHOLD,    \* 2000 ms, in ticks
    SLEEP         \* 500 ms, in ticks

HoleBounds == THRESHOLD \in Nat \ {0} /\ SLEEP \in Nat \ {0}

VARIABLES
    app,          \* the stream: "new", "starting" (the thread exists), "started", "stopped"
    thread,       \* keepalive(): "none", "loop" (about to read active_), "sleep", "send", "ended"
    active_,
    asleep,       \* ticks until the thread wakes
    idle,         \* diff_now(last_dgram_sent_), in ticks
    silence,      \* ticks since a datagram last went out
    send_failed   \* has a datagram failed since the last that went out?

holeVars == <<app, thread, active_, asleep, idle, silence, send_failed>>

Cap == THRESHOLD + SLEEP   \* bound: longer times are not told apart

\* last_dgram_sent_ is 0, a time in 1900; ntp_diff_ms() multiplies seconds in 32 bits, so
\* the difference to now is any number of milliseconds.
Init ==
    /\ app = "new" /\ thread = "none" /\ active_ = FALSE
    /\ asleep = 0 /\ idle \in 0..Cap /\ silence = 0 /\ send_failed = FALSE

-----------------------------------------------------------------------------
\* start(): the thread is created and detached ...
start ==
    /\ app = "new" /\ app' = "starting"
    /\ thread' = "loop" /\ silence' = 0
    /\ UNCHANGED <<active_, asleep, idle, send_failed>>

\* ... before runner::start() raises active_.
runner_start ==
    /\ app = "starting" /\ app' = "started"
    /\ active_' = TRUE
    /\ UNCHANGED <<thread, asleep, idle, silence, send_failed>>

\* stop() only lowers the flag.
stop ==
    /\ app = "started" /\ app' = "stopped"
    /\ active_' = FALSE
    /\ UNCHANGED <<thread, asleep, idle, silence, send_failed>>

\* A datagram goes out, or sendto() fails.
Sends == \/ silence' = 0 /\ send_failed' = FALSE
         \/ send_failed' = TRUE /\ UNCHANGED silence

\* push_frame(): notify() comes first, whatever becomes of the frame.
push_frame ==
    /\ app = "started"
    /\ idle' = 0 /\ Sends
    /\ UNCHANGED <<app, thread, active_, asleep>>

-----------------------------------------------------------------------------
ThreadGoes(from, to) == thread = from /\ thread' = to /\ UNCHANGED <<app, active_>>

keepalive_ends ==
    ThreadGoes("loop", "ended") /\ ~active_ /\ UNCHANGED <<asleep, idle, silence, send_failed>>

\* Mutant: the comparison also holds at the threshold.
keepalive_sleep_at_threshold ==
    /\ ThreadGoes("loop", "sleep") /\ active_
    /\ idle <= THRESHOLD
    /\ asleep' = SLEEP
    /\ UNCHANGED <<idle, silence, send_failed>>

keepalive_sleep ==
    /\ ThreadGoes("loop", "sleep") /\ active_
    /\ idle < THRESHOLD
    /\ asleep' = SLEEP
    /\ UNCHANGED <<idle, silence, send_failed>>

keepalive_due ==
    /\ ThreadGoes("loop", "send") /\ active_
    /\ idle >= THRESHOLD
    /\ UNCHANGED <<asleep, idle, silence, send_failed>>

\* sendto() of one byte, whose result nobody reads, then the time.
keepalive_send == ThreadGoes("send", "loop") /\ idle' = 0 /\ Sends /\ UNCHANGED asleep

Later(time) == IF time = Cap THEN Cap ELSE time + 1

\* Time passes; the thread wakes at the end of its sleep.
Tick ==
    /\ thread \notin {"loop", "send"}
    /\ idle' = Later(idle) /\ silence' = Later(silence)
    /\ IF thread = "sleep" THEN /\ asleep' = asleep - 1
                               /\ thread' = IF asleep = 1 THEN "loop" ELSE "sleep"
                          ELSE UNCHANGED <<asleep, thread>>
    /\ UNCHANGED <<app, active_, send_failed>>

Next ==
    \/ start \/ runner_start \/ stop \/ push_frame
    \/ keepalive_ends \/ keepalive_sleep \/ keepalive_due \/ keepalive_send
    \/ Tick

Spec == Init /\ [][Next]_holeVars

-----------------------------------------------------------------------------
\* While the thread goes round its loop, the firewall never sees the stream silent for as
\* long as the threshold and a sleep of the thread together, unless a datagram failed to go
\* out since the last that did: whatever last_dgram_sent_ began with, and wherever pushes
\* and the thread's own store fall between its looks. No shorter bound holds.
HoleKeptOpen ==
    active_ /\ thread \in {"loop", "sleep", "send"} /\ ~send_failed =>
        silence < THRESHOLD + SLEEP
=============================================================================
