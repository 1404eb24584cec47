--------------------------- MODULE DriverShutdown ---------------------------
(***************************************************************************)
(* Termination signals (connect.cpp): signal_callback_handler() runs on    *)
(* whichever thread the kernel picks, on top of what that thread was       *)
(* doing, while the other threads go on. It calls dispose_p2p(), which     *)
(* frees the control interface first and clears control_data last, then    *)
(* exit().                                                                 *)
(*                                                                         *)
(* A use of the freed interface is undefined: it either passes unnoticed   *)
(* or ends in a SIGSEGV or SIGABRT ("FAULT"), whose handler is the same    *)
(* one. A fault inside the handler of a fault kills the process.           *)
(***************************************************************************)
EXTENDS Naturals, Sequences

CONSTANT MaxSignals   \* bound: signals sent to the process

\* What is assumed of the constant.
MaxSignalsAssumption == MaxSignals \in Nat

Threads == {"main", "listener", "command"}
Signals == {"SIGINT", "SIGTERM"}
FramePcs == {"check", "detach", "close", "script", "null", "exit"}
Frame == [sig : Signals \cup {"FAULT"}, pc : FramePcs]

VARIABLES
    main_pc,      \* what main() was doing: "attached" until the handlers are installed
    listener_pc,  \* connected_loop(): "off", "poll" or "done"
    stack,        \* handler activations of each thread
    control,      \* control_data: "open", "freed" (but not null) or "null"
    registered,   \* are we registered for wpa_supplicant's events?
    group,        \* does a P2P group exist?
    process,      \* "running", "exited" (through exit()) or "killed"
    signals,      \* signals sent so far
    alone,        \* history: was main() the only thread when each signal came?
    detach_failed \* history: did a DETACH fail or go unanswered?

baseVars == <<main_pc, listener_pc>>
vars == <<baseVars, stack, control, registered, group, process, signals, alone,
          detach_failed>>

MainPcs == {"attached", "start", "script", "poll", "exchange", "session"}

\* init_and_attach_ctrl() has succeeded.
Init ==
    /\ main_pc = "attached"
    /\ listener_pc = "off"
    /\ stack = [t \in Threads |-> <<>>]
    /\ control = "open"
    /\ registered = TRUE
    /\ group = FALSE
    /\ process = "running"
    /\ signals = 0
    /\ alone = TRUE
    /\ detach_failed = FALSE

Alive == {"main"} \cup (IF listener_pc = "off" THEN {} ELSE {"command"})
                  \cup (IF listener_pc = "poll" THEN {"listener"} ELSE {})

Masked(t) == {stack[t][i].sig : i \in 1..Len(stack[t])}
Top(t) == stack[t][Len(stack[t])]
Idle(t) == process = "running" /\ stack[t] = <<>>
AtTop(t, pc) == process = "running" /\ stack[t] # <<>> /\ Top(t).pc = pc
GoTo(t, pc) == stack' = [stack EXCEPT ![t][Len(stack[t])].pc = pc]
Activate(t, sig) == stack' = [stack EXCEPT ![t] = Append(@, [sig |-> sig, pc |-> "check"])]

\* system() ignores SIGINT in the whole process while its command runs.
ScriptRuns ==
    \/ main_pc = "script" /\ stack["main"] = <<>>
    \/ \E t \in Threads : \E i \in 1..Len(stack[t]) : stack[t][i].pc = "script"

\* SIGSEGV or SIGABRT on thread t.
Fault(t) ==
    \/ "FAULT" \notin Masked(t) /\ Activate(t, "FAULT") /\ UNCHANGED process
    \/ "FAULT" \in Masked(t) /\ process' = "killed" /\ UNCHANGED stack

-----------------------------------------------------------------------------
(***************************************************************************)
(* The threads outside of any handler.                                     *)
(***************************************************************************)
init_termination_signals ==
    /\ main_pc = "attached" /\ Idle("main")
    /\ main_pc' = "start"
    /\ UNCHANGED <<listener_pc, stack, control, registered, group, process, signals,
                   alone, detach_failed>>

\* connect_loop(): null ends it, otherwise the search script is run.
connect_loop_start ==
    /\ main_pc = "start" /\ Idle("main")
    /\ control # "null"
    /\ main_pc' = "script"
    /\ UNCHANGED <<listener_pc, stack, control, registered, group, process, signals,
                   alone, detach_failed>>

connect_loop_script ==
    /\ main_pc = "script" /\ Idle("main")
    /\ group' = FALSE
    /\ main_pc' = "poll"
    /\ UNCHANGED <<listener_pc, stack, control, registered, process, signals, alone,
                   detach_failed>>

\* connect_loop() and connect_to_device() poll until a group is up.
connect_loop_poll ==
    /\ main_pc = "poll" /\ Idle("main")
    /\ \/ /\ control = "open"
          /\ main_pc' = "exchange" /\ group' = TRUE
          /\ UNCHANGED <<stack, process>>
       \/ control # "open" /\ Fault("main") /\ UNCHANGED <<main_pc, group>>
    /\ UNCHANGED <<listener_pc, control, registered, signals, alone, detach_failed>>

\* The exchange fails, or the connected state is entered.
enter_connected_state ==
    /\ main_pc = "exchange" /\ Idle("main")
    /\ \/ main_pc' = "start" /\ UNCHANGED listener_pc
       \/ main_pc' = "session" /\ listener_pc' = "poll"
    /\ UNCHANGED <<stack, control, registered, group, process, signals, alone,
                   detach_failed>>

\* Both threads have returned; one that is in a handler has not.
join_threads ==
    /\ main_pc = "session" /\ Idle("main")
    /\ listener_pc = "done" /\ stack["command"] = <<>>
    /\ listener_pc' = "off"
    /\ main_pc' = "start"
    /\ UNCHANGED <<stack, control, registered, group, process, signals, alone,
                   detach_failed>>

\* connected_loop() polls control_data; a freed interface may pass unnoticed.
connected_loop ==
    /\ listener_pc = "poll" /\ Idle("listener")
    /\ \/ control # "null" /\ listener_pc' = "done" /\ UNCHANGED <<stack, process>>
       \/ control # "open" /\ Fault("listener") /\ UNCHANGED listener_pc
    /\ UNCHANGED <<main_pc, control, registered, group, signals, alone, detach_failed>>

-----------------------------------------------------------------------------
(***************************************************************************)
(* Signals and signal_callback_handler().                                  *)
(***************************************************************************)
\* signal() masks a signal on the thread that handles it; before
\* init_termination_signals() the default action ends the process.
Signal(sig) ==
    /\ process = "running" /\ signals < MaxSignals
    /\ signals' = signals + 1
    /\ alone' = (alone /\ listener_pc = "off")
    /\ \/ main_pc = "attached" /\ process' = "killed" /\ UNCHANGED stack
       \/ /\ main_pc # "attached" /\ sig = "SIGINT" /\ ScriptRuns
          /\ UNCHANGED <<process, stack>>
       \/ /\ main_pc # "attached" /\ (sig # "SIGINT" \/ ~ScriptRuns)
          /\ \E t \in Alive : sig \notin Masked(t) /\ Activate(t, sig)
          /\ UNCHANGED process
    /\ UNCHANGED <<baseVars, control, registered, group, detach_failed>>

dispose_p2p_check(t) ==
    /\ AtTop(t, "check")
    /\ GoTo(t, IF control = "null" THEN "exit" ELSE "detach")
    /\ UNCHANGED <<baseVars, control, registered, group, process, signals, alone,
                   detach_failed>>

\* wpa_ctrl_detach(control_data), which may fail, or time out before or after
\* wpa_supplicant has read the request; its result is not looked at.
dispose_p2p_detach(t) ==
    /\ AtTop(t, "detach")
    /\ \/ /\ control = "open" /\ GoTo(t, "close")
          /\ \/ registered' = FALSE /\ UNCHANGED detach_failed
             \/ detach_failed' = TRUE /\ UNCHANGED registered
          /\ UNCHANGED process
       \/ /\ control = "freed" /\ GoTo(t, "close")
          /\ UNCHANGED <<registered, process, detach_failed>>
       \/ control # "open" /\ Fault(t) /\ UNCHANGED <<registered, detach_failed>>
    /\ UNCHANGED <<baseVars, control, group, signals, alone>>

\* wpa_ctrl_close(control_data): a null pointer is let pass, a freed one freed again.
dispose_p2p_close(t) ==
    /\ AtTop(t, "close")
    /\ \/ /\ GoTo(t, "script") /\ UNCHANGED process
          /\ control' = IF control = "open" THEN "freed" ELSE control
       \/ control = "freed" /\ Fault(t) /\ UNCHANGED control
    /\ UNCHANGED <<baseVars, registered, group, signals, alone, detach_failed>>

\* Mutant: control_data is cleared before the script is run.
dispose_p2p_script_last(t) ==
    /\ AtTop(t, "script")
    /\ \/ control # "null" /\ control' = "null" /\ UNCHANGED <<stack, group>>
       \/ control = "null" /\ group' = FALSE /\ GoTo(t, "null") /\ UNCHANGED control
    /\ UNCHANGED <<baseVars, registered, process, signals, alone, detach_failed>>

\* system(SCRIPT_DISPOSE_P2P) returns.
dispose_p2p_script(t) ==
    /\ AtTop(t, "script")
    /\ group' = FALSE
    /\ GoTo(t, "null")
    /\ UNCHANGED <<baseVars, control, registered, process, signals, alone, detach_failed>>

dispose_p2p_null(t) ==
    /\ AtTop(t, "null")
    /\ control' = "null"
    /\ GoTo(t, "exit")
    /\ UNCHANGED <<baseVars, registered, group, process, signals, alone, detach_failed>>

\* Mutant: the handler returns to the interrupted code instead of ending the process.
handler_exit_returns(t) ==
    /\ AtTop(t, "exit")
    /\ stack' = [stack EXCEPT ![t] = SubSeq(@, 1, Len(@) - 1)]
    /\ UNCHANGED <<baseVars, control, registered, group, process, signals, alone,
                   detach_failed>>

handler_exit(t) ==
    /\ AtTop(t, "exit")
    /\ process' = "exited"
    /\ UNCHANGED <<baseVars, stack, control, registered, group, signals, alone,
                   detach_failed>>

-----------------------------------------------------------------------------
Main ==
    \/ init_termination_signals \/ connect_loop_start \/ connect_loop_script
    \/ connect_loop_poll \/ enter_connected_state \/ join_threads

Handler(t) ==
    \/ dispose_p2p_check(t) \/ dispose_p2p_detach(t) \/ dispose_p2p_close(t)
    \/ dispose_p2p_script(t) \/ dispose_p2p_null(t) \/ handler_exit(t)

Next ==
    \/ Main \/ connected_loop
    \/ \E t \in Threads : Handler(t)
    \/ \E sig \in Signals : Signal(sig)

Spec == Init /\ [][Next]_vars

-----------------------------------------------------------------------------
\* Whatever signals and faults overlap on whatever threads, exit() is reached only by
\* a handler behind which the group is gone and a DETACH was tried: wpa_supplicant has
\* forgotten us, unless it failed or did not answer in time.
CleanExit == process = "exited" => ~group /\ (registered => detach_failed)

\* A single signal while the driver is advertising or connecting ends it cleanly:
\* the interrupted main thread never comes back to the interface that was freed.
SearchingShutdownIsClean ==
    signals <= 1 /\ alone /\ main_pc # "attached" =>
        process # "killed" /\ \A t \in Threads : "FAULT" \notin Masked(t)

\* main(): "Register termination signals so that no matter what happens to end the
\* program, we clean up after ourselves." One signal in the connected state is enough:
\* the listener thread keeps using the interface the handler has freed.
CleanWhateverHappens == process = "killed" /\ main_pc # "attached" => ~group
=============================================================================
