----------------------------- MODULE DriverParts -----------------------------
(***************************************************************************)
(* The parts of the driver around its threads, as main() goes through      *)
(* them: the control interface is opened and attached, the address of a    *)
(* client is learnt, its commands are read, a signal ends the process.     *)
(* They share no state and no two of them are at work in the same step of  *)
(* main(), so a behaviour is one of a single part; the others keep their   *)
(* initial states.                                                         *)
(***************************************************************************)
EXTENDS Naturals, Sequences, FiniteSets

CONSTANTS
    MaxSent, COMMAND_MAX_RECV,                            \* CommandStream
    MAX_TIMEOUT_ATTEMPTS, RequestCap, InboxCap,           \* ControlInterface
    MaxSignals,                                           \* DriverShutdown
    Clients, NoClient, MAX_CONFIRM_MSGS, MaxCalls, Protocols\* IpExchanger

VARIABLES
    part,   \* the part at work (never changes)
    paced, sent, stream, buffer, executed,
    pc, sock, file, tries, attempts, detach_status, supplicant, requests, monitors, inbox,
    main_pc, listener_pc, stack, control, registered, group, process, signals, alone,
    detach_failed,
    exchange_pc, calls, protocol, open, sock_fd, new_fd, client_ip, confirms, outcome, arrived,
    heard

Commands == INSTANCE CommandStream
Control  == INSTANCE ControlInterface
Shutdown == INSTANCE DriverShutdown
Exchange == INSTANCE IpExchanger WITH pc <- exchange_pc

ASSUME PartsAssumption ==
    /\ Commands!BoundsAssumption /\ Control!CapsAssumption /\ Shutdown!MaxSignalsAssumption
    /\ Exchange!ClientsAssumption /\ Exchange!SizesAssumption
    /\ Exchange!ProtocolsAssumption

commandVars  == <<paced, sent, stream, buffer, executed>>
controlVars  == <<pc, sock, file, tries, attempts, detach_status, supplicant, requests,
                  monitors, inbox>>
shutdownVars == <<main_pc, listener_pc, stack, control, registered, group, process, signals,
                  alone, detach_failed>>
exchangeVars == <<exchange_pc, calls, protocol, open, sock_fd, new_fd, client_ip, confirms,
                  outcome, arrived, heard>>
vars == <<part, commandVars, controlVars, shutdownVars, exchangeVars>>

Init ==
    /\ part \in {"commands", "control", "shutdown", "exchange"}
    /\ Commands!Init /\ Control!Init /\ Shutdown!Init /\ Exchange!Init
    \* What a part that rests might begin with makes no difference.
    /\ part # "commands" => paced
    /\ part # "control" => file = "none" /\ supplicant = "up"
    /\ part # "exchange" => protocol = CHOOSE p \in Protocols : TRUE

Command == /\ part = "commands" /\ Commands!Next
           /\ UNCHANGED <<part, controlVars, shutdownVars, exchangeVars>>
Attach  == /\ part = "control" /\ Control!Next
           /\ UNCHANGED <<part, commandVars, shutdownVars, exchangeVars>>
Stop    == /\ part = "shutdown" /\ Shutdown!Next
           /\ UNCHANGED <<part, commandVars, controlVars, exchangeVars>>
Meet    == /\ part = "exchange" /\ Exchange!Next
           /\ UNCHANGED <<part, commandVars, controlVars, shutdownVars>>

Next == Command \/ Attach \/ Stop \/ Meet

\* Of the driver's own steps only those on the control interface need fairness.
Spec ==
    /\ Init /\ [][Next]_vars
    /\ WF_vars(/\ part = "control" /\ Control!Driver
               /\ UNCHANGED <<part, commandVars, shutdownVars, exchangeVars>>)

-----------------------------------------------------------------------------
\* command_handler.cpp: however TCP cuts the stream, no command is carried out that was
\* not sent, none twice and none before an earlier one.
NoPhantomCommand == Commands!NoPhantomCommand

\* command_handler.cpp: a client that waits for each command to be read has all of them
\* carried out.
PacedCommandsExecuted == Commands!PacedCommandsExecuted

\* connect.cpp, init_and_attach_ctrl(): a non-null control_data means that we are
\* registered for events.
AttachedMeansMonitored == Control!AttachedMeansMonitored

\* wpa_ctrl.c: a start that failed, wherever it did, and a disposal leave neither a socket
\* nor its file behind.
FailureLeavesNothing == Control!FailureLeavesNothing

\* connect.cpp: neither start-up nor disposal hangs on a wpa_supplicant that hangs or
\* dies between any two messages.
StartAndDisposalReturn ==
    /\ part = "control" => Control!InitReturns
    /\ Control!DisposeReturns

\* connect.cpp: exit() is only reached with the group gone, and with the registration gone
\* unless a DETACH failed, whatever signals and faults overlap.
CleanExit == Shutdown!CleanExit

\* connect.cpp: a single signal while main() is the only thread ends the driver cleanly.
SearchingShutdownIsClean == Shutdown!SearchingShutdownIsClean

\* ip_exchanger.cpp: no path of a handshake leaves a descriptor open.
NoDescriptorLeft == Exchange!NoDescriptorLeft

\* ip_exchanger.cpp: a handshake succeeds only with a client that has come to its socket.
ConnectedWasHeard == Exchange!ConnectedWasHeard
=============================================================================
