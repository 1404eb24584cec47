---------------------------- MODULE DriverSession ----------------------------
(***************************************************************************)
(* What the driver promises, with wpa_supplicant, the sockets and the loop *)
(* flag hidden: it serves one client at a time. A client is served only    *)
(* after a negotiation and an address exchange with that very device; each *)
(* session runs each of its threads exactly once and is over, and the next *)
(* search begun, only when both have ended.                                *)
(***************************************************************************)
CONSTANTS Devices, NoDevice

VARIABLES
    phase,    \* "searching", "negotiating", "exchanging" or "session"
    partner,  \* the device the negotiation was accepted for
    client,   \* the device noted by the last address exchange
    started,  \* threads of the session started so far
    running   \* those of them that have not ended

vars == <<phase, partner, client, started, running>>

Threads == {"command_handler", "connection_listener"}

Init ==
    /\ phase = "searching"
    /\ partner = NoDevice
    /\ client = NoDevice
    /\ started = {}
    /\ running = {}

Negotiate(d) ==
    /\ phase = "searching"
    /\ phase' = "negotiating"
    /\ partner' = d
    /\ UNCHANGED <<client, started, running>>

GroupReady ==
    /\ phase = "negotiating"
    /\ phase' = "exchanging"
    /\ UNCHANGED <<partner, client, started, running>>

Exchange ==
    /\ phase = "exchanging"
    /\ phase' = "session"
    /\ client' = partner
    /\ UNCHANGED <<partner, started, running>>

GiveUp ==
    /\ phase \in {"negotiating", "exchanging"}
    /\ phase' = "searching"
    /\ partner' = NoDevice
    /\ UNCHANGED <<client, started, running>>

Start(t) ==
    /\ phase = "session"
    /\ t \notin started
    /\ started' = started \cup {t}
    /\ running' = running \cup {t}
    /\ UNCHANGED <<phase, partner, client>>

End(t) ==
    /\ t \in running
    /\ running' = running \ {t}
    /\ UNCHANGED <<phase, partner, client, started>>

Leave ==
    /\ phase = "session"
    /\ started = Threads
    /\ running = {}
    /\ phase' = "searching"
    /\ partner' = NoDevice
    /\ started' = {}
    /\ UNCHANGED <<client, running>>

Next ==
    \/ \E d \in Devices : Negotiate(d)
    \/ GroupReady \/ Exchange \/ GiveUp
    \/ \E t \in Threads : Start(t) \/ End(t)
    \/ Leave

Spec == Init /\ [][Next]_vars
=============================================================================
