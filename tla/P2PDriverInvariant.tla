------------------------- MODULE P2PDriverInvariant -------------------------
(***************************************************************************)
(* The inductive invariant behind P2PDriver's safety properties, in four   *)
(* parts that are inductive one after the other.                           *)
(***************************************************************************)
EXTENDS P2PDriverRefinement

\* Which threads exist, and which of their sockets are open, is fixed by where the
\* main thread and the command handler are.
ThreadInv ==
    /\ cmd_pc # "idle" <=> main_pc \in {"spawn_conn", "join_cmd"}
    /\ conn_pc # "idle" <=> main_pc \in {"join_cmd", "join_conn"}
    /\ listener = "listening" <=> cmd_pc \in {"accept", "check", "select", "close"}
    /\ link \in {"established", "peer_closed"} => cmd_pc \in {"check", "select", "close"}

\* Nobody raises the flag between the spawning and the joining of the handler.
FlagInv ==
    /\ cmd_pc \in {"close", "done"} \/ main_pc = "join_conn" => ~run_command_loop
    /\ conn_pc = "done" => ~run_command_loop
    /\ late <= 1
    /\ late = 1 => cmd_pc \in {"idle", "check", "close", "done"}
    /\ late = 1 /\ cmd_pc # "idle" => ~run_command_loop

Outcomes == Failures \cup {"GROUP_STARTED"}

\* The outcome of a formation is on the socket at most once, only while
\* connect_to_device() waits for it, and it speaks of the group as it is.
OutcomeInv ==
    /\ \A i \in 1..Len(events) : events[i].type \in Outcomes =>
          /\ main_pc = "connecting"
          /\ group # "forming"
          /\ events[i].type = "GROUP_STARTED" => group = "up" /\ events[i].dev = peer
          /\ events[i].type \in Failures => group = "none"
          /\ \A j \in 1..Len(events) : events[j].type \in Outcomes => j = i
    /\ main_pc = "poll" => group = "none"
    /\ group = "forming" => main_pc = "connecting"
    /\ group = "up" /\ main_pc = "connecting" => Queued("GROUP_STARTED")

\* From the negotiation on, every record of the device agrees.
DeviceInv ==
    /\ main_pc \notin SearchPcs => mac_address \in Devices
    /\ group # "none" /\ main_pc # "start" => peer = mac_address
    /\ main_pc \notin SearchPcs \cup {"connecting"} => group = "up" /\ group_name = mac_address
    /\ main_pc \in SessionPcs => client_ip = mac_address
    /\ assoc => group = "up"
    /\ \A i \in 1..Len(events) : events[i].type = "GO_NEG_REQUEST" => events[i].dev \in Devices

\* Messages from before the last fresh search come first, and none is left once
\* the group's own GROUP_STARTED has been read.
AgeInv ==
    /\ \A i, j \in 1..Len(events) : i < j /\ events[j].age = "old" => events[i].age = "old"
    /\ \A i \in 1..Len(events) : events[i].type \in Outcomes => events[i].age # "old"
    /\ main_pc \notin SearchPcs \cup {"connecting"} =>
          \A i \in 1..Len(events) : events[i].age # "old"

\* A datagram, and the session that follows it, come from an associated client or
\* from one whose leaving is still to be read.
DisconnectInv ==
    /\ hello => main_pc \in {"hs_recv", "hs_confirm"}
    /\ hello /\ ~assoc => Queued("DEVICE_DISCONNECTED")
    /\ NoDisconnectLost

\* The inductive invariant: together with the type invariant it is preserved by every
\* step of the driver and its environment, and it implies each safety property.
IInv == ThreadInv /\ FlagInv /\ OutcomeInv /\ DeviceInv /\ AgeInv /\ DisconnectInv
=============================================================================
