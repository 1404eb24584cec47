------------------------------ MODULE P2PDriver ------------------------------
(***************************************************************************)
(* The p2p_driver process once it is attached to wpa_supplicant:           *)
(*   - the main thread: connect_loop(), connect_to_device(), the UDP       *)
(*     exchange and enter_connected_state() (connect.cpp);                 *)
(*   - the two threads of the connected state: listen_for_commands()       *)
(*     (command_handler.cpp) and connected_loop() (connect.cpp);           *)
(*   - what they talk to: wpa_supplicant with its event socket, the IP     *)
(*     configuration of the group interface, the kernel's sockets and the  *)
(*     client device (external, modelled from how the driver uses them).   *)
(*                                                                         *)
(* A thread's step runs from one point where another thread, the kernel or *)
(* wpa_supplicant can interfere to the next one. Logging is left out.      *)
(***************************************************************************)
EXTENDS Naturals, Sequences

CONSTANTS
    Devices,          \* MAC addresses of the devices in range
    NoDevice,         \* no device: the empty address
    QueueCap,         \* bound: messages in flight on the control socket
    MaxCommands,      \* bound: commands in flight on the command connection
    MAX_CONFIRM_MSGS, \* confirmations sent by the UDP exchange
    OUR_IP,           \* the address the driver binds its sockets to
    GROUP_IP          \* the address networkd is told to give the group interface

ASSUME DevicesAssumption == NoDevice \notin Devices

ASSUME BoundsAssumption ==
    /\ QueueCap \in Nat \ {0}
    /\ MaxCommands \in Nat \ {0}
    /\ MAX_CONFIRM_MSGS \in Nat \ {0}

VARIABLES
    \* wpa_supplicant and the group interface
    p2p_find,             \* is the device discoverable?
    peers,                \* the peer table
    group,                \* "none", "forming" or "up"
    peer,                 \* the device the group is formed with
    assoc,                \* is that device associated with the group?
    addr_up,              \* has the group interface got its address?
    events,               \* messages queued on the attached control socket
    \* the main thread
    main_pc, mac_address, group_name, client_ip, confirms,
    hello,                \* is a datagram queued on the exchange's socket?
    \* the connected state
    connection_is_valid, run_command_loop, cmd_pc, conn_pc,
    listener,             \* the command port's listening socket
    link,                 \* the command connection
    inbox,                \* commands received by the kernel, not yet read
    time_wait,            \* does a closed connection still hold the port?
    late                  \* history: commands executed after the loop flag fell

wpaVars   == <<p2p_find, peers, group, peer, assoc, addr_up>>
mainVars  == <<mac_address, group_name, client_ip, confirms>>
sockVars  == <<listener, link, inbox, time_wait>>
flagVars  == <<connection_is_valid, run_command_loop>>
vars == <<wpaVars, events, main_pc, mainVars, hello, flagVars,
          cmd_pc, conn_pc, sockVars, late>>

(***************************************************************************)
(* Messages of the control interface the driver distinguishes. The age of  *)
(* a message is history: it was queued before the last fresh search        *)
(* ("old"), since then ("group"), or since the client's datagram was       *)
(* received ("session").                                                   *)
(***************************************************************************)
Failures == {"GROUP_FORMATION_FAILURE", "GO_NEG_FAILURE"}
Types    == {"GO_NEG_REQUEST", "GROUP_STARTED", "DEVICE_DISCONNECTED"} \cup Failures
Ages     == {"old", "group", "session"}
Message  == [type : Types, dev : Devices \cup {NoDevice}, age : Ages]

MainPcs == {"start", "poll", "connecting", "hs_bind", "hs_recv", "hs_confirm",
            "enter", "spawn_cmd", "spawn_conn", "join_cmd", "join_conn"}
CmdPcs  == {"idle", "init", "accept", "fail", "check", "select", "close", "done"}
ConnPcs == {"idle", "poll", "stop", "check", "done"}

\* Main thread phases: after the exchange's datagram, and in the connected state.
SessionPcs   == MainPcs \ {"start", "poll", "connecting", "hs_bind", "hs_recv"}
ConnectedPcs == SessionPcs \ {"hs_confirm"}

FlagTypes ==
    /\ p2p_find \in BOOLEAN /\ assoc \in BOOLEAN /\ addr_up \in BOOLEAN
    /\ hello \in BOOLEAN /\ time_wait \in BOOLEAN
    /\ connection_is_valid \in BOOLEAN /\ run_command_loop \in BOOLEAN

DataTypes ==
    /\ peers \in SUBSET Devices
    /\ group \in {"none", "forming", "up"}
    /\ peer \in Devices \cup {NoDevice}
    /\ events \in Seq(Message) /\ Len(events) <= QueueCap
    /\ main_pc \in MainPcs /\ cmd_pc \in CmdPcs /\ conn_pc \in ConnPcs
    /\ mac_address \in Devices \cup {NoDevice}
    /\ group_name \in Devices \cup {NoDevice}
    /\ client_ip \in Devices \cup {NoDevice}
    /\ confirms \in 0..MAX_CONFIRM_MSGS
    /\ listener \in {"closed", "listening", "leaked"}
    /\ link \in {"closed", "queued", "established", "peer_closed"}
    /\ inbox \in 0..MaxCommands
    /\ late \in Nat

\* The type invariant: the flags are Booleans, the control socket holds at most
\* QueueCap messages and every program counter is at a step of its thread.
TypeOK == FlagTypes /\ DataTypes

Init ==
    /\ p2p_find = FALSE
    /\ peers = {}
    /\ group = "none"
    /\ peer = NoDevice
    /\ assoc = FALSE
    /\ addr_up = FALSE
    /\ events = <<>>
    /\ main_pc = "start"
    /\ mac_address = NoDevice
    /\ group_name = NoDevice
    /\ client_ip = NoDevice
    /\ confirms = 0
    /\ hello = FALSE
    /\ connection_is_valid = FALSE
    /\ run_command_loop = FALSE
    /\ cmd_pc = "idle"
    /\ conn_pc = "idle"
    /\ listener = "closed"
    /\ link = "closed"
    /\ inbox = 0
    /\ time_wait = FALSE
    /\ late = 0

-----------------------------------------------------------------------------
(***************************************************************************)
(* wpa_supplicant, the network configuration and the client (external).    *)
(***************************************************************************)
Emit(type, d) ==
    /\ Len(events) < QueueCap
    /\ events' = Append(events, [type |-> type, dev |-> d,
                                 age  |-> IF main_pc \in SessionPcs THEN "session" ELSE "group"])

\* A device asks for GO negotiation: it is heard while we search or own a group.
PeerRequests(d) ==
    /\ p2p_find \/ group = "up"
    /\ Emit("GO_NEG_REQUEST", d)
    /\ peers' = peers \cup {d}
    /\ UNCHANGED <<p2p_find, group, peer, assoc, addr_up, main_pc, mainVars, hello,
                   flagVars, cmd_pc, conn_pc, sockVars, late>>

FormationSucceeds ==
    /\ group = "forming"
    /\ Emit("GROUP_STARTED", peer)
    /\ group' = "up"
    /\ UNCHANGED <<p2p_find, peers, peer, assoc, addr_up, main_pc, mainVars, hello,
                   flagVars, cmd_pc, conn_pc, sockVars, late>>

FormationFails ==
    /\ group = "forming"
    /\ \E f \in Failures : Emit(f, NoDevice)
    /\ group' = "none"
    /\ peer' = NoDevice
    /\ UNCHANGED <<p2p_find, peers, assoc, addr_up, main_pc, mainVars, hello,
                   flagVars, cmd_pc, conn_pc, sockVars, late>>

\* systemd-networkd configures the group interface some time after it exists.
AddressAssigned ==
    /\ group = "up" /\ ~addr_up
    /\ addr_up' = TRUE
    /\ UNCHANGED <<p2p_find, peers, group, peer, assoc, events, main_pc, mainVars,
                   hello, flagVars, cmd_pc, conn_pc, sockVars, late>>

StationJoins ==
    /\ group = "up" /\ ~assoc
    /\ assoc' = TRUE
    /\ UNCHANGED <<p2p_find, peers, group, peer, addr_up, events, main_pc, mainVars,
                   hello, flagVars, cmd_pc, conn_pc, sockVars, late>>

StationLeaves ==
    /\ assoc
    /\ assoc' = FALSE
    /\ Emit("DEVICE_DISCONNECTED", peer)
    /\ UNCHANGED <<p2p_find, peers, group, peer, addr_up, main_pc, mainVars, hello,
                   flagVars, cmd_pc, conn_pc, sockVars, late>>

\* The client's first datagram; without a bound socket it is lost.
ClientHello ==
    /\ assoc /\ main_pc \in {"hs_recv", "hs_confirm"} /\ ~hello
    /\ hello' = TRUE
    /\ UNCHANGED <<wpaVars, events, main_pc, mainVars, flagVars, cmd_pc, conn_pc,
                   sockVars, late>>

\* The kernel completes a TCP connection on any listening socket, leaked or not.
ClientConnects ==
    /\ assoc /\ listener # "closed" /\ link = "closed"
    /\ link' = "queued"
    /\ UNCHANGED <<wpaVars, events, main_pc, mainVars, hello, flagVars, cmd_pc, conn_pc,
                   listener, inbox, time_wait, late>>

ClientSends ==
    /\ assoc /\ link \in {"queued", "established"} /\ inbox < MaxCommands
    /\ inbox' = inbox + 1
    /\ UNCHANGED <<wpaVars, events, main_pc, mainVars, hello, flagVars, cmd_pc, conn_pc,
                   listener, link, time_wait, late>>

ClientCloses ==
    /\ assoc /\ link = "established"
    /\ link' = "peer_closed"
    /\ UNCHANGED <<wpaVars, events, main_pc, mainVars, hello, flagVars, cmd_pc, conn_pc,
                   listener, inbox, time_wait, late>>

TimeWaitExpires ==
    /\ time_wait
    /\ time_wait' = FALSE
    /\ UNCHANGED <<wpaVars, events, main_pc, mainVars, hello, flagVars, cmd_pc, conn_pc,
                   listener, link, inbox, late>>

Environment ==
    \/ \E d \in Devices : PeerRequests(d)
    \/ FormationSucceeds \/ FormationFails \/ AddressAssigned
    \/ StationJoins \/ StationLeaves
    \/ ClientHello \/ ClientConnects \/ ClientSends \/ ClientCloses
    \/ TimeWaitExpires

-----------------------------------------------------------------------------
(***************************************************************************)
(* connect_loop() and connect_to_device().                                 *)
(***************************************************************************)
Aged(evs) == [i \in 1..Len(evs) |-> [evs[i] EXCEPT !.age = "old"]]

\* start_fresh_p2p_search.sh: remove the groups, flush the peer table, search.
\* Removing a group may report the station that was still associated with it.
start_fresh_p2p_search(evs) ==
    /\ p2p_find' = TRUE
    /\ peers' = {}
    /\ group' = "none"
    /\ peer' = NoDevice
    /\ assoc' = FALSE
    /\ addr_up' = FALSE
    /\ \/ events' = Aged(evs)
       \/ /\ assoc /\ Len(evs) < QueueCap
          /\ events' = Append(Aged(evs), [type |-> "DEVICE_DISCONNECTED", dev |-> peer,
                                          age |-> "old"])

\* wpa_cli p2p_connect: refused, with no event at all, for a device that is not
\* in the peer table; otherwise the search stops and a group is formed.
p2p_connect(d) ==
    IF d \in peers
    THEN /\ p2p_find' = FALSE
         /\ group' = "forming"
         /\ peer' = d
         /\ UNCHANGED <<peers, assoc, addr_up>>
    ELSE UNCHANGED wpaVars

connect_loop_start ==
    /\ main_pc = "start"
    /\ start_fresh_p2p_search(events)
    /\ main_pc' = "poll"
    /\ UNCHANGED <<mainVars, hello, flagVars, cmd_pc, conn_pc, sockVars, late>>

\* Mutant: connect_to_device() returns as soon as p2p_connect is sent.
connect_loop_message_no_wait ==
    /\ main_pc = "poll"
    /\ events # <<>>
    /\ events' = Tail(events)
    /\ \/ /\ Head(events).type = "GO_NEG_REQUEST"
          /\ mac_address' = Head(events).dev
          /\ p2p_connect(Head(events).dev)
          /\ main_pc' = "hs_bind"
       \/ /\ Head(events).type # "GO_NEG_REQUEST"
          /\ UNCHANGED <<wpaVars, mac_address, main_pc>>
    /\ UNCHANGED <<group_name, client_ip, confirms, hello, flagVars, cmd_pc, conn_pc,
                   sockVars, late>>

connect_loop_message ==
    /\ main_pc = "poll"
    /\ events # <<>>
    /\ events' = Tail(events)
    /\ \/ /\ Head(events).type = "GO_NEG_REQUEST"
          /\ mac_address' = Head(events).dev
          /\ p2p_connect(Head(events).dev)
          /\ main_pc' = "connecting"
       \/ /\ Head(events).type # "GO_NEG_REQUEST"
          /\ UNCHANGED <<wpaVars, mac_address, main_pc>>
    /\ UNCHANGED <<group_name, client_ip, confirms, hello, flagVars, cmd_pc, conn_pc,
                   sockVars, late>>

\* connect_to_device(): only the outcome of the formation ends the wait; a failed
\* one makes connect_loop() restart the search.
connect_to_device_message ==
    /\ main_pc = "connecting"
    /\ events # <<>>
    /\ \/ /\ Head(events).type = "GROUP_STARTED"
          /\ group_name' = Head(events).dev
          /\ events' = Tail(events)
          /\ main_pc' = "hs_bind"
          /\ UNCHANGED wpaVars
       \/ /\ Head(events).type \in Failures
          /\ start_fresh_p2p_search(Tail(events))
          /\ main_pc' = "poll"
          /\ UNCHANGED group_name
       \/ /\ Head(events).type \notin Failures \cup {"GROUP_STARTED"}
          /\ events' = Tail(events)
          /\ UNCHANGED <<wpaVars, main_pc, group_name>>
    /\ UNCHANGED <<mac_address, client_ip, confirms, hello, flagVars, cmd_pc, conn_pc,
                   sockVars, late>>

-----------------------------------------------------------------------------
(***************************************************************************)
(* udp_connection_handshake(); on failure main() calls connect_loop().     *)
(***************************************************************************)
\* bind() needs an interface that has the address.
HasOurIp == addr_up /\ GROUP_IP = OUR_IP

udp_handshake_bind ==
    /\ main_pc = "hs_bind"
    /\ main_pc' = IF HasOurIp THEN "hs_recv" ELSE "start"
    /\ UNCHANGED <<wpaVars, events, mainVars, hello, flagVars, cmd_pc, conn_pc, sockVars,
                   late>>

\* Mutant: the address of the first client is kept for the later ones.
udp_handshake_recv_keeps_client ==
    /\ main_pc = "hs_recv"
    /\ hello
    /\ hello' = FALSE
    /\ client_ip' = IF client_ip = NoDevice THEN peer ELSE client_ip
    /\ confirms' = 0
    /\ main_pc' = "hs_confirm"
    /\ UNCHANGED <<wpaVars, events, mac_address, group_name, flagVars, cmd_pc, conn_pc,
                   sockVars, late>>

\* recvfrom() returned the client's datagram: note its source address.
udp_handshake_recv ==
    /\ main_pc = "hs_recv"
    /\ hello
    /\ hello' = FALSE
    /\ client_ip' = peer
    /\ confirms' = 0
    /\ main_pc' = "hs_confirm"
    /\ UNCHANGED <<wpaVars, events, mac_address, group_name, flagVars, cmd_pc, conn_pc,
                   sockVars, late>>

\* recvfrom() failed: the socket is closed and the exchange fails.
udp_handshake_recv_error ==
    /\ main_pc = "hs_recv"
    /\ hello' = FALSE
    /\ main_pc' = "start"
    /\ UNCHANGED <<wpaVars, events, mainVars, flagVars, cmd_pc, conn_pc, sockVars, late>>

\* One confirmation (250 ms apart, its delivery is not checked); after the last
\* one the socket is closed and whatever is queued on it is gone.
udp_handshake_confirm ==
    /\ main_pc = "hs_confirm"
    /\ confirms' = confirms + 1
    /\ \/ /\ confirms' < MAX_CONFIRM_MSGS
          /\ UNCHANGED <<main_pc, hello>>
       \/ /\ confirms' = MAX_CONFIRM_MSGS
          /\ main_pc' = "enter"
          /\ hello' = FALSE
    /\ UNCHANGED <<wpaVars, events, mac_address, group_name, client_ip, flagVars, cmd_pc,
                   conn_pc, sockVars, late>>

-----------------------------------------------------------------------------
(***************************************************************************)
(* enter_connected_state(): set the flag, spawn both threads, join both.   *)
(***************************************************************************)
\* Mutant: messages still unread are dropped before the session starts.
enter_connected_state_flushes ==
    /\ main_pc = "enter"
    /\ run_command_loop' = TRUE
    /\ events' = <<>>
    /\ main_pc' = "spawn_cmd"
    /\ UNCHANGED <<wpaVars, mainVars, hello, connection_is_valid, cmd_pc, conn_pc,
                   sockVars, late>>

enter_connected_state ==
    /\ main_pc = "enter"
    /\ run_command_loop' = TRUE
    /\ main_pc' = "spawn_cmd"
    /\ UNCHANGED <<wpaVars, events, mainVars, hello, connection_is_valid, cmd_pc, conn_pc,
                   sockVars, late>>

spawn_command_handler ==
    /\ main_pc = "spawn_cmd"
    /\ cmd_pc' = "init"
    /\ late' = 0
    /\ main_pc' = "spawn_conn"
    /\ UNCHANGED <<wpaVars, events, mainVars, hello, flagVars, conn_pc, sockVars>>

spawn_connection_listener ==
    /\ main_pc = "spawn_conn"
    /\ conn_pc' = "poll"
    /\ main_pc' = "join_cmd"
    /\ UNCHANGED <<wpaVars, events, mainVars, hello, flagVars, cmd_pc, sockVars, late>>

\* Mutant: the command handler is detached instead of joined.
join_command_handler_detached ==
    /\ main_pc = "join_cmd"
    /\ main_pc' = "join_conn"
    /\ UNCHANGED <<wpaVars, events, mainVars, hello, flagVars, cmd_pc, conn_pc, sockVars,
                   late>>

join_command_handler ==
    /\ main_pc = "join_cmd"
    /\ cmd_pc = "done"
    /\ cmd_pc' = "idle"
    /\ main_pc' = "join_conn"
    /\ UNCHANGED <<wpaVars, events, mainVars, hello, flagVars, conn_pc, sockVars, late>>

\* Mutant: the connection listener is not joined.
join_connection_listener_detached ==
    /\ main_pc = "join_conn"
    /\ main_pc' = "start"
    /\ UNCHANGED <<wpaVars, events, mainVars, hello, flagVars, cmd_pc, conn_pc, sockVars,
                   late>>

join_connection_listener ==
    /\ main_pc = "join_conn"
    /\ conn_pc = "done"
    /\ conn_pc' = "idle"
    /\ main_pc' = "start"
    /\ UNCHANGED <<wpaVars, events, mainVars, hello, flagVars, cmd_pc, sockVars, late>>

-----------------------------------------------------------------------------
(***************************************************************************)
(* listen_for_commands().                                                  *)
(***************************************************************************)
\* tcp_init_socket(COMMAND_PORT_STR): bind() needs the address and, without
\* SO_REUSEADDR, a port held by no socket and no closed connection; socket() and
\* listen() may fail at any time, and each failure closes what was opened.
CanBind == HasOurIp /\ listener = "closed" /\ ~time_wait

listen_for_commands_init ==
    /\ cmd_pc = "init"
    /\ \/ CanBind /\ listener' = "listening" /\ cmd_pc' = "accept"
       \/ cmd_pc' = "fail" /\ UNCHANGED listener
    /\ UNCHANGED <<wpaVars, events, main_pc, mainVars, hello, flagVars, conn_pc, link,
                   inbox, time_wait, late>>

listen_for_commands_accept ==
    /\ cmd_pc = "accept"
    /\ link = "queued"
    /\ link' = "established"
    /\ cmd_pc' = "check"
    /\ UNCHANGED <<wpaVars, events, main_pc, mainVars, hello, flagVars, conn_pc, listener,
                   inbox, time_wait, late>>

\* accept() hands over the error pending on the queued connection: the caller gets
\* NLOS_SOCKET_ERR and nobody closes the listening socket.
listen_for_commands_accept_error ==
    /\ cmd_pc = "accept"
    /\ link = "queued"
    /\ link' = "closed"
    /\ inbox' = 0
    /\ listener' = "leaked"
    /\ cmd_pc' = "fail"
    /\ UNCHANGED <<wpaVars, events, main_pc, mainVars, hello, flagVars, conn_pc, time_wait,
                   late>>

\* Mutant: the handler gives up without clearing the flag.
listen_for_commands_fail_keeps_flag ==
    /\ cmd_pc = "fail"
    /\ cmd_pc' = "done"
    /\ UNCHANGED <<wpaVars, events, main_pc, mainVars, hello, flagVars, conn_pc, sockVars,
                   late>>

listen_for_commands_fail ==
    /\ cmd_pc = "fail"
    /\ run_command_loop' = FALSE
    /\ cmd_pc' = "done"
    /\ UNCHANGED <<wpaVars, events, main_pc, mainVars, hello, connection_is_valid, conn_pc,
                   sockVars, late>>

\* run_placeholder = is_listening_for_commands()
listen_for_commands_check ==
    /\ cmd_pc = "check"
    /\ cmd_pc' = IF run_command_loop THEN "select" ELSE "close"
    /\ UNCHANGED <<wpaVars, events, main_pc, mainVars, hello, flagVars, conn_pc, sockVars,
                   late>>

\* Mutant: recv() is repeated while data is there, without a look at the flag.
listen_for_commands_recv_drains ==
    /\ cmd_pc = "select"
    /\ \E n \in 1..inbox : inbox' = inbox - n
    /\ late' = IF run_command_loop THEN late ELSE late + 1
    /\ cmd_pc' = IF inbox' > 0 THEN "select" ELSE "check"
    /\ UNCHANGED <<wpaVars, events, main_pc, mainVars, hello, flagVars, conn_pc, listener,
                   link, time_wait>>

\* select() reported data: one recv(), whose first command is executed.
listen_for_commands_recv ==
    /\ cmd_pc = "select"
    /\ \E n \in 1..inbox : inbox' = inbox - n
    /\ late' = IF run_command_loop THEN late ELSE late + 1
    /\ cmd_pc' = "check"
    /\ UNCHANGED <<wpaVars, events, main_pc, mainVars, hello, flagVars, conn_pc, listener,
                   link, time_wait>>

\* select() timed out after COMMAND_SOCKET_TIMEOUT, or recv() returned 0.
listen_for_commands_idle ==
    /\ cmd_pc = "select"
    /\ inbox = 0
    /\ cmd_pc' = "check"
    /\ UNCHANGED <<wpaVars, events, main_pc, mainVars, hello, flagVars, conn_pc, sockVars,
                   late>>

\* Mutant: close(sock_fd) is missing.
listen_for_commands_close_leaks ==
    /\ cmd_pc = "close"
    /\ link' = "closed"
    /\ inbox' = 0
    /\ \/ inbox = 0 /\ time_wait' = TRUE
       \/ (inbox > 0 \/ link = "peer_closed") /\ time_wait' = FALSE
    /\ cmd_pc' = "done"
    /\ UNCHANGED <<wpaVars, events, main_pc, mainVars, hello, flagVars, conn_pc, listener,
                   late>>

\* close(new_fd); close(sock_fd). A connection that we close first holds the port
\* (TIME_WAIT), one the client closed first may (LAST_ACK); unread data turns the
\* close into a reset, which holds nothing.
listen_for_commands_close ==
    /\ cmd_pc = "close"
    /\ listener' = "closed"
    /\ link' = "closed"
    /\ inbox' = 0
    /\ \/ inbox = 0 /\ time_wait' = TRUE
       \/ (inbox > 0 \/ link = "peer_closed") /\ time_wait' = FALSE
    /\ cmd_pc' = "done"
    /\ UNCHANGED <<wpaVars, events, main_pc, mainVars, hello, flagVars, conn_pc, late>>

-----------------------------------------------------------------------------
(***************************************************************************)
(* connected_loop().                                                       *)
(***************************************************************************)
connected_loop_message ==
    /\ conn_pc = "poll"
    /\ events # <<>>
    /\ events' = Tail(events)
    /\ \/ /\ Head(events).type = "DEVICE_DISCONNECTED"
          /\ connection_is_valid' = FALSE
          /\ conn_pc' = "stop"
       \/ /\ Head(events).type # "DEVICE_DISCONNECTED"
          /\ conn_pc' = "check"
          /\ UNCHANGED connection_is_valid
    /\ UNCHANGED <<wpaVars, main_pc, mainVars, hello, run_command_loop, cmd_pc, sockVars,
                   late>>

connected_loop_idle ==
    /\ conn_pc = "poll"
    /\ events = <<>>
    /\ conn_pc' = "check"
    /\ UNCHANGED <<wpaVars, events, main_pc, mainVars, hello, flagVars, cmd_pc, sockVars,
                   late>>

\* Mutant: connected_loop() returns on a disconnection without clearing the flag.
connected_loop_stop_keeps_flag ==
    /\ conn_pc = "stop"
    /\ conn_pc' = "done"
    /\ UNCHANGED <<wpaVars, events, main_pc, mainVars, hello, flagVars, cmd_pc, sockVars,
                   late>>

connected_loop_stop ==
    /\ conn_pc = "stop"
    /\ run_command_loop' = FALSE
    /\ conn_pc' = "done"
    /\ UNCHANGED <<wpaVars, events, main_pc, mainVars, hello, connection_is_valid, cmd_pc,
                   sockVars, late>>

connected_loop_check ==
    /\ conn_pc = "check"
    /\ \/ run_command_loop /\ conn_pc' = "poll" /\ UNCHANGED connection_is_valid
       \/ ~run_command_loop /\ conn_pc' = "done" /\ connection_is_valid' = FALSE
    /\ UNCHANGED <<wpaVars, events, main_pc, mainVars, hello, run_command_loop, cmd_pc,
                   sockVars, late>>

-----------------------------------------------------------------------------
Main ==
    \/ connect_loop_start \/ connect_loop_message \/ connect_to_device_message
    \/ udp_handshake_bind \/ udp_handshake_recv \/ udp_handshake_confirm
    \/ enter_connected_state \/ spawn_command_handler \/ spawn_connection_listener
    \/ join_command_handler \/ join_connection_listener

CommandHandler ==
    \/ listen_for_commands_init \/ listen_for_commands_accept
    \/ listen_for_commands_fail \/ listen_for_commands_check
    \/ listen_for_commands_recv \/ listen_for_commands_idle
    \/ listen_for_commands_close

ConnectionListener ==
    \/ connected_loop_message \/ connected_loop_idle
    \/ connected_loop_stop \/ connected_loop_check

SocketErrors == udp_handshake_recv_error \/ listen_for_commands_accept_error

Next == Main \/ CommandHandler \/ ConnectionListener \/ SocketErrors \/ Environment

(***************************************************************************)
(* The OS schedules every runnable thread; a formation ends one way or the *)
(* other (wpa_supplicant times it out and queues the report until the      *)
(* socket has room); networkd configures an interface that stays up;       *)
(* TIME_WAIT ends. Nothing is assumed of the client or of socket errors.   *)
(***************************************************************************)
Fairness ==
    /\ WF_vars(Main)
    /\ WF_vars(CommandHandler)
    /\ WF_vars(ConnectionListener)
    /\ SF_vars(FormationSucceeds \/ FormationFails)
    /\ WF_vars(AddressAssigned)
    /\ WF_vars(TimeWaitExpires)

Spec == Init /\ [][Next]_vars /\ Fairness

-----------------------------------------------------------------------------
(***************************************************************************)
(* Safety                                                                  *)
(***************************************************************************)
Queued(type) == \E i \in 1..Len(events) : events[i].type = type

\* enter_connected_state() returns only with everything it started taken down: as
\* soon as main() is back in connect_loop() neither thread runs, so the control
\* socket has one reader, and no command connection is left open.
SessionTornDown ==
    main_pc \notin ConnectedPcs =>
        /\ cmd_pc = "idle" /\ conn_pc = "idle"
        /\ listener # "listening" /\ link \notin {"established", "peer_closed"}

\* The loop flag cannot be raised again behind the command handler's back: once the
\* handler has finished, whatever the order of the threads, the flag is down, so
\* connected_loop() does not keep running on its own.
FlagFallsWithHandler ==
    cmd_pc = "done" \/ main_pc = "join_conn" => ~run_command_loop

\* The client the connected state serves is the device the GO negotiation was
\* accepted for, and it is the one the group was formed with: no message left over
\* from an earlier attempt mixes two devices up.
ServesNegotiatedDevice ==
    main_pc \in ConnectedPcs =>
        /\ group = "up"
        /\ mac_address # NoDevice
        /\ client_ip = mac_address /\ group_name = mac_address /\ peer = mac_address

\* No disconnection is lost: if the client is gone while the connected state is
\* being set up or is running, an AP-STA-DISCONNECTED is still unread or
\* connected_loop() is already on its way out. The messages connect_to_device()
\* throws away never include one.
NoDisconnectLost ==
    main_pc \in SessionPcs /\ ~assoc =>
        Queued("DEVICE_DISCONNECTED") \/ conn_pc \in {"stop", "done"}

\* Clearing the flag stops the hardware from being driven: at most the one command
\* whose select() was already past the check is executed afterwards.
AtMostOneLateCommand == late <= 1

\* A disconnection reported before the current fresh search (one of the previous
\* client, or of the group the script removed) never ends the present session.
FreshDisconnect ==
    [][conn_pc = "poll" /\ conn_pc' = "stop" => Head(events).age # "old"]_vars

-----------------------------------------------------------------------------
(***************************************************************************)
(* Liveness                                                                *)
(***************************************************************************)
\* When the command socket cannot be opened or accepted on, both threads end and the
\* driver is back at advertising.
SocketFailureReopensSearch == cmd_pc = "fail" ~> main_pc = "start"

\* Once the client has connected to the command port, its leaving the group takes
\* the driver back to advertising, whatever else is queued.
DisconnectReopensSearch ==
    main_pc \in ConnectedPcs /\ cmd_pc \in {"check", "select"} /\ ~assoc ~> main_pc = "start"

\* As long as accept() never fails, and socket() and listen() not for ever, no sequence of
\* sessions locks the driver out of its own command port: TIME_WAIT only postpones the next
\* success.
CommandPortComesBack ==
    /\ [](listener # "leaked") /\ []<>(cmd_pc = "init")
    /\ <>[][CanBind /\ listen_for_commands_init => cmd_pc' = "accept"]_vars
    => []<>(cmd_pc = "accept")

(***************************************************************************)
(* A claim of the code's comments that its behaviour does not bear out.    *)
(***************************************************************************)
\* command_handler.cpp: "If run_command_loop is false, this function will finish
\* properly." accept() is not woken by the flag.
HandlerFinishesWhenFlagFalls ==
    cmd_pc # "idle" /\ conn_pc = "done" ~> cmd_pc \in {"done", "idle"}
=============================================================================
