--------------------------- MODULE P2PDriver_proofs ---------------------------
(***************************************************************************)
(* Machine-checked proofs about P2PDriver, for every set of devices, every *)
(* queue bound and every number of confirmations.                          *)
(***************************************************************************)
EXTENDS P2PDriverInvariant, TLAPS

-----------------------------------------------------------------------------
(***************************************************************************)
(* Type correctness                                                        *)
(***************************************************************************)
\* The operations on the control socket's queue keep it a queue of messages.
LEMMA QueueTypes ==
    ASSUME NEW q \in Seq(Message), NEW m \in Message
    PROVE  /\ Append(q, m) \in Seq(Message) /\ Len(Append(q, m)) = Len(q) + 1
           /\ Aged(q) \in Seq(Message) /\ Len(Aged(q)) = Len(q)
           /\ q # <<>> => /\ Head(q) \in Message
                          /\ Tail(q) \in Seq(Message) /\ Len(Tail(q)) = Len(q) - 1
<1>1. Append(q, m) \in Seq(Message) /\ Len(Append(q, m)) = Len(q) + 1
  OBVIOUS
<1>2. \A i \in 1..Len(q) : [q[i] EXCEPT !.age = "old"] \in Message
  <2>1. ASSUME NEW r \in Message PROVE [r EXCEPT !.age = "old"] \in Message
    BY DEF Message, Ages
  <2> QED
    BY <2>1
<1>3. Aged(q) \in Seq(Message) /\ Len(Aged(q)) = Len(q)
  BY <1>2 DEF Aged
<1>4. ASSUME q # <<>>
      PROVE  Head(q) \in Message /\ Tail(q) \in Seq(Message) /\ Len(Tail(q)) = Len(q) - 1
  BY <1>4
<1> QED
  BY <1>1, <1>3, <1>4

\* wpa_supplicant's reports are well typed and respect the queue's bound.
LEMMA EmitType ==
    ASSUME DataTypes, NEW type \in Types, NEW d \in Devices \cup {NoDevice}, Emit(type, d)
    PROVE  events' \in Seq(Message) /\ Len(events') <= QueueCap
<1> DEFINE m == [type |-> type, dev |-> d,
                 age |-> IF main_pc \in SessionPcs THEN "session" ELSE "group"]
<1>1. m \in Message
  BY DEF Message, Ages
<1>2. events' = Append(events, m) /\ Len(events) < QueueCap
  BY DEF Emit
<1>3. events \in Seq(Message) /\ QueueCap \in Nat
  BY BoundsAssumption DEF DataTypes
<1> HIDE DEF m
<1> QED
  BY <1>1, <1>2, <1>3, QueueTypes

\* The fresh search leaves wpa_supplicant's state and the queue well typed.
LEMMA SearchType ==
    ASSUME DataTypes, NEW q \in Seq(Message), Len(q) <= QueueCap, start_fresh_p2p_search(q)
    PROVE  /\ peers' \in SUBSET Devices
           /\ group' \in {"none", "forming", "up"} /\ peer' \in Devices \cup {NoDevice}
           /\ events' \in Seq(Message) /\ Len(events') <= QueueCap
<1> DEFINE m == [type |-> "DEVICE_DISCONNECTED", dev |-> peer, age |-> "old"]
<1>1. m \in Message
  BY DEF Message, Ages, Types, DataTypes
<1>2. \/ events' = Aged(q)
      \/ Len(q) < QueueCap /\ events' = Append(Aged(q), m)
  BY DEF start_fresh_p2p_search
<1> HIDE DEF m
<1>3. Aged(q) \in Seq(Message) /\ Len(Aged(q)) = Len(q)
  BY <1>1, QueueTypes
<1>4. Append(Aged(q), m) \in Seq(Message) /\ Len(Append(Aged(q), m)) = Len(q) + 1
  BY <1>1, <1>3, QueueTypes
<1>5. events' \in Seq(Message) /\ Len(events') <= QueueCap
  BY <1>2, <1>3, <1>4, BoundsAssumption
<1> QED
  BY <1>5 DEF start_fresh_p2p_search

LEMMA TypeInit == Init => TypeOK
<1>1. Init => FlagTypes
  BY Zenon DEF Init, FlagTypes
<1>2. Init => DataTypes
  BY BoundsAssumption DEF Init, DataTypes, MainPcs, CmdPcs, ConnPcs
<1> QED
  BY <1>1, <1>2 DEF TypeOK

\* The Boolean flags stay Boolean.
LEMMA FlagTypesNext == FlagTypes /\ [Next]_vars => FlagTypes'
<1> SUFFICES ASSUME FlagTypes, [Next]_vars PROVE FlagTypes'
  OBVIOUS
<1> USE DEF FlagTypes, wpaVars, mainVars, flagVars, sockVars
<1>1. CASE Environment
  BY <1>1, Zenon DEF Environment, PeerRequests, FormationSucceeds, FormationFails,
     AddressAssigned, StationJoins, StationLeaves, ClientHello, ClientConnects, ClientSends,
     ClientCloses, TimeWaitExpires
<1>2. CASE connect_loop_start \/ connect_loop_message \/ connect_to_device_message
  BY <1>2, Zenon DEF connect_loop_start, connect_loop_message, connect_to_device_message,
     start_fresh_p2p_search, p2p_connect
<1>3. CASE udp_handshake_bind \/ udp_handshake_recv \/ udp_handshake_confirm
              \/ udp_handshake_recv_error
  BY <1>3, Zenon DEF udp_handshake_bind, udp_handshake_recv, udp_handshake_confirm,
     udp_handshake_recv_error
<1>4. CASE enter_connected_state \/ spawn_command_handler \/ spawn_connection_listener
              \/ join_command_handler \/ join_connection_listener
  BY <1>4, Zenon DEF enter_connected_state, spawn_command_handler, spawn_connection_listener,
     join_command_handler, join_connection_listener
<1>5. CASE CommandHandler \/ listen_for_commands_accept_error
  BY <1>5, Zenon DEF CommandHandler, listen_for_commands_init, listen_for_commands_accept,
     listen_for_commands_accept_error, listen_for_commands_fail, listen_for_commands_check,
     listen_for_commands_recv, listen_for_commands_idle, listen_for_commands_close
<1>6. CASE ConnectionListener
  BY <1>6, Zenon DEF ConnectionListener, connected_loop_message, connected_loop_idle,
     connected_loop_stop, connected_loop_check
<1>7. CASE UNCHANGED vars
  BY <1>7, Zenon DEF vars
<1> QED
  BY <1>1, <1>2, <1>3, <1>4, <1>5, <1>6, <1>7 DEF Next, Main, SocketErrors

\* Steps of the environment preserve the type invariant.
LEMMA TypeEnvironment == DataTypes /\ Environment => DataTypes'
<1> SUFFICES ASSUME DataTypes, Environment PROVE DataTypes'
  OBVIOUS
<1>1. ASSUME NEW d \in Devices, PeerRequests(d) PROVE DataTypes'
  BY <1>1, EmitType DEF PeerRequests, DataTypes, Types, mainVars, flagVars, sockVars
<1>2. CASE FormationSucceeds
  <2>1. peer \in Devices \cup {NoDevice}
    BY DEF DataTypes
  <2> QED
    BY <1>2, <2>1, EmitType DEF FormationSucceeds, DataTypes, Types, mainVars, flagVars, sockVars
<1>3. CASE FormationFails
  BY <1>3, EmitType DEF FormationFails, DataTypes, Types, Failures, mainVars, flagVars, sockVars
<1>4. CASE StationLeaves
  BY <1>4, EmitType DEF StationLeaves, DataTypes, Types, mainVars, flagVars, sockVars
<1>5. CASE AddressAssigned \/ StationJoins \/ ClientHello \/ ClientConnects \/ ClientCloses
              \/ TimeWaitExpires
  BY <1>5 DEF AddressAssigned, StationJoins, ClientHello, ClientConnects, ClientCloses,
              TimeWaitExpires, DataTypes, wpaVars, mainVars, flagVars, sockVars
<1>6. CASE ClientSends
  BY <1>6, BoundsAssumption DEF ClientSends, DataTypes, wpaVars, mainVars, flagVars
<1> QED
  BY <1>1, <1>2, <1>3, <1>4, <1>5, <1>6 DEF Environment

\* Steps of the main thread preserve the type invariant.
LEMMA TypeMain == DataTypes /\ (Main \/ udp_handshake_recv_error) => DataTypes'
<1> SUFFICES ASSUME DataTypes, Main \/ udp_handshake_recv_error PROVE DataTypes'
  OBVIOUS
<1> USE DEF wpaVars, mainVars, flagVars, sockVars
<1>q. ASSUME events # <<>>
      PROVE  Head(events) \in Message /\ Tail(events) \in Seq(Message)
             /\ Len(Tail(events)) <= QueueCap
  BY <1>q, QueueTypes, BoundsAssumption DEF DataTypes
<1>1. CASE connect_loop_start
  <2>1. events \in Seq(Message) /\ Len(events) <= QueueCap
    BY DEF DataTypes
  <2> QED
    BY <1>1, <2>1, SearchType DEF connect_loop_start, DataTypes, MainPcs
<1>2. CASE connect_loop_message
  <2>1. Head(events).dev \in Devices \cup {NoDevice}
    BY <1>2, <1>q DEF connect_loop_message, Message
  <2>2. CASE Head(events).type = "GO_NEG_REQUEST"
    BY <1>2, <2>1, <2>2, <1>q DEF connect_loop_message, p2p_connect, DataTypes, MainPcs
  <2>3. CASE Head(events).type # "GO_NEG_REQUEST"
    BY <1>2, <2>3, <1>q DEF connect_loop_message, DataTypes
  <2> QED
    BY <2>2, <2>3
<1>3. CASE connect_to_device_message
  <2>1. Head(events).dev \in Devices \cup {NoDevice}
    BY <1>3, <1>q DEF connect_to_device_message, Message
  <2>2. CASE Head(events).type \in Failures
    BY <1>3, <2>2, <1>q, SearchType DEF connect_to_device_message, DataTypes, MainPcs, Failures
  <2>3. CASE Head(events).type \notin Failures
    BY <1>3, <2>1, <2>3, <1>q DEF connect_to_device_message, DataTypes, MainPcs
  <2> QED
    BY <2>2, <2>3
<1>4. CASE udp_handshake_bind \/ udp_handshake_recv \/ udp_handshake_recv_error
  BY <1>4, BoundsAssumption
     DEF udp_handshake_bind, udp_handshake_recv, udp_handshake_recv_error, DataTypes, MainPcs
<1>5. CASE udp_handshake_confirm
  BY <1>5, BoundsAssumption DEF udp_handshake_confirm, DataTypes, MainPcs
<1>6. CASE enter_connected_state \/ spawn_command_handler \/ spawn_connection_listener
              \/ join_command_handler \/ join_connection_listener
  BY <1>6 DEF enter_connected_state, spawn_command_handler, spawn_connection_listener,
              join_command_handler, join_connection_listener, DataTypes, MainPcs, CmdPcs, ConnPcs
<1> QED
  BY <1>1, <1>2, <1>3, <1>4, <1>5, <1>6 DEF Main

\* Steps of the two threads of the connected state preserve the type invariant.
LEMMA TypeThreads ==
    DataTypes /\ (CommandHandler \/ listen_for_commands_accept_error \/ ConnectionListener) => DataTypes'
<1> SUFFICES ASSUME DataTypes,
                    CommandHandler \/ listen_for_commands_accept_error \/ ConnectionListener
             PROVE  DataTypes'
  OBVIOUS
<1> USE DEF wpaVars, mainVars, flagVars, sockVars
<1>1. CASE listen_for_commands_init \/ listen_for_commands_accept \/ listen_for_commands_fail
              \/ listen_for_commands_check \/ listen_for_commands_idle
  BY <1>1 DEF listen_for_commands_init, listen_for_commands_accept, listen_for_commands_fail,
              listen_for_commands_check, listen_for_commands_idle, DataTypes, CmdPcs
<1>2. CASE listen_for_commands_accept_error \/ listen_for_commands_close
  BY <1>2, BoundsAssumption
     DEF listen_for_commands_accept_error, listen_for_commands_close, DataTypes, CmdPcs
<1>3. CASE listen_for_commands_recv
  BY <1>3, BoundsAssumption DEF listen_for_commands_recv, DataTypes, CmdPcs
<1>4. CASE connected_loop_message
  <2>1. Tail(events) \in Seq(Message) /\ Len(Tail(events)) <= QueueCap
    BY <1>4, QueueTypes, BoundsAssumption DEF connected_loop_message, DataTypes
  <2> QED
    BY <1>4, <2>1 DEF connected_loop_message, DataTypes, ConnPcs
<1>5. CASE connected_loop_idle \/ connected_loop_stop \/ connected_loop_check
  BY <1>5 DEF connected_loop_idle, connected_loop_stop, connected_loop_check, DataTypes, ConnPcs
<1> QED
  BY <1>1, <1>2, <1>3, <1>4, <1>5 DEF CommandHandler, ConnectionListener

\* Every step of the system preserves the type invariant.
LEMMA TypeNext == TypeOK /\ [Next]_vars => TypeOK'
<1>1. ASSUME DataTypes, UNCHANGED vars PROVE DataTypes'
  BY <1>1 DEF DataTypes, vars, wpaVars, mainVars, flagVars, sockVars
<1> QED
  BY <1>1, FlagTypesNext, TypeEnvironment, TypeMain, TypeThreads DEF Next, SocketErrors, TypeOK

\* Every variable of the three threads, the sockets and wpa_supplicant keeps its
\* type, and the queue of the control socket its bound, for all constants.
THEOREM TypeCorrect == Spec => []TypeOK
<1> QED
  BY TypeInit, TypeNext, PTL DEF Spec
-----------------------------------------------------------------------------
(***************************************************************************)
(* The threads and the loop flag                                           *)
(***************************************************************************)
\* The environment and the search, negotiation and exchange of the main thread
\* start and stop no thread and leave the loop flag alone.
LEMMA Bystanders ==
    ASSUME TypeOK,
           \/ Environment \/ connect_loop_start \/ connect_loop_message
           \/ connect_to_device_message \/ udp_handshake_bind \/ udp_handshake_recv
           \/ udp_handshake_recv_error \/ udp_handshake_confirm \/ UNCHANGED vars
    PROVE  /\ UNCHANGED <<cmd_pc, conn_pc, listener, run_command_loop, late>>
           /\ \/ UNCHANGED main_pc
              \/ /\ main_pc \notin ConnectedPcs
                 /\ main_pc' \notin ConnectedPcs \ {"enter"}
           /\ \/ UNCHANGED link
              \/ link = "closed" /\ link' = "queued"
              \/ link = "established" /\ link' = "peer_closed"
<1> USE DEF wpaVars, mainVars, flagVars, sockVars, ConnectedPcs, SessionPcs, MainPcs
<1>1. CASE Environment
  BY <1>1 DEF Environment, PeerRequests, FormationSucceeds, FormationFails, AddressAssigned,
     StationJoins, StationLeaves, ClientHello, ClientConnects, ClientSends, ClientCloses,
     TimeWaitExpires
<1>2. CASE connect_loop_start \/ connect_loop_message \/ connect_to_device_message
  BY <1>2 DEF connect_loop_start, connect_loop_message, connect_to_device_message
<1>3. CASE udp_handshake_bind \/ udp_handshake_recv \/ udp_handshake_recv_error
              \/ udp_handshake_confirm
  BY <1>3 DEF udp_handshake_bind, udp_handshake_recv, udp_handshake_recv_error,
     udp_handshake_confirm
<1>4. CASE UNCHANGED vars
  BY <1>4 DEF vars
<1> QED
  BY <1>1, <1>2, <1>3, <1>4

\* Where the main thread is fixes which threads and sockets exist.
LEMMA ThreadNext == TypeOK /\ ThreadInv /\ [Next]_vars => ThreadInv'
<1> SUFFICES ASSUME TypeOK, ThreadInv, [Next]_vars PROVE ThreadInv'
  OBVIOUS
<1> USE DEF ThreadInv
<1>1. CASE \/ Environment \/ connect_loop_start \/ connect_loop_message
           \/ connect_to_device_message \/ udp_handshake_bind \/ udp_handshake_recv
           \/ udp_handshake_recv_error \/ udp_handshake_confirm \/ UNCHANGED vars
  BY <1>1, Bystanders DEF ConnectedPcs, SessionPcs, MainPcs
<1> USE DEF wpaVars, mainVars, flagVars, sockVars
<1>2. CASE enter_connected_state \/ spawn_command_handler \/ spawn_connection_listener
  BY <1>2 DEF enter_connected_state, spawn_command_handler, spawn_connection_listener
<1>3. CASE join_command_handler \/ join_connection_listener
  BY <1>3 DEF join_command_handler, join_connection_listener
<1>4. CASE CommandHandler \/ listen_for_commands_accept_error
  BY <1>4 DEF CommandHandler, listen_for_commands_init, listen_for_commands_accept,
     listen_for_commands_accept_error, listen_for_commands_fail, listen_for_commands_check,
     listen_for_commands_recv, listen_for_commands_idle, listen_for_commands_close
<1>5. CASE ConnectionListener
  BY <1>5 DEF ConnectionListener, connected_loop_message, connected_loop_idle,
     connected_loop_stop, connected_loop_check
<1> QED
  BY <1>1, <1>2, <1>3, <1>4, <1>5 DEF Next, Main, SocketErrors

\* The flag stays down from the moment a thread takes it down to the next session.
LEMMA FlagNext == TypeOK /\ ThreadInv /\ FlagInv /\ [Next]_vars => FlagInv'
<1> SUFFICES ASSUME TypeOK, ThreadInv, FlagInv, [Next]_vars PROVE FlagInv'
  OBVIOUS
<1>t. late \in Nat
  BY DEF TypeOK, DataTypes
<1> USE DEF FlagInv, ThreadInv
<1>1. CASE \/ Environment \/ connect_loop_start \/ connect_loop_message
           \/ connect_to_device_message \/ udp_handshake_bind \/ udp_handshake_recv
           \/ udp_handshake_recv_error \/ udp_handshake_confirm \/ UNCHANGED vars
  BY <1>1, Bystanders DEF ConnectedPcs, SessionPcs, MainPcs
<1> USE DEF wpaVars, mainVars, flagVars, sockVars
<1>2. CASE enter_connected_state \/ spawn_command_handler \/ spawn_connection_listener
  BY <1>t, <1>2 DEF enter_connected_state, spawn_command_handler, spawn_connection_listener
<1>3. CASE join_command_handler \/ join_connection_listener
  BY <1>t, <1>3 DEF join_command_handler, join_connection_listener
<1>4. CASE listen_for_commands_recv
  BY <1>t, <1>4 DEF listen_for_commands_recv
<1>5. CASE \/ listen_for_commands_init \/ listen_for_commands_accept
           \/ listen_for_commands_accept_error \/ listen_for_commands_fail
           \/ listen_for_commands_check \/ listen_for_commands_idle
           \/ listen_for_commands_close
  BY <1>t, <1>5 DEF listen_for_commands_init, listen_for_commands_accept,
     listen_for_commands_accept_error, listen_for_commands_fail, listen_for_commands_check,
     listen_for_commands_idle, listen_for_commands_close
<1>6. CASE ConnectionListener
  BY <1>t, <1>6 DEF ConnectionListener, connected_loop_message, connected_loop_idle,
     connected_loop_stop, connected_loop_check
<1> QED
  BY <1>1, <1>2, <1>3, <1>4, <1>5, <1>6 DEF Next, Main, CommandHandler, SocketErrors
-----------------------------------------------------------------------------
(***************************************************************************)
(* The messages on the control socket                                      *)
(***************************************************************************)
\* What reading one message does to the queue.
LEMMA ReadFacts ==
    ASSUME NEW q \in Seq(Message), q # <<>>
    PROVE  /\ Len(q) \in Nat /\ Len(q) > 0 /\ Head(q) = q[1]
           /\ Len(Tail(q)) = Len(q) - 1
           /\ \A i \in 1..Len(Tail(q)) : i + 1 \in 1..Len(q) /\ Tail(q)[i] = q[i + 1]
  OBVIOUS

\* What a report of wpa_supplicant does to the queue.
LEMMA EmitFacts ==
    ASSUME TypeOK, NEW type, NEW d, Emit(type, d)
    PROVE  /\ Len(events') = Len(events) + 1 /\ Len(events) \in Nat
           /\ \A i \in 1..Len(events) : events'[i] = events[i]
           /\ events'[Len(events')].type = type
           /\ events'[Len(events')].dev = d
           /\ events'[Len(events')].age # "old"
  BY DEF TypeOK, DataTypes, Emit

\* What a fresh search does to the queue q: all of it is old, and at most the
\* removed group's disconnection is added.
LEMMA SearchFacts ==
    ASSUME TypeOK, NEW q \in Seq(Message), start_fresh_p2p_search(q)
    PROVE  /\ Len(q) \in Nat /\ Len(events') \in {Len(q), Len(q) + 1}
           /\ \A i \in 1..Len(events') :
                 /\ events'[i].age = "old"
                 /\ \/ events'[i].type = "DEVICE_DISCONNECTED"
                    \/ /\ i \in 1..Len(q)
                       /\ events'[i].type = q[i].type /\ events'[i].dev = q[i].dev
           /\ group' = "none" /\ assoc' = FALSE
<1> DEFINE m == [type |-> "DEVICE_DISCONNECTED", dev |-> peer, age |-> "old"]
<1>1. events' = Aged(q) \/ events' = Append(Aged(q), m)
  BY DEF start_fresh_p2p_search
<1>2. /\ Len(q) \in Nat /\ Len(Aged(q)) = Len(q)
      /\ Aged(q) \in Seq(Message) 
      /\ m \in Message
  <2>1. m \in Message
    BY DEF Message, Ages, Types, TypeOK, DataTypes
  <2> QED
    BY <2>1, QueueTypes
<1>3. ASSUME NEW i \in 1..Len(q)
      PROVE  Aged(q)[i].type = q[i].type /\ Aged(q)[i].dev = q[i].dev /\ Aged(q)[i].age = "old"
  <2>1. q[i] \in Message
    OBVIOUS
  <2>2. Aged(q)[i] = [q[i] EXCEPT !.age = "old"]
    BY DEF Aged
  <2> QED
    BY <2>1, <2>2 DEF Message
<1>4. m.type = "DEVICE_DISCONNECTED" /\ m.age = "old"
  OBVIOUS
<1> HIDE DEF m
<1>5. CASE events' = Aged(q)
  BY <1>2, <1>3, <1>5 DEF start_fresh_p2p_search
<1>6. CASE events' = Append(Aged(q), m)
  <2>1. /\ Len(events') = Len(q) + 1 /\ events'[Len(events')] = m
        /\ \A i \in 1..Len(q) : events'[i] = Aged(q)[i]
    BY <1>2, <1>6
  <2> QED
    BY <1>2, <1>3, <1>4, <2>1 DEF start_fresh_p2p_search
<1> QED
  BY <1>1, <1>5, <1>6

\* A step of the main thread that stays outside the search and the negotiation.
Quiet ==
    \/ UNCHANGED main_pc
    \/ /\ main_pc \notin {"start", "poll", "connecting"}
       /\ main_pc' \notin {"poll", "connecting"}
       /\ main_pc' \in SessionPcs => main_pc \in SessionPcs

\* The few actions that touch the queue, the group or the record of the device, and
\* what all the others leave alone.
LEMMA StepKinds ==
    [Next]_vars =>
        \/ \E d \in Devices : PeerRequests(d)
        \/ FormationSucceeds \/ FormationFails \/ StationJoins \/ StationLeaves
        \/ connect_loop_start \/ connect_loop_message \/ connect_to_device_message
        \/ udp_handshake_recv \/ connected_loop_message
        \/ /\ UNCHANGED <<group, peer, assoc, events, mac_address, group_name, client_ip>>
           /\ Quiet
<1> SUFFICES ASSUME [Next]_vars
             PROVE \/ \E d \in Devices : PeerRequests(d)
                   \/ FormationSucceeds \/ FormationFails \/ StationJoins \/ StationLeaves
                   \/ connect_loop_start \/ connect_loop_message \/ connect_to_device_message
                   \/ udp_handshake_recv \/ connected_loop_message
                   \/ /\ UNCHANGED <<group, peer, assoc, events, mac_address, group_name,
                                     client_ip>>
                      /\ Quiet
  OBVIOUS
<1> USE DEF wpaVars, mainVars, flagVars, sockVars, Quiet, SessionPcs, MainPcs
<1>1. CASE Environment
  BY <1>1 DEF Environment, AddressAssigned, ClientHello, ClientConnects, ClientSends,
     ClientCloses, TimeWaitExpires
<1>2. CASE Main \/ udp_handshake_recv_error
  BY <1>2 DEF Main, udp_handshake_bind, udp_handshake_recv_error, udp_handshake_confirm,
     enter_connected_state, spawn_command_handler, spawn_connection_listener,
     join_command_handler, join_connection_listener
<1>3. CASE CommandHandler \/ listen_for_commands_accept_error
  BY <1>3 DEF CommandHandler, listen_for_commands_init, listen_for_commands_accept,
     listen_for_commands_accept_error, listen_for_commands_fail, listen_for_commands_check,
     listen_for_commands_recv, listen_for_commands_idle, listen_for_commands_close
<1>4. CASE ConnectionListener
  BY <1>4 DEF ConnectionListener, connected_loop_idle, connected_loop_stop,
     connected_loop_check
<1>5. CASE UNCHANGED vars
  BY <1>5 DEF vars
<1> QED
  BY <1>1, <1>2, <1>3, <1>4, <1>5 DEF Next, SocketErrors

\* At most one outcome of a formation is queued, and it is the current one.
LEMMA OutcomeNext == TypeOK /\ ThreadInv /\ OutcomeInv /\ [Next]_vars => OutcomeInv'
<1> SUFFICES ASSUME TypeOK, ThreadInv, OutcomeInv, [Next]_vars PROVE OutcomeInv'
  OBVIOUS
<1> USE DEF wpaVars, mainVars, flagVars, sockVars
<1>q. events \in Seq(Message) /\ Len(events) \in Nat
  BY DEF TypeOK, DataTypes
<1>1. ASSUME NEW d \in Devices, PeerRequests(d) PROVE OutcomeInv'
  BY <1>1, EmitFacts DEF PeerRequests, OutcomeInv, Outcomes, Failures, Queued
<1>2. CASE StationLeaves
  BY <1>2, EmitFacts DEF StationLeaves, OutcomeInv, Outcomes, Failures, Queued
<1>3. CASE FormationSucceeds
  BY <1>3, EmitFacts DEF FormationSucceeds, OutcomeInv, Outcomes, Failures, Queued
<1>4. CASE FormationFails
  BY <1>4, EmitFacts DEF FormationFails, OutcomeInv, Outcomes, Failures, Queued
<1>5. CASE connect_loop_start
  <2>1. start_fresh_p2p_search(events) /\ main_pc = "start" /\ main_pc' = "poll"
    BY <1>5 DEF connect_loop_start
  <2>2. \A i \in 1..Len(events') : events'[i].type \notin Outcomes
    <3>1. \A i \in 1..Len(events) : events[i].type \notin Outcomes
      BY <2>1 DEF OutcomeInv
    <3>2. \A i \in 1..Len(events') :
             \/ events'[i].type = "DEVICE_DISCONNECTED"
             \/ i \in 1..Len(events) /\ events'[i].type = events[i].type
      BY <1>q, <2>1, SearchFacts
    <3> QED
      BY <3>1, <3>2 DEF Outcomes, Failures
  <2>3. group' = "none"
    BY <2>1 DEF start_fresh_p2p_search
  <2> QED
    BY <2>1, <2>2, <2>3 DEF OutcomeInv
<1>6. CASE connect_loop_message
  <2>1. main_pc = "poll" /\ events # <<>> /\ events' = Tail(events) /\ group = "none"
    BY <1>6 DEF connect_loop_message, OutcomeInv
  <2>2. \A i \in 1..Len(events') : events'[i].type \notin Outcomes
    BY <1>q, <2>1, ReadFacts DEF OutcomeInv
  <2>3. \/ main_pc' = "connecting" /\ group' \in {"none", "forming"}
        \/ main_pc' = "poll" /\ group' = "none"
    BY <1>6, <2>1 DEF connect_loop_message, p2p_connect
  <2> QED
    BY <2>2, <2>3 DEF OutcomeInv
<1>7. CASE connect_to_device_message
  <2>1. Tail(events) \in Seq(Message)
    BY <1>q, <1>7 DEF connect_to_device_message
  <2>2. CASE Head(events).type \in Failures
    <3>1. start_fresh_p2p_search(Tail(events)) /\ main_pc' = "poll" /\ events # <<>>
      BY <1>7, <2>2 DEF connect_to_device_message, Failures
    <3>2. \A i \in 1..Len(Tail(events)) : Tail(events)[i].type \notin Outcomes
      BY <1>q, <2>2, <3>1, ReadFacts DEF OutcomeInv, Outcomes
    <3>3. \A i \in 1..Len(events') : events'[i].type \notin Outcomes
      <4>1. \A i \in 1..Len(events') :
               \/ events'[i].type = "DEVICE_DISCONNECTED"
               \/ /\ i \in 1..Len(Tail(events))
                  /\ events'[i].type = Tail(events)[i].type
        BY <2>1, <3>1, SearchFacts
      <4> QED
        BY <3>2, <4>1 DEF Outcomes, Failures
    <3>4. group' = "none"
      BY <3>1 DEF start_fresh_p2p_search
    <3> QED
      BY <3>1, <3>3, <3>4 DEF OutcomeInv
  <2>3. CASE Head(events).type = "GROUP_STARTED"
    BY <1>q, <1>7, <2>3, ReadFacts
       DEF connect_to_device_message, OutcomeInv, Outcomes, Failures, Queued
  <2>4. CASE Head(events).type \notin Outcomes
    <3>1. /\ events # <<>> /\ events' = Tail(events)
          /\ UNCHANGED <<group, peer, main_pc>> /\ main_pc = "connecting"
      BY <1>7, <2>4 DEF connect_to_device_message, Outcomes
    <3>2. Queued("GROUP_STARTED") => Queued("GROUP_STARTED")'
      <4> SUFFICES ASSUME NEW i \in 1..Len(events), events[i].type = "GROUP_STARTED"
                   PROVE  \E j \in 1..Len(events') : events'[j].type = "GROUP_STARTED"
        BY DEF Queued
      <4>1. i # 1
        BY <1>q, <2>4, <3>1, ReadFacts DEF Outcomes
      <4>2. i - 1 \in 1..Len(events') /\ events'[i - 1] = events[i]
        BY <1>q, <3>1, <4>1, ReadFacts
      <4> QED
        BY <4>2
    <3> QED
      BY <1>q, <3>1, <3>2, ReadFacts DEF OutcomeInv, Outcomes, Failures
  <2> QED
    BY <2>2, <2>3, <2>4 DEF Outcomes
<1>8. CASE connected_loop_message
  <2>1. main_pc # "connecting" /\ main_pc # "poll"
    BY <1>8 DEF connected_loop_message, ThreadInv
  <2> QED
    BY <1>q, <1>8, <2>1, ReadFacts
       DEF connected_loop_message, OutcomeInv, Outcomes, Failures, Queued
<1>9. CASE StationJoins \/ udp_handshake_recv
  BY <1>9 DEF StationJoins, udp_handshake_recv, OutcomeInv, Queued
<1>10. CASE UNCHANGED <<group, peer, assoc, events, mac_address, group_name, client_ip>> /\ Quiet
  BY <1>10 DEF OutcomeInv, Queued, Quiet
<1> QED
  BY <1>1, <1>2, <1>3, <1>4, <1>5, <1>6, <1>7, <1>8, <1>9, <1>10, StepKinds

\* From the negotiation on, every record of the device agrees.
LEMMA DeviceNext == TypeOK /\ ThreadInv /\ OutcomeInv /\ DeviceInv /\ [Next]_vars => DeviceInv'
<1> SUFFICES ASSUME TypeOK, ThreadInv, OutcomeInv, DeviceInv, [Next]_vars PROVE DeviceInv'
  OBVIOUS
<1> USE DEF wpaVars, mainVars, flagVars, sockVars, SearchPcs
<1>q. events \in Seq(Message) /\ Len(events) \in Nat
  BY DEF TypeOK, DataTypes
<1>1. ASSUME NEW d \in Devices, PeerRequests(d) PROVE DeviceInv'
  BY <1>1, EmitFacts DEF PeerRequests, DeviceInv
<1>2. CASE StationLeaves
  BY <1>2, EmitFacts DEF StationLeaves, DeviceInv
<1>3. CASE FormationSucceeds
  BY <1>3, EmitFacts DEF FormationSucceeds, DeviceInv, OutcomeInv, SessionPcs, MainPcs
<1>4. CASE FormationFails
  <2>1. /\ main_pc = "connecting" /\ main_pc' = "connecting" /\ ~assoc /\ group' = "none"
        /\ UNCHANGED <<assoc, mac_address, group_name, client_ip>>
    BY <1>4 DEF FormationFails, OutcomeInv, DeviceInv
  <2>2. PICK f \in Failures : Emit(f, NoDevice)
    BY <1>4 DEF FormationFails
  <2>3. \A i \in 1..Len(events') :
           events'[i].type = "GO_NEG_REQUEST" => events'[i].dev \in Devices
    BY <2>2, EmitFacts DEF DeviceInv, Failures
  <2> QED
    BY <2>1, <2>3 DEF DeviceInv, SessionPcs, MainPcs
<1>5. CASE connect_loop_start
  <2>1. /\ start_fresh_p2p_search(events) /\ main_pc' = "poll" /\ UNCHANGED mac_address
    BY <1>5 DEF connect_loop_start
  <2>2. \A i \in 1..Len(events') :
           \/ events'[i].type = "DEVICE_DISCONNECTED"
           \/ /\ i \in 1..Len(events)
              /\ events'[i].type = events[i].type /\ events'[i].dev = events[i].dev
    BY <1>q, <2>1, SearchFacts
  <2>3. group' = "none" /\ ~assoc'
    BY <1>q, <2>1, SearchFacts
  <2> QED
    BY <2>1, <2>2, <2>3 DEF DeviceInv, SessionPcs, MainPcs
<1>6. CASE connect_loop_message
  <2>1. /\ main_pc = "poll" /\ events # <<>> /\ events' = Tail(events) /\ group = "none"
        /\ UNCHANGED <<group_name, client_ip>>
    BY <1>6 DEF connect_loop_message, OutcomeInv
  <2>2. \A i \in 1..Len(events') :
           events'[i].type = "GO_NEG_REQUEST" => events'[i].dev \in Devices
    BY <1>q, <2>1, ReadFacts DEF DeviceInv
  <2>3. Head(events).type = "GO_NEG_REQUEST" => Head(events).dev \in Devices
    BY <1>q, <2>1, ReadFacts DEF DeviceInv
  <2>4. \/ /\ main_pc' = "connecting" /\ mac_address' \in Devices
           /\ \/ UNCHANGED <<group, assoc>>
              \/ peer' = mac_address' /\ UNCHANGED assoc
        \/ main_pc' = "poll" /\ UNCHANGED <<group, assoc, mac_address>>
    BY <1>6, <2>1, <2>3 DEF connect_loop_message, p2p_connect
  <2> QED
    BY <2>1, <2>2, <2>4 DEF DeviceInv, SessionPcs, MainPcs
<1>7. CASE connect_to_device_message
  <2>1. main_pc = "connecting" /\ events # <<>> /\ UNCHANGED <<mac_address, client_ip>>
    BY <1>7 DEF connect_to_device_message
  <2>2. /\ Tail(events) \in Seq(Message)
        /\ \A i \in 1..Len(Tail(events)) :
             Tail(events)[i].type = "GO_NEG_REQUEST" => Tail(events)[i].dev \in Devices
    BY <1>q, <2>1, ReadFacts DEF DeviceInv
  <2>3. CASE Head(events).type \in Failures
    <3>1. start_fresh_p2p_search(Tail(events)) /\ main_pc' = "poll"
      BY <1>7, <2>3 DEF connect_to_device_message, Failures
    <3>2. \A i \in 1..Len(events') :
             \/ events'[i].type = "DEVICE_DISCONNECTED"
             \/ /\ i \in 1..Len(Tail(events))
                /\ events'[i].type = Tail(events)[i].type
                /\ events'[i].dev = Tail(events)[i].dev
      BY <2>2, <3>1, SearchFacts
    <3>3. group' = "none" /\ ~assoc'
      BY <2>2, <3>1, SearchFacts
    <3> QED
      BY <2>2, <3>1, <3>2, <3>3 DEF DeviceInv, SessionPcs, MainPcs
  <2>4. CASE Head(events).type = "GROUP_STARTED"
    <3>1. group = "up" /\ Head(events).dev = peer
      BY <1>q, <2>1, <2>4, ReadFacts DEF OutcomeInv, Outcomes
    <3>2. /\ events' = Tail(events) /\ group_name' = peer /\ main_pc' = "hs_bind"
          /\ UNCHANGED <<group, peer, assoc>>
      BY <1>7, <2>4, <3>1 DEF connect_to_device_message, Failures
    <3> QED
      BY <2>1, <2>2, <3>1, <3>2 DEF DeviceInv, SessionPcs, MainPcs
  <2>5. CASE Head(events).type \notin Outcomes
    <3>1. /\ events' = Tail(events) /\ UNCHANGED <<main_pc, group_name, group, peer, assoc>>
      BY <1>7, <2>5 DEF connect_to_device_message, Outcomes
    <3> QED
      BY <2>1, <2>2, <3>1 DEF DeviceInv
  <2> QED
    BY <2>3, <2>4, <2>5 DEF Outcomes
<1>8. CASE connected_loop_message
  BY <1>q, <1>8, ReadFacts DEF connected_loop_message, DeviceInv
<1>9. CASE StationJoins
  BY <1>9 DEF StationJoins, DeviceInv
<1>10. CASE udp_handshake_recv
  BY <1>10 DEF udp_handshake_recv, DeviceInv
<1>11. CASE UNCHANGED <<group, peer, assoc, events, mac_address, group_name, client_ip>> /\ Quiet
  BY <1>11 DEF DeviceInv, Quiet, SessionPcs, MainPcs
<1> QED
  BY <1>1, <1>2, <1>3, <1>4, <1>5, <1>6, <1>7, <1>8, <1>9, <1>10, <1>11, StepKinds

\* Messages from before the last fresh search come first on the socket, and are gone
\* when the group's own GROUP_STARTED has been read.
LEMMA AgeNext == TypeOK /\ ThreadInv /\ OutcomeInv /\ AgeInv /\ [Next]_vars => AgeInv'
<1> SUFFICES ASSUME TypeOK, ThreadInv, OutcomeInv, AgeInv, [Next]_vars PROVE AgeInv'
  OBVIOUS
<1> USE DEF wpaVars, mainVars, flagVars, sockVars, SearchPcs
<1>q. events \in Seq(Message) /\ Len(events) \in Nat
  BY DEF TypeOK, DataTypes
<1>r. ASSUME events # <<>>
      PROVE  /\ \A i, j \in 1..Len(Tail(events)) :
                   i < j /\ Tail(events)[j].age = "old" => Tail(events)[i].age = "old"
             /\ \A i \in 1..Len(Tail(events)) :
                   Tail(events)[i].type \in Outcomes => Tail(events)[i].age # "old"
  BY <1>q, <1>r, ReadFacts DEF AgeInv
<1>1. ASSUME NEW type, NEW d, Emit(type, d), UNCHANGED main_pc PROVE AgeInv'
  BY <1>q, <1>1, EmitFacts DEF AgeInv
<1>2. CASE \/ \E d \in Devices : PeerRequests(d)
           \/ StationLeaves \/ FormationSucceeds \/ FormationFails
  BY <1>1, <1>2 DEF PeerRequests, StationLeaves, FormationSucceeds, FormationFails
<1>3. ASSUME NEW q \in Seq(Message), start_fresh_p2p_search(q), main_pc' = "poll",
             \A i \in 1..Len(q) : q[i].type \notin Outcomes
      PROVE  AgeInv'
  <2>1. \A i \in 1..Len(events') :
           /\ events'[i].age = "old"
           /\ \/ events'[i].type = "DEVICE_DISCONNECTED"
              \/ i \in 1..Len(q) /\ events'[i].type = q[i].type
    BY <1>3, SearchFacts
  <2>2. "DEVICE_DISCONNECTED" \notin Outcomes
    BY DEF Outcomes, Failures
  <2> QED
    BY <1>3, <2>1, <2>2 DEF AgeInv
<1>4. CASE connect_loop_start
  BY <1>q, <1>3, <1>4 DEF connect_loop_start, OutcomeInv
<1>5. CASE connect_loop_message
  <2>1. events # <<>> /\ events' = Tail(events) /\ main_pc' \in {"poll", "connecting"}
    BY <1>5 DEF connect_loop_message
  <2> QED
    BY <1>r, <2>1 DEF AgeInv
<1>6. CASE connect_to_device_message
  <2>1. main_pc = "connecting" /\ events # <<>>
    BY <1>6 DEF connect_to_device_message
  <2>2. CASE Head(events).type \in Failures
    <3>1. start_fresh_p2p_search(Tail(events)) /\ main_pc' = "poll"
      BY <1>6, <2>2 DEF connect_to_device_message, Failures
    <3>2. /\ Tail(events) \in Seq(Message)
          /\ \A i \in 1..Len(Tail(events)) : Tail(events)[i].type \notin Outcomes
      BY <1>q, <2>1, <2>2, ReadFacts DEF OutcomeInv, Outcomes
    <3> QED
      BY <1>3, <3>1, <3>2
  <2>3. CASE Head(events).type = "GROUP_STARTED"
    <3>1. events' = Tail(events) /\ main_pc' = "hs_bind"
      BY <1>6, <2>3 DEF connect_to_device_message, Failures
    <3>2. \A i \in 1..Len(Tail(events)) : Tail(events)[i].age # "old"
      BY <1>q, <2>1, <2>3, ReadFacts DEF AgeInv, Outcomes
    <3> QED
      BY <1>r, <2>1, <3>1, <3>2 DEF AgeInv
  <2>4. CASE Head(events).type \notin Outcomes
    <3>1. events' = Tail(events) /\ UNCHANGED main_pc
      BY <1>6, <2>4 DEF connect_to_device_message, Outcomes
    <3> QED
      BY <1>r, <2>1, <3>1 DEF AgeInv
  <2> QED
    BY <2>2, <2>3, <2>4 DEF Outcomes
<1>7. CASE connected_loop_message
  BY <1>q, <1>7, <1>r, ReadFacts DEF connected_loop_message, AgeInv
<1>8. CASE StationJoins \/ udp_handshake_recv
  BY <1>8 DEF StationJoins, udp_handshake_recv, AgeInv
<1>9. CASE UNCHANGED <<group, peer, assoc, events, mac_address, group_name, client_ip>> /\ Quiet
  BY <1>9 DEF AgeInv, Quiet
<1> QED
  BY <1>2, <1>4, <1>5, <1>6, <1>7, <1>8, <1>9, StepKinds

\* A client that is gone has left an unread disconnection behind.
LEMMA DisconnectNext ==
    TypeOK /\ ThreadInv /\ DeviceInv /\ DisconnectInv /\ [Next]_vars => DisconnectInv'
<1> SUFFICES ASSUME TypeOK, ThreadInv, DeviceInv, DisconnectInv, [Next]_vars
             PROVE  DisconnectInv'
  OBVIOUS
<1> USE DEF wpaVars, mainVars, flagVars, sockVars
<1>q. events \in Seq(Message) /\ Len(events) \in Nat
  BY DEF TypeOK, DataTypes
<1>e. ASSUME NEW type, NEW d, Emit(type, d)
      PROVE  /\ Queued("DEVICE_DISCONNECTED") => Queued("DEVICE_DISCONNECTED")'
             /\ type = "DEVICE_DISCONNECTED" => Queued("DEVICE_DISCONNECTED")'
  <2>1. /\ Len(events') = Len(events) + 1
        /\ \A i \in 1..Len(events) : events'[i] = events[i]
        /\ events'[Len(events')].type = type
    BY <1>e, EmitFacts
  <2>2. 1..Len(events) \subseteq 1..Len(events') /\ Len(events') \in 1..Len(events')
    BY <1>q, <2>1
  <2> QED
    BY <2>1, <2>2 DEF Queued
<1>1. ASSUME NEW type, NEW d, Emit(type, d), UNCHANGED <<hello, main_pc, conn_pc>>,
             UNCHANGED assoc \/ type = "DEVICE_DISCONNECTED"
      PROVE  DisconnectInv'
  BY <1>e, <1>1 DEF DisconnectInv, NoDisconnectLost
<1>2. CASE \/ \E d \in Devices : PeerRequests(d)
           \/ StationLeaves \/ FormationSucceeds \/ FormationFails
  BY <1>1, <1>2 DEF PeerRequests, StationLeaves, FormationSucceeds, FormationFails
<1>3. CASE \/ AddressAssigned \/ StationJoins \/ ClientHello \/ ClientConnects
           \/ ClientSends \/ ClientCloses \/ TimeWaitExpires
  BY <1>3 DEF AddressAssigned, StationJoins, ClientHello, ClientConnects, ClientSends,
     ClientCloses, TimeWaitExpires, DisconnectInv, NoDisconnectLost, Queued
<1>4. CASE connect_loop_start \/ connect_loop_message \/ connect_to_device_message
  <2>1. /\ main_pc \in {"start", "poll", "connecting"} /\ UNCHANGED hello
        /\ main_pc' \in {"poll", "connecting", "hs_bind"}
    BY <1>4 DEF connect_loop_start, connect_loop_message, connect_to_device_message
  <2> QED
    BY <2>1 DEF DisconnectInv, NoDisconnectLost, SessionPcs, MainPcs
<1>5. CASE udp_handshake_bind \/ udp_handshake_recv \/ udp_handshake_recv_error
              \/ udp_handshake_confirm
  BY <1>5 DEF udp_handshake_bind, udp_handshake_recv, udp_handshake_recv_error,
     udp_handshake_confirm, DisconnectInv, NoDisconnectLost, Queued, SessionPcs, MainPcs
<1>6. CASE enter_connected_state \/ spawn_command_handler \/ spawn_connection_listener
              \/ join_command_handler \/ join_connection_listener
  BY <1>6 DEF enter_connected_state, spawn_command_handler, spawn_connection_listener,
     join_command_handler, join_connection_listener, ThreadInv, DisconnectInv,
     NoDisconnectLost, Queued, SessionPcs, MainPcs
<1>7. CASE CommandHandler \/ listen_for_commands_accept_error
  BY <1>7 DEF CommandHandler, listen_for_commands_init, listen_for_commands_accept,
     listen_for_commands_accept_error, listen_for_commands_fail, listen_for_commands_check,
     listen_for_commands_recv, listen_for_commands_idle, listen_for_commands_close,
     DisconnectInv, NoDisconnectLost, Queued
<1>8. CASE connected_loop_message
  <2>1. /\ events # <<>> /\ events' = Tail(events) /\ UNCHANGED <<hello, main_pc, assoc>>
        /\ Head(events).type = "DEVICE_DISCONNECTED" => conn_pc' = "stop"
        /\ main_pc \in {"join_cmd", "join_conn"} /\ conn_pc = "poll"
    BY <1>8 DEF connected_loop_message, ThreadInv
  <2>2. CASE Head(events).type = "DEVICE_DISCONNECTED"
    BY <2>1, <2>2 DEF DisconnectInv, NoDisconnectLost
  <2>3. CASE Head(events).type # "DEVICE_DISCONNECTED"
    <3>1. Queued("DEVICE_DISCONNECTED") => Queued("DEVICE_DISCONNECTED")'
      <4> SUFFICES ASSUME NEW i \in 1..Len(events), events[i].type = "DEVICE_DISCONNECTED"
                   PROVE  \E j \in 1..Len(events') : events'[j].type = "DEVICE_DISCONNECTED"
        BY DEF Queued
      <4>1. i # 1
        BY <1>q, <2>1, <2>3, ReadFacts
      <4>2. i - 1 \in 1..Len(events') /\ events'[i - 1] = events[i]
        BY <1>q, <2>1, <4>1, ReadFacts
      <4> QED
        BY <4>2
    <3> QED
      BY <2>1, <3>1 DEF DisconnectInv, NoDisconnectLost
  <2> QED
    BY <2>2, <2>3
<1>9. CASE connected_loop_idle \/ connected_loop_stop \/ connected_loop_check
  BY <1>9 DEF connected_loop_idle, connected_loop_stop, connected_loop_check, DisconnectInv,
     NoDisconnectLost, Queued
<1>10. CASE UNCHANGED vars
  BY <1>10 DEF vars, DisconnectInv, NoDisconnectLost, Queued
<1> QED
  BY <1>2, <1>3, <1>4, <1>5, <1>6, <1>7, <1>8, <1>9, <1>10
     DEF Next, Main, ConnectionListener, Environment, SocketErrors

-----------------------------------------------------------------------------
(***************************************************************************)
(* The inductive invariant and the safety theorems                         *)
(***************************************************************************)
LEMMA InvariantInit == Init => IInv
<1> SUFFICES ASSUME Init PROVE IInv
  OBVIOUS
<1>1. events = <<>> /\ Len(events) = 0
  BY DEF Init
<1>2. ThreadInv /\ FlagInv
  BY DEF Init, ThreadInv, FlagInv
<1>3. OutcomeInv /\ DeviceInv
  BY <1>1 DEF Init, OutcomeInv, DeviceInv, SearchPcs, SessionPcs, MainPcs
<1>4. AgeInv /\ DisconnectInv
  BY <1>1 DEF Init, AgeInv, DisconnectInv, NoDisconnectLost, SearchPcs, SessionPcs, MainPcs
<1> QED
  BY <1>2, <1>3, <1>4 DEF IInv

LEMMA InvariantNext == TypeOK /\ IInv /\ [Next]_vars => IInv'
  BY ThreadNext, FlagNext, OutcomeNext, DeviceNext, AgeNext, DisconnectNext DEF IInv

\* The inductive invariant holds in every reachable state of the driver.
THEOREM Invariance == Spec => [](TypeOK /\ IInv)
<1>1. Init => TypeOK /\ IInv
  BY TypeInit, InvariantInit
<1>2. TypeOK /\ IInv /\ [Next]_vars => TypeOK' /\ IInv'
  BY TypeNext, InvariantNext
<1> QED
  BY <1>1, <1>2, PTL DEF Spec

\* main() is back in connect_loop() only with both threads ended and no command
\* connection open: enter_connected_state() leaves nothing behind.
THEOREM TornDown == Spec => []SessionTornDown
<1>1. IInv => SessionTornDown
  BY DEF IInv, ThreadInv, SessionTornDown, ConnectedPcs, SessionPcs, MainPcs
<1> QED
  BY <1>1, Invariance, PTL

\* Once listen_for_commands() has ended, the loop flag is down and stays down until
\* the next session.
THEOREM FlagFalls == Spec => []FlagFallsWithHandler
<1>1. IInv => FlagFallsWithHandler
  BY DEF IInv, FlagInv, FlagFallsWithHandler
<1> QED
  BY <1>1, Invariance, PTL

\* The connected state serves the device whose negotiation request was accepted.
THEOREM ServesNegotiated == Spec => []ServesNegotiatedDevice
<1>1. IInv => ServesNegotiatedDevice
  BY DevicesAssumption
     DEF IInv, DeviceInv, ServesNegotiatedDevice, SearchPcs, ConnectedPcs, SessionPcs, MainPcs
<1> QED
  BY <1>1, Invariance, PTL

\* A client that leaves during or after the exchange is always noticed.
THEOREM DisconnectKept == Spec => []NoDisconnectLost
<1>1. IInv => NoDisconnectLost
  BY DEF IInv, DisconnectInv
<1> QED
  BY <1>1, Invariance, PTL

\* At most one command is executed after the loop flag has fallen.
THEOREM OneLateCommand == Spec => []AtMostOneLateCommand
<1>1. IInv => AtMostOneLateCommand
  BY DEF IInv, FlagInv, AtMostOneLateCommand
<1> QED
  BY <1>1, Invariance, PTL

\* No session is ended by a disconnection reported before its own search.
THEOREM DisconnectIsFresh == Spec => FreshDisconnect
<1>1. TypeOK /\ IInv /\ [Next]_vars =>
          [conn_pc = "poll" /\ conn_pc' = "stop" => Head(events).age # "old"]_vars
  <2> SUFFICES ASSUME TypeOK, IInv, Next, conn_pc = "poll", conn_pc' = "stop"
               PROVE  Head(events).age # "old"
    OBVIOUS
  <2>1. connected_loop_message
    <3> USE DEF wpaVars, mainVars, flagVars, sockVars
    <3>1. CASE \/ Environment \/ connect_loop_start \/ connect_loop_message
               \/ connect_to_device_message \/ udp_handshake_bind \/ udp_handshake_recv
               \/ udp_handshake_recv_error \/ udp_handshake_confirm
      BY <3>1, Bystanders
    <3>2. CASE enter_connected_state \/ spawn_command_handler \/ spawn_connection_listener
               \/ join_command_handler \/ join_connection_listener
      BY <3>2 DEF enter_connected_state, spawn_command_handler, spawn_connection_listener,
         join_command_handler, join_connection_listener
    <3>3. CASE CommandHandler \/ listen_for_commands_accept_error
      BY <3>3 DEF CommandHandler, listen_for_commands_init, listen_for_commands_accept,
         listen_for_commands_accept_error, listen_for_commands_fail,
         listen_for_commands_check, listen_for_commands_recv, listen_for_commands_idle,
         listen_for_commands_close
    <3>4. CASE ConnectionListener
      BY <3>4 DEF ConnectionListener, connected_loop_idle, connected_loop_stop,
         connected_loop_check
    <3> QED
      BY <3>1, <3>2, <3>3, <3>4 DEF Next, Main, SocketErrors
  <2>2. main_pc \in {"join_cmd", "join_conn"} /\ events # <<>>
    BY <2>1 DEF connected_loop_message, IInv, ThreadInv
  <2>3. events \in Seq(Message)
    BY DEF TypeOK, DataTypes
  <2> QED
    BY <2>2, <2>3, ReadFacts DEF IInv, AgeInv, SearchPcs
<1> QED
  BY <1>1, Invariance, PTL DEF Spec, FreshDisconnect

-----------------------------------------------------------------------------
(***************************************************************************)
(* Refinement                                                              *)
(***************************************************************************)
\* Steps that keep the phase, the two devices and the threads are stutters.
LEMMA Stutter ==
    ASSUME UNCHANGED <<mac_address, client_ip>>,
           \/ UNCHANGED main_pc
           \/ {main_pc, main_pc'} \subseteq SearchPcs
           \/ {main_pc, main_pc'} \subseteq {"hs_bind", "hs_recv"}
           \/ {main_pc, main_pc'} \subseteq {"hs_confirm", "enter", "spawn_cmd"},
           cmd_pc \notin {"idle", "done"} <=> cmd_pc' \notin {"idle", "done"},
           conn_pc \notin {"idle", "done"} <=> conn_pc' \notin {"idle", "done"}
    PROVE  UNCHANGED Session!vars
<1>1. phaseBar' = phaseBar /\ partnerBar' = partnerBar
  BY DEF phaseBar, partnerBar, SearchPcs
<1>2. startedBar' = startedBar
  BY DEF startedBar, SearchPcs
<1>3. runningBar' = runningBar
  BY DEF runningBar
<1> QED
  BY <1>1, <1>2, <1>3 DEF Session!vars

\* Every step of the driver is a step of the session, or invisible in it.
LEMMA StepRefines == TypeOK /\ IInv /\ IInv' /\ [Next]_vars => [Session!Next]_(Session!vars)
<1> SUFFICES ASSUME TypeOK, IInv, IInv', [Next]_vars
             PROVE  Session!Next \/ UNCHANGED Session!vars
  OBVIOUS
<1>i. ThreadInv /\ ThreadInv' /\ DeviceInv /\ DeviceInv'
  BY DEF IInv
<1> USE DEF wpaVars, mainVars, flagVars, sockVars, SearchPcs
<1>b. ASSUME UNCHANGED <<cmd_pc, conn_pc>>, cmd_pc = "idle", conn_pc = "idle",
             {main_pc, main_pc'} \cap {"spawn_conn", "join_cmd", "join_conn"} = {}
      PROVE  startedBar = {} /\ startedBar' = {} /\ runningBar = {} /\ runningBar' = {}
  BY <1>b DEF startedBar, runningBar
<1>1. CASE Environment
  BY <1>1, Stutter DEF Environment, PeerRequests, FormationSucceeds, FormationFails,
     AddressAssigned, StationJoins, StationLeaves, ClientHello, ClientConnects, ClientSends,
     ClientCloses, TimeWaitExpires
<1>2. CASE UNCHANGED vars
  BY <1>2, Stutter DEF vars
<1>3. CASE connect_loop_start
  BY <1>3, Stutter DEF connect_loop_start
<1>4. CASE connect_loop_message
  <2>1. CASE Head(events).type = "GO_NEG_REQUEST"
    <3>1. /\ main_pc = "poll" /\ main_pc' = "connecting"
          /\ UNCHANGED <<cmd_pc, conn_pc, client_ip>>
      BY <1>4, <2>1 DEF connect_loop_message
    <3>2. mac_address' \in Devices /\ cmd_pc = "idle" /\ conn_pc = "idle"
      BY <1>i, <3>1 DEF DeviceInv, ThreadInv
    <3>3. Session!Negotiate(mac_address')
      BY <1>b, <3>1, <3>2 DEF Session!Negotiate, phaseBar, partnerBar
    <3> QED
      BY <3>2, <3>3 DEF Session!Next
  <2>2. CASE Head(events).type # "GO_NEG_REQUEST"
    BY <1>4, <2>2, Stutter DEF connect_loop_message
  <2> QED
    BY <2>1, <2>2
<1>5. CASE connect_to_device_message
  <2>1. /\ main_pc = "connecting"
        /\ UNCHANGED <<cmd_pc, conn_pc, client_ip, mac_address>>
        /\ main_pc' \in {"connecting", "poll", "hs_bind"}
    BY <1>5 DEF connect_to_device_message
  <2>2. cmd_pc = "idle" /\ conn_pc = "idle"
    BY <1>i, <2>1 DEF ThreadInv
  <2>3. CASE main_pc' = "connecting"
    BY <2>1, <2>3, Stutter
  <2>4. CASE main_pc' = "poll"
    <3>1. Session!GiveUp
      BY <1>b, <2>1, <2>2, <2>4 DEF Session!GiveUp, phaseBar, partnerBar
    <3> QED
      BY <3>1 DEF Session!Next
  <2>5. CASE main_pc' = "hs_bind"
    <3>1. Session!GroupReady
      BY <1>b, <2>1, <2>2, <2>5 DEF Session!GroupReady, phaseBar, partnerBar
    <3> QED
      BY <3>1 DEF Session!Next
  <2> QED
    BY <2>1, <2>3, <2>4, <2>5
<1>6. CASE udp_handshake_bind \/ udp_handshake_recv_error
  <2>1. /\ main_pc \in {"hs_bind", "hs_recv"}
        /\ UNCHANGED <<cmd_pc, conn_pc, client_ip, mac_address>>
        /\ main_pc' \in {"hs_recv", "start"}
    BY <1>6 DEF udp_handshake_bind, udp_handshake_recv_error
  <2>2. cmd_pc = "idle" /\ conn_pc = "idle"
    BY <1>i, <2>1 DEF ThreadInv
  <2>3. CASE main_pc' = "hs_recv"
    BY <2>1, <2>3, Stutter
  <2>4. CASE main_pc' = "start"
    <3>1. Session!GiveUp
      BY <1>b, <2>1, <2>2, <2>4 DEF Session!GiveUp, phaseBar, partnerBar
    <3> QED
      BY <3>1 DEF Session!Next
  <2> QED
    BY <2>1, <2>3, <2>4
<1>7. CASE udp_handshake_recv
  <2>1. /\ main_pc = "hs_recv" /\ main_pc' = "hs_confirm"
        /\ UNCHANGED <<cmd_pc, conn_pc, mac_address>>
    BY <1>7 DEF udp_handshake_recv
  <2>2. cmd_pc = "idle" /\ conn_pc = "idle" /\ client_ip' = mac_address
    BY <1>i, <2>1 DEF ThreadInv, DeviceInv, SessionPcs, MainPcs
  <2>3. Session!Exchange
    BY <1>b, <2>1, <2>2 DEF Session!Exchange, phaseBar, partnerBar
  <2> QED
    BY <2>3 DEF Session!Next
<1>8. CASE udp_handshake_confirm \/ enter_connected_state
  BY <1>8, Stutter DEF udp_handshake_confirm, enter_connected_state
<1>9. CASE spawn_command_handler
  <2>1. /\ main_pc = "spawn_cmd" /\ main_pc' = "spawn_conn" /\ cmd_pc' = "init"
        /\ UNCHANGED <<client_ip, mac_address, conn_pc>>
    BY <1>9 DEF spawn_command_handler
  <2>2. cmd_pc = "idle" /\ conn_pc = "idle"
    BY <1>i, <2>1 DEF ThreadInv
  <2>3. /\ startedBar = {} /\ startedBar' = {"command_handler"}
        /\ runningBar = {} /\ runningBar' = {"command_handler"}
    BY <2>1, <2>2 DEF startedBar, runningBar
  <2>4. Session!Start("command_handler")
    BY <2>1, <2>3 DEF Session!Start, phaseBar, partnerBar
  <2> QED
    BY <2>4 DEF Session!Next, Session!Threads
<1>10. CASE spawn_connection_listener
  <2>1. /\ main_pc = "spawn_conn" /\ main_pc' = "join_cmd" /\ conn_pc' = "poll"
        /\ UNCHANGED <<client_ip, mac_address, cmd_pc>>
    BY <1>10 DEF spawn_connection_listener
  <2>2. conn_pc = "idle"
    BY <1>i, <2>1 DEF ThreadInv
  <2>3. /\ startedBar = {"command_handler"}
        /\ startedBar' = startedBar \cup {"connection_listener"}
        /\ runningBar' = runningBar \cup {"connection_listener"}
    BY <2>1, <2>2 DEF startedBar, runningBar
  <2>4. Session!Start("connection_listener")
    BY <2>1, <2>3 DEF Session!Start, phaseBar, partnerBar
  <2> QED
    BY <2>4 DEF Session!Next, Session!Threads
<1>11. CASE join_command_handler
  <2>1. /\ main_pc = "join_cmd" /\ main_pc' = "join_conn" /\ cmd_pc = "done" /\ cmd_pc' = "idle"
        /\ UNCHANGED <<client_ip, mac_address, conn_pc>>
    BY <1>11 DEF join_command_handler
  <2>2. startedBar' = startedBar /\ runningBar' = runningBar
    BY <2>1 DEF startedBar, runningBar
  <2> QED
    BY <2>1, <2>2 DEF Session!vars, phaseBar, partnerBar
<1>12. CASE join_connection_listener
  <2>1. /\ main_pc = "join_conn" /\ main_pc' = "start" /\ conn_pc = "done" /\ conn_pc' = "idle"
        /\ UNCHANGED <<client_ip, mac_address, cmd_pc>>
    BY <1>12 DEF join_connection_listener
  <2>2. cmd_pc = "idle"
    BY <1>i, <2>1 DEF ThreadInv
  <2>3. /\ startedBar = {"command_handler", "connection_listener"} /\ startedBar' = {}
        /\ runningBar = {} /\ runningBar' = {}
    BY <2>1, <2>2 DEF startedBar, runningBar
  <2>4. Session!Leave
    BY <2>1, <2>3 DEF Session!Leave, Session!Threads, phaseBar, partnerBar
  <2> QED
    BY <2>4 DEF Session!Next
<1>e. ASSUME UNCHANGED <<main_pc, mac_address, client_ip, conn_pc>>,
             main_pc \in {"spawn_conn", "join_cmd"},
             cmd_pc \notin {"idle", "done"}, cmd_pc' = "done"
      PROVE  Session!Next
  <2>1. /\ startedBar' = startedBar /\ "command_handler" \in runningBar
        /\ runningBar' = runningBar \ {"command_handler"}
    BY <1>e DEF startedBar, runningBar
  <2>2. Session!End("command_handler")
    BY <1>e, <2>1 DEF Session!End, phaseBar, partnerBar
  <2> QED
    BY <2>2 DEF Session!Next, Session!Threads
<1>13. CASE listen_for_commands_fail \/ listen_for_commands_close
  BY <1>e, <1>i, <1>13 DEF listen_for_commands_fail, listen_for_commands_close, ThreadInv
<1>14. CASE \/ listen_for_commands_init \/ listen_for_commands_accept
            \/ listen_for_commands_accept_error \/ listen_for_commands_check
            \/ listen_for_commands_recv \/ listen_for_commands_idle
  BY <1>14, Stutter DEF listen_for_commands_init, listen_for_commands_accept,
     listen_for_commands_accept_error, listen_for_commands_check, listen_for_commands_recv,
     listen_for_commands_idle
<1>f. ASSUME UNCHANGED <<main_pc, mac_address, client_ip, cmd_pc>>,
             conn_pc \notin {"idle", "done"}, conn_pc' = "done"
      PROVE  Session!Next
  <2>1. /\ startedBar' = startedBar /\ "connection_listener" \in runningBar
        /\ runningBar' = runningBar \ {"connection_listener"}
    BY <1>f DEF startedBar, runningBar
  <2>2. Session!End("connection_listener")
    BY <1>f, <2>1 DEF Session!End, phaseBar, partnerBar
  <2> QED
    BY <2>2 DEF Session!Next, Session!Threads
<1>15. CASE connected_loop_stop
  BY <1>f, <1>15 DEF connected_loop_stop
<1>16. CASE connected_loop_check
  <2>1. CASE conn_pc' = "done"
    BY <1>f, <1>16, <2>1 DEF connected_loop_check
  <2>2. CASE conn_pc' = "poll"
    BY <1>16, <2>2, Stutter DEF connected_loop_check
  <2> QED
    BY <1>16, <2>1, <2>2 DEF connected_loop_check
<1>17. CASE connected_loop_message \/ connected_loop_idle
  BY <1>17, Stutter DEF connected_loop_message, connected_loop_idle
<1> QED
  BY <1>1, <1>2, <1>3, <1>4, <1>5, <1>6, <1>7, <1>8, <1>9, <1>10, <1>11, <1>12, <1>13, <1>14,
     <1>15, <1>16, <1>17 DEF Next, Main, CommandHandler, ConnectionListener, SocketErrors

\* The driver implements DriverSession: one client at a time, served only after it
\* was negotiated with and exchanged addresses, each thread run once per session.
THEOREM Refinement == Spec => ImplementsSession
<1>1. Init => Session!Init
  BY DEF Init, Session!Init, phaseBar, partnerBar, startedBar, runningBar, SearchPcs
<1>2. TypeOK /\ IInv /\ (TypeOK /\ IInv)' /\ [Next]_vars => [Session!Next]_(Session!vars)
  BY StepRefines
<1> QED
  BY <1>1, <1>2, Invariance, PTL DEF Spec, ImplementsSession, Session!Spec
=============================================================================
