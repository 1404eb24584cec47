------------------------- MODULE P2PDriverRefinement -------------------------
(***************************************************************************)
(* P2PDriver implements DriverSession. The phase is read off the main      *)
(* thread's program counter, the threads off theirs.                       *)
(***************************************************************************)
EXTENDS P2PDriver

SearchPcs == {"start", "poll"}

\* The device connect_loop() is dealing with; between attempts mac_address is out
\* of scope.
partnerBar == IF main_pc \in SearchPcs THEN NoDevice ELSE mac_address

phaseBar ==
    IF main_pc \in SearchPcs THEN "searching"
    ELSE IF main_pc = "connecting" THEN "negotiating"
    ELSE IF main_pc \in {"hs_bind", "hs_recv"} THEN "exchanging"
    ELSE "session"

startedBar ==
    {t \in {"command_handler", "connection_listener"} :
        \/ t = "command_handler" /\ main_pc \in {"spawn_conn", "join_cmd", "join_conn"}
        \/ t = "connection_listener" /\ main_pc \in {"join_cmd", "join_conn"}}

runningBar ==
    {t \in {"command_handler", "connection_listener"} :
        \/ t = "command_handler" /\ cmd_pc \notin {"idle", "done"}
        \/ t = "connection_listener" /\ conn_pc \notin {"idle", "done"}}

Session == INSTANCE DriverSession WITH
    phase <- phaseBar, partner <- partnerBar, client <- client_ip,
    started <- startedBar, running <- runningBar

\* Every behaviour of the driver's three threads, hidden down to phases, is one of
\* DriverSession: no thread is started twice or left running into the next search,
\* and the client served is the device negotiated with.
ImplementsSession == Session!Spec
=============================================================================
