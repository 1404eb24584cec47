----------------------------- MODULE IpExchanger -----------------------------
(***************************************************************************)
(* The two handshakes of ip_exchanger.cpp, with the socket helpers they    *)
(* call (p2p_go_socket_utils.cpp, udp_p2p_go_socket.cpp,                   *)
(* tcp_p2p_go_socket.cpp): every call that can fail may fail, and every    *)
(* way out closes its descriptors by calls of its own. main() calls one    *)
(* handshake after each connect_loop() until it returns true; no other     *)
(* thread runs then, so a number that is closed twice names nothing in     *)
(* between.                                                                *)
(*                                                                         *)
(* Clients and the network are external: datagrams are lost, duplicated    *)
(* and reordered, a connection breaks or is closed at any time. What the   *)
(* messages say is left out: nothing depends on it, and the empty message  *)
(* that recv() makes of a closed connection passes for one.                *)
(***************************************************************************)
EXTENDS Naturals, FiniteSets

CONSTANTS
    Clients,           \* addresses of the clients
    NoClient,          \* the address of a cleared structure
    MAX_CONFIRM_MSGS,  \* confirmations of the UDP handshake
    MaxCalls,          \* bound: handshakes
    Protocols          \* the handshakes ip_exchange_fun may point to

\* What is assumed of the constants.
ClientsAssumption == NoClient \notin Clients
SizesAssumption == MAX_CONFIRM_MSGS \in Nat \ {0} /\ MaxCalls \in Nat
ProtocolsAssumption == Protocols \subseteq {"udp", "tcp"}

VARIABLES
    pc,         \* "connect_loop", a handshake's steps, "connected"
    calls,      \* handshakes so far
    protocol,   \* what ip_exchange_fun points to (never changes)
    open,       \* descriptors open: "sock" and "conn"
    sock_fd,    \* the handshake's local variables: a descriptor or -1
    new_fd,
    client_ip,  \* ClientInformation::client_ip
    confirms,   \* confirmations of the UDP handshake sent in this call
    outcome,    \* what a TCP handshake is going to return
    arrived,    \* whose datagrams or connections wait at our socket
    heard       \* history: who has come to the socket of this call

vars == <<pc, calls, protocol, open, sock_fd, new_fd, client_ip, confirms, outcome, arrived,
          heard>>
callVars == <<calls, protocol>>

Init ==
    /\ pc = "connect_loop"
    /\ calls = 0 /\ protocol \in Protocols
    /\ open = {} /\ sock_fd = "-1" /\ new_fd = "-1"
    /\ client_ip = NoClient
    /\ confirms = 0 /\ outcome = FALSE
    /\ arrived = {} /\ heard = {}

-----------------------------------------------------------------------------
\* A datagram or a connection reaches the socket; a datagram may come again.
ClientSends ==
    /\ "sock" \in open /\ pc \notin {"bind", "listen"}
    /\ \E c \in Clients \ arrived : arrived' = arrived \cup {c} /\ heard' = heard \cup {c}
    /\ UNCHANGED <<pc, callVars, open, sock_fd, new_fd, client_ip, confirms, outcome>>

\* close(): -1, or a number that is not open, is an error nobody looks at. What waits at
\* the socket goes with it.
Close(fd) ==
    /\ open' = open \ {fd}
    /\ arrived' = IF fd = "sock" THEN {} ELSE arrived

GoesTo(from, to) == pc = from /\ pc' = to /\ UNCHANGED callVars

Return(result) == pc' = IF result THEN "connected" ELSE "connect_loop"

-----------------------------------------------------------------------------
(***************************************************************************)
(* Opening the socket.                                                     *)
(***************************************************************************)
\* A TCP handshake without a socket goes on: it notes the address of the structure it
\* has cleared.
NoSocket ==
    /\ sock_fd' = "-1"
    /\ IF protocol = "udp" THEN pc' = "connect_loop" /\ UNCHANGED client_ip
                            ELSE pc' = "tcp_recv" /\ client_ip' = NoClient

\* getaddrinfo() and socket().
open_socket ==
    /\ pc = "connect_loop" /\ calls < MaxCalls
    /\ calls' = calls + 1
    /\ \/ /\ open' = open \cup {"sock"} /\ sock_fd' = "sock"
          /\ pc' = "bind" /\ UNCHANGED client_ip
       \/ NoSocket /\ UNCHANGED open
    /\ new_fd' = "-1" /\ confirms' = 0 /\ heard' = {}
    /\ UNCHANGED <<protocol, outcome, arrived>>

init_socket(from, to) ==
    /\ pc = from /\ UNCHANGED callVars
    /\ \/ pc' = to /\ UNCHANGED <<open, sock_fd, client_ip, arrived>>
       \/ Close(sock_fd) /\ NoSocket
    /\ UNCHANGED <<new_fd, confirms, outcome, heard>>

udp_init_socket == protocol = "udp" /\ init_socket("bind", "udp_recv")
tcp_init_socket == protocol = "tcp" /\ (\/ init_socket("bind", "listen")
                                        \/ init_socket("listen", "tcp_accept"))

-----------------------------------------------------------------------------
(***************************************************************************)
(* udp_connection_handshake()                                              *)
(***************************************************************************)
\* Mutant: the error is taken for a datagram.
udp_receive_msg_any ==
    /\ GoesTo("udp_recv", "udp_confirm")
    /\ \/ \E c \in arrived : client_ip' = c /\ arrived' \in {arrived, arrived \ {c}}
       \/ client_ip' = NoClient /\ UNCHANGED arrived
    /\ UNCHANGED <<open, sock_fd, new_fd, confirms, outcome, heard>>

\* A datagram is read, and may stay queued as its duplicate; on an error the socket is
\* closed.
udp_receive_msg ==
    /\ \/ /\ GoesTo("udp_recv", "udp_confirm")
          /\ \E c \in arrived : client_ip' = c /\ arrived' \in {arrived, arrived \ {c}}
          /\ UNCHANGED open
       \/ GoesTo("udp_recv", "udp_fails") /\ Close(sock_fd) /\ UNCHANGED client_ip
    /\ UNCHANGED <<sock_fd, new_fd, confirms, outcome, heard>>

\* The caller closes the number once more.
udp_fails ==
    /\ pc = "udp_fails" /\ UNCHANGED callVars
    /\ Close(sock_fd) /\ Return(FALSE)
    /\ UNCHANGED <<sock_fd, new_fd, client_ip, confirms, outcome, heard>>

\* Whether udp_send_string() failed, or its datagram is lost, is not looked at.
udp_confirm ==
    /\ confirms' = confirms + 1
    /\ GoesTo("udp_confirm", IF confirms' < MAX_CONFIRM_MSGS THEN "udp_confirm" ELSE "udp_done")
    /\ UNCHANGED <<open, sock_fd, new_fd, client_ip, outcome, arrived, heard>>

udp_done ==
    /\ pc = "udp_done" /\ UNCHANGED callVars
    /\ Close(sock_fd) /\ Return(TRUE)
    /\ UNCHANGED <<sock_fd, new_fd, client_ip, confirms, outcome, heard>>

-----------------------------------------------------------------------------
(***************************************************************************)
(* tcp_connection_handshake()                                              *)
(***************************************************************************)
\* Mutant: the handshake returns when accept() fails.
tcp_accept_returns ==
    /\ \/ \E c \in arrived :
            /\ GoesTo("tcp_accept", "tcp_recv")
            /\ new_fd' = "conn" /\ open' = open \cup {"conn"}
            /\ client_ip' = c /\ arrived' = arrived \ {c}
       \/ /\ GoesTo("tcp_accept", "connect_loop")
          /\ client_ip' = NoClient /\ UNCHANGED <<new_fd, open, arrived>>
    /\ UNCHANGED <<sock_fd, confirms, outcome, heard>>

\* accept(), whose failure is not noticed: the address is that of the cleared structure.
tcp_accept ==
    /\ GoesTo("tcp_accept", "tcp_recv")
    /\ \/ \E c \in arrived :
            /\ new_fd' = "conn" /\ open' = open \cup {"conn"}
            /\ client_ip' = c /\ arrived' = arrived \ {c}
       \/ client_ip' = NoClient /\ UNCHANGED <<new_fd, open, arrived>>
    /\ UNCHANGED <<sock_fd, confirms, outcome, heard>>

\* recv(): it fails on -1; only a negative result is a failure.
tcp_recv ==
    /\ \/ new_fd # "-1" /\ GoesTo("tcp_recv", "tcp_send") /\ UNCHANGED outcome
       \/ GoesTo("tcp_recv", "tcp_close_new") /\ outcome' = FALSE
    /\ UNCHANGED <<open, sock_fd, new_fd, client_ip, confirms, arrived, heard>>

\* tcp_send_string(): its result is the handshake's.
tcp_send ==
    /\ GoesTo("tcp_send", "tcp_close_new")
    /\ outcome' \in BOOLEAN
    /\ UNCHANGED <<open, sock_fd, new_fd, client_ip, confirms, arrived, heard>>

tcp_close_new ==
    /\ GoesTo("tcp_close_new", "tcp_close_sock")
    /\ Close(new_fd)
    /\ UNCHANGED <<sock_fd, new_fd, client_ip, confirms, outcome, heard>>

tcp_close_sock ==
    /\ pc = "tcp_close_sock" /\ UNCHANGED callVars
    /\ Close(sock_fd) /\ Return(outcome)
    /\ UNCHANGED <<sock_fd, new_fd, client_ip, confirms, outcome, heard>>

-----------------------------------------------------------------------------
\* The session of a connected client ends and main() advertises again.
session_ends ==
    /\ GoesTo("connected", "connect_loop")
    /\ UNCHANGED <<open, sock_fd, new_fd, client_ip, confirms, outcome, arrived, heard>>

Next ==
    \/ ClientSends \/ session_ends
    \/ open_socket \/ udp_init_socket \/ tcp_init_socket
    \/ udp_receive_msg \/ udp_fails \/ udp_confirm \/ udp_done
    \/ tcp_accept \/ tcp_recv \/ tcp_send \/ tcp_close_new \/ tcp_close_sock

Spec == Init /\ [][Next]_vars

-----------------------------------------------------------------------------
\* On every path, whichever call fails, a handshake returns with the descriptors it opened
\* closed: those of the failing set-up, the socket behind an accept() that failed, the
\* connection of a client that broke off.
NoDescriptorLeft == pc \in {"connect_loop", "connected"} => open = {}

\* A handshake only succeeds with a client that has come to the socket of this very call:
\* neither the cleared address of a call that went on after a failure nor what an earlier
\* session has left in client_ip is ever connected to.
ConnectedWasHeard == pc = "connected" => client_ip \in heard
=============================================================================
