-------------------------- MODULE DriverParts_proofs --------------------------
(***************************************************************************)
(* Machine-checked proofs about the parts of the driver around its         *)
(* threads, for every value of the constants. Each part has an inductive   *)
(* invariant of its own variables; a step of another part leaves it alone. *)
(***************************************************************************)
EXTENDS DriverParts, SequenceTheorems, TLAPS

(***************************************************************************)
(* The handshakes (IpExchanger).                                           *)
(***************************************************************************)
\* What is open is still named by a local variable that the rest of the way out closes.
OpenInv ==
    /\ exchange_pc \in {"connect_loop", "connected", "udp_fails"} => open = {}
    /\ exchange_pc \in {"bind", "listen", "udp_recv", "udp_confirm", "udp_done", "tcp_accept"} =>
           sock_fd = "sock" /\ new_fd = "-1" /\ open = {"sock"}
    /\ exchange_pc \in {"tcp_recv", "tcp_send", "tcp_close_new"} => open \subseteq {sock_fd, new_fd}
    /\ exchange_pc = "tcp_close_sock" => open \subseteq {sock_fd}

\* Whoever waits at the socket has come to it; a handshake that may still succeed has the
\* address of one of them.
HeardInv ==
    /\ arrived \subseteq heard
    /\ "sock" \notin open => arrived = {}
    /\ exchange_pc \in {"udp_confirm", "udp_done", "tcp_send", "connected"} => client_ip \in heard
    /\ exchange_pc = "tcp_recv" /\ new_fd # "-1" => client_ip \in heard
    /\ exchange_pc \in {"tcp_close_new", "tcp_close_sock"} /\ outcome => client_ip \in heard

LEMMA ExchangeStep ==
    ASSUME OpenInv, HeardInv, Exchange!Next
    PROVE  OpenInv' /\ HeardInv'
<1> USE DEF OpenInv, HeardInv, Exchange!GoesTo, Exchange!Return, Exchange!Close,
        Exchange!NoSocket, Exchange!callVars
<1>1. CASE Exchange!ClientSends
  BY <1>1 DEF Exchange!ClientSends
<1>2. CASE Exchange!session_ends
  BY <1>2 DEF Exchange!session_ends
<1>3. CASE Exchange!open_socket
  BY <1>3 DEF Exchange!open_socket
<1>4. CASE Exchange!udp_init_socket
  BY <1>4 DEF Exchange!udp_init_socket, Exchange!init_socket
<1>5. CASE Exchange!tcp_init_socket
  BY <1>5 DEF Exchange!tcp_init_socket, Exchange!init_socket
<1>6. CASE Exchange!udp_receive_msg
  BY <1>6 DEF Exchange!udp_receive_msg
<1>7. CASE Exchange!udp_fails \/ Exchange!udp_done
  BY <1>7 DEF Exchange!udp_fails, Exchange!udp_done
<1>8. CASE Exchange!udp_confirm
  BY <1>8 DEF Exchange!udp_confirm
<1>9. CASE Exchange!tcp_accept
  BY <1>9 DEF Exchange!tcp_accept
<1>10. CASE Exchange!tcp_recv \/ Exchange!tcp_send
  BY <1>10 DEF Exchange!tcp_recv, Exchange!tcp_send
<1>11. CASE Exchange!tcp_close_new
  BY <1>11 DEF Exchange!tcp_close_new
<1>12. CASE Exchange!tcp_close_sock
  BY <1>12 DEF Exchange!tcp_close_sock
<1> QED
  BY <1>1, <1>2, <1>3, <1>4, <1>5, <1>6, <1>7, <1>8, <1>9, <1>10, <1>11, <1>12
  DEF Exchange!Next

LEMMA ExchangeInvariant == Spec => [](OpenInv /\ HeardInv)
<1>1. Init => OpenInv /\ HeardInv
  BY DEF Init, Exchange!Init, OpenInv, HeardInv
<1>2. OpenInv /\ HeardInv /\ [Next]_vars => (OpenInv /\ HeardInv)'
  <2> SUFFICES ASSUME OpenInv, HeardInv, [Next]_vars PROVE OpenInv' /\ HeardInv'
    OBVIOUS
  <2>1. CASE Meet
    BY <2>1, ExchangeStep DEF Meet
  <2>2. CASE UNCHANGED exchangeVars
    BY <2>2 DEF OpenInv, HeardInv, exchangeVars
  <2> QED
    BY <2>1, <2>2 DEF Next, Command, Attach, Stop, vars
<1> QED
  BY <1>1, <1>2, PTL DEF Spec

\* ip_exchanger.cpp: whichever call of a handshake fails, and however often main() starts
\* one, it returns with the descriptors it opened closed.
THEOREM NoDescriptorIsLeft == Spec => []NoDescriptorLeft
<1>1. OpenInv => NoDescriptorLeft
  BY DEF OpenInv, NoDescriptorLeft, Exchange!NoDescriptorLeft
<1> QED
  BY <1>1, ExchangeInvariant, PTL

\* ip_exchanger.cpp: a handshake only returns true with the address of a client that came
\* to the socket it had opened itself, in client_ip.
THEOREM ConnectedIsHeard == Spec => []ConnectedWasHeard
<1>1. HeardInv => ConnectedWasHeard
  BY DEF HeardInv, ConnectedWasHeard, Exchange!ConnectedWasHeard
<1> QED
  BY <1>1, ExchangeInvariant, PTL

-----------------------------------------------------------------------------
(***************************************************************************)
(* The command stream (CommandStream).                                     *)
(***************************************************************************)
Byte == [cmd : Nat, place : 1..3]
Call == [option : Nat, toggle : Nat]

\* Bytes that recv() has returned.
Received == 3 * sent - Len(stream)

\* The place of a byte in all that is sent, and the piece b that begins after r bytes.
Position(byte) == 3 * byte.cmd - 3 + byte.place
AtPosition(b, r) == \A i \in 1..Len(b) : Position(b[i]) = r + i

\* What waits is the end of what was sent, so the place of a byte in the stream tells its
\* command; and what was carried out was received in full.
StreamInv ==
    /\ sent \in Nat /\ paced \in BOOLEAN
    /\ stream \in Seq(Byte) /\ Len(stream) <= 3 * sent
    /\ AtPosition(stream, Received)
    /\ executed \in Seq(Call)
    /\ \A i \in 1..Len(executed) : 3 * executed[i].option <= Received
    /\ NoPhantomCommand

\* A client that waits has at most one command under way.
PacedInv ==
    paced => /\ Len(stream) \in {0, 3}
             /\ 3 * Len(executed) = Received

LEMMA ClientSendsStep ==
    ASSUME StreamInv, Commands!ClientSends
    PROVE  StreamInv' /\ (PacedInv => PacedInv')
<1> DEFINE new == [p \in 1..3 |-> [cmd |-> sent', place |-> p]]
<1>1. /\ sent' = sent + 1 /\ stream' = stream \o new
      /\ UNCHANGED <<paced, executed>> /\ (paced => stream = <<>>)
  BY DEF Commands!ClientSends, Commands!CommandLength
<1>2. /\ sent \in Nat /\ stream \in Seq(Byte) /\ Len(stream) \in Nat
      /\ Len(stream) <= 3 * sent
      /\ new \in Seq(Byte) /\ Len(new) = 3
  BY <1>1 DEF StreamInv, Byte
<1>3. /\ stream' \in Seq(Byte) /\ Len(stream') = Len(stream) + 3
      /\ Len(stream') <= 3 * sent'
      /\ Received' = Received
  BY <1>1, <1>2 DEF Received
<1>4. AtPosition(stream', Received')
  <2> SUFFICES ASSUME NEW i \in 1..Len(stream')
               PROVE  Position(stream'[i]) = Received + i
    BY <1>3 DEF AtPosition
  <2>1. CASE i <= Len(stream)
    <3>1. stream'[i] = stream[i]
      BY <1>1, <1>2, <2>1
    <3> QED
      BY <1>2, <3>1, <2>1 DEF StreamInv, AtPosition
  <2>2. CASE i > Len(stream)
    <3>1. i - Len(stream) \in 1..3
      BY <2>2, <1>2, <1>3
    <3>2. stream'[i] = new[i - Len(stream)]
      BY <1>1, <1>2, <2>2, <1>3
    <3>3. stream'[i].cmd = sent + 1 /\ stream'[i].place = i - Len(stream)
      BY <3>1, <3>2, <1>1
    <3> QED
      BY <3>1, <3>3, <1>2, <1>3 DEF Received, Position
  <2> QED
    BY <2>1, <2>2, <1>2, <1>3
<1>5. NoPhantomCommand'
  BY <1>1 DEF StreamInv, NoPhantomCommand, Commands!NoPhantomCommand
<1>6. PacedInv => PacedInv'
  <2>1. paced => stream = <<>> /\ Len(stream) = 0
    BY <1>1
  <2> QED
    BY <1>1, <1>2, <1>3, <2>1 DEF PacedInv
<1> QED
  BY <1>1, <1>2, <1>3, <1>4, <1>5, <1>6 DEF StreamInv

\* The two bytes after a control byte belong to its command.
LEMMA InCommand ==
    ASSUME NEW x \in Byte, x.place = 1, NEW y \in Byte, NEW k \in {1, 2},
           NEW r \in Nat, Position(x) = r + 1, Position(y) = r + 1 + k
    PROVE  y.cmd = x.cmd /\ 3 * x.cmd = r + 3
BY DEF Byte, Position

\* After a number of whole commands comes a control byte.
LEMMA First ==
    ASSUME NEW x \in Byte, NEW e \in Nat, Position(x) = 3 * e + 1
    PROVE  x.place = 1
BY DEF Byte, Position

\* The same of a piece.
LEMMA SameCommand ==
    ASSUME NEW b \in Seq(Byte), NEW r \in Nat, AtPosition(b, r),
           Len(b) > 2, b[1].place = 1
    PROVE  b[2].cmd = b[1].cmd /\ b[3].cmd = b[1].cmd /\ 3 * b[1].cmd = r + 3
<1>1. Len(b) \in Nat
  OBVIOUS
<1>2. b[1] \in Byte /\ b[2] \in Byte /\ b[3] \in Byte
  BY <1>1
<1>3. 1 \in 1..Len(b) /\ 2 \in 1..Len(b) /\ 3 \in 1..Len(b)
  BY <1>1
<1>4. Position(b[1]) = r + 1 /\ Position(b[2]) = r + 2 /\ Position(b[3]) = r + 3
  BY <1>3 DEF AtPosition
<1>5. b[2].cmd = b[1].cmd /\ 3 * b[1].cmd = r + 3
  BY <1>2, <1>4, InCommand
<1>6. b[3].cmd = b[1].cmd
  BY <1>2, <1>4, InCommand
<1> QED
  BY <1>5, <1>6

LEMMA ControlByteFirst ==
    ASSUME NEW b \in Seq(Byte), NEW e \in Nat, AtPosition(b, 3 * e), Len(b) > 0
    PROVE  b[1].place = 1
<1>1. Len(b) \in Nat
  OBVIOUS
<1>2. b[1] \in Byte
  BY <1>1
<1> QED
  BY <1>1, <1>2, First DEF AtPosition

\* recv() cuts the stream after its first n bytes. What makes a call when the piece
\* begins with a control byte is the command the piece begins with.
LEMMA ReceiveStep ==
    ASSUME StreamInv, PartsAssumption, Commands!receive_command
    PROVE  StreamInv' /\ (PacedInv /\ COMMAND_MAX_RECV >= 3 => PacedInv')
<1> PICK n \in 1..Len(stream) :
          /\ n <= COMMAND_MAX_RECV
          /\ paced => n = Len(stream) \/ n = COMMAND_MAX_RECV
          /\ buffer' = SubSeq(stream, 1, n)
          /\ stream' = SubSeq(stream, n + 1, Len(stream))
  BY DEF Commands!receive_command
<1>1. /\ sent \in Nat /\ stream \in Seq(Byte) /\ Len(stream) \in Nat
      /\ Len(stream) <= 3 * sent /\ n \in Nat \ {0} /\ COMMAND_MAX_RECV \in Nat
      /\ executed \in Seq(Call)
  BY DEF StreamInv, PartsAssumption, Commands!BoundsAssumption
<1>2. UNCHANGED <<paced, sent>> /\ Commands!execute_command(buffer')
  BY DEF Commands!receive_command
<1>3. /\ stream' \in Seq(Byte) /\ Len(stream') = Len(stream) - n
      /\ \A i \in 1..Len(stream') : stream'[i] = stream[n + i]
  BY <1>1, SubSeqProperties
<1>4. /\ Received \in Nat /\ Received' = Received + n
      /\ Len(stream') <= 3 * sent'
  BY <1>1, <1>2, <1>3 DEF Received
<1>5. AtPosition(stream', Received')
  <2> SUFFICES ASSUME NEW i \in 1..Len(stream')
               PROVE  Position(stream'[i]) = Received + n + i
    BY <1>1, <1>4 DEF AtPosition
  <2>1. n + i \in 1..Len(stream)
    BY <1>1, <1>3
  <2> QED
    <3>1. Position(stream[n + i]) = Received + (n + i)
      BY <2>1 DEF StreamInv, AtPosition
    <3> QED
      BY <1>1, <1>3, <1>4, <3>1
<1>6. /\ buffer' \in Seq(Byte) /\ Len(buffer') = n
      /\ \A i \in 1..n : buffer'[i] = stream[i]
  BY <1>1, SubSeqProperties
<1>7. /\ \A i \in 1..Len(executed) : executed[i].option \in Nat
      /\ \A i \in 1..Len(executed) : 3 * executed[i].option <= Received
      /\ NoPhantomCommand
  <2>1. \A i \in 1..Len(executed) : executed[i] \in Call
    BY <1>1
  <2> QED
    BY <2>1 DEF StreamInv, Call
<1>8. AtPosition(buffer', Received)
  <2> SUFFICES ASSUME NEW i \in 1..n
               PROVE  Position(buffer'[i]) = Received + i
    BY <1>6 DEF AtPosition
  <2>1. i \in 1..Len(stream) /\ buffer'[i] = stream[i]
    BY <1>1, <1>6
  <2> QED
    BY <2>1 DEF StreamInv, AtPosition
<1>9. CASE n > 2 /\ buffer'[1].place = 1
  <2> DEFINE call == [option |-> buffer'[2].cmd, toggle |-> buffer'[3].cmd]
  <2>1. executed' = Append(executed, call)
    BY <1>2, <1>6, <1>9 DEF Commands!execute_command
  <2>2. /\ buffer'[2].cmd = buffer'[1].cmd /\ buffer'[3].cmd = buffer'[1].cmd
        /\ buffer'[1].cmd \in Nat /\ 3 * buffer'[1].cmd = Received + 3
    <3>1. buffer'[1].cmd \in Nat
      BY <1>6, <1>9 DEF Byte
    <3> QED
      BY <1>4, <1>6, <1>8, <1>9, <3>1, SameCommand
  <2>3. call \in Call /\ call.option = call.toggle /\ 3 * call.option = Received + 3
    BY <2>2 DEF Call
  <2> HIDE DEF call
  <2>4. /\ executed' \in Seq(Call) /\ Len(executed') = Len(executed) + 1
        /\ \A i \in 1..Len(executed) : executed'[i] = executed[i]
        /\ executed'[Len(executed')] = call
    BY <1>1, <2>1, <2>3
  <2>5. \A i \in 1..Len(executed) : executed[i].option < call.option
    <3>1. call.option \in Nat
      BY <2>3 DEF Call
    <3> QED
      BY <1>4, <1>7, <2>3, <3>1
  <2>6. NoPhantomCommand'
    <3>1. Len(executed) \in Nat
      BY <1>1
    <3>2. \A i \in 1..Len(executed') : i \in 1..Len(executed) \/ i = Len(executed')
      BY <2>4, <3>1
    <3>3. \A i \in 1..Len(executed') : executed'[i].option = executed'[i].toggle
      BY <1>7, <2>3, <2>4, <3>2 DEF NoPhantomCommand, Commands!NoPhantomCommand
    <3>4. ASSUME NEW i \in 1..Len(executed'), NEW j \in 1..Len(executed'), i < j
          PROVE  executed'[i].option < executed'[j].option
      <4>1. i \in 1..Len(executed)
        BY <2>4, <3>1, <3>4
      <4> QED
        BY <1>7, <2>4, <2>5, <3>2, <3>4, <4>1
           DEF NoPhantomCommand, Commands!NoPhantomCommand
    <3> QED
      BY <3>3, <3>4 DEF NoPhantomCommand, Commands!NoPhantomCommand
  <2>7. \A i \in 1..Len(executed') : 3 * executed'[i].option <= Received'
    <3> SUFFICES ASSUME NEW i \in 1..Len(executed')
                 PROVE  3 * executed'[i].option <= Received + n
      BY <1>4
    <3>1. CASE i \in 1..Len(executed)
      <4>1. executed'[i] = executed[i] /\ 3 * executed[i].option <= Received
            /\ executed[i].option \in Nat
        BY <1>7, <2>4, <3>1
      <4> QED
        BY <1>1, <1>4, <4>1
    <3>2. CASE i = Len(executed')
      BY <1>1, <1>4, <1>9, <2>3, <2>4, <3>2
    <3> QED
      BY <1>1, <2>4, <3>1, <3>2
  <2>8. PacedInv /\ COMMAND_MAX_RECV >= 3 => PacedInv'
    <3> SUFFICES ASSUME PacedInv, COMMAND_MAX_RECV >= 3, paced
                 PROVE  Len(stream') = 0 /\ 3 * Len(executed') = Received'
      BY <1>2 DEF PacedInv
    <3>1. Len(stream) = 3 /\ 3 * Len(executed) = Received
      BY <1>1, <1>9 DEF PacedInv
    <3>2. n = 3
      BY <1>1, <1>9, <3>1
    <3>3. Len(stream') = 0
      BY <1>3, <3>1, <3>2
    <3>4. Len(executed) \in Nat /\ Received' = Received + 3
      BY <1>1, <1>4, <3>2
    <3>5. 3 * Len(executed') = 3 * Len(executed) + 3
      BY <2>4, <3>4
    <3> QED
      BY <3>1, <3>3, <3>4, <3>5
  <2> QED
    BY <1>1, <1>2, <1>3, <1>4, <1>5, <2>4, <2>6, <2>7, <2>8 DEF StreamInv
<1>10. CASE ~(n > 2 /\ buffer'[1].place = 1)
  <2>1. executed' = executed
    BY <1>2, <1>6, <1>10 DEF Commands!execute_command
  <2>2. NoPhantomCommand'
    BY <1>7, <2>1 DEF NoPhantomCommand, Commands!NoPhantomCommand
  <2>3. \A i \in 1..Len(executed') : 3 * executed'[i].option <= Received'
    BY <1>1, <1>4, <1>7, <2>1
  <2>4. PacedInv /\ COMMAND_MAX_RECV >= 3 => ~paced
    <3> SUFFICES ASSUME PacedInv, COMMAND_MAX_RECV >= 3, paced PROVE FALSE
      OBVIOUS
    <3>1. n = 3 /\ 3 * Len(executed) = Received
      <4>1. Len(stream) = 3 /\ 3 * Len(executed) = Received
        BY <1>1 DEF PacedInv
      <4> QED
        BY <1>1, <4>1
    <3>2. Len(executed) \in Nat
      BY <1>1
    <3>3. buffer'[1].place = 1
      <4>1. AtPosition(buffer', 3 * Len(executed)) /\ Len(buffer') > 0
        BY <1>6, <1>8, <3>1
      <4> QED
        BY <1>6, <3>2, <4>1, ControlByteFirst
    <3> QED
      BY <1>10, <3>1, <3>3
  <2> QED
    BY <1>1, <1>2, <1>3, <1>4, <1>5, <2>1, <2>2, <2>3, <2>4 DEF StreamInv, PacedInv
<1> QED
  BY <1>9, <1>10

LEMMA StreamInit == Init => StreamInv /\ PacedInv
<1> SUFFICES ASSUME Init PROVE StreamInv /\ PacedInv
  OBVIOUS
<1>1. /\ paced \in BOOLEAN /\ sent = 0 /\ stream = <<>> /\ executed = <<>>
      /\ Len(stream) = 0 /\ Len(executed) = 0 /\ Received = 0
  <2>1. paced \in BOOLEAN /\ sent = 0 /\ stream = <<>> /\ executed = <<>>
    BY DEF Init, Commands!Init
  <2>2. Len(stream) = 0 /\ Len(executed) = 0
    BY <2>1
  <2>3. Received = 3 * 0 - 0
    BY <2>1, <2>2, ZenonT(10) DEF Received
  <2>4. 3 * 0 - 0 = 0
    OBVIOUS
  <2> QED
    BY <2>1, <2>2, <2>3, <2>4
<1>2. AtPosition(stream, Received) /\ NoPhantomCommand
  BY <1>1 DEF AtPosition, NoPhantomCommand, Commands!NoPhantomCommand
<1> QED
  BY <1>1, <1>2 DEF StreamInv, PacedInv

LEMMA StreamStep ==
    ASSUME StreamInv, [Next]_vars
    PROVE  StreamInv' /\ (PacedInv /\ COMMAND_MAX_RECV >= 3 => PacedInv')
<1>1. CASE UNCHANGED commandVars
  BY <1>1 DEF commandVars, StreamInv, PacedInv, Received, AtPosition, NoPhantomCommand,
     Commands!NoPhantomCommand
<1>2. CASE Command /\ Commands!ClientSends
  BY <1>2, ClientSendsStep
<1>3. CASE Command /\ Commands!receive_command
  BY <1>3, ReceiveStep, PartsAssumption
<1> QED
  BY <1>1, <1>2, <1>3
     DEF Next, Command, Attach, Stop, Meet, vars, commandVars, Commands!Next,
         Commands!Done, Commands!vars

\* command_handler.cpp: however recv() cuts the stream and however small its buffer is,
\* option and toggle of every command carried out are those of one command sent, and
\* commands are carried out in order and once.
THEOREM NoPhantom == Spec => []NoPhantomCommand
<1>1. StreamInv => NoPhantomCommand
  BY DEF StreamInv
<1> QED
  BY StreamInit, StreamStep, <1>1, PTL DEF Spec

\* command_handler.cpp: a client that waits until each command has been read has all of
\* them carried out, if the buffer holds a command (the code's holds 64 bytes).
THEOREM PacedAreExecuted ==
    ASSUME COMMAND_MAX_RECV >= 3 PROVE Spec => []PacedCommandsExecuted
<1>1. StreamInv /\ PacedInv => PacedCommandsExecuted
  <2> SUFFICES ASSUME StreamInv, PacedInv, paced, stream = <<>>
               PROVE  Len(executed) = sent
    BY DEF PacedCommandsExecuted, Commands!PacedCommandsExecuted
  <2>1. 3 * Len(executed) = 3 * sent /\ Len(executed) \in Nat /\ sent \in Nat
    BY DEF StreamInv, PacedInv, Received
  <2> QED
    BY <2>1
<1> QED
  BY StreamInit, StreamStep, <1>1, PTL DEF Spec

-----------------------------------------------------------------------------
(***************************************************************************)
(* The control interface (ControlInterface).                               *)
(***************************************************************************)
Opening == {"open", "bind", "connect", "attach_send", "attach_wait", "running"}
ControlPcs == Opening \cup {"failed", "detach_send", "detach_wait", "close", "disposed"}

ControlTypes ==
    /\ pc \in ControlPcs
    /\ sock \in {"closed", "open", "bound", "connected"}
    /\ file \in {"none", "stale", "ours"}
    /\ requests \in Seq({"ATTACH", "DETACH"})
    /\ inbox \in Seq({"OK", "FAIL", "EVENT"})
    /\ monitors \in Nat

\* Until dispose_p2p() nothing takes a registration back, and every "OK" on our socket,
\* even one that answers an attempt given up, came with one.
MonitorInv ==
    pc \in Opening =>
        /\ \A i \in 1..Len(requests) : requests[i] = "ATTACH"
        /\ (\E i \in 1..Len(inbox) : inbox[i] = "OK") => monitors > 0
        /\ AttachedMeansMonitored

\* The socket and its file by the steps of wpa_ctrl_open2().
FileInv ==
    /\ pc = "open" => sock = "closed"
    /\ pc \in {"open", "bind"} => file # "ours"
    /\ FailureLeavesNothing

ControlInv == ControlTypes /\ MonitorInv /\ FileInv

LEMMA ControlInit == Init => ControlInv
BY DEF Init, Control!Init, ControlInv, ControlTypes, MonitorInv, FileInv, ControlPcs, Opening,
   AttachedMeansMonitored, Control!AttachedMeansMonitored, FailureLeavesNothing,
   Control!FailureLeavesNothing

\* What wpa_supplicant does to us. A message delivered is the last of our inbox.
LEMMA SupplicantStep ==
    ASSUME ControlInv,
           Control!SupplicantReplies \/ Control!SupplicantEvent \/ Control!SupplicantDies
    PROVE  ControlInv'
<1> USE DEF ControlInv, ControlTypes
<1>1. UNCHANGED <<pc, sock, file>>
  BY DEF Control!SupplicantReplies, Control!SupplicantEvent, Control!SupplicantDies,
     Control!driverVars
<1>2. FileInv'
  BY <1>1 DEF FileInv, FailureLeavesNothing, Control!FailureLeavesNothing
<1>3. CASE Control!SupplicantReplies
  <2>1. PICK message \in {"OK", "FAIL"} :
           /\ requests # <<>> /\ requests' = Tail(requests)
           /\ inbox' \in {inbox, Append(inbox, message)}
           /\ monitors' \in Nat
           /\ message = "OK" => \/ Head(requests) = "DETACH" \/ monitors' > 0
           /\ Head(requests) = "ATTACH" => monitors' >= monitors
    BY <1>3 DEF Control!SupplicantReplies, Control!Deliver
  <2>2. requests' \in Seq({"ATTACH", "DETACH"}) /\ inbox' \in Seq({"OK", "FAIL", "EVENT"})
    BY <2>1
  <2>3. ASSUME pc \in Opening
        PROVE  MonitorInv'
    <3>1. Head(requests) = "ATTACH" /\ \A i \in 1..Len(requests') : requests'[i] = "ATTACH"
      <4>1. \A i \in 1..Len(requests) : requests[i] = "ATTACH"
        BY <2>3 DEF MonitorInv
      <4>2. Len(requests) \in Nat \ {0} /\ Head(requests) = requests[1]
        BY <2>1
      <4>3. Len(requests') = Len(requests) - 1
            /\ \A i \in 1..Len(requests') : requests'[i] = requests[i + 1]
        BY <2>1, <4>2
      <4>4. \A i \in 1..Len(requests') : i + 1 \in 1..Len(requests)
        BY <4>2, <4>3
      <4> QED
        BY <4>1, <4>2, <4>3, <4>4
    <3>2. (\E i \in 1..Len(inbox') : inbox'[i] = "OK") => monitors' > 0
      <4>1. (\E i \in 1..Len(inbox') : inbox'[i] = "OK")
               => message = "OK" \/ \E i \in 1..Len(inbox) : inbox[i] = "OK"
        <5>1. CASE inbox' = inbox
          BY <5>1
        <5>2. CASE inbox' = Append(inbox, message)
          <6>1. /\ Len(inbox) \in Nat /\ Len(inbox') = Len(inbox) + 1
                /\ inbox'[Len(inbox) + 1] = message
                /\ \A i \in 1..Len(inbox) : inbox'[i] = inbox[i]
            BY <5>2
          <6> QED
            BY <6>1
        <5> QED
          BY <2>1, <5>1, <5>2
      <4>2. (\E i \in 1..Len(inbox) : inbox[i] = "OK") => monitors > 0
        BY <2>3 DEF MonitorInv
      <4> QED
        BY <2>1, <3>1, <4>1, <4>2
    <3>3. pc = "running" => monitors' > 0
      BY <2>1, <2>3, <3>1 DEF MonitorInv, AttachedMeansMonitored, Control!AttachedMeansMonitored
    <3> QED
      BY <1>1, <3>1, <3>2, <3>3
         DEF MonitorInv, AttachedMeansMonitored, Control!AttachedMeansMonitored
  <2>4. MonitorInv'
    BY <1>1, <2>3 DEF MonitorInv
  <2> QED
    BY <1>1, <1>2, <2>1, <2>2, <2>4
<1>4. CASE Control!SupplicantEvent
  <2>1. UNCHANGED <<requests, monitors>> /\ inbox' \in {inbox, Append(inbox, "EVENT")}
    BY <1>4 DEF Control!SupplicantEvent, Control!Deliver
  <2>2. inbox' \in Seq({"OK", "FAIL", "EVENT"})
    BY <2>1
  <2>3. (\E i \in 1..Len(inbox') : inbox'[i] = "OK")
           => \E i \in 1..Len(inbox) : inbox[i] = "OK"
    BY <2>1
  <2> QED
    BY <1>1, <1>2, <2>1, <2>2, <2>3
       DEF MonitorInv, AttachedMeansMonitored, Control!AttachedMeansMonitored
<1>5. CASE Control!SupplicantDies
  <2>1. requests' = <<>> /\ UNCHANGED <<monitors, inbox>>
    BY <1>5 DEF Control!SupplicantDies
  <2> QED
    BY <1>1, <1>2, <2>1 DEF MonitorInv, AttachedMeansMonitored, Control!AttachedMeansMonitored
<1> QED
  BY <1>3, <1>4, <1>5

\* init_and_attach_ctrl(), then dispose_p2p().
LEMMA DriverStep ==
    ASSUME ControlInv, Control!Driver \/ Control!dispose_p2p
    PROVE  ControlInv'
<1> USE DEF ControlInv, ControlTypes, ControlPcs, Opening, MonitorInv, FileInv,
            AttachedMeansMonitored, Control!AttachedMeansMonitored, FailureLeavesNothing,
            Control!FailureLeavesNothing, Control!driverVars
<1>1. CASE Control!wpa_ctrl_open2 \/ Control!wpa_ctrl_open2_bind \/ Control!wpa_ctrl_open2_connect
  BY <1>1 DEF Control!wpa_ctrl_open2, Control!wpa_ctrl_open2_bind,
     Control!wpa_ctrl_open2_connect
<1>2. CASE Control!attach_send
  <2>1. CASE requests' = requests
    BY <1>2, <2>1 DEF Control!attach_send, Control!AttachReturns
  <2>2. CASE requests' = Append(requests, "ATTACH")
    BY <1>2, <2>2 DEF Control!attach_send, Control!AttachReturns
  <2> QED
    BY <1>2, <2>1, <2>2 DEF Control!attach_send
<1>3. ASSUME inbox # <<>>, inbox' = Tail(inbox)
      PROVE  /\ inbox' \in Seq({"OK", "FAIL", "EVENT"})
             /\ Head(inbox) = "OK" => \E i \in 1..Len(inbox) : inbox[i] = "OK"
             /\ (\E i \in 1..Len(inbox') : inbox'[i] = "OK")
                   => \E i \in 1..Len(inbox) : inbox[i] = "OK"
  <2>1. Len(inbox) \in Nat \ {0} /\ Head(inbox) = inbox[1] /\ 1 \in 1..Len(inbox)
    BY <1>3
  <2>2. /\ Len(inbox') = Len(inbox) - 1
        /\ \A i \in 1..Len(inbox') : inbox'[i] = inbox[i + 1] /\ i + 1 \in 1..Len(inbox)
    BY <1>3, <2>1
  <2> QED
    BY <1>3, <2>1, <2>2
<1>4. CASE Control!attach_recv
  <2>1. /\ pc = "attach_wait" /\ UNCHANGED <<requests, monitors>>
        /\ inbox # <<>> /\ inbox' = Tail(inbox)
        /\ \/ UNCHANGED <<pc, sock, file>>
           \/ Head(inbox) = "OK" /\ pc' = "running" /\ UNCHANGED <<sock, file>>
           \/ pc' = "failed" /\ sock' = "closed" /\ file' = "none"
    BY <1>4 DEF Control!attach_recv, Control!AttachReturns
  <2> QED
    BY <1>3, <2>1
<1>5. CASE Control!attach_timeout
  BY <1>5 DEF Control!attach_timeout, Control!AttachReturns
<1>6. CASE Control!recieve_message
  BY <1>3, <1>6 DEF Control!recieve_message
<1>7. CASE Control!dispose_p2p \/ Control!detach_timeout
  BY <1>7 DEF Control!dispose_p2p, Control!detach_timeout
<1>8. CASE Control!detach_send
  <2>1. /\ pc = "detach_send" /\ pc' \in {"detach_wait", "close"}
        /\ requests' \in {requests, Append(requests, "DETACH")}
        /\ UNCHANGED <<sock, file, monitors, inbox>>
    BY <1>8 DEF Control!detach_send
  <2>2. requests' \in Seq({"ATTACH", "DETACH"})
    BY <2>1
  <2> QED
    BY <2>1, <2>2
<1>9. CASE Control!detach_recv
  BY <1>3, <1>9 DEF Control!detach_recv
<1>10. CASE Control!dispose_p2p_close
  BY <1>10 DEF Control!dispose_p2p_close, Control!wpa_ctrl_close
<1> QED
  BY <1>1, <1>2, <1>4, <1>5, <1>6, <1>7, <1>8, <1>9, <1>10 DEF Control!Driver

LEMMA ControlInvariant == Spec => []ControlInv
<1>1. ASSUME ControlInv, [Next]_vars PROVE ControlInv'
  <2>1. CASE Attach
    BY <1>1, <2>1, SupplicantStep, DriverStep DEF Attach, Control!Next
  <2>2. CASE UNCHANGED controlVars
    BY <1>1, <2>2 DEF controlVars, ControlInv, ControlTypes, MonitorInv, FileInv,
       AttachedMeansMonitored, Control!AttachedMeansMonitored, FailureLeavesNothing,
       Control!FailureLeavesNothing
  <2> QED
    BY <1>1, <2>1, <2>2 DEF Next, Command, Stop, Meet, vars
<1> QED
  BY ControlInit, <1>1, PTL DEF Spec

\* connect.cpp, init_and_attach_ctrl(): whichever attempt the reply belongs to that ends
\* it, and however many attempts and messages there are, success means that
\* wpa_supplicant sends us its events.
THEOREM AttachedIsMonitored == Spec => []AttachedMeansMonitored
<1>1. ControlInv => AttachedMeansMonitored
  BY DEF ControlInv, MonitorInv, Opening, AttachedMeansMonitored,
     Control!AttachedMeansMonitored
<1> QED
  BY ControlInvariant, <1>1, PTL

\* wpa_ctrl.c: wherever the start fails, neither the socket nor its file is left behind,
\* and neither after the disposal.
THEOREM FailureIsCleanedUp == Spec => []FailureLeavesNothing
<1>1. ControlInv => FailureLeavesNothing
  BY DEF ControlInv, FileInv
<1> QED
  BY ControlInvariant, <1>1, PTL

-----------------------------------------------------------------------------
(***************************************************************************)
(* The end of the driver (DriverShutdown).                                 *)
(***************************************************************************)
ShutdownTypes ==
    /\ stack \in [Shutdown!Threads -> Seq(Shutdown!Frame)]
    /\ main_pc \in Shutdown!MainPcs /\ listener_pc \in {"off", "poll", "done"}
    /\ control \in {"open", "freed", "null"}
    /\ registered \in BOOLEAN /\ group \in BOOLEAN /\ alone \in BOOLEAN
    /\ detach_failed \in BOOLEAN
    /\ process \in {"running", "exited", "killed"}
    /\ signals \in Nat

\* wpa_supplicant has forgotten us, or a DETACH has failed.
Detached == registered => detach_failed

\* What a handler that has come to frame_pc, on any thread, can rely on.
Passed(frame_pc) ==
    /\ frame_pc \in {"close", "script", "null", "exit"} => Detached
    /\ frame_pc \in {"script", "null", "exit"} => control # "open"
    /\ frame_pc \in {"null", "exit"} => ~group

HandlersPassed ==
    \A t \in Shutdown!Threads : \A i \in 1..Len(stack[t]) : Passed(stack[t][i].pc)

\* Nothing registers again, and no group is made without an open interface: what one
\* handler has undone stays undone whatever the others and the threads do.
DisposalInv ==
    /\ HandlersPassed
    /\ control # "open" => Detached
    /\ control = "null" => ~group
    /\ process = "exited" => Passed("exit")

NoHandler == \A t \in Shutdown!Threads : stack[t] = <<>>

\* The one handler there is stands on main(), the only thread.
OnlyMainHandles ==
    /\ process # "killed" /\ listener_pc = "off" /\ main_pc # "attached"
    /\ \A t \in Shutdown!Threads \ {"main"} : stack[t] = <<>>
    /\ Len(stack["main"]) = 1 /\ stack["main"][1].sig # "FAULT"
    /\ stack["main"][1].pc \in {"check", "detach", "close"} => control = "open"

\* What a single signal to a lone main() can have led to: it was ignored, it came before
\* init_termination_signals(), or it is handled.
SearchingInv ==
    /\ signals = 0 => process = "running" /\ NoHandler /\ control = "open" /\ alone
    /\ main_pc = "attached" => listener_pc = "off" /\ NoHandler
    /\ signals <= 1 /\ alone =>
          \/ process = "running" /\ NoHandler /\ control = "open"
          \/ process = "killed" /\ main_pc = "attached"
          \/ OnlyMainHandles

ShutdownInv == ShutdownTypes /\ DisposalInv /\ SearchingInv

LEMMA ShutdownInit == Init => ShutdownInv
<1> SUFFICES ASSUME Init PROVE ShutdownInv
  OBVIOUS
<1> USE DEF Init, Shutdown!Init
<1>1. NoHandler
  BY DEF NoHandler
<1>2. ShutdownTypes
  <2>1. registered \in BOOLEAN /\ group \in BOOLEAN /\ alone \in BOOLEAN
    BY Zenon
  <2>2. /\ stack \in [Shutdown!Threads -> Seq(Shutdown!Frame)] /\ signals \in Nat
        /\ main_pc \in Shutdown!MainPcs /\ listener_pc \in {"off", "poll", "done"}
        /\ control \in {"open", "freed", "null"} /\ process \in {"running", "exited", "killed"}
    BY DEF Shutdown!MainPcs
  <2> QED
    BY <2>1, <2>2 DEF ShutdownTypes
<1>3. DisposalInv
  <2>1. HandlersPassed
    BY <1>1 DEF HandlersPassed, NoHandler
  <2> QED
    BY <2>1 DEF DisposalInv
<1>4. SearchingInv
  BY <1>1 DEF SearchingInv
<1> QED
  BY <1>2, <1>3, <1>4 DEF ShutdownInv

\* A step that undoes nothing of what a handler relies on.
Lasting == \A p \in Shutdown!FramePcs : Passed(p) => Passed(p)'

\* An activation puts a frame that relies on nothing on top of a stack.
LEMMA Activated ==
    ASSUME ShutdownTypes, HandlersPassed, Lasting,
           NEW t \in Shutdown!Threads, NEW sig \in Shutdown!Signals \cup {"FAULT"},
           Shutdown!Activate(t, sig)
    PROVE  /\ stack' \in [Shutdown!Threads -> Seq(Shutdown!Frame)]
           /\ HandlersPassed'
<1> DEFINE frame == [sig |-> sig, pc |-> "check"]
<1>1. stack' = [stack EXCEPT ![t] = Append(@, frame)] /\ frame \in Shutdown!Frame
  BY DEF Shutdown!Activate, Shutdown!Frame, Shutdown!FramePcs
<1> HIDE DEF frame
<1>2. stack' \in [Shutdown!Threads -> Seq(Shutdown!Frame)]
  BY <1>1 DEF ShutdownTypes
<1>3. ASSUME NEW u \in Shutdown!Threads, NEW i \in 1..Len(stack'[u])
      PROVE  Passed(stack[u][i].pc)'
  <2>1. CASE u = t /\ i = Len(stack[t]) + 1
    <3>1. stack'[u][i] = frame
      BY <1>1, <2>1 DEF ShutdownTypes
    <3> QED
      BY <3>1 DEF Passed, frame
  <2>2. CASE ~(u = t /\ i = Len(stack[t]) + 1)
    <3>1. i \in 1..Len(stack[u]) /\ stack'[u][i] = stack[u][i] /\ stack[u][i] \in Shutdown!Frame
      BY <1>1, <1>3, <2>2 DEF ShutdownTypes
    <3>2. stack[u][i].pc \in Shutdown!FramePcs /\ Passed(stack[u][i].pc)
      BY <3>1 DEF HandlersPassed, Shutdown!Frame
    <3> QED
      BY <3>1, <3>2 DEF Lasting, Passed
  <2> QED
    BY <2>1, <2>2
<1> QED
  BY <1>2, <1>3 DEF HandlersPassed

\* A handler goes on, having established what its new place relies on.
LEMMA Moved ==
    ASSUME ShutdownTypes, HandlersPassed, Lasting,
           NEW t \in Shutdown!Threads, NEW p \in Shutdown!FramePcs,
           stack[t] # <<>>, Shutdown!GoTo(t, p), Passed(p)'
    PROVE  /\ stack' \in [Shutdown!Threads -> Seq(Shutdown!Frame)]
           /\ HandlersPassed'
<1> DEFINE n == Len(stack[t])
           frame == [stack[t][n] EXCEPT !.pc = p]
<1>1. /\ n \in Nat \ {0} /\ stack[t] \in Seq(Shutdown!Frame)
      /\ stack[t][n] \in Shutdown!Frame
  BY DEF ShutdownTypes
<1>2. frame \in Shutdown!Frame /\ frame.pc = p
  BY <1>1 DEF Shutdown!Frame
<1>3. stack' = [stack EXCEPT ![t] = [stack[t] EXCEPT ![n] = frame]]
  BY DEF Shutdown!GoTo
<1> HIDE DEF n, frame
<1>4. [stack[t] EXCEPT ![n] = frame] \in Seq(Shutdown!Frame)
  BY <1>1, <1>2, ExceptSeq DEF n
<1>5. stack' \in [Shutdown!Threads -> Seq(Shutdown!Frame)]
  BY <1>3, <1>4 DEF ShutdownTypes
<1>6. ASSUME NEW u \in Shutdown!Threads, NEW i \in 1..Len(stack'[u])
      PROVE  Passed(stack[u][i].pc)'
  <2>1. CASE u = t /\ i = n
    <3>1. stack'[u][i] = frame
      BY <1>1, <1>3, <2>1 DEF ShutdownTypes, n
    <3> QED
      BY <1>2, <3>1 DEF Passed
  <2>2. CASE ~(u = t /\ i = n)
    <3>1. i \in 1..Len(stack[u]) /\ stack'[u][i] = stack[u][i] /\ stack[u][i] \in Shutdown!Frame
      BY <1>1, <1>3, <1>6, <2>2 DEF ShutdownTypes, n
    <3>2. stack[u][i].pc \in Shutdown!FramePcs /\ Passed(stack[u][i].pc)
      BY <3>1 DEF HandlersPassed, Shutdown!Frame
    <3> QED
      BY <3>1, <3>2 DEF Lasting, Passed
  <2> QED
    BY <2>1, <2>2
<1> QED
  BY <1>5, <1>6 DEF HandlersPassed

LEMMA Unmoved ==
    ASSUME ShutdownTypes, HandlersPassed, Lasting, UNCHANGED stack
    PROVE  HandlersPassed'
<1>1. ASSUME NEW u \in Shutdown!Threads, NEW i \in 1..Len(stack[u])
      PROVE  Passed(stack[u][i].pc)'
  <2>1. stack[u] \in Seq(Shutdown!Frame)
    BY DEF ShutdownTypes
  <2>2. stack[u][i] \in Shutdown!Frame
    BY <2>1
  <2>3. stack[u][i].pc \in Shutdown!FramePcs /\ Passed(stack[u][i].pc)
    BY <2>2 DEF HandlersPassed, Shutdown!Frame
  <2> QED
    BY <2>3 DEF Lasting, Passed
<1> QED
  BY <1>1 DEF HandlersPassed

\* What Fault() does: a handler more on the thread, or the end of the process.
LEMMA Faulted ==
    ASSUME ShutdownTypes, HandlersPassed, Lasting,
           NEW t \in Shutdown!Threads, Shutdown!Fault(t), process = "running"
    PROVE  /\ stack' \in [Shutdown!Threads -> Seq(Shutdown!Frame)]
           /\ HandlersPassed'
           /\ process' \in {"running", "killed"}
<1>1. CASE Shutdown!Activate(t, "FAULT") /\ UNCHANGED process
  BY <1>1, Activated
<1>2. CASE process' = "killed" /\ UNCHANGED stack
  BY <1>2, Unmoved DEF ShutdownTypes
<1> QED
  BY <1>1, <1>2 DEF Shutdown!Fault

LEMMA AtTopPassed ==
    ASSUME ShutdownTypes, HandlersPassed, NEW t \in Shutdown!Threads, NEW p,
           Shutdown!AtTop(t, p)
    PROVE  Passed(p) /\ stack[t] # <<>> /\ process = "running"
<1>1. stack[t] \in Seq(Shutdown!Frame) /\ stack[t] # <<>> /\ process = "running"
  BY DEF ShutdownTypes, Shutdown!AtTop
<1>2. Len(stack[t]) \in 1..Len(stack[t])
  BY <1>1
<1> QED
  BY <1>1, <1>2 DEF HandlersPassed, Shutdown!AtTop, Shutdown!Top

LEMMA LastingStep ==
    ASSUME Detached => Detached', control' = "open" => control = "open",
           group' => group \/ control = "open"
    PROVE  Lasting
BY DEF Lasting, Passed

\* The threads outside of any handler.
LEMMA ThreadsDispose ==
    ASSUME ShutdownTypes, DisposalInv, Shutdown!Main \/ Shutdown!connected_loop
    PROVE  ShutdownTypes' /\ DisposalInv'
<1>1. /\ UNCHANGED <<control, registered, signals, alone, detach_failed>> /\ process = "running"
      /\ group' = group \/ (group' = FALSE) \/ (group' = TRUE /\ control = "open")
      /\ UNCHANGED <<stack, process>> \/ \E t \in Shutdown!Threads : Shutdown!Fault(t)
      /\ main_pc' \in Shutdown!MainPcs /\ listener_pc' \in {"off", "poll", "done"}
  BY DEF Shutdown!Main, Shutdown!connected_loop, Shutdown!init_termination_signals,
     Shutdown!connect_loop_start, Shutdown!connect_loop_script, Shutdown!connect_loop_poll,
     Shutdown!enter_connected_state, Shutdown!join_threads, Shutdown!Idle, ShutdownTypes,
     Shutdown!MainPcs, Shutdown!Threads
<1>2. Lasting
  BY <1>1, LastingStep DEF Detached
<1>3. /\ stack' \in [Shutdown!Threads -> Seq(Shutdown!Frame)] /\ HandlersPassed'
      /\ process' \in {"running", "killed"}
  <2>1. CASE UNCHANGED <<stack, process>>
    BY <1>1, <1>2, <2>1, Unmoved DEF ShutdownTypes, DisposalInv
  <2>2. CASE \E t \in Shutdown!Threads : Shutdown!Fault(t)
    BY <1>1, <1>2, <2>2, Faulted DEF DisposalInv
  <2> QED
    BY <1>1, <2>1, <2>2
<1>4. group' \in BOOLEAN
  BY <1>1, Zenon DEF ShutdownTypes
<1> QED
  BY <1>1, <1>3, <1>4 DEF ShutdownTypes, DisposalInv, Detached

\* dispose_p2p() and exit(), on thread t.
LEMMA HandlerDisposes ==
    ASSUME ShutdownTypes, DisposalInv, NEW t \in Shutdown!Threads, Shutdown!Handler(t)
    PROVE  ShutdownTypes' /\ DisposalInv'
<1>1. HandlersPassed
  BY DEF DisposalInv
<1>2. CASE Shutdown!dispose_p2p_check(t)
  <2>1. PICK p \in {"exit", "detach"} :
           /\ p = "exit" => control = "null"
           /\ stack[t] # <<>> /\ Shutdown!GoTo(t, p) /\ process = "running"
           /\ UNCHANGED <<main_pc, listener_pc, control, registered, group, process,
                          signals, alone, detach_failed>>
    BY <1>1, <1>2, AtTopPassed DEF Shutdown!dispose_p2p_check, Shutdown!baseVars
  <2>2. Lasting
    BY <2>1, LastingStep DEF Detached
  <2>3. p \in Shutdown!FramePcs /\ Passed(p)'
    BY <2>1 DEF DisposalInv, Passed, Shutdown!FramePcs, Detached
  <2> QED
    BY <1>1, <2>1, <2>2, <2>3, Moved DEF ShutdownTypes, DisposalInv, Detached
<1>3. CASE Shutdown!dispose_p2p_detach(t)
  <2>1. /\ stack[t] # <<>> /\ process = "running"
        /\ UNCHANGED <<main_pc, listener_pc, control, group, signals, alone>>
        /\ \/ /\ \/ registered' = FALSE /\ UNCHANGED detach_failed
                 \/ detach_failed' = TRUE /\ UNCHANGED registered
                 \/ control = "freed" /\ UNCHANGED <<registered, detach_failed>>
              /\ Shutdown!GoTo(t, "close") /\ UNCHANGED process
           \/ Shutdown!Fault(t) /\ UNCHANGED <<registered, detach_failed>>
    BY <1>1, <1>3, AtTopPassed DEF Shutdown!dispose_p2p_detach, Shutdown!baseVars
  <2>2. Lasting
    BY <2>1, LastingStep DEF Detached
  <2>3. registered' \in BOOLEAN /\ detach_failed' \in BOOLEAN
    BY <2>1, Zenon DEF ShutdownTypes
  <2>4. CASE Shutdown!Fault(t) /\ UNCHANGED <<registered, detach_failed>>
    BY <1>1, <2>1, <2>2, <2>3, <2>4, Faulted DEF ShutdownTypes, DisposalInv, Detached
  <2>5. CASE Shutdown!GoTo(t, "close") /\ Detached' /\ UNCHANGED process
    <3>1. "close" \in Shutdown!FramePcs /\ Passed("close")'
      BY <2>5 DEF Passed, Shutdown!FramePcs
    <3> QED
      BY <1>1, <2>1, <2>2, <2>3, <2>5, <3>1, Moved DEF ShutdownTypes, DisposalInv
  <2> QED
    BY <2>1, <2>4, <2>5 DEF DisposalInv, Detached
<1>4. CASE Shutdown!dispose_p2p_close(t)
  <2>1. /\ stack[t] # <<>> /\ process = "running" /\ Detached
        /\ UNCHANGED <<main_pc, listener_pc, registered, group, signals, alone, detach_failed>>
        /\ \/ /\ Shutdown!GoTo(t, "script") /\ UNCHANGED process
              /\ control' = IF control = "open" THEN "freed" ELSE control
           \/ Shutdown!Fault(t) /\ UNCHANGED control
    BY <1>1, <1>4, AtTopPassed DEF Shutdown!dispose_p2p_close, Shutdown!baseVars, Passed
  <2>2. Lasting
    BY <2>1, LastingStep DEF Detached
  <2>3. CASE Shutdown!Fault(t) /\ UNCHANGED control
    BY <1>1, <2>1, <2>2, <2>3, Faulted DEF ShutdownTypes, DisposalInv, Detached
  <2>4. CASE /\ Shutdown!GoTo(t, "script") /\ UNCHANGED process
             /\ control' = IF control = "open" THEN "freed" ELSE control
    <3>1. "script" \in Shutdown!FramePcs /\ Passed("script")'
      BY <2>1, <2>4 DEF Passed, Shutdown!FramePcs, Detached
    <3> QED
      BY <1>1, <2>1, <2>2, <2>4, <3>1, Moved DEF ShutdownTypes, DisposalInv, Detached
  <2> QED
    BY <2>1, <2>3, <2>4
<1>5. CASE Shutdown!dispose_p2p_script(t)
  <2>1. /\ stack[t] # <<>> /\ process = "running" /\ Passed("script")
        /\ UNCHANGED <<main_pc, listener_pc, control, registered, process, signals, alone, detach_failed>>
        /\ group' = FALSE /\ Shutdown!GoTo(t, "null")
    BY <1>1, <1>5, AtTopPassed DEF Shutdown!dispose_p2p_script, Shutdown!baseVars
  <2>2. Lasting
    BY <2>1, LastingStep DEF Detached
  <2>3. "null" \in Shutdown!FramePcs /\ Passed("null")'
    BY <2>1 DEF Passed, Shutdown!FramePcs, Detached
  <2>4. group' \in BOOLEAN
    BY <2>1, Zenon
  <2> QED
    BY <1>1, <2>1, <2>2, <2>3, <2>4, Moved DEF ShutdownTypes, DisposalInv, Detached
<1>6. CASE Shutdown!dispose_p2p_null(t)
  <2>1. /\ stack[t] # <<>> /\ process = "running" /\ Passed("null")
        /\ UNCHANGED <<main_pc, listener_pc, registered, group, process, signals, alone, detach_failed>>
        /\ control' = "null" /\ Shutdown!GoTo(t, "exit")
    BY <1>1, <1>6, AtTopPassed DEF Shutdown!dispose_p2p_null, Shutdown!baseVars
  <2>2. Lasting
    BY <2>1, LastingStep DEF Detached
  <2>3. "exit" \in Shutdown!FramePcs /\ Passed("exit")'
    BY <2>1 DEF Passed, Shutdown!FramePcs, Detached
  <2> QED
    BY <1>1, <2>1, <2>2, <2>3, Moved DEF ShutdownTypes, DisposalInv, Passed
<1>7. CASE Shutdown!handler_exit(t)
  <2>1. /\ Passed("exit") /\ process' = "exited"
        /\ UNCHANGED <<main_pc, listener_pc, stack, control, registered, group, signals, alone, detach_failed>>
    BY <1>1, <1>7, AtTopPassed DEF Shutdown!handler_exit, Shutdown!baseVars
  <2>2. Lasting
    BY <2>1, LastingStep DEF Detached
  <2> QED
    BY <1>1, <2>1, <2>2, Unmoved DEF ShutdownTypes, DisposalInv, Passed, Detached
<1> QED
  BY <1>2, <1>3, <1>4, <1>5, <1>6, <1>7 DEF Shutdown!Handler

LEMMA SignalDisposes ==
    ASSUME ShutdownTypes, DisposalInv, NEW sig \in Shutdown!Signals, Shutdown!Signal(sig)
    PROVE  ShutdownTypes' /\ DisposalInv'
<1>1. /\ UNCHANGED <<main_pc, listener_pc, control, registered, group, detach_failed>>
      /\ process = "running" /\ process' \in {"running", "killed"} /\ signals' = signals + 1
      /\ \/ UNCHANGED stack
         \/ \E t \in Shutdown!Threads : Shutdown!Activate(t, sig)
  BY DEF Shutdown!Signal, Shutdown!baseVars, Shutdown!Alive, Shutdown!Threads
<1>2. Lasting
  BY <1>1, LastingStep DEF Detached
<1>3. stack' \in [Shutdown!Threads -> Seq(Shutdown!Frame)] /\ HandlersPassed'
  BY <1>1, <1>2, Activated, Unmoved DEF ShutdownTypes, DisposalInv
<1>4. alone' \in BOOLEAN
  BY Zenon DEF Shutdown!Signal
<1> QED
  BY <1>1, <1>3, <1>4 DEF ShutdownTypes, DisposalInv, Detached

\* What a stopped part keeps.
LEMMA ShutdownRests ==
    ASSUME UNCHANGED shutdownVars
    PROVE  /\ ShutdownTypes => ShutdownTypes'
           /\ DisposalInv => DisposalInv'
           /\ SearchingInv => SearchingInv'
BY DEF shutdownVars, ShutdownTypes, DisposalInv, HandlersPassed, Passed, Detached, SearchingInv,
   NoHandler, OnlyMainHandles

LEMMA DisposalInvariant == Spec => [](ShutdownTypes /\ DisposalInv)
<1>1. ASSUME ShutdownTypes, DisposalInv, [Next]_vars
      PROVE  ShutdownTypes' /\ DisposalInv'
  <2>1. CASE Stop
    BY <1>1, <2>1, ThreadsDispose, HandlerDisposes, SignalDisposes DEF Stop, Shutdown!Next
  <2>2. CASE UNCHANGED shutdownVars
    BY <1>1, <2>2, ShutdownRests
  <2> QED
    BY <1>1, <2>1, <2>2 DEF Next, Command, Attach, Meet, vars
<1>2. Init => ShutdownTypes /\ DisposalInv
  BY ShutdownInit DEF ShutdownInv
<1> QED
  BY <1>1, <1>2, PTL DEF Spec

\* connect.cpp, signal_callback_handler(): however many signals and faults overlap on
\* whatever threads, exit() is only reached with the group gone, and with the registration
\* gone unless a DETACH failed.
THEOREM ExitIsClean == Spec => []CleanExit
<1>1. DisposalInv => CleanExit
  BY DEF DisposalInv, Passed, Detached, CleanExit, Shutdown!CleanExit
<1> QED
  BY DisposalInvariant, <1>1, PTL

-----------------------------------------------------------------------------
\* The threads do not disturb a lone handler on main(), and without a handler the
\* interface they use is open.
LEMMA ThreadsSearching ==
    ASSUME ShutdownTypes, SearchingInv, Shutdown!Main \/ Shutdown!connected_loop
    PROVE  SearchingInv'
<1>1. /\ UNCHANGED <<control, signals, alone, detach_failed>> /\ process = "running"
      /\ main_pc' # "attached"
      /\ main_pc = "attached" => listener_pc = "off"
      /\ stack["main"] = <<>> \/ listener_pc # "off"
      /\ control = "open" => UNCHANGED <<stack, process>>
  BY DEF Shutdown!Main, Shutdown!connected_loop, Shutdown!init_termination_signals,
     Shutdown!connect_loop_start, Shutdown!connect_loop_script, Shutdown!connect_loop_poll,
     Shutdown!enter_connected_state, Shutdown!join_threads, Shutdown!Idle, SearchingInv
<1>2. CASE signals <= 1 /\ alone
  <2>1. process = "running" /\ NoHandler /\ control = "open"
    <3>1. ~OnlyMainHandles
      BY <1>1 DEF OnlyMainHandles, ShutdownTypes
    <3> QED
      BY <1>1, <1>2, <3>1 DEF SearchingInv
  <2> QED
    BY <1>1, <2>1 DEF SearchingInv, NoHandler
<1>3. CASE ~(signals <= 1 /\ alone)
  BY <1>1, <1>3 DEF SearchingInv, ShutdownTypes
<1> QED
  BY <1>2, <1>3

\* The one handler there may be goes through dispose_p2p() without a fault.
LEMMA HandlerSearching ==
    ASSUME ShutdownTypes, SearchingInv, NEW t \in Shutdown!Threads, Shutdown!Handler(t)
    PROVE  SearchingInv'
<1>1. /\ UNCHANGED <<main_pc, listener_pc, signals, alone>>
      /\ process = "running" /\ stack[t] # <<>>
  BY DEF Shutdown!Handler, Shutdown!dispose_p2p_check, Shutdown!dispose_p2p_detach,
     Shutdown!dispose_p2p_close, Shutdown!dispose_p2p_script, Shutdown!dispose_p2p_null,
     Shutdown!handler_exit, Shutdown!AtTop, Shutdown!baseVars
<1>2. signals # 0 /\ main_pc # "attached" /\ signals \in Nat
  BY <1>1 DEF SearchingInv, NoHandler, ShutdownTypes
<1>3. CASE signals <= 1 /\ alone
  <2>1. OnlyMainHandles
    BY <1>1, <1>2, <1>3 DEF SearchingInv, NoHandler
  <2>2. t = "main" /\ stack \in [Shutdown!Threads -> Seq(Shutdown!Frame)]
    BY <1>1, <2>1 DEF OnlyMainHandles, ShutdownTypes
  <2>3. ASSUME NEW p \in Shutdown!FramePcs, Shutdown!GoTo("main", p),
               process' = process,
               p \in {"check", "detach", "close"} => control' = "open"
        PROVE  OnlyMainHandles'
    <3> DEFINE frame == [stack["main"][1] EXCEPT !.pc = p]
    <3>1. /\ stack["main"] \in Seq(Shutdown!Frame) /\ Len(stack["main"]) = 1
          /\ stack["main"][1] \in Shutdown!Frame /\ stack["main"][1].sig # "FAULT"
      BY <2>1, <2>2 DEF OnlyMainHandles
    <3>2. stack' = [stack EXCEPT !["main"] = [stack["main"] EXCEPT ![1] = frame]]
      BY <2>3, <3>1 DEF Shutdown!GoTo
    <3>3. frame.sig = stack["main"][1].sig /\ frame.pc = p
      BY <3>1 DEF Shutdown!Frame
    <3> HIDE DEF frame
    <3>4. /\ \A u \in Shutdown!Threads \ {"main"} : stack'[u] = stack[u]
          /\ Len(stack'["main"]) = 1 /\ stack'["main"][1] = frame
      BY <2>2, <3>1, <3>2
    <3> QED
      BY <1>1, <2>1, <2>3, <3>1, <3>3, <3>4 DEF OnlyMainHandles
  <2>4. Shutdown!AtTop("main", stack["main"][1].pc)
    BY <1>1, <2>1, <2>2 DEF OnlyMainHandles, Shutdown!AtTop, Shutdown!Top
  <2>5. ASSUME NEW p, Shutdown!AtTop("main", p)
        PROVE  stack["main"][1].pc = p
    BY <2>1, <2>5 DEF OnlyMainHandles, Shutdown!AtTop, Shutdown!Top
  <2>6. CASE Shutdown!dispose_p2p_check(t)
    <3>1. control = "open" /\ Shutdown!GoTo("main", "detach") /\ UNCHANGED <<control, process>>
      BY <2>1, <2>2, <2>5, <2>6 DEF Shutdown!dispose_p2p_check, OnlyMainHandles
    <3>2. OnlyMainHandles'
      BY <2>3, <3>1 DEF Shutdown!FramePcs
    <3> QED
      BY <1>1, <1>2, <3>2 DEF SearchingInv
  <2>7. CASE Shutdown!dispose_p2p_detach(t)
    <3>1. control = "open" /\ Shutdown!GoTo("main", "close") /\ UNCHANGED <<control, process>>
      BY <2>1, <2>2, <2>5, <2>7 DEF Shutdown!dispose_p2p_detach, OnlyMainHandles
    <3>2. OnlyMainHandles'
      BY <2>3, <3>1 DEF Shutdown!FramePcs
    <3> QED
      BY <1>1, <1>2, <3>2 DEF SearchingInv
  <2>8. CASE Shutdown!dispose_p2p_close(t)
    <3>1. control = "open" /\ Shutdown!GoTo("main", "script") /\ UNCHANGED process
      BY <2>1, <2>2, <2>5, <2>8 DEF Shutdown!dispose_p2p_close, OnlyMainHandles
    <3>2. OnlyMainHandles'
      BY <2>3, <3>1 DEF Shutdown!FramePcs
    <3> QED
      BY <1>1, <1>2, <3>2 DEF SearchingInv
  <2>9. CASE Shutdown!dispose_p2p_script(t)
    <3>1. Shutdown!GoTo("main", "null") /\ UNCHANGED process
      BY <2>2, <2>9 DEF Shutdown!dispose_p2p_script
    <3>2. OnlyMainHandles'
      BY <2>3, <3>1 DEF Shutdown!FramePcs
    <3> QED
      BY <1>1, <1>2, <3>2 DEF SearchingInv
  <2>10. CASE Shutdown!dispose_p2p_null(t)
    <3>1. Shutdown!GoTo("main", "exit") /\ UNCHANGED process
      BY <2>2, <2>10 DEF Shutdown!dispose_p2p_null
    <3>2. OnlyMainHandles'
      BY <2>3, <3>1 DEF Shutdown!FramePcs
    <3> QED
      BY <1>1, <1>2, <3>2 DEF SearchingInv
  <2>11. CASE Shutdown!handler_exit(t)
    <3>1. process' = "exited" /\ UNCHANGED <<stack, control>>
      BY <2>11 DEF Shutdown!handler_exit
    <3> QED
      BY <1>1, <1>2, <2>1, <3>1 DEF SearchingInv, OnlyMainHandles
  <2> QED
    BY <2>6, <2>7, <2>8, <2>9, <2>10, <2>11 DEF Shutdown!Handler
<1>4. CASE ~(signals <= 1 /\ alone)
  BY <1>1, <1>2, <1>4 DEF SearchingInv
<1> QED
  BY <1>3, <1>4

LEMMA SignalSearching ==
    ASSUME ShutdownTypes, SearchingInv, NEW sig \in Shutdown!Signals, Shutdown!Signal(sig)
    PROVE  SearchingInv'
<1>1. /\ UNCHANGED <<main_pc, listener_pc, control>>
      /\ process = "running" /\ signals' = signals + 1
      /\ alone' => alone /\ listener_pc = "off"
      /\ \/ main_pc = "attached" /\ process' = "killed" /\ UNCHANGED stack
         \/ main_pc # "attached" /\ UNCHANGED <<stack, process>>
         \/ /\ main_pc # "attached" /\ UNCHANGED process
            /\ \E t \in Shutdown!Alive : Shutdown!Activate(t, sig)
  BY DEF Shutdown!Signal, Shutdown!baseVars, ShutdownTypes
<1>2. signals \in Nat
  BY DEF ShutdownTypes
<1>3. CASE signals' <= 1 /\ alone'
  <2>1. signals = 0 /\ NoHandler /\ control = "open" /\ listener_pc = "off"
    BY <1>1, <1>2, <1>3 DEF SearchingInv
  <2>2. CASE UNCHANGED stack
    BY <1>1, <1>2, <2>1, <2>2 DEF SearchingInv, NoHandler
  <2>3. CASE /\ main_pc # "attached" /\ UNCHANGED process
             /\ \E t \in Shutdown!Alive : Shutdown!Activate(t, sig)
    <3>1. Shutdown!Activate("main", sig) /\ main_pc # "attached" /\ UNCHANGED process
      BY <1>1, <2>1, <2>3 DEF Shutdown!Alive
    <3>2. /\ \A u \in Shutdown!Threads \ {"main"} : stack'[u] = <<>>
          /\ stack'["main"] = Append(<<>>, [sig |-> sig, pc |-> "check"])
      BY <2>1, <3>1 DEF Shutdown!Activate, NoHandler, ShutdownTypes, Shutdown!Threads
    <3>3. /\ Len(stack'["main"]) = 1 /\ stack'["main"][1].sig = sig
          /\ stack'["main"][1].pc = "check"
      BY <3>2
    <3>4. OnlyMainHandles'
      BY <1>1, <2>1, <3>1, <3>2, <3>3 DEF OnlyMainHandles, Shutdown!Signals
    <3> QED
      BY <1>1, <1>2, <3>1, <3>4 DEF SearchingInv
  <2> QED
    BY <1>1, <2>2, <2>3
<1>4. CASE ~(signals' <= 1 /\ alone')
  BY <1>1, <1>2, <1>4 DEF SearchingInv, NoHandler
<1> QED
  BY <1>3, <1>4

\* connect.cpp: a single signal while main() is the only thread ends the driver cleanly,
\* wherever main() is: it never comes back to the interface that was freed.
THEOREM SearchingIsClean == Spec => []SearchingShutdownIsClean
<1>1. ASSUME ShutdownTypes, SearchingInv, [Next]_vars
      PROVE  SearchingInv'
  <2>1. CASE Stop
    BY <1>1, <2>1, ThreadsSearching, HandlerSearching, SignalSearching DEF Stop, Shutdown!Next
  <2>2. CASE UNCHANGED shutdownVars
    BY <1>1, <2>2, ShutdownRests
  <2> QED
    BY <1>1, <2>1, <2>2 DEF Next, Command, Attach, Meet, vars
<1>2. Init => SearchingInv
  BY ShutdownInit DEF ShutdownInv
<1>3. ShutdownTypes /\ SearchingInv => SearchingShutdownIsClean
  <2> SUFFICES ASSUME ShutdownTypes, SearchingInv, signals <= 1, alone, main_pc # "attached"
               PROVE  process # "killed" /\ \A t \in Shutdown!Threads : "FAULT" \notin Shutdown!Masked(t)
    BY DEF SearchingShutdownIsClean, Shutdown!SearchingShutdownIsClean
  <2>1. CASE process = "running" /\ NoHandler
    BY <2>1 DEF NoHandler, Shutdown!Masked
  <2>2. CASE OnlyMainHandles
    BY <2>2 DEF OnlyMainHandles, Shutdown!Masked
  <2> QED
    BY <2>1, <2>2 DEF SearchingInv
<1>4. Spec => []ShutdownTypes
  BY DisposalInvariant, PTL
<1> QED
  BY <1>1, <1>2, <1>3, <1>4, PTL DEF Spec
=============================================================================
