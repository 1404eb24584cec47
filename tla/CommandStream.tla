---------------------------- MODULE CommandStream ----------------------------
(***************************************************************************)
(* The command connection as a byte stream (command_handler.cpp). The      *)
(* client writes commands of three bytes -- control byte, option, toggle   *)
(* -- and TCP hands them to recv() in pieces of any length; every piece is *)
(* given to execute_command(), which takes it for one command.             *)
(*                                                                         *)
(* A byte is named after the command it belongs to and its place there, so *)
(* that a command put together from bytes of two commands can be told from *)
(* one the client sent. Commands are numbered in the order they are sent.  *)
(***************************************************************************)
EXTENDS Naturals, Sequences

CONSTANTS
    MaxSent,           \* bound: commands sent on one connection
    COMMAND_MAX_RECV   \* size of the receive buffer

\* What is assumed of the constants.
BoundsAssumption ==
    /\ MaxSent \in Nat
    /\ COMMAND_MAX_RECV \in Nat \ {0}

VARIABLES
    paced,     \* does the client wait until a command has been read? (never changes)
    sent,      \* number of commands sent
    stream,    \* bytes sent and not yet received
    buffer,    \* the bytes of the last recv()
    executed   \* what execute_command() has called so far

vars == <<paced, sent, stream, buffer, executed>>

CommandLength == 3

Init ==
    /\ paced \in BOOLEAN
    /\ sent = 0
    /\ stream = <<>>
    /\ buffer = <<>>
    /\ executed = <<>>

\* The client (external) writes one command in one piece.
ClientSends ==
    /\ sent < MaxSent
    /\ paced => stream = <<>>
    /\ sent' = sent + 1
    /\ stream' = stream \o [p \in 1..CommandLength |-> [cmd |-> sent', place |-> p]]
    /\ UNCHANGED <<paced, buffer, executed>>

\* Mutant: what precedes the control byte is skipped, and so is a missing toggle.
execute_command_resyncs(bytes) ==
    IF \E i \in 1..Len(bytes) - 1 : bytes[i].place = 1
    THEN LET i == CHOOSE j \in 1..Len(bytes) - 1 : bytes[j].place = 1
         IN  executed' = Append(executed, [option |-> bytes[i + 1].cmd,
                                           toggle |-> bytes[Len(bytes)].cmd])
    ELSE UNCHANGED executed

\* Mutant: a command needs a byte after the toggle.
execute_command_too_long(bytes) ==
    IF Len(bytes) > 3 /\ bytes[1].place = 1
    THEN executed' = Append(executed, [option |-> bytes[2].cmd, toggle |-> bytes[3].cmd])
    ELSE UNCHANGED executed

\* More than two bytes that begin with the control byte are a command; the bytes
\* after the third one are ignored. After the control byte of a command always comes
\* its option, which is none of the options when it is another control byte.
execute_command(bytes) ==
    IF Len(bytes) > 2 /\ bytes[1].place = 1
    THEN executed' = Append(executed, [option |-> bytes[2].cmd, toggle |-> bytes[3].cmd])
    ELSE UNCHANGED executed

\* One turn of the loop of listen_for_commands(): recv() returns what has arrived, at
\* most COMMAND_MAX_RECV bytes. A paced client's command arrives in one piece.
receive_command ==
    /\ stream # <<>>
    /\ \E n \in 1..Len(stream) :
          /\ n <= COMMAND_MAX_RECV
          /\ paced => n = Len(stream) \/ n = COMMAND_MAX_RECV
          /\ buffer' = SubSeq(stream, 1, n)
          /\ stream' = SubSeq(stream, n + 1, Len(stream))
    /\ execute_command(buffer')
    /\ UNCHANGED <<paced, sent>>

\* The client has no more to say.
Done ==
    /\ sent = MaxSent /\ stream = <<>>
    /\ UNCHANGED vars

Next == ClientSends \/ receive_command \/ Done

Spec == Init /\ [][Next]_vars

-----------------------------------------------------------------------------
\* However the stream is cut, the hardware only does what the client asked for: option
\* and toggle of every call are those of one command, no command is carried out
\* twice, and none before one sent earlier.
NoPhantomCommand ==
    /\ \A i \in 1..Len(executed) : executed[i].option = executed[i].toggle
    /\ \A i, j \in 1..Len(executed) : i < j => executed[i].option < executed[j].option

\* A client that lets each command be read before it sends the next one has every
\* command carried out.
PacedCommandsExecuted ==
    paced /\ stream = <<>> => Len(executed) = sent
=============================================================================
