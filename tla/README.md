# Verification of the Wi-Fi P2P driver and its streaming library

The repository holds the Raspberry Pi side of a non-line-of-sight imaging device: a
driver that lets an Android client join a Wi-Fi Direct group and steers the hardware on
its commands, with the library (uvgRTP) the video is to be streamed with. This directory
models it in TLA+, checks the models with TLC and proves the driver's safety with TLAPS.
Paths below are relative to `src/rpi_files/Documents/wifip2p/driver/`.

## 1. The system

### The driver (`p2p_driver/`)

| part | state | operations | talks to |
|---|---|---|---|
| main loop (`connect.cpp`) | `control_data`, `mac_address`, `group_interface_name` | attach to wpa_supplicant, `connect_loop`, `connect_to_device`, `enter_connected_state`, `dispose_p2p` | wpa_supplicant's control socket, `wpa_cli` and scripts through `system()` |
| connection listener (`connected_loop`) | reads the flag | polls the control socket for `AP-STA-DISCONNECTED`, then lowers the flag | main (joined), command handler (flag) |
| command handler (`command_handler.cpp`) | `run_command_loop` under `run_mutex`, listening and connected socket | bind, listen, accept, then select/recv/execute | client over TCP |
| command executor (`command_executor.cpp`) | none | six functions that print | |
| IP exchanger (`ip_exchanger.cpp`) | `client_ip` (global) | UDP or TCP handshake in which the client's address is learnt | client |
| sockets (`tcp_`/`udp_p2p_go_socket.cpp`, `p2p_go_socket_utils.cpp`) | descriptors | open, bind, accept, send, receive | kernel |
| control client (`wpa_supplicant_lib/wpa_ctrl.c`) | socket and its file | open, request, attach, detach, receive, pending, close | wpa_supplicant |
| scripts (`scripts/`) | wpa_supplicant's groups, peer table, discovery | fresh search, disposal, installation by hand | wpa_supplicant, systemd-networkd |

`main()` attaches, installs the termination signals, and repeats: advertise until a
device asks for a negotiation, accept it, wait for the group, exchange the address, enter
the connected state. That state starts two threads, joins both and goes back to
advertising. The threads meet only at `run_command_loop`: the handler lowers it when its
socket cannot be opened or accepted on (lines 80-83), the listener when the client leaves
the group. A client that closes its command connection lowers nothing: the handler goes on
reading nothing until the client leaves (lines 94-101).

What is hard here: events of an earlier attempt are still queued when the next begins;
three threads and a signal handler share a flag, a socket and a pointer; every system
call may fail half-way; replies of wpa_supplicant carry no request number and may come
after the time-out; TCP cuts the commands as it likes; the group's address arrives at its
own time; nothing but a message ever wakes a blocked call.

### The library (`uvgRTP_lib/`)

| part | state | operations |
|---|---|---|
| packet dispatcher (`pkt_dispatch.cc`, `runner.cc`) | `active_`, frame queue, hook, `exit_mtx_` | start, receive loop, hand-over, pull, stop |
| reassembly (`formats/h26[456]_pkt_handler.cc`, `media.cc`) | frames by timestamp, dropped timestamps | one packet in, at most one unit (or the units of an aggregate) out |
| senders (`formats/h26x.cc`, `h26[456].cc`, `media.cc`) | aggregation info | find NAL units; send each whole, aggregated or in fragments |
| frame queue (`queue.cc`) | active, queued and free transactions | enqueue, flush, recycle |
| stream and session (`media_stream.cc`, `session.cc`, `lib.cc`) | stream table, parts of a stream | create, init, add a key, destroy |
| RTCP (`rtcp.cc`, `rtcp/`) | participants, statistics, kept frames, hooks | reports in and out, on a thread of its own |
| ZRTP (`zrtp.cc`, `zrtp/`) | session, keys | agreement on keys, in DH or multistream mode |
| SRTP, SRTCP (`srtp/`) | keys, roll-over counter, replay list | protect and check one packet or report |
| hole puncher (`holepuncher.cc`) | last time a datagram was sent | its own thread |
| RTP, sockets, poll (`rtp.cc`, `socket.cc`, `poll.cc`) | sequence number, timestamp | one packet, or a system call |

The receiving path is: socket, dispatcher thread, RTP handler, RTCP and SRTP handlers,
media handler, then the frame queue or the hook of the application. The sending path is:
media format, frame queue, SRTP and RTCP handlers, socket. Nothing in the driver calls the
library yet. `dispatch.cc` is dead code: `create_stream()` rejects the flag that would
start it (`session.cc:37`).

What is hard here: packets are lost, overtake each other, come twice and number
themselves modulo 2^16; detached threads work on objects the application deletes; hooks
are installed while frames are on their way; transactions are recycled after a socket
failed; two peers decide on roles and keys over a network that loses their last message;
a stream may be half built, refused its key or destroyed in any order.

## 2. Modules

| module | models | kind |
|---|---|---|
| `P2PDriver` | main thread, command handler, connection listener, with wpa_supplicant, networkd, kernel and client as environment | specification |
| `DriverSession` | what the driver promises: one client at a time, each thread once per session | abstract specification |
| `P2PDriverRefinement` | the mapping from the first to the second | refinement |
| `P2PDriverInvariant` | the inductive invariant `IInv` in six named parts | invariant |
| `P2PDriver_proofs` | nine theorems with their lemmas | proofs |
| `CommandStream` | the command connection as bytes, `execute_command()` | specification |
| `ControlInterface` | `wpa_ctrl_open/attach/detach/close` as start-up and disposal use them | specification |
| `DriverShutdown` | termination signals on any thread, `dispose_p2p()`, faults | specification |
| `IpExchanger` | both handshakes with every system call failing | specification |
| `DriverParts` | one behaviour of one of the four above | composition |
| `DriverParts_proofs` | eight theorems about the four parts | proofs |
| `SendPath`, `MCSendPath` | `push_frame()` of every format down to `sendmmsg()`, with the frame queue | specification, frames for TLC |
| `H26xReassembly`, `MCH26xReassembly` | `packet_handler()` of H.264, H.265, H.266 and generic media under loss, reordering, duplication and overflow | specification, streams for TLC |
| `PktDispatcher`, `MCPktDispatcher` | dispatcher thread, application and consumer | specification, packets for TLC |
| `UnitChannel`, `H26xRefinement` | what the receiving side of a media format promises, and the mapping from `H26xReassembly` | abstract specification, refinement |
| `FrameOutlet`, `DispatcherRefinement` | what the dispatcher promises, and the mapping from `PktDispatcher` | abstract specification, refinement |
| `SendPath_proofs` | the frame queue: transactions and numbers; frames sent whole | proofs |
| `H26xReassembly_proofs` | what is returned, what is given up, the channel implemented | proofs |
| `PktDispatcher_proofs` | the end of the loop, the hand-over of frames, the outlet implemented | proofs |
| `MediaStream` | session and streams: creation with every failure, late keys, use, destruction | specification |
| `HolePuncher` | the keep-alive thread against `notify()`, `stop()` and time | specification |
| `Srtp` | both ends of SRTP or SRTCP over a network that loses, repeats, reorders | specification |
| `RtcpSource` | the statistics a receiver keeps of one source | specification |
| `Rtcp` | participants, kept frames and hooks under application, dispatcher and report thread | specification |
| `Zrtp` | two peers agreeing on keys for several streams | specification |
| `MediaParts` | one behaviour of one of the six above | composition |
| `MediaParts_proofs` | hole puncher, SRTP, RTCP and its statistics | proofs |
| `MediaLife_proofs`, `MediaKeys_proofs` | streams and sessions; ZRTP | proofs |

The parts composed in `DriverParts` and `MediaParts` meet in the program only through the
calls each of them models; a behaviour of the composition lets one part work and keeps the
others in their initial states, so one run covers all of them and no product is built.

Definitions have the names of the functions they stand for, with a suffix where a
function has several points at which others can interfere: `listen_for_commands_init`,
`_accept`, `_check`, `_recv`, `_close`. A thread is a program counter (`main_pc`,
`cmd_pc`, `conn_pc`, `runner_pc`, ...); a step runs from one such point to the next, with
everything the code does in between.

Abstractions that matter:

- `P2PDriver`: a message is its type, its device and, as history, its age relative to the
  last fresh search. Parsing is left out. The script of the search is one step: it removes
  the group, flushes the peers and starts discovery. `late` counts, as history, the
  commands executed after the flag fell. `socket()`, `bind()` and `listen()` may fail at any
  attempt, the second for certain while the port is taken. `listener = "leaked"` is the
  socket that `tcp_init_accept_socket()` leaves open when `accept()` fails.
- `CommandStream`: a byte is the number of its command and its place in it, so that a call
  made from the bytes of two commands shows.
- `DriverShutdown`: each thread has a stack of handler activations. A use of the freed
  interface goes unnoticed or raises a fault, whose handler is the same function; a fault
  in the handler of a fault kills the process. `wpa_ctrl_detach()` may fail, which
  `dispose_p2p_detach()` does not look at (`connect.cpp:238`): `detach_failed` remembers it.
- `IpExchanger`: one step per system call, each with its failure; `open` is the set of open
  descriptors, and every `close()` of the code is a step that takes its own argument out of
  it, which may be closed already (`ip_exchanger.cpp:48` after line 81 of
  `udp_p2p_go_socket.cpp`), or -1.
- `SendPath`: of a frame's bytes only 0 and 1 matter, the parts of start codes; the others
  stand for the type of their NAL unit. The scan works on words as the code does, sentinel
  included. What a packet carries is named by frame and place, because the queue keeps
  pointers: a header or a list that is overwritten before it is sent shows on the wire.
- `H26xReassembly`: a payload is its packet's place in the stream; sequence numbers are
  taken modulo `SEQ_MOD` in place of 2^16 and keys extended by one bit where the format's
  map has room for it.
- `PktDispatcher`: a packet's kind says what every handler returns for it; a frame is its
  number in the order of completion. `frames_` is only touched under its mutex, so each
  locked section is one step. The reads of `active_`, which is no atomic, are taken as
  they are compiled: one load each time. After the stream has been freed the model stops.
- `MediaStream`: each part of a stream is null, live or freed, those that another part has
  made and its destructor does not delete included (`Inner`); a use of what is not live makes
  the process undefined, and the model stops there. A step of `init()` may fail where the
  code has a return for it. `loose` holds the detached threads that `stop()` does not wait
  for: the dispatcher's until it has taken its mutex, the hole puncher's and RTCP's always.
  One of these that wakes after its stream was deleted makes the process undefined too
  (`thread_outlives`).
- `HolePuncher`: time passes in ticks of 100 ms, five to a sleep, so a push may fall anywhere
  between two looks of the thread. A push and the thread's own datagram may fail, and are
  counted as sent all the same, as in the code.
- `Srtp`: a key stream is the key and index it is made from, a tag the key, the packet and
  the counter it was computed over.
- `RtcpSource`: `probation` of a participant first heard of by a report is uninitialised
  in the code: any small value. `Rtcp` follows one kind of kept report per behaviour
  (`watched`); an uninitialised or missing socket is a fault where it is used. The pointer to
  a kept report is null or any value (`"wild"`) from the entry of its source to line 176 of
  `rtcp.cc`.
- `Zrtp`: hashes, public values and secrets are records of what they were made from.
  `setsockopt()` at the end of the Diffie-Hellman mode may fail, after which the peer has
  agreed on keys and returns an error all the same (`zrtp.cc:715`); `keys` has them from the
  agreement on. Version mismatches and damaged datagrams are left out: both ends run this code.

## 3. Runs

| run | question | distinct states |
|---|---|---|
| `driver` | with two competing devices: the inductive invariant; threads and sockets torn down after a session; the device served is the one negotiated with; no disconnection lost, none taken from an earlier group; at most one command after the flag fell; implements `DriverSession`; a failed command socket, and a client that leaves, lead back to advertising; the command port is opened again and again | 201,966 |
| `accept_blocks` | *violated*: the command handler finishes when the flag falls | |
| `shutdown_connected` | *violated*: one signal in the connected state cleans up | |
| `driver_parts` | commands cut in any way are never executed unsent, and a patient client has all executed; attached means registered, a failed start and a disposal leave nothing, and both end; `exit()` is reached only with the group gone, and with the registration gone unless a DETACH failed; no handshake leaves a descriptor, whichever call failed, and the address of one that succeeded came from that call's socket | 57,981 |
| `send_path` | plain frames are sent whole, in order and with the marker where the receiver expects it, never refused; no number twice before all are used, after failures of the socket too; transactions are neither lost nor reused with packets in them | 26,648 |
| `send_waiting_units` | *violated*: an accepted frame has all its units sent | |
| `h26x_reassembly` | a unit is returned whole, in order, once, and as soon as it is complete, across the overflow; what was given up stays so; implements `UnitChannel` | 67,835 |
| `h264_overflow` | *violated*: fragments behind the overflow appear in order | |
| `pkt_dispatcher` | frames are handed over once and in order, hook or not, and none after `stop()` has returned (implements `FrameOutlet`); `stop()` returns, and waits for a loop that was entered; packets are read although recvfrom() fails or nobody pulls | 135,580 |
| `dispatcher_stop` | *violated*: a stream can be destroyed safely after `stop()` | |
| `media_parts` | a stream's parts are misused only for want of its key or by a thread that outlived it, and nothing leaks but what no destructor deletes and one socket; the firewall never sees silence as long as the threshold and a sleep together; a packet is decrypted as it was encrypted or refused; a source that keeps sending is counted again, no more losses are reported than packets were not counted; one source always has a socket, kept reports are freed once and their pointers set before use, but for three races; ZRTP roles are opposite and keys fit | 1,477,871 |
| `srtp_overtaken` | *violated*: a packet overtaken by the wrap is decrypted with the counter before it | |

Bounds, each named in its module:

- Two devices: a stale request, a refused peer and the present client are at most two
  different ones. Three queued messages (`QueueCap`): a stale one, an outcome and a
  disconnection; a full socket makes wpa_supplicant wait. `MAX_CONFIRM_MSGS = 2` is the
  code's value. No symmetry, since temporal properties are checked in the same run.
- Five commands and a buffer of five bytes, so that a read may end inside a command or
  the buffer inside the second. The code's five attach attempts; six requests and four
  messages hold what five time-outs leave behind. Two signals: a signal in the handler of
  another; a third adds only a deeper stack of the same frames. Two calls of the
  handshake, so that the second sees what the first left.
- `SendPath`: a payload of six bytes makes units of one, two and three fragments short
  enough to place start codes at every alignment to the scan's words; two frames after
  each other, because the second meets what the first left in the queue. One packet per
  system call lets the socket fail between any two.
- `H26xReassembly`: units of up to four fragments in streams of up to six packets,
  beginning just before the overflow or far from it, with one duplicate: the first, a
  middle and the last fragment can each be lost, late or doubled while another unit is
  under way.
- `PktDispatcher`: three packets that make up to two frames each, one millisecond of
  time-out.
- `MediaParts`: two streams with the combinations of flags `create_stream()` tells apart;
  the hole puncher's 2000 and 500 ms in ticks of 100; sequence numbers that wrap after two
  packets (SRTP), so that several rounds fit, and after eight (RTCP), three of them under
  way: six packets that begin at any number wrap once and make no full round, which
  `FollowersAreCounted` and `LossesAreBounded` cover; a report number that leaves its width
  after three; two sources; three tries where ZRTP has ten or more, and two streams, the
  second in multistream mode unless the first has failed.

`GROUP_IP` and `OUR_IP` are given the same value in the runs; see section 6. Deadlock is
checked in `driver` only: the other models end, where a bound is reached, the driver has
stopped or a stream has been destroyed.

### Fairness

`P2PDriver`: weak fairness of the three threads (the OS schedules them). Strong fairness
of a formation's outcome: wpa_supplicant times a formation out by itself and repeats its
report until the socket has room. Weak fairness of networkd for an interface that stays
up, and of the end of TIME_WAIT. Nothing is assumed of the client, and errors of sockets
are never required to happen. `CommandPortComesBack` states in its premise what it needs of
them: that the handler is started again and again, that `accept()` does not fail, and that
from some time on the port is opened whenever nothing holds it. What is left for the property
to say is that no sequence of sessions leaves a socket of the driver's own on the port. `DriverParts`: only the driver's side of the control
interface is scheduled; `select()` with its ten seconds makes every wait end, and
wpa_supplicant may hang or die. `PktDispatcher`: the runner and a `stop()` under way are
scheduled, and recvfrom() does not fail for ever while a packet waits. The other modules
have no liveness properties: a lossy network promises nothing.

## 4. What is proved

`P2PDriver_proofs` proves, for every set of devices, every `QueueCap`, `MaxCommands` and
`MAX_CONFIRM_MSGS`, from `DevicesAssumption` and `BoundsAssumption`:

| theorem | states |
|---|---|
| `TypeCorrect` | `TypeOK` |
| `Invariance` | `IInv` |
| `TornDown`, `ServesNegotiated`, `DisconnectKept`, `OneLateCommand` | the safety invariants of `driver` |
| `FlagFalls` | `FlagFallsWithHandler`, which the run covers with `IInv` |
| `DisconnectIsFresh` | the action property `FreshDisconnect` |
| `Refinement` | `Spec => ImplementsSession` |

None of the invariants is inductive alone. `ServesNegotiatedDevice`, for one, needs to
know that the `GROUP_STARTED` that ended the negotiation was not an old one, which needs
the order of the queue and the place of the outcome in it. `IInv` is built so that its
parts are inductive one after the other:

1. `ThreadInv`: which threads and sockets exist follows from where main and the handler
   are. This alone gives `SessionTornDown`.
2. `FlagInv` (uses 1): nobody raises the flag between the spawning and the joining of the
   handler. Gives `FlagFallsWithHandler` and `AtMostOneLateCommand`.
3. `OutcomeInv`: the outcome of a formation is on the socket at most once, only while
   `connect_to_device()` waits, and it speaks of the group as it is.
4. `DeviceInv` (uses 3): from the negotiation on, every record of the device agrees.
5. `AgeInv` (uses 3): old messages come first, and none is left once the group's own
   `GROUP_STARTED` has been read. Gives `FreshDisconnect`.
6. `DisconnectInv` (uses 1, 4): a datagram comes from an associated client or one whose
   leaving is still unread. Carries `NoDisconnectLost`.

There is a lemma for each part with one step per action, lemmas about `Append` and `Tail`
that state what the queue keeps, and the refinement has one step per action mapped to a
step of `DriverSession` or a stutter.

### The parts of the driver

`DriverParts_proofs`, from `PartsAssumption`; a step of one part leaves the variables of the
others alone, so each part has an invariant of its own.

| theorem | states | along which invariant |
|---|---|---|
| `NoDescriptorIsLeft` | `NoDescriptorLeft` | `OpenInv`: which descriptors are open at each step, and that the local variables name them, a number that `udp_receive_msg()` has closed or -1 included |
| `ConnectedIsHeard` | `ConnectedWasHeard` | `HeardInv`: what waits at the socket came to it, and a TCP handshake whose `accept()` failed cannot return true |
| `NoPhantom` | `NoPhantomCommand` | `StreamInv`: what waits in the socket is the end of what was sent, so the place of a byte tells its command |
| `PacedAreExecuted` | `PacedCommandsExecuted` | `PacedInv`: one command under way at most. Needs `COMMAND_MAX_RECV >= 3`, a buffer that holds a command; the code's has 64 bytes |
| `AttachedIsMonitored` | `AttachedMeansMonitored` | `MonitorInv`: until `dispose_p2p()` every `OK` in our inbox came with a registration, whichever attempt it answers |
| `FailureIsCleanedUp` | `FailureLeavesNothing` | `FileInv`: socket and file by the steps of `wpa_ctrl_open2()` |
| `ExitIsClean` | `CleanExit` | `DisposalInv`: what one activation of the handler has undone stays undone, whatever the others do; who is still registered when the interface is closed had a DETACH fail |
| `SearchingIsClean` | `SearchingShutdownIsClean` | `SearchingInv`: what a single signal to a lone main() can have led to |

### Sender and receiver

`SendPath_proofs`, for any frames, payload size, width of the sequence numbers, number of
frames and failures of the socket, from `SendAssumption` and `ScanAssumption`:
`TransactionsAreKept` (`TransactionsKept`), `NumbersAreGivenOnce` (`NumberedOnce`) and
`PlainFramesAreSentWhole` (`WholeFrames`). The queue is used in the same way by every format, so each action is first shown to be one of
five uses (`Ways`): it looks at the frame, takes a transaction, queues packets, refuses the
frame, or sends. `TransactionsInv` says that the active and the free transactions have the
keys made so far, each once, and that slots are counted from 0. `NumbersInv` gives every
packet on the wire the place at which it was numbered, in increasing order, without gaps
inside a frame; numbers modulo `SEQ_MOD` are then compared through these places, which
arithmetic over a symbolic modulus needs lemmas for (`Multiple` to `Apart`).
`NumberedOnce` has two hypotheses the code needs: no frame was refused (a refused frame
leaves its packets in the transaction, section 6), and fewer packets were numbered than
there are numbers.

`ContentsInv` says what the transaction holds at each point of `push_frame()`. Of a plain
frame the packets queued are those of the first d units and of no other, in order: a small
unit is one packet, a large one fragments that continue each other from behind its header to
its end (`HoldsUnits`); the unit at hand is the next one, and the place the scan goes on from
is the start of the one after it (`AtUnit`). Fragments are typed when they are sent, from the
transaction's one set of headers, so the invariant also has that every fragmented unit held
is of the type these headers name, which only frames that are plain ensure. When `flush_queue()` ends, this carries over to the
wire, and what later frames add leaves it as it is (`StaysSent`).

`ScanAssumption` states that the start-code scan returns nothing or a place inside the
frame, and that in a plain frame it leads from each unit to the next and from the last to
nothing. The scan is a recursive function over the bytes of a frame, so that it finds the
start codes of every byte sequence would need an induction over data: TLC evaluates the
assumption for every frame of the run, and the proofs take it as an assumption on the
constant `Frames`. It is about the scan alone; that each unit found is queued, fragmented,
numbered, flushed and never mixed with another is what the theorem adds.

`H26xReassembly_proofs`, for any stream that satisfies `StreamsAreSent` (what the senders
make: a unit is one packet or consecutive fragments of one timestamp), any width of the
numbers and any losses, duplicates, reorderings and time-outs: `DroppedStayDropped` (the
action property `DroppedForGood`). `ReturnedAreIntact` (`ReturnedIntact`) and
`CompleteAreReturned` (`CompleteIsReturned`) have `OneSplitUnitPerTimestamp` as a hypothesis
besides. The senders do not see to it: a frame given to `push_frame()` gets one timestamp
(`queue.cc:99`) and every NAL unit of it that exceeds a packet is split. It is about the
encoder, which must put at most one such unit into a frame, and, for generic media, must not
give two frames one timestamp. Section 6 has what happens without it.
`ReassemblyInv` follows one split unit a..b none of whose packets came twice: `SplitInv`
says that its entry has collected a set J of packets received, that `pkts_received` counts
J, and that each of J is at the place its number names or waits for the first fragment; a
unit without an entry has received nothing, or everything and was returned once. `KeptInv`
adds that generic media give nothing up.

`HandlersImplementChannel` (`ImplementsChannel`), under the same hypotheses: every behaviour
of the handlers is one of `UnitChannel`, which knows neither numbers nor timestamps nor
entries. A unit is *kept*, *given up* or *exposed*; a kept one comes out whole, in the very
step in which the last of its packets comes. The mapping reads what is missing off the
receipts, *given up* off the dropped timestamps, and *exposed* off duplicates and off the
packet with which an entry, or what was returned, began (a unit whose number overflows needs
its first packet first, which the abstract variable `order` says of each). The proof shows
that a packet does one of four things to its own unit (`Takes`, `Loses`, `Ignores`, `Spoils`),
each a step of the channel, and that every other unit stays as it was and nothing mixed is
returned; which of the four follows from the invariants above, and that a unit whose last
packet has come was returned, from `CompleteIsReturned` after the step. What an exposed unit
comes out as is left open: section 6 has the cases.

`PktDispatcher_proofs`, for any packets and results of handlers: `LoopIsLeft`
(`LoopLeftBeforeDestruction`) from `LoopInv`, the ownership of `exit_mtx_`: the runner's
exactly in its loop, the application's exactly while `stop()` unlocks, so that a `stop()`
that has had the mutex has met a runner that is done. `FramesAreHandedOver`
(`HandedOverOnce`) from `HandedInv`: what the handlers have ready are the last frames made,
and what went to the hook, to the consumer and to the queue are the ones before, each in
one place and in order. `DispatcherIsOutlet` (`ImplementsOutlet`): the dispatcher implements
`FrameOutlet`, in which frames are made, handed to the hook if there is one and to the queue
otherwise, pulled, and none is made or handed over after closing. The outlet is closed when
`stop()` returns, which `LoopInv` allows for a loop that had been entered; for one that had
not, `QuietInv` adds that the runner then finds `active_` lowered before it reads a packet.
So what `stop()` fails to protect (section 5, `dispatcher_stop`) is the object; late frames
do not reach the application while that lives. `HandedOverOnce` is not a property of the
run, since the outlet implies it.

### A stream's parts

`MediaParts_proofs`, `MediaLife_proofs` and `MediaKeys_proofs`, from `MediaAssumption`:

| theorem | states | along which invariant |
|---|---|---|
| `HoleStaysOpen` | `HoleKeptOpen` | `HoleInv`: while no datagram has failed, the silence the firewall sees is at most what the thread measures, which is below the threshold when it falls asleep and grows by a sleep at most |
| `DecryptedAreIntact` | `DecryptedIsIntact` | `WireInv`, `ReceiverInv`: a packet under way carries the index its number stands for, the receiver's counter is that of the packet expected while nothing was disturbed, and a tag names the counter, so that a match makes the two ends' indexes equal |
| `FramesAreFreedOnce`, `OneSourceIsConnected` | `FramesFreedOnce`, `OneSourceHasSocket` | `ReportsInv`: a pointer is null or good once its entry was counted, and leads to a freed frame only by a hook; the participant with a socket is taken by the first to enter the source |
| `FollowersAreCounted` | `FollowerIsCounted` | `SourceInv`: the packet before the next is remembered, as the highest number, as a jump that would be believed, or as just behind |
| `LossesAreBounded` | `LossNotOverstated` | `LossInv`: base and highest number are those of two packets, the first not after the second, and their distance is at most that of the packets. Needs that no packet is overtaken by `RTP_SEQ_MOD - MAX_DROPOUT` others: 62536 in the code |
| `MisuseIsExplained`, `LeaksAreExplained` | `MisuseHasCause`, `LeaksHaveCause` | `MediaInv`: what each part of a stream is worth and which of its threads may run, by what became of the stream |
| `RolesAreOpposite`, `KeysFit` | `RolesOpposed`, `KeysAgree` | `AgreementInv`: messages are never forgotten, so what a peer knows is stated by the messages that told it; a key stands on a Confirm2 whose tag was made from the same secret |

Assumptions on constants are bounds the code's values satisfy: `MAX_DROPOUT` (3000) and
`MIN_SEQUENTIAL` (2) above 1, the tolerances together not above `RTP_SEQ_MOD`.

The proofs led to three changes of what is modelled or stated. `NumberedOnce` needs the
hypothesis on refused frames above. `LossNotOverstated` compared with the packets that had
arrived, which is false as soon as three packets may be under way: section 6 has the case.
`enqueue_message()` and the changed records of `Zrtp` and `H26xReassembly` are written
without folds and without `@@`, which no prover here supports.

### Only model-checked

- Liveness (fairness and ENABLED are beyond the proof system): `StartAndDisposalReturn`,
  `DisconnectReopensSearch`, `SocketFailureReopensSearch`, `HandlerFinishesWhenFlagFalls`,
  `CommandPortComesBack`, `StopReturns`, `PacketsAreRead`.
- `ScanAssumption`, for the frames of the runs: the scan is a recursion over the bytes of a
  frame, and what it finds in every frame would need an induction over data.
- That the code disagrees with its documentation: the violated runs.

## 5. Where code and documentation disagree: the violated runs

- `accept_blocks`: `command_handler.cpp:70` says that the handler finishes properly when
  the flag is false. `accept()` (`tcp_p2p_go_socket.cpp:82`) is not woken by it: a client
  that leaves before it opens the command connection leaves main in `join()`.
- `shutdown_connected`: `connect.cpp:159` says "no matter what happens to end the program,
  we clean up after ourselves". `dispose_p2p()` frees the interface before the script has
  removed the group, and the listener thread goes on using it; the fault this may raise
  can end the process with the group still there.
- `h264_overflow`: `h264_pkt_handler.cc:218-224` says that an overflow is corrected by
  adding 0x10000. The map's keys are `uint16_t` (`include/formats/h264.hh:52`), so the sum
  is cut back and the fragments behind the overflow sort before the first one.
- `send_waiting_units`: `include/formats/h26x.hh:31` says that a frame is split into NAL
  units which are sent. Small units wait for a packet of their own; the last small unit of
  the frame sends those that wait and is itself forgotten (`h265.cc:108`, and the same in
  H.264), with `RTP_OK`.
- `srtp_overtaken`: `srtp.cc:79-89` explains how a packet overtaken by the wrap is
  decrypted with the counter before it. The condition at line 90 can never be met.
- `dispatcher_stop`: `include/pkt_dispatch.hh:73` says that `stop()` waits until the
  receive loop is exited, to make destruction safe. It waits for a mutex the detached
  thread takes only after it has seen `active_`: a thread that has not come that far spins
  on the freed object.

## 6. Further disagreements, without a run

Each is a fact about one or two lines, or a consequence a trace adds nothing to.

- `connect.cpp:142` explains `connection_is_valid` as "an IP exchange has occured"; nothing
  ever sets it to true (line 144).
- `connect.cpp:314`: `connect_to_device()` "blocks until a connection has been
  established, or connection attempt fails". A `p2p_connect` for a peer the script has
  just flushed is refused without an event, and the loop waits for ever.
- `command_handler.cpp:66` opens the command port; after one failed `accept()` the
  listening socket is leaked (`tcp_p2p_go_socket.cpp:83`) and no later `bind()` succeeds.
- `p2p_go_socket_utils.h:32` says the address is the configured one, 192.168.4.1;
  `scripts/init_dhcp_server.sh:11` configures 192.168.4.2. `P2PDriver` has both as
  constants (`OUR_IP`, `GROUP_IP`): when they differ no socket is ever bound.
- `command_handler.h:23`: commands are listened for and executed; each recv() is taken for
  one command (`command_handler.cpp:115`), so of two that arrive together the second is
  dropped. `CommandStream` has this behaviour: only the paced client is promised anything.
- `command_handler.cpp:97` and `udp_p2p_go_socket.cpp:85` store the terminator one past
  the buffer when the read fills it.
- `wpa_ctrl.h:514` says that a successful detach cancels the registration; after a
  repeated ATTACH its success may be the late reply to that one (`wpa_ctrl.c:569`).
- `ip_exchanger.cpp:75` blocks "until receiving a message"; a client that connects and
  closes counts as one that has sent it (lines 97-98).
- `h265_pkt_handler.cc:125`: inter frames wait for an intra frame in progress. `intra` is a
  local variable (line 137), so they never do.
- `pkt_dispatch.hh:85`: `pull_frame()` returns nullptr after an error; when `select()` fails
  the runner ends, `active_` stays true, and it waits for ever.
- `media_stream.hh`: the hook is called with its argument; `install_receive_hook()` stores
  the hook first, with the runner at work, so a call may come without (`hooked[i].arg`).
- `udp_p2p_go_socket.cpp:79`: waits for a datagram without a time-out; `set_socket_timeout()`
  exists and is called by nobody. `connect.cpp:261`: a wpa_supplicant that dies after
  start-up is never noticed, because `wpa_ctrl_pending()` then stays 0.

Senders (the properties of `SendPath` speak of the frames these do not concern, `Plain`):

- With exactly one small unit waiting, `make_aggregation_pkt()` sends it and the caller
  flushes again without a transaction. H.264 does not clear its aggregation info before a
  large unit (`h264.cc:108`), so later frames repeat it. A frame whose unit is refused
  leaves its packets in the transaction.
- The headers of fragments live in the transaction and are shared by the large units of
  a frame, so units of two types overwrite each other's (`h265.cc:127-139`).
- A frame smaller than a packet is sent as one packet, start codes included; a code in the
  last eight bytes is missed; a code at the end of a word takes a fourth zero that belongs
  to the unit before. `RTP_SLICE` together with a start code reads past the frame's end.
- `sendmmsg()` may send fewer packets than given, and its count is ignored
  (`socket.cc:352`). More than 5000 packets of one frame overflow `rtp_headers`.
- `queued_` keeps an entry for every flushed transaction for ever (`queue.cc:194`).

Reassembly:

- `include/formats/h265.hh:79` says that the handler merges the fragments of a complete NAL
  unit. They are collected by timestamp, which all slices of a picture share: after the
  loss of a packet of each of two slices, fragments of both are merged into one unit. This is
  what `OneSplitUnitPerTimestamp` excludes.
- Duplicates are counted before they are recognised; refused packets and the fragments kept
  in `temporary` are never freed; a generic frame needs its first fragment to come first;
  `RCE_H26X_PREPEND_SC` has no effect on H.264 and on aggregated units.

Streams and hole puncher:

- `add_srtp_ctx()` without `RCE_SRTP_KMNGMNT_USER` frees the parts of the running stream;
  destroying a stream that waits for its key uses its null dispatcher; `destroy_stream()`
  leaves a dangling entry, and a second call reads it. A stream is deleted while the hole
  puncher's or RTCP's thread sleeps, which goes on with the freed object
  (`holepuncher.cc:40`, `rtcp_runner.cc:44`). `MisuseHasCause` names these causes and states
  that there is no other; what a part does wrong with what it holds itself is in the module
  of that part (`Rtcp`, `PktDispatcher`).
- Streams that fail in `init()` are forgotten without being deleted. `~media()`,
  `~base_srtp()` and `~rtcp()` are empty, so the frame queue, the encryption contexts and the
  participants with their socket objects are never deleted (a participant's descriptor is
  closed with the copy in `sockets_` when the RTCP object goes). `LeaksHaveCause` lists them.
- `RCE_NO_H26X_INTRA_DELAY` and `RCE_SRTP_KMNGMNT_USER` are the same bit; the replay flag
  sets authentication only in a local copy of the flags (`session.cc`); the RTCP handler is
  installed with or without `RCE_RTCP`.
- The hole puncher's thread is started before `active_` is raised and ends at once if it
  looks first; `stop()` does not wait for it; pushes and datagrams of its own that failed count
  as sent. It looks every 500 ms, so the firewall may see almost 2.5 s of silence
  (`HoleKeptOpen` has the exact bound), not the two of `THRESHOLD`.

SRTP, RTP and RTCP:

- With cipher and authentication the tag of the packet that ends the round of sequence
  numbers is computed after the counter has moved, and the receiver, which checks before it
  moves, rejects it and everything after it (`srtp.cc:26`, `:56`). Reports are encrypted
  under 16 bits of their number and decrypted under 31 (`srtcp.cc:15`, `:66`), so those
  beyond 65535 are garbled. `RCE_SRTP & RCE_SRTP_NULL_CIPHER` (`sender.cc:165`) is always 0.
- `rtp.cc`: a packet with the padding bit uses the payload before it is set; the length of
  an extension is read at the wrong offset. `clock.cc:24` multiplies in 32 bits: times wrap
  about every 71 minutes.
- RTCP has no lock between its three threads. A second source, or one that comes back after
  a BYE, gets a participant whose socket is uninitialised; a BYE closes a socket the
  thread keeps polling, after which it sends no more reports; the pointers to kept reports are
  set only after the entry can be found (`rtcp.cc:176-179`), so a report that comes between
  deletes an uninitialised pointer; a hook installed after a
  report was kept leaves the application a freed one; the number of senders and receivers
  never falls; APP packets are refused by their type's range (`rtcp.cc:465`); a report's
  size is computed before participants may be added. `stop()` does not wait for the
  thread, which may go on for five seconds with an object that is gone.
- `cycles` has 16 bits and grows by 65536: it stays 0. `bad_seq` starts as 1.
- A packet that `update_participant_seq()` refuses as a very large jump is never counted.
  When a late packet from before the jump arrives next, the highest number moves past the
  refused ones step by step (`rtcp.cc:309`), and they are reported as lost although they
  arrived. `LossNotOverstated` therefore compares with the packets that were not counted.

ZRTP:

- The Conf2ACK is sent once, and a repeated Confirm2 is not answered: the initiator may
  fail while the responder has keys. The next stream then begins in two modes, and both
  peers fail. A Hello is not answered once `begin_session()` has returned. A failed
  checksum is returned as a positive number and taken for a message's type. The hash that
  commits to a DHPart2 is computed over another sequence number than the one sent; it is
  not verified.

## 7. Not modelled, and why

- `p2p_go_socket.cpp` (superseded, called by nobody), `command_executor.cpp` (prints),
  `os_unix.c`, `os.h`, `common.h` (wrappers of libc), `dispatch.cc` of uvgRTP (never
  started), the UDP, named-pipe and Android variants of `wpa_ctrl.c`, Windows and multicast
  variants of uvgRTP's sockets (not compiled or not called).
- Whether a client hears the confirmations of the UDP handshake: they are sent
  `MAX_CONFIRM_MSGS` times, their results are ignored, and breaking the connection is left to
  the client (`ip_exchanger.cpp:59-66`). The steps are in `IpExchanger`; there is nothing the
  driver promises about them.
- Crypto, clocks, random numbers, host name: wrappers without a state of their own.
- Data: the layout of RTCP reports, jitter and bandwidth; SRTP's extra buffer in the frame
  queue; getters and setters of configuration values; retransmission intervals of ZRTP.

## 8. Plan

Done: the driver's threads and their proof; the modules around them; the library's
receiving and sending halves, the life of a stream, and its security and report protocols.
Proved since: every safety property of the runs, each with its inductive invariant, and the
three refinements. What could come next:

1. The scan for start codes from a proof instead of `ScanAssumption`, once a prover for
   induction over data is at hand.
2. Liveness of the driver's threads, for every set of devices, under the same condition.
3. An abstract secure channel implemented by `Srtp`, and two consumers in `PktDispatcher`.
