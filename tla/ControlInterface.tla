-------------------------- MODULE ControlInterface --------------------------
(***************************************************************************)
(* The life of the control interface: wpa_ctrl_open(), wpa_ctrl_attach()   *)
(* retried by init_and_attach_ctrl(), the messages read afterwards, and    *)
(* wpa_ctrl_detach() and wpa_ctrl_close() called by dispose_p2p()          *)
(* (wpa_ctrl.c, connect.cpp).                                              *)
(*                                                                         *)
(* wpa_supplicant is external: it serves the requests on its socket in     *)
(* order, registers a monitor for each ATTACH, sends events to registered  *)
(* monitors, and may hang or die. Replies carry nothing that tells which   *)
(* request they answer, and a wait for one ends after ten silent seconds.  *)
(***************************************************************************)
EXTENDS Naturals, Sequences

CONSTANTS
    MAX_TIMEOUT_ATTEMPTS, \* attach attempts of init_and_attach_ctrl()
    RequestCap,           \* requests wpa_supplicant's socket holds
    InboxCap              \* messages our socket holds

\* What is assumed of the constants.
CapsAssumption ==
    /\ MAX_TIMEOUT_ATTEMPTS \in Nat \ {0}
    /\ RequestCap \in Nat \ {0}
    /\ InboxCap \in Nat \ {0}

VARIABLES
    pc,            \* where init_and_attach_ctrl(), then dispose_p2p(), is
    sock,          \* the interface's socket: "closed", "open", "bound", "connected"
    file,          \* the file at its path: "none", "stale" (an earlier run's), "ours"
    tries,         \* binds tried by wpa_ctrl_open2()
    attempts,      \* attach attempts so far
    detach_status, \* what wpa_ctrl_detach() returned: "ok" 0, "failed" -1, "timeout" -2
    supplicant,    \* "up" or "dead"
    requests,      \* requests wpa_supplicant has not served
    monitors,      \* registrations of our socket
    inbox          \* messages on our socket

driverVars == <<pc, sock, file, tries, attempts, detach_status>>
vars == <<driverVars, supplicant, requests, monitors, inbox>>

Init ==
    /\ pc = "open"
    /\ sock = "closed"
    /\ file \in {"none", "stale"}
    /\ tries = 0
    /\ attempts = 0
    /\ detach_status = "none"
    /\ supplicant \in {"up", "dead"}
    /\ requests = <<>>
    /\ monitors = 0
    /\ inbox = <<>>

-----------------------------------------------------------------------------
(***************************************************************************)
(* wpa_supplicant (external).                                              *)
(***************************************************************************)
\* What is sent to our socket; a closed or full socket loses it.
Deliver(message) ==
    inbox' = IF sock = "connected" /\ Len(inbox) < InboxCap THEN Append(inbox, message)
             ELSE inbox

SupplicantReplies ==
    /\ supplicant = "up"
    /\ requests # <<>>
    /\ requests' = Tail(requests)
    /\ \/ Head(requests) = "ATTACH" /\ monitors' = monitors + 1 /\ Deliver("OK")
       \/ Head(requests) = "DETACH" /\ monitors > 0 /\ monitors' = monitors - 1 /\ Deliver("OK")
       \/ Head(requests) = "DETACH" /\ monitors = 0 /\ monitors' = 0 /\ Deliver("FAIL")
       \/ Head(requests) = "ATTACH" /\ monitors' = monitors /\ Deliver("FAIL")
    /\ UNCHANGED <<driverVars, supplicant>>

SupplicantEvent ==
    /\ supplicant = "up" /\ monitors > 0
    /\ Deliver("EVENT")
    /\ UNCHANGED <<driverVars, supplicant, requests, monitors>>

SupplicantDies ==
    /\ supplicant = "up"
    /\ supplicant' = "dead"
    /\ requests' = <<>>
    /\ UNCHANGED <<driverVars, monitors, inbox>>

-----------------------------------------------------------------------------
(***************************************************************************)
(* wpa_ctrl_open(): on failure main() returns at once.                     *)
(***************************************************************************)
wpa_ctrl_open2 ==
    /\ pc = "open"
    /\ \/ sock' = "open" /\ pc' = "bind"
       \/ sock' = "closed" /\ pc' = "failed"      \* out of memory or descriptors
    /\ UNCHANGED <<file, tries, attempts, detach_status, supplicant, requests, monitors,
                   inbox>>

\* bind(): a file left by an earlier run is removed once; any other failure is final.
wpa_ctrl_open2_bind ==
    /\ pc = "bind"
    /\ tries' = tries + 1
    /\ \/ file = "none" /\ file' = "ours" /\ sock' = "bound" /\ pc' = "connect"
       \/ file = "stale" /\ tries' < 2 /\ file' = "none" /\ UNCHANGED <<sock, pc>>
       \/ sock' = "closed" /\ pc' = "failed" /\ UNCHANGED file
    /\ UNCHANGED <<attempts, detach_status, supplicant, requests, monitors, inbox>>

\* Mutant: unlink() is missing when connect() fails.
wpa_ctrl_open2_connect_leaves_file ==
    /\ pc = "connect"
    /\ \/ supplicant = "up" /\ sock' = "connected" /\ pc' = "attach_send" /\ UNCHANGED file
       \/ sock' = "closed" /\ UNCHANGED file /\ pc' = "failed"
    /\ UNCHANGED <<tries, attempts, detach_status, supplicant, requests, monitors, inbox>>

wpa_ctrl_open2_connect ==
    /\ pc = "connect"
    /\ \/ supplicant = "up" /\ sock' = "connected" /\ pc' = "attach_send" /\ UNCHANGED file
       \/ sock' = "closed" /\ file' = "none" /\ pc' = "failed"
    /\ UNCHANGED <<tries, attempts, detach_status, supplicant, requests, monitors, inbox>>

\* unlink() and close().
wpa_ctrl_close ==
    /\ sock' = "closed"
    /\ file' = "none"
    /\ inbox' = <<>>

-----------------------------------------------------------------------------
(***************************************************************************)
(* wpa_ctrl_request() with its two callers. A full socket is retried for   *)
(* five seconds before send() counts as failed.                            *)
(***************************************************************************)
CanSend == supplicant = "up" /\ Len(requests) < RequestCap

\* Mutant: init_and_attach_ctrl() repeats the attach after any failure, without limit.
AttachReturns_unlimited(status) ==
    IF status = "ok"
    THEN attempts' = attempts /\ pc' = "running" /\ UNCHANGED <<sock, file>>
    ELSE attempts' = attempts /\ pc' = "attach_send" /\ UNCHANGED <<sock, file>>

\* Mutant: giving up after the last attempt is taken for success.
AttachReturns_gives_in(status) ==
    /\ attempts' = attempts + 1
    /\ \/ /\ status = "ok" \/ (status = "timeout" /\ attempts' = MAX_TIMEOUT_ATTEMPTS)
          /\ pc' = "running" /\ UNCHANGED <<sock, file>>
       \/ /\ status = "timeout" /\ attempts' < MAX_TIMEOUT_ATTEMPTS
          /\ pc' = "attach_send" /\ UNCHANGED <<sock, file>>
       \/ /\ status = "failed"
          /\ pc' = "failed" /\ sock' = "closed" /\ file' = "none"

\* The loop of init_and_attach_ctrl(): only a timeout is retried, and anything but
\* success at the end closes the interface.
AttachReturns(status) ==
    /\ attempts' = attempts + 1
    /\ \/ /\ status = "ok"
          /\ pc' = "running" /\ UNCHANGED <<sock, file>>
       \/ /\ status = "timeout" /\ attempts' < MAX_TIMEOUT_ATTEMPTS
          /\ pc' = "attach_send" /\ UNCHANGED <<sock, file>>
       \/ /\ status = "failed" \/ (status = "timeout" /\ attempts' = MAX_TIMEOUT_ATTEMPTS)
          /\ pc' = "failed" /\ sock' = "closed" /\ file' = "none"

attach_send ==
    /\ pc = "attach_send"
    /\ \/ /\ CanSend
          /\ requests' = Append(requests, "ATTACH")
          /\ pc' = "attach_wait" /\ UNCHANGED <<sock, file, attempts>>
       \/ ~CanSend /\ AttachReturns("failed") /\ UNCHANGED requests
    /\ UNCHANGED <<tries, detach_status, supplicant, monitors, inbox>>

\* select() reported a message: an event is skipped, anything else is the reply.
attach_recv ==
    /\ pc = "attach_wait"
    /\ inbox # <<>>
    /\ inbox' = Tail(inbox)
    /\ \/ Head(inbox) = "EVENT" /\ UNCHANGED <<pc, sock, file, attempts>>
       \/ Head(inbox) = "OK" /\ AttachReturns("ok")
       \/ Head(inbox) = "FAIL" /\ AttachReturns("failed")
    /\ UNCHANGED <<tries, detach_status, supplicant, requests, monitors>>

attach_timeout ==
    /\ pc = "attach_wait"
    /\ inbox = <<>>
    /\ AttachReturns("timeout")
    /\ UNCHANGED <<tries, detach_status, supplicant, requests, monitors, inbox>>

\* connect_loop(), connect_to_device() and connected_loop() read whatever is there.
recieve_message ==
    /\ pc = "running"
    /\ inbox # <<>>
    /\ inbox' = Tail(inbox)
    /\ UNCHANGED <<driverVars, supplicant, requests, monitors>>

\* A termination signal: dispose_p2p() is called (DriverShutdown has the details).
dispose_p2p ==
    /\ pc = "running"
    /\ pc' = "detach_send"
    /\ UNCHANGED <<sock, file, tries, attempts, detach_status, supplicant, requests,
                   monitors, inbox>>

detach_send ==
    /\ pc = "detach_send"
    /\ \/ /\ CanSend
          /\ requests' = Append(requests, "DETACH")
          /\ pc' = "detach_wait" /\ UNCHANGED detach_status
       \/ ~CanSend /\ detach_status' = "failed" /\ pc' = "close" /\ UNCHANGED requests
    /\ UNCHANGED <<sock, file, tries, attempts, supplicant, monitors, inbox>>

detach_recv ==
    /\ pc = "detach_wait"
    /\ inbox # <<>>
    /\ inbox' = Tail(inbox)
    /\ \/ Head(inbox) = "EVENT" /\ UNCHANGED <<pc, detach_status>>
       \/ Head(inbox) = "OK" /\ detach_status' = "ok" /\ pc' = "close"
       \/ Head(inbox) = "FAIL" /\ detach_status' = "failed" /\ pc' = "close"
    /\ UNCHANGED <<sock, file, tries, attempts, supplicant, requests, monitors>>

detach_timeout ==
    /\ pc = "detach_wait"
    /\ inbox = <<>>
    /\ detach_status' = "timeout"
    /\ pc' = "close"
    /\ UNCHANGED <<sock, file, tries, attempts, supplicant, requests, monitors, inbox>>

\* dispose_p2p() does not look at what wpa_ctrl_detach() returned.
dispose_p2p_close ==
    /\ pc = "close"
    /\ wpa_ctrl_close
    /\ pc' = "disposed"
    /\ UNCHANGED <<tries, attempts, detach_status, supplicant, requests, monitors>>

-----------------------------------------------------------------------------
Driver ==
    \/ wpa_ctrl_open2 \/ wpa_ctrl_open2_bind \/ wpa_ctrl_open2_connect
    \/ attach_send \/ attach_recv \/ attach_timeout \/ recieve_message
    \/ detach_send \/ detach_recv \/ detach_timeout \/ dispose_p2p_close

Next == Driver \/ dispose_p2p \/ SupplicantReplies \/ SupplicantEvent \/ SupplicantDies

\* Only the driver is scheduled fairly: wpa_supplicant may hang, and no signal need
\* ever come.
Spec == Init /\ [][Next]_vars /\ WF_vars(Driver)

-----------------------------------------------------------------------------
\* init_and_attach_ctrl(): a non-null control_data means that we are registered for
\* events, whichever of the attempts a late reply belongs to.
AttachedMeansMonitored == pc = "running" => monitors > 0

\* "On failure, control_data field will be null and disposed of. No need to clean up":
\* however far the opening got, neither the socket nor its file is left behind, and
\* the same holds after dispose_p2p().
FailureLeavesNothing ==
    pc \in {"failed", "disposed"} => sock = "closed" /\ file # "ours"

\* The driver finds out whether it is attached, even if wpa_supplicant hangs or dies
\* between any two messages.
InitReturns == <>(pc \in {"running", "failed"})

\* Disposal ends although its ten seconds start again with each event, provided that
\* the events do not go on for ever.
DisposeReturns ==
    <>[][~SupplicantEvent]_vars => (pc = "detach_send" ~> pc = "disposed")
=============================================================================
