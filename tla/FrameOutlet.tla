----------------------------- MODULE FrameOutlet -----------------------------
(***************************************************************************)
(* What the packet dispatcher promises, with its threads, its mutexes, the *)
(* flag active_ and the packets hidden: an outlet of frames. Frames are    *)
(* numbered as they are made. The frames of one packet are handed over in  *)
(* their order, one at a time, before the next packet's are made: to the   *)
(* hook from the moment it is installed, to the queue before. When stop()  *)
(* has returned nothing is made or handed over any more; only what is      *)
(* queued may still be pulled.                                             *)
(***************************************************************************)
EXTENDS Naturals, Sequences

VARIABLES
    made,      \* frames made so far
    queue,     \* frames that wait for the consumer
    taken,     \* what the consumer has been given
    called,    \* what the hook has been called with
    hook,      \* is a hook installed?
    closed     \* has stop() returned?

vars == <<made, queue, taken, called, hook, closed>>

Init ==
    /\ made = 0
    /\ queue = <<>> /\ taken = <<>> /\ called = <<>>
    /\ hook = FALSE /\ closed = FALSE

HandedOver == Len(taken) + Len(queue) + Len(called)

\* A packet completes one frame or several.
Make ==
    /\ ~closed /\ HandedOver = made
    /\ made' \in Nat /\ made' > made
    /\ UNCHANGED <<queue, taken, called, hook, closed>>

HandOver ==
    /\ ~closed /\ HandedOver < made
    /\ IF hook THEN called' = Append(called, HandedOver + 1) /\ UNCHANGED queue
               ELSE queue' = Append(queue, HandedOver + 1) /\ UNCHANGED called
    /\ UNCHANGED <<made, taken, hook, closed>>

Pull ==
    /\ queue # <<>>
    /\ taken' = Append(taken, Head(queue))
    /\ queue' = Tail(queue)
    /\ UNCHANGED <<made, called, hook, closed>>

Install ==
    /\ ~closed /\ ~hook
    /\ hook' = TRUE
    /\ UNCHANGED <<made, queue, taken, called, closed>>

Close ==
    /\ ~closed /\ HandedOver = made
    /\ closed' = TRUE
    /\ UNCHANGED <<made, queue, taken, called, hook>>

Next == Make \/ HandOver \/ Pull \/ Install \/ Close

Spec == Init /\ [][Next]_vars
=============================================================================
