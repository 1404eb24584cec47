------------------------- MODULE PktDispatcher_proofs -------------------------
(***************************************************************************)
(* Machine-checked proofs about PktDispatcher, for any packets, bounds and *)
(* results of the handlers: the receive loop is left before destruction,   *)
(* every frame is handed over once, and the dispatcher is a FrameOutlet.   *)
(***************************************************************************)
EXTENDS DispatcherRefinement, FiniteSetTheorems, SequenceTheorems, TLAPS

\* There is no runner before start(); exit_mtx_ is the runner's for its whole loop and the
\* application's while it unlocks; a runner that was in its loop when stop() began is there
\* or done, and done once stop() has had the mutex.
LoopInv ==
    /\ exit_mtx_ \in {"free", "runner", "app"} /\ was_looping \in BOOLEAN
    /\ app_pc = "start" => runner_pc = "none"
    /\ exit_mtx_ = "runner" <=> runner_pc \in InLoop
    /\ exit_mtx_ = "app" <=> app_pc = "unlock"
    /\ was_looping => /\ app_pc \in {"stopping", "unlock", "stopped", "destroyed"}
                      /\ runner_pc \in InLoop \cup {"done"}
    /\ was_looping /\ app_pc # "stopping" => runner_pc = "done"

LEMMA LoopInit == Init => LoopInv
BY DEF Init, LoopInv, InLoop

\* The application's steps.
LEMMA LoopApp == ASSUME LoopInv, App PROVE LoopInv'
<1> USE DEF LoopInv, InLoop, AppGoes, settingVars
<1>1. CASE start
  BY <1>1 DEF start
<1>2. CASE runner_start
  BY <1>2 DEF runner_start
<1>3. CASE install_receive_hook
  BY <1>3 DEF install_receive_hook
<1>4. CASE install_receive_hook_arg
  BY <1>4 DEF install_receive_hook_arg
<1>5. CASE stop
  BY <1>5 DEF stop
<1>6. CASE stop_try_lock
  BY <1>6 DEF stop_try_lock
<1>7. CASE stop_unlock
  BY <1>7 DEF stop_unlock
<1>8. CASE free_resources
  BY <1>8 DEF free_resources
<1> QED
  BY <1>1, <1>2, <1>3, <1>4, <1>5, <1>6, <1>7, <1>8 DEF App

\* The runner's steps.
LEMMA LoopRunner == ASSUME LoopInv, Runner PROVE LoopInv'
<1> USE DEF LoopInv, InLoop, RunnerGoes, settingVars
<1>1. CASE runner_spin
  BY <1>1 DEF runner_spin
<1>2. CASE runner_lock
  BY <1>2 DEF runner_lock
<1>3. CASE runner_select
  BY <1>3 DEF runner_select
<1>4. CASE runner_select_fails
  BY <1>4 DEF runner_select_fails
<1>5. CASE runner_stopped
  BY <1>5 DEF runner_stopped
<1>6. CASE runner_recv
  <2>1. /\ runner_pc = "recv" /\ runner_pc' \in {"return", "recv", "check"}
        /\ UNCHANGED <<app_pc, exit_mtx_, was_looping>>
    BY <1>6 DEF runner_recv
  <2> QED
    BY <2>1
<1>7. CASE runner_recv_nothing
  BY <1>7 DEF runner_recv_nothing
<1>8. CASE return_frame
  <2>1. /\ runner_pc = "return" /\ runner_pc' \in {"return", "recv", "check"}
        /\ UNCHANGED <<app_pc, exit_mtx_, was_looping>>
    BY <1>8 DEF return_frame
  <2> QED
    BY <2>1
<1>9. CASE runner_exit
  BY <1>9 DEF runner_exit
<1> QED
  BY <1>1, <1>2, <1>3, <1>4, <1>5, <1>6, <1>7, <1>8, <1>9 DEF Runner

\* Arriving packets, the consumer and stuttering leave the two threads where they are.
LEMMA LoopStep == ASSUME LoopInv, [Next]_vars PROVE LoopInv'
<1>1. CASE PacketArrives \/ Puller \/ UNCHANGED vars
  <2>1. UNCHANGED <<app_pc, runner_pc, exit_mtx_, was_looping>>
    BY <1>1 DEF PacketArrives, Puller, PullerGoes, pull_frame, pull_frame_sleep,
      pull_frame_null, pull_frame_found, pull_frame_take, vars, settingVars
  <2> QED
    BY <2>1 DEF LoopInv
<1> QED
  BY <1>1, LoopApp, LoopRunner DEF Next

\* pkt_dispatch.cc, stop(): a receive loop that had been entered when stop() was called is
\* over when it returns and when the stream is destroyed, however the two threads and the
\* consumer are interleaved.
THEOREM LoopIsLeft == Spec => []LoopLeftBeforeDestruction
<1>1. LoopInv => LoopLeftBeforeDestruction
  BY DEF LoopInv, LoopLeftBeforeDestruction, InLoop
<1> QED
  BY LoopInit, LoopStep, <1>1, PTL DEF Spec

-----------------------------------------------------------------------------
(***************************************************************************)
(* The frames.                                                             *)
(***************************************************************************)
\* Two sequences share out the frames 1 to d, each in order.
Shared(x, y, d) ==
    /\ x \in Seq(Nat) /\ y \in Seq(Nat) /\ d \in Nat
    /\ Increasing(x) /\ Increasing(y)
    /\ SetOf(x) \cup SetOf(y) = 1..d
    /\ Len(x) + Len(y) = d

\* The next frame may go to either.
LEMMA NextFrame ==
    ASSUME NEW x, NEW y, NEW d, Shared(x, y, d)
    PROVE  Shared(Append(x, d + 1), y, d + 1)
<1> DEFINE z == Append(x, d + 1)
<1>1. x \in Seq(Nat) /\ y \in Seq(Nat) /\ d \in Nat
  BY DEF Shared
<1>2. /\ z \in Seq(Nat) /\ Len(x) \in Nat /\ Len(z) = Len(x) + 1 /\ z[Len(x) + 1] = d + 1
      /\ \A i \in 1..Len(x) : z[i] = x[i]
  BY <1>1
<1> HIDE DEF z
<1>3. \A i \in 1..Len(x) : x[i] \in 1..d
  BY <1>1 DEF Shared, SetOf
<1>4. Increasing(z)
  <2>1. \A i, j \in 1..Len(x) : i < j => x[i] < x[j]
    BY <1>1 DEF Shared, Increasing
  <2>2. ASSUME NEW i \in 1..(Len(x) + 1), NEW j \in 1..(Len(x) + 1), i < j PROVE z[i] < z[j]
    <3>1. CASE j = Len(x) + 1
      <4>1. i \in 1..Len(x)
        BY <1>2, <2>2, <3>1
      <4>2. z[i] \in 1..d /\ z[j] = d + 1
        BY <1>2, <1>3, <3>1, <4>1
      <4> QED
        BY <1>1, <4>2
    <3>2. CASE j # Len(x) + 1
      <4>1. i \in 1..Len(x) /\ j \in 1..Len(x)
        BY <1>2, <2>2, <3>2
      <4> QED
        BY <1>2, <2>1, <2>2, <4>1
    <3> QED
      BY <3>1, <3>2
  <2> QED
    BY <1>2, <2>2 DEF Increasing
<1>5. SetOf(z) = SetOf(x) \cup {d + 1}
  <2>1. DOMAIN z = 1..(Len(x) + 1) /\ DOMAIN x = 1..Len(x) /\ Len(x) \in Nat
    BY <1>1, <1>2
  <2>2. 1..(Len(x) + 1) = (1..Len(x)) \cup {Len(x) + 1}
    BY <2>1
  <2> QED
    BY <1>2, <2>1, <2>2 DEF SetOf
<1>6. SetOf(z) \cup SetOf(y) = 1..(d + 1)
  BY <1>1, <1>5 DEF Shared
<1>7. Len(z) + Len(y) = d + 1
  BY <1>1, <1>2 DEF Shared
<1> QED
  BY <1>1, <1>2, <1>4, <1>6, <1>7 DEF Shared, z

LEMMA SharedEitherWay == ASSUME NEW x, NEW y, NEW d, Shared(x, y, d) PROVE Shared(y, x, d)
BY DEF Shared

\* What the handlers have ready are the last frames made, the rest has been handed over; only
\* a runner in return_frame() has any.
HandedInv ==
    /\ inbox \in Seq(Kinds) /\ pulled \in Seq(Nat) /\ frames_ \in Seq(Nat)
    /\ hooked \in Seq([frame : Nat, arg : BOOLEAN]) /\ hook_arg \in BOOLEAN
    /\ produced \in Nat /\ pending \in Seq(Nat) /\ Len(pending) <= produced
    /\ \A i \in 1..Len(pending) : pending[i] = produced - Len(pending) + i
    /\ runner_pc = "return" <=> Len(pending) > 0
    /\ Shared(pulled \o frames_, HookedFrames, produced - Len(pending))

LEMMA HandedMeansOnce == HandedInv => HandedOverOnce
<1> SUFFICES ASSUME HandedInv PROVE HandedOverOnce
  OBVIOUS
<1> DEFINE d == produced - Len(pending)
<1>1. produced \in Nat /\ Len(pending) \in Nat /\ Len(pending) <= produced /\ d \in Nat
  BY DEF HandedInv
<1>2. SetOf(pending) = (d + 1)..produced
  <2>1. /\ pending \in Seq(Nat) /\ DOMAIN pending = 1..Len(pending)
        /\ \A i \in 1..Len(pending) : pending[i] = d + i
    BY DEF HandedInv
  <2>2. ASSUME NEW x \in (d + 1)..produced PROVE x \in SetOf(pending)
    <3>1. x - d \in 1..Len(pending) /\ d + (x - d) = x
      BY <1>1
    <3> QED
      BY <2>1, <3>1 DEF SetOf
  <2>3. ASSUME NEW x \in SetOf(pending) PROVE x \in (d + 1)..produced
    BY <1>1, <2>1 DEF SetOf
  <2> QED
    BY <2>2, <2>3
<1>3. Len(HookedFrames) = Len(hooked)
  BY DEF HandedInv, HookedFrames
<1>4. Shared(pulled \o frames_, HookedFrames, d)
  BY DEF HandedInv
<1>5. (1..d) \cup ((d + 1)..produced) = 1..produced
  BY <1>1
<1> HIDE DEF d
<1>6. SetOf(pulled \o frames_) \cup SetOf(HookedFrames) \cup SetOf(pending) = 1..produced
  BY <1>2, <1>4, <1>5 DEF Shared
<1>7. Len(pulled \o frames_) + Len(hooked) + Len(pending) = produced
  BY <1>1, <1>3, <1>4 DEF Shared, d
<1> QED
  BY <1>4, <1>6, <1>7 DEF HandedOverOnce, Shared

LEMMA HandedInit == Init => HandedInv
<1> SUFFICES ASSUME Init PROVE HandedInv
  OBVIOUS
<1>1. /\ inbox = <<>> /\ pulled = <<>> /\ frames_ = <<>> /\ hooked = <<>> /\ pending = <<>>
      /\ produced = 0 /\ runner_pc = "none" /\ hook_arg = FALSE
  BY DEF Init
<1>2. pulled \o frames_ = <<>> /\ HookedFrames = <<>>
  BY <1>1 DEF HookedFrames
<1>3. Shared(<<>>, <<>>, 0)
  BY DEF Shared, Increasing, SetOf
<1>4. hook_arg \in BOOLEAN
  BY <1>1, Zenon
<1> QED
  BY <1>1, <1>2, <1>3, <1>4 DEF HandedInv

\* What one packet's handlers make of it is a number of frames.
LEMMA FramesOfPacket ==
    ASSUME NEW k \in Kinds
    PROVE  call_aux_handlers(k.aux)
             * Cardinality({i \in DOMAIN k.primary : k.primary[i] = "MODIFIED"}) \in Nat
<1>1. k.primary \in Seq(Results) /\ k.aux \in Seq(Results)
  BY KindsAssumption
<1>2. ASSUME NEW s \in Seq(Results), NEW r
      PROVE  Cardinality({i \in DOMAIN s : s[i] = r}) \in Nat
  <2>1. IsFiniteSet(1..Len(s)) /\ DOMAIN s = 1..Len(s)
    BY FS_Interval
  <2> QED
    BY <2>1, FS_Subset, FS_CardinalityType
<1>3. call_aux_handlers(k.aux) \in Nat
  <2>1. /\ Cardinality({i \in DOMAIN k.aux : k.aux[i] = "READY"}) \in Nat
        /\ Cardinality({i \in DOMAIN k.aux : k.aux[i] = "MULTIPLE"}) \in Nat
    BY <1>1, <1>2
  <2> QED
    BY <2>1 DEF call_aux_handlers
<1>4. Cardinality({i \in DOMAIN k.primary : k.primary[i] = "MODIFIED"}) \in Nat
  BY <1>1, <1>2
<1> QED
  BY <1>3, <1>4

\* A call of the hook adds its frame to those the hook was called with.
LEMMA HookCalled ==
    ASSUME NEW f \in Nat, hook_arg \in BOOLEAN,
           hooked \in Seq([frame : Nat, arg : BOOLEAN]),
           hooked' = Append(hooked, [frame |-> f, arg |-> hook_arg])
    PROVE  HookedFrames' = Append(HookedFrames, f)
<1>1. /\ Len(hooked') = Len(hooked) + 1 /\ Len(hooked) \in Nat
      /\ hooked'[Len(hooked) + 1].frame = f
      /\ \A i \in 1..Len(hooked) : hooked'[i] = hooked[i]
      /\ DOMAIN hooked' = 1..Len(hooked')
  OBVIOUS
<1>2. /\ HookedFrames' = [i \in 1..(Len(hooked) + 1) |-> hooked'[i].frame]
      /\ HookedFrames = [i \in 1..Len(hooked) |-> hooked[i].frame]
  BY <1>1 DEF HookedFrames
<1>3. HookedFrames \in Seq(Nat) /\ Len(HookedFrames) = Len(hooked)
  <2>1. ASSUME NEW i \in 1..Len(hooked) PROVE hooked[i].frame \in Nat
    <3> DEFINE R == [frame : Nat, arg : BOOLEAN]
    <3>1. hooked \in Seq(R)
      OBVIOUS
    <3> HIDE DEF R
    <3>2. hooked[i] \in R
      BY <3>1, ElementOfSeq
    <3> QED
      BY <3>2 DEF R
  <2> QED
    BY <1>1, <1>2, <2>1
<1> DEFINE h == HookedFrames
           g == HookedFrames'
<1>4. /\ g \in Seq(Nat) /\ Len(g) = Len(h) + 1
      /\ g[Len(h) + 1] = f
      /\ \A i \in 1..Len(h) : g[i] = h[i]
  BY <1>1, <1>2, <1>3
<1> HIDE DEF h, g
<1>5. g = Append(h, f)
  BY <1>3, <1>4, SeqEqual, AppendProperties DEF h
<1> QED
  BY <1>5 DEF g, h

LEMMA HandedStep == ASSUME LoopInv, HandedInv, [Next]_vars PROVE HandedInv'
<1> USE DEF settingVars, workVars, queueVars, netVars, pullerVars
<1>1. CASE UNCHANGED <<runner_pc, hook_arg, inbox, pulled, frames_, hooked, produced, pending>>
  BY <1>1 DEF HandedInv, HookedFrames
<1>2. CASE PacketArrives
  <2>1. /\ UNCHANGED <<runner_pc, hook_arg, pulled, frames_, hooked, produced, pending>>
        /\ \E k \in Kinds : inbox' = Append(inbox, k)
    BY <1>2 DEF PacketArrives
  <2>2. inbox' \in Seq(Kinds)
    BY <2>1 DEF HandedInv
  <2> QED
    BY <2>1, <2>2 DEF HandedInv, HookedFrames
<1>3. CASE App
  <2>1. /\ UNCHANGED <<inbox, pulled, frames_, hooked, produced, pending>>
        /\ (runner_pc = "none" /\ runner_pc' = "spin") \/ UNCHANGED runner_pc
        /\ hook_arg' = TRUE \/ UNCHANGED hook_arg
    BY <1>3 DEF LoopInv, App, AppGoes, start, runner_start, install_receive_hook,
      install_receive_hook_arg, stop, stop_try_lock, stop_unlock, free_resources
  <2>2. runner_pc' = "return" <=> runner_pc = "return"
    BY <2>1
  <2>3. hook_arg' \in BOOLEAN
    BY <2>1, Zenon DEF HandedInv
  <2>4. HookedFrames' = HookedFrames
    BY <2>1 DEF HookedFrames
  <2> QED
    BY <2>1, <2>2, <2>3, <2>4 DEF HandedInv
<1>4. CASE Puller
  <2>1. UNCHANGED <<runner_pc, hook_arg, inbox, hooked, produced, pending>>
    BY <1>4 DEF Puller, PullerGoes, pull_frame, pull_frame_sleep, pull_frame_null,
      pull_frame_found, pull_frame_take
  <2>2. \/ UNCHANGED <<pulled, frames_>>
        \/ /\ frames_ # <<>> /\ pulled' = Append(pulled, Head(frames_))
           /\ frames_' = Tail(frames_)
    BY <1>4 DEF Puller, PullerGoes, pull_frame, pull_frame_sleep, pull_frame_null,
      pull_frame_found, pull_frame_take
  <2>3. /\ pulled' \in Seq(Nat) /\ frames_' \in Seq(Nat)
        /\ pulled' \o frames_' = pulled \o frames_
    <3>1. pulled \in Seq(Nat) /\ frames_ \in Seq(Nat)
      BY DEF HandedInv
    <3>2. CASE UNCHANGED <<pulled, frames_>>
      BY <3>1, <3>2
    <3>3. CASE frames_ # <<>> /\ pulled' = Append(pulled, Head(frames_)) /\ frames_' = Tail(frames_)
      <4>1. /\ Head(frames_) \in Nat /\ Tail(frames_) \in Seq(Nat)
            /\ frames_ = <<Head(frames_)>> \o Tail(frames_)
        BY <3>1, <3>3
      <4> QED
        BY <3>1, <3>3, <4>1
    <3> QED
      BY <2>2, <3>2, <3>3
  <2> QED
    BY <2>1, <2>3 DEF HandedInv, HookedFrames
<1>5. CASE runner_recv
  <2> DEFINE k  == Head(inbox)
             n  == call_aux_handlers(k.aux)
                     * Cardinality({i \in DOMAIN k.primary : k.primary[i] = "MODIFIED"})
  <2>1. /\ UNCHANGED <<hook_arg, pulled, frames_, hooked>> /\ inbox' = Tail(inbox)
        /\ runner_pc = "recv" /\ inbox # <<>>
        /\ produced' = produced + n /\ pending' = [i \in 1..n |-> produced + i]
        /\ runner_pc' = "return" <=> n > 0
    BY <1>5 DEF runner_recv
  <2>2. n \in Nat
    <3>1. k \in Kinds
      BY <2>1 DEF HandedInv
    <3> QED
      BY <3>1, FramesOfPacket
  <2> HIDE DEF n, k
  <2>3. inbox' \in Seq(Kinds)
    BY <2>1 DEF HandedInv
  <2>4. produced \in Nat /\ Len(pending) = 0
    BY <2>1 DEF HandedInv
  <2>5. /\ pending' \in Seq(Nat) /\ Len(pending') = n
        /\ \A i \in 1..n : pending'[i] = produced' - n + i
    BY <2>1, <2>2, <2>4
  <2>6. produced' \in Nat /\ n <= produced' /\ produced' - n = produced - Len(pending)
    BY <2>1, <2>2, <2>4
  <2> QED
    BY <2>1, <2>3, <2>5, <2>6 DEF HandedInv, HookedFrames
<1>6. CASE return_frame
  <2> DEFINE f == Head(pending)
             d == produced - Len(pending)
  <2>1. /\ UNCHANGED <<hook_arg, pulled, inbox, produced>>
        /\ runner_pc = "return" /\ pending' = Tail(pending)
        /\ runner_pc' = "return" <=> Len(pending) > 1
        /\ \/ /\ hooked' = Append(hooked, [frame |-> f, arg |-> hook_arg])
              /\ UNCHANGED frames_
           \/ frames_' = Append(frames_, f) /\ UNCHANGED hooked
    BY <1>6 DEF return_frame
  <2>2. /\ pending \in Seq(Nat) /\ Len(pending) > 0 /\ Len(pending) <= produced
        /\ produced \in Nat
        /\ \A i \in 1..Len(pending) : pending[i] = d + i
    BY <2>1 DEF HandedInv
  <2>3. /\ pending' \in Seq(Nat) /\ Len(pending') = Len(pending) - 1
        /\ \A i \in 1..Len(pending') : pending'[i] = pending[i + 1]
    BY <2>1, <2>2
  <2>4. f = d + 1 /\ d \in Nat
    BY <2>2
  <2> HIDE DEF d, f
  <2>5. /\ \A i \in 1..Len(pending') : pending'[i] = produced' - Len(pending') + i
        /\ produced' - Len(pending') = d + 1
    BY <2>1, <2>2, <2>3 DEF d
  <2>6. Shared(pulled \o frames_, HookedFrames, d)
    BY DEF HandedInv, d
  <2>7. /\ frames_' \in Seq(Nat) /\ hooked' \in Seq([frame : Nat, arg : BOOLEAN])
        /\ Shared(pulled' \o frames_', HookedFrames', d + 1)
    <3>1. /\ hooked \in Seq([frame : Nat, arg : BOOLEAN]) /\ frames_ \in Seq(Nat)
          /\ pulled \in Seq(Nat) /\ hook_arg \in BOOLEAN
      BY DEF HandedInv
    <3>2. CASE frames_' = Append(frames_, f) /\ UNCHANGED hooked
      <4>1. /\ frames_' \in Seq(Nat) /\ HookedFrames' = HookedFrames
            /\ pulled' \o frames_' = Append(pulled \o frames_, d + 1)
        BY <2>1, <2>4, <3>1, <3>2 DEF HookedFrames
      <4> QED
        BY <2>6, <3>1, <3>2, <4>1, NextFrame
    <3>3. CASE hooked' = Append(hooked, [frame |-> f, arg |-> hook_arg]) /\ UNCHANGED frames_
      <4>1. hooked' \in Seq([frame : Nat, arg : BOOLEAN]) /\ Len(hooked') = Len(hooked) + 1
            /\ hooked'[Len(hooked) + 1].frame = d + 1
            /\ \A i \in 1..Len(hooked) : hooked'[i] = hooked[i]
        BY <2>4, <3>1, <3>3
      <4>2. HookedFrames' = Append(HookedFrames, d + 1)
        BY <2>4, <3>1, <3>3, HookCalled
      <4>3. Shared(HookedFrames', pulled \o frames_, d + 1)
        BY <2>6, <4>2, NextFrame, SharedEitherWay
      <4> QED
        BY <2>1, <3>1, <3>3, <4>1, <4>3, SharedEitherWay
    <3> QED
      BY <2>1, <3>2, <3>3
  <2> QED
    BY <2>1, <2>2, <2>3, <2>5, <2>7 DEF HandedInv
<1>7. CASE Runner /\ ~runner_recv /\ ~return_frame
  <2>1. /\ UNCHANGED <<hook_arg, inbox, pulled, frames_, hooked, produced, pending>>
        /\ runner_pc # "return" /\ runner_pc' # "return"
    BY <1>7 DEF Runner, RunnerGoes, runner_spin, runner_lock, runner_select, runner_select_fails,
      runner_stopped, runner_recv_nothing, runner_exit
  <2> QED
    BY <2>1 DEF HandedInv, HookedFrames
<1> QED
  BY <1>1, <1>2, <1>3, <1>4, <1>5, <1>6, <1>7 DEF Next, vars

\* pkt_dispatch.cc, return_frame() and pull_frame(): for any packets and handlers, every
\* frame is handed over once and in order, to the hook or to the consumer, or is still on
\* its way, even when a hook is installed while frames are queued or returned.
THEOREM FramesAreHandedOver == Spec => []HandedOverOnce
BY LoopInit, LoopStep, HandedInit, HandedStep, HandedMeansOnce, PTL DEF Spec

-----------------------------------------------------------------------------
(***************************************************************************)
(* The refinement.                                                         *)
(***************************************************************************)
StopWasCalled == app_pc \in {"stopping", "unlock"} \/ StopHasReturned

\* active_ is up only between start() and stop(); a runner that was outside its loop when it
\* fell may still enter the loop, but will read no packet there.
QuietInv ==
    /\ active_ => app_pc \in {"running", "hook_arg"}
    /\ StopWasCalled /\ ~was_looping => runner_pc \notin {"recv", "return"}

LEMMA QuietInit == Init => QuietInv
BY DEF Init, QuietInv, StopWasCalled, StopHasReturned

LEMMA QuietStep == ASSUME QuietInv, [Next]_vars PROVE QuietInv'
<1> USE DEF QuietInv, StopWasCalled, StopHasReturned, settingVars
<1>1. CASE App
  <2> USE DEF AppGoes
  <2>1. CASE start
    BY <2>1 DEF start
  <2>2. CASE runner_start
    BY <2>2 DEF runner_start
  <2>3. CASE install_receive_hook
    BY <2>3 DEF install_receive_hook
  <2>4. CASE install_receive_hook_arg
    BY <2>4 DEF install_receive_hook_arg
  <2>5. CASE stop
    BY <2>5 DEF stop, InLoop
  <2>6. CASE stop_try_lock
    BY <2>6 DEF stop_try_lock
  <2>7. CASE stop_unlock
    BY <2>7 DEF stop_unlock
  <2>8. CASE free_resources
    BY <2>8 DEF free_resources
  <2> QED
    BY <1>1, <2>1, <2>2, <2>3, <2>4, <2>5, <2>6, <2>7, <2>8 DEF App
<1>2. CASE Runner
  <2>1. UNCHANGED <<app_pc, active_, was_looping>>
    BY <1>2 DEF Runner, RunnerGoes, runner_spin, runner_lock, runner_select, runner_select_fails,
      runner_stopped, runner_recv, runner_recv_nothing, return_frame, runner_exit
  <2>2. runner_pc' \in {"recv", "return"} => active_ \/ runner_pc \in {"recv", "return"}
    BY <1>2 DEF Runner, RunnerGoes, runner_spin, runner_lock, runner_select, runner_select_fails,
      runner_stopped, runner_recv, runner_recv_nothing, return_frame, runner_exit
  <2> QED
    BY <2>1, <2>2
<1>3. CASE PacketArrives \/ Puller \/ UNCHANGED vars
  <2>1. UNCHANGED <<app_pc, runner_pc, active_, was_looping>>
    BY <1>3 DEF PacketArrives, Puller, PullerGoes, pull_frame, pull_frame_sleep,
      pull_frame_null, pull_frame_found, pull_frame_take, vars
  <2> QED
    BY <2>1
<1> QED
  BY <1>1, <1>2, <1>3 DEF Next

\* When stop() has returned the runner is in none of the steps that make or hand over.
LEMMA ClosedIsQuiet ==
    ASSUME LoopInv, QuietInv, StopHasReturned
    PROVE  runner_pc \notin {"recv", "return"}
BY DEF LoopInv, QuietInv, StopWasCalled, StopHasReturned

\* What the outlet counts as handed over is all but what the handlers have ready.
LEMMA HandedCount ==
    ASSUME HandedInv
    PROVE  Outlet!HandedOver = produced - Len(pending)
<1>1. /\ pulled \in Seq(Nat) /\ frames_ \in Seq(Nat)
      /\ Len(pulled \o frames_) + Len(HookedFrames) = produced - Len(pending)
  BY DEF HandedInv, Shared
<1>2. Len(pulled \o frames_) = Len(pulled) + Len(frames_)
  BY <1>1
<1> QED
  BY <1>1, <1>2 DEF Outlet!HandedOver

LEMMA OutletInit == Init => Outlet!Init
BY DEF Init, Outlet!Init, HookedFrames, StopHasReturned

LEMMA OutletStep ==
    ASSUME LoopInv, QuietInv, HandedInv, [Next]_vars
    PROVE  [Outlet!Next]_(Outlet!vars)
<1> USE DEF settingVars, workVars, queueVars, netVars, pullerVars
<1> DEFINE d == produced - Len(pending)
<1>1. Outlet!HandedOver = d
  BY HandedCount
<1>2. /\ produced \in Nat /\ pending \in Seq(Nat) /\ Len(pending) \in Nat /\ Len(pending) <= produced
      /\ runner_pc = "return" <=> Len(pending) > 0
  BY DEF HandedInv
<1> HIDE DEF d
<1>3. CASE UNCHANGED <<produced, frames_, pulled, hooked, recv_hook_, StopHasReturned>>
  BY <1>3 DEF Outlet!vars, HookedFrames
<1>4. CASE PacketArrives \/ UNCHANGED vars
  <2>1. UNCHANGED <<app_pc, produced, frames_, pulled, hooked, recv_hook_>>
    BY <1>4 DEF PacketArrives, vars
  <2> QED
    BY <1>3, <2>1 DEF StopHasReturned
<1>5. CASE install_receive_hook
  <2>1. /\ ~StopHasReturned /\ ~recv_hook_ /\ recv_hook_' = TRUE
        /\ UNCHANGED <<produced, frames_, pulled, hooked>> /\ StopHasReturned' = StopHasReturned
    BY <1>5 DEF install_receive_hook, AppGoes, StopHasReturned
  <2>2. Outlet!Install
    BY <2>1 DEF Outlet!Install, HookedFrames
  <2> QED
    BY <2>2 DEF Outlet!Next
<1>6. CASE stop_unlock
  <2>1. /\ ~StopHasReturned /\ StopHasReturned' = TRUE /\ app_pc = "unlock"
        /\ UNCHANGED <<produced, frames_, pulled, hooked, recv_hook_>>
    BY <1>6 DEF stop_unlock, AppGoes, StopHasReturned
  <2>2. runner_pc # "return"
    BY <2>1 DEF LoopInv, QuietInv, StopWasCalled
  <2>3. d = produced
    BY <1>2, <2>2 DEF d
  <2>4. Outlet!Close
    BY <1>1, <2>1, <2>3 DEF Outlet!Close, HookedFrames
  <2> QED
    BY <2>4 DEF Outlet!Next
<1>7. CASE App /\ ~install_receive_hook /\ ~stop_unlock
  <2>1. /\ UNCHANGED <<produced, frames_, pulled, hooked, recv_hook_>>
        /\ StopHasReturned' = StopHasReturned
    BY <1>7 DEF App, AppGoes, start, runner_start, install_receive_hook_arg, stop,
      stop_try_lock, free_resources, StopHasReturned
  <2> QED
    BY <1>3, <2>1
<1>8. CASE runner_recv
  <2> DEFINE k == Head(inbox)
             n == call_aux_handlers(k.aux)
                    * Cardinality({i \in DOMAIN k.primary : k.primary[i] = "MODIFIED"})
  <2>1. /\ runner_pc = "recv" /\ inbox # <<>> /\ produced' = produced + n
        /\ UNCHANGED <<app_pc, frames_, pulled, hooked, recv_hook_>>
    BY <1>8 DEF runner_recv
  <2>2. n \in Nat
    <3>1. k \in Kinds
      BY <2>1 DEF HandedInv
    <3> QED
      BY <3>1, FramesOfPacket
  <2> HIDE DEF n, k
  <2>3. CASE n = 0
    BY <1>2, <1>3, <2>1, <2>3 DEF StopHasReturned
  <2>4. CASE n # 0
    <3>1. d = produced /\ produced' \in Nat /\ produced' > produced
      BY <1>2, <2>1, <2>2, <2>4 DEF d
    <3>2. ~StopHasReturned /\ StopHasReturned' = StopHasReturned
      BY <2>1, ClosedIsQuiet DEF StopHasReturned
    <3>3. Outlet!Make
      BY <1>1, <2>1, <3>1, <3>2 DEF Outlet!Make, HookedFrames
    <3> QED
      BY <3>3 DEF Outlet!Next
  <2> QED
    BY <2>3, <2>4
<1>9. CASE return_frame
  <2>1. /\ runner_pc = "return" /\ UNCHANGED <<app_pc, produced, pulled, recv_hook_>>
        /\ IF recv_hook_
           THEN /\ hooked' = Append(hooked, [frame |-> Head(pending), arg |-> hook_arg])
                /\ UNCHANGED frames_
           ELSE frames_' = Append(frames_, Head(pending)) /\ UNCHANGED hooked
    BY <1>9 DEF return_frame
  <2>2. Len(pending) > 0 /\ d < produced /\ d \in Nat
    BY <1>2, <2>1 DEF d
  <2>3. Head(pending) = d + 1
    <3>1. pending[1] = produced - Len(pending) + 1
      BY <1>2, <2>2 DEF HandedInv
    <3> QED
      BY <1>2, <2>2, <3>1 DEF d
  <2>4. ~StopHasReturned /\ StopHasReturned' = StopHasReturned
    BY <2>1, ClosedIsQuiet DEF StopHasReturned
  <2>5. Outlet!HandOver
    <3>1. CASE recv_hook_
      <4>1. HookedFrames' = Append(HookedFrames, d + 1)
        <5>1. hooked \in Seq([frame : Nat, arg : BOOLEAN]) /\ hook_arg \in BOOLEAN
          BY DEF HandedInv
        <5>2. hooked' = Append(hooked, [frame |-> d + 1, arg |-> hook_arg])
          BY <2>1, <2>3, <3>1
        <5> QED
          BY <2>2, <5>1, <5>2, HookCalled
      <4> QED
        BY <1>1, <2>1, <2>2, <2>4, <3>1, <4>1 DEF Outlet!HandOver
    <3>2. CASE ~recv_hook_
      BY <1>1, <2>1, <2>2, <2>3, <2>4, <3>2 DEF Outlet!HandOver, HookedFrames
    <3> QED
      BY <3>1, <3>2
  <2> QED
    BY <2>5 DEF Outlet!Next
<1>10. CASE Runner /\ ~runner_recv /\ ~return_frame
  <2>1. UNCHANGED <<app_pc, produced, frames_, pulled, hooked, recv_hook_>>
    BY <1>10 DEF Runner, RunnerGoes, runner_spin, runner_lock, runner_select,
      runner_select_fails, runner_stopped, runner_recv_nothing, runner_exit
  <2> QED
    BY <1>3, <2>1 DEF StopHasReturned
<1>11. CASE pull_frame_take
  <2>1. /\ frames_ # <<>> /\ pulled' = Append(pulled, Head(frames_)) /\ frames_' = Tail(frames_)
        /\ UNCHANGED <<app_pc, produced, hooked, recv_hook_>>
    BY <1>11 DEF pull_frame_take, PullerGoes
  <2>2. Outlet!Pull
    BY <2>1 DEF Outlet!Pull, HookedFrames, StopHasReturned
  <2> QED
    BY <2>2 DEF Outlet!Next
<1>12. CASE Puller /\ ~pull_frame_take
  <2>1. UNCHANGED <<app_pc, produced, frames_, pulled, hooked, recv_hook_>>
    BY <1>12 DEF Puller, PullerGoes, pull_frame, pull_frame_sleep, pull_frame_null,
      pull_frame_found
  <2> QED
    BY <1>3, <2>1 DEF StopHasReturned
<1> QED
  BY <1>4, <1>5, <1>6, <1>7, <1>8, <1>9, <1>10, <1>11, <1>12 DEF Next

\* pkt_dispatch.cc and runner.cc: for any packets, handlers, bounds and interleavings the
\* dispatcher is an outlet of frames: each handed over once and in order, to the hook from
\* its installation on, and none after stop() has returned, even if the receive loop had
\* not been entered when stop() was called.
THEOREM DispatcherIsOutlet == Spec => ImplementsOutlet
<1>1. Spec => [](LoopInv /\ QuietInv /\ HandedInv)
  BY LoopInit, LoopStep, QuietInit, QuietStep, HandedInit, HandedStep, PTL DEF Spec
<1>2. LoopInv /\ QuietInv /\ HandedInv /\ [Next]_vars => [Outlet!Next]_(Outlet!vars)
  BY OutletStep
<1> QED
  BY <1>1, <1>2, OutletInit, PTL DEF Spec, ImplementsOutlet, Outlet!Spec
=============================================================================
