--------------------------- MODULE MediaParts_proofs ---------------------------
(***************************************************************************)
(* Machine-checked proofs about the parts of a media stream, for every     *)
(* value of the constants: the hole puncher, the reports and the frames    *)
(* they keep, the count of a source's packets, and the encryption. Each    *)
(* has an inductive invariant of its own variables; a step of another part *)
(* leaves it alone.                                                        *)
(***************************************************************************)
EXTENDS MediaParts, FiniteSetTheorems, TLAPS

(***************************************************************************)
(* Arithmetic modulo a constant.                                           *)
(***************************************************************************)
LEMMA ModSmall ==
    ASSUME NEW m \in Nat \ {0}, NEW x \in 0..(m - 1) PROVE x % m = x
OBVIOUS

LEMMA ModNext ==
    ASSUME NEW m \in Nat \ {0}, NEW x \in 0..(m - 1)
    PROVE  (x + 1) % m = IF x = m - 1 THEN 0 ELSE x + 1
OBVIOUS

LEMMA ModDifference ==
    ASSUME NEW m \in Nat \ {0}, NEW x \in 0..(m - 1), NEW y \in 0..(m - 1)
    PROVE  (x - y) % m = IF x >= y THEN x - y ELSE x - y + m
OBVIOUS

\* Quotient and remainder are unique.
LEMMA Division ==
    ASSUME NEW m \in Nat \ {0}, NEW a \in Int, NEW b \in Int,
           NEW r \in 0..(m - 1), NEW s \in 0..(m - 1), a * m + r = b * m + s
    PROVE  a = b /\ r = s
OBVIOUS

LEMMA Divided ==
    ASSUME NEW m \in Nat \ {0}, NEW x \in Nat
    PROVE  \E q \in Nat : x = q * m + (x % m) /\ x % m \in 0..(m - 1)
<1>1. x = (x \div m) * m + (x % m) /\ x % m \in 0..(m - 1) /\ x \div m \in Nat
  BY SMT
<1> QED
  BY <1>1

\* A number that grows moves its remainder forwards by no more.
LEMMA ModGrows ==
    ASSUME NEW m \in Nat \ {0}, NEW x \in Nat, NEW d \in Nat
    PROVE  (x + d) % m <= (x % m) + d
<1>1. PICK q \in Nat : x = q * m + (x % m) /\ x % m \in 0..(m - 1)
  BY Divided
<1>2. x + d \in Nat
  OBVIOUS
<1>3. PICK p \in Nat : x + d = p * m + ((x + d) % m) /\ (x + d) % m \in 0..(m - 1)
  BY <1>2, Divided
<1>4. CASE p >= q
  <2>1. p * m >= q * m
    BY <1>4
  <2> QED
    BY <1>1, <1>3, <2>1
<1>5. CASE p < q
  <2>1. PICK k \in Nat : q = p + 1 + k
    <3>1. q - p - 1 \in Nat
      BY <1>5
    <3> QED
      BY <3>1
  <2>2. q * m = p * m + m + k * m /\ k * m >= 0
    BY <2>1
  <2> QED
    BY <1>1, <1>3, <2>2
<1> QED
  BY <1>4, <1>5

\* Less than a whole round further, the remainder has wrapped or has not.
LEMMA ModForward ==
    ASSUME NEW m \in Nat \ {0}, NEW x \in Nat, NEW d \in 0..(m - 1)
    PROVE  (x + d) % m = IF (x % m) + d < m THEN (x % m) + d ELSE (x % m) + d - m
<1>1. PICK q \in Nat : x = q * m + (x % m) /\ x % m \in 0..(m - 1)
  BY Divided
<1>2. PICK p \in Nat : x + d = p * m + ((x + d) % m) /\ (x + d) % m \in 0..(m - 1)
  <2>1. x + d \in Nat
    OBVIOUS
  <2> QED
    BY <2>1, Divided
<1>3. CASE (x % m) + d < m
  BY <1>1, <1>2, <1>3, Division
<1>4. CASE ~((x % m) + d < m)
  <2>1. PICK r \in 0..(m - 1) : r = (x % m) + d - m
    BY <1>1, <1>4
  <2>2. x + d = (q + 1) * m + r
    <3>1. (q + 1) * m = q * m + m
      OBVIOUS
    <3> QED
      BY <1>1, <2>1, <3>1
  <2>3. PICK s \in 0..(m - 1) : s = (x + d) % m
    BY <1>2
  <2>4. (q + 1) * m + r = p * m + s /\ q + 1 \in Int /\ p \in Int
    BY <1>2, <2>2, <2>3
  <2>5. s = r
    BY <2>4, Division
  <2> QED
    BY <1>4, <2>1, <2>3, <2>5
<1> QED
  BY <1>3, <1>4

-----------------------------------------------------------------------------
(***************************************************************************)
(* The hole puncher (HolePuncher).                                         *)
(***************************************************************************)
\* The thread and the firewall measure the same silence, or the thread a longer one: only
\* a datagram that fails separates them. A sleep begins before the threshold is reached.
HoleInv ==
    /\ idle \in 0..Hole!Cap /\ silence \in 0..Hole!Cap /\ asleep \in 0..SLEEP
    /\ ~send_failed => silence <= idle
    /\ thread = "sleep" => asleep > 0 /\ idle + asleep < THRESHOLD + SLEEP
    /\ ~send_failed /\ thread \in {"loop", "send"} => silence < THRESHOLD + SLEEP

\* What each step of the application and the thread, and time, keeps of HoleInv.
LEMMA HoleStep == ASSUME HoleInv, Hole!Next PROVE HoleInv'
<1> USE MediaAssumption DEF MediaAssumption, Hole!HoleBounds, HoleInv, Hole!Cap
<1>1. CASE Hole!start
  BY <1>1 DEF Hole!start
<1>2. CASE Hole!runner_start
  BY <1>2 DEF Hole!runner_start
<1>3. CASE Hole!stop
  BY <1>3 DEF Hole!stop
<1>4. CASE Hole!push_frame
  BY <1>4 DEF Hole!push_frame, Hole!Sends
<1>5. CASE Hole!keepalive_ends
  BY <1>5 DEF Hole!keepalive_ends, Hole!ThreadGoes
<1>6. CASE Hole!keepalive_sleep
  BY <1>6 DEF Hole!keepalive_sleep, Hole!ThreadGoes
<1>7. CASE Hole!keepalive_due
  BY <1>7 DEF Hole!keepalive_due, Hole!ThreadGoes
<1>8. CASE Hole!keepalive_send
  BY <1>8 DEF Hole!keepalive_send, Hole!ThreadGoes, Hole!Sends
<1>9. CASE Hole!Tick
  BY <1>9 DEF Hole!Tick, Hole!Later
<1> QED
  BY <1>1, <1>2, <1>3, <1>4, <1>5, <1>6, <1>7, <1>8, <1>9 DEF Hole!Next

\* holepuncher.cc, keepalive(): while its thread goes round, the firewall never sees the
\* stream silent for as long as the threshold and a sleep together unless a datagram failed,
\* whatever the two are, last_dgram_sent_ began with, and wherever pushes fall.
THEOREM HoleStaysOpen == Spec => []HoleKeptOpen
<1>1. Init => HoleInv
  BY MediaAssumption
     DEF MediaAssumption, Hole!HoleBounds, Init, Hole!Init, HoleInv, Hole!Cap
<1>2. ASSUME HoleInv, [Next]_vars PROVE HoleInv'
  <2>1. CASE KeepAlive
    BY <1>2, <2>1, HoleStep DEF KeepAlive
  <2>2. CASE UNCHANGED holeVars
    BY <1>2, <2>2 DEF HoleInv, holeVars, Hole!Cap
  <2> QED
    BY <1>2, <2>1, <2>2 DEF Next, Stream, Encrypt, Count, Report, Agree, vars
<1>3. HoleInv => HoleKeptOpen
  BY MediaAssumption
     DEF MediaAssumption, Hole!HoleBounds, HoleInv, HoleKeptOpen, Hole!HoleKeptOpen,
                       Hole!Cap
<1> QED
  BY <1>1, <1>2, <1>3, PTL DEF Spec

-----------------------------------------------------------------------------
(***************************************************************************)
(* The reports (Rtcp).                                                     *)
(***************************************************************************)
ReportTypes ==
    /\ app \in {"new", "added", "started", "stopped", "destroyed"}
    /\ runner \in {"none", "loop", "poll", "add", "count", "use", "report", "send", "ended"}
    /\ dispatcher \in {"idle", "add", "count", "use"}
    /\ runner \in {"add", "count", "use"} => about.of \in seen
    /\ dispatcher # "idle" => source \in seen
    /\ initial \in BOOLEAN /\ closed \in BOOLEAN /\ raced \in BOOLEAN
    /\ hook \in {"none", "early", "late"}
    /\ participants_ \in [Ssrcs -> {"none", "real", "fake"}]
    /\ frame \in [Ssrcs -> {"none", "kept", "freed", "wild"}]
    /\ seen \in SUBSET Ssrcs /\ IsFiniteSet(seen)

\* One source is heard, its socket is not closed, our port is bound, no race.
Undisturbed == /\ runner # "none" /\ ~closed /\ ~raced
               /\ \A a, b \in seen : a = b

NobodyKnown == \A s \in Ssrcs : participants_[s] = "none"

\* The participant with a socket is taken by the first to enter the source, and by nobody
\* else: who finds the source missing finds that participant still there.
SocketsInv ==
    /\ app \in {"new", "added"} => runner = "none" /\ dispatcher = "idle" /\ NobodyKnown
    /\ Undisturbed =>
         /\ \A s \in Ssrcs : participants_[s] # "fake" /\ (participants_[s] = "real" => s \in seen)
         /\ initial => NobodyKnown
         /\ ~initial => \E s \in Ssrcs : participants_[s] = "real"
         /\ dispatcher = "add" => initial /\ runner # "add"
         /\ runner = "add" => initial

\* No pointer to a freed frame is left but by a hook that came over a kept one, and a
\* pointer that was never set belongs to an entry that is being counted.
FrameFits(s) ==
    /\ frame[s] = "freed" => hook = "late"
    /\ frame[s] = "kept" /\ participants_[s] # "none" => hook # "early"
    /\ frame[s] = "wild" => \/ dispatcher = "count" /\ source = s
                            \/ runner = "count" /\ about.of = s

FramesInv == \A s \in Ssrcs : FrameFits(s)

ReportsInv ==
    /\ ReportTypes /\ FramesFreedOnce
    /\ Reports!Sound => SocketsInv /\ FramesInv
    /\ fault = "wild socket" => ~Undisturbed

\* What each step of the threads keeps of ReportsInv.
LEMMA ReportStep == ASSUME ReportsInv, Reports!Next PROVE ReportsInv'
<1> USE DEF ReportsInv
<1>0. Reports!Sound
  BY DEF Reports!Next, Reports!install_sender_hook, Reports!install_receiver_hook,
         Reports!install_sdes_hook, Reports!send_sdes_packet, Reports!send_app_packet,
         Reports!handle_sender_report_packet, Reports!handle_receiver_report_packet,
         Reports!handle_sdes_packet, Reports!generate_sender_report,
         Reports!generate_receiver_report, Reports!get_sender_packet,
         Reports!get_receiver_packet, Reports!get_sdes_packet, Reports!Kinds,
         Reports!add_participant, Reports!start, Reports!update_sender_stats,
         Reports!install_hook, Reports!get_packet, Reports!get_packet_returns,
         Reports!AppSends, Reports!stop, Reports!destroy, Reports!recv_packet_handler,
         Reports!dispatcher_adds, Reports!dispatcher_counts, Reports!dispatcher_uses,
         Reports!rtcp_runner, Reports!poll, Reports!packet_refused,
         Reports!handle_incoming_packet, Reports!runner_adds, Reports!runner_counts,
         Reports!EntryUsed, Reports!handle_bye_packet, Reports!generate_report,
         Reports!send_report, Reports!runner_outlives, Reports!AppGoes, Reports!DispatcherGoes,
         Reports!RunnerGoes, Reports!RoundEnds
<1>1. CASE Reports!add_participant
  <2>1. /\ app = "new" /\ app' = "added" /\ initial' \in BOOLEAN
        /\ UNCHANGED <<runner, about, dispatcher, source, participants_, closed, frame, hook,
             seen, raced, fault>>
    BY <1>1
       DEF Reports!add_participant, Reports!AppGoes, Reports!threadVars, Reports!frameVars,
           Reports!historyVars
  <2>2. ReportTypes'
    BY <2>1 DEF ReportTypes
  <2> QED
    BY <1>0, <2>1, <2>2
       DEF SocketsInv, Undisturbed, NobodyKnown, FramesInv, FrameFits, FramesFreedOnce,
           Reports!FramesFreedOnce, Reports!Known, ReportTypes, Reports!Sound
<1>2. CASE Reports!start
  <2>1. /\ app = "added" /\ app' = "started"
        /\ runner' = IF initial THEN "loop" ELSE "none"
        /\ UNCHANGED <<about, dispatcher, source, initial, participants_, closed, frame, hook,
             seen, raced, fault>>
    BY <1>2
       DEF Reports!start, Reports!AppGoes, Reports!bookVars, Reports!frameVars,
           Reports!historyVars
  <2>2. ReportTypes'
    BY <2>1 DEF ReportTypes
  <2> QED
    BY <1>0, <2>1, <2>2
       DEF SocketsInv, Undisturbed, NobodyKnown, FramesInv, FrameFits, FramesFreedOnce,
           Reports!FramesFreedOnce, Reports!Known, ReportTypes, Reports!Sound
<1>3. CASE Reports!update_sender_stats
  <2>1. /\ app = "started"
        /\ UNCHANGED <<app, runner, about, dispatcher, source, initial, participants_, closed,
             frame, hook, seen, raced, fault>>
    BY <1>3
       DEF Reports!update_sender_stats, Reports!AppGoes, Reports!threadVars, Reports!bookVars,
           Reports!frameVars, Reports!historyVars
  <2>2. ReportTypes'
    BY <2>1 DEF ReportTypes
  <2> QED
    BY <1>0, <2>1, <2>2
       DEF SocketsInv, Undisturbed, NobodyKnown, FramesInv, FrameFits, FramesFreedOnce,
           Reports!FramesFreedOnce, Reports!Known, ReportTypes, Reports!Sound
<1>4. CASE \E kind \in Reports!Kinds : Reports!install_hook(kind)
  <2>1. /\ app = "started"
        /\ hook' = CASE hook # "none"                            -> hook
                     [] \E s \in Ssrcs : participants_[s] # "none" /\ frame[s] = "kept" -> "late"
                     [] OTHER                                   -> "early"
        /\ UNCHANGED <<app, runner, about, dispatcher, source, initial, participants_, closed,
             frame, seen, raced, fault>>
    BY <1>4
       DEF Reports!install_hook, Reports!AppGoes, Reports!threadVars, Reports!bookVars,
           Reports!historyVars, Reports!Known
  <2>2. ReportTypes'
    BY <2>1 DEF ReportTypes
  <2> QED
    BY <1>0, <2>1, <2>2
       DEF SocketsInv, Undisturbed, NobodyKnown, FramesInv, FrameFits, FramesFreedOnce,
           Reports!FramesFreedOnce, Reports!Known, ReportTypes, Reports!Sound
<1>5. CASE \E kind \in Reports!Kinds, s \in Ssrcs : Reports!get_packet(kind, s)
  <2>1. /\ app = "started"
        /\ \E s \in Ssrcs : fault' = CASE frame[s] = "freed" -> "frame freed"
                                      [] frame[s] = "wild"  -> "frame wild"
                                      [] OTHER              -> fault
        /\ UNCHANGED <<app, runner, about, dispatcher, source, initial, participants_, closed,
             frame, hook, seen, raced>>
    BY <1>5
       DEF Reports!get_packet, Reports!AppGoes, Reports!Misuse, Reports!threadVars,
           Reports!bookVars, Reports!frameVars, Reports!historyVars
  <2>2. ReportTypes'
    BY <2>1 DEF ReportTypes
  <2> QED
    BY <1>0, <2>1, <2>2
       DEF SocketsInv, Undisturbed, NobodyKnown, FramesInv, FrameFits, FramesFreedOnce,
           Reports!FramesFreedOnce, Reports!Known, ReportTypes, Reports!Sound
<1>6. CASE Reports!get_packet_returns
  <2>1. /\ \E s : frame' = [frame EXCEPT ![s] = "none"]
        /\ fault' \in {fault, "null participant"}
        /\ UNCHANGED <<app, runner, about, dispatcher, source, initial, participants_, closed,
             hook, seen, raced>>
    BY <1>6
       DEF Reports!get_packet_returns, Reports!Misuse, Reports!threadVars, Reports!bookVars,
           Reports!historyVars
  <2>2. frame' \in [Ssrcs -> {"none", "kept", "freed", "wild"}]
    BY <2>1 DEF ReportTypes
  <2>3. ReportTypes'
    BY <2>1, <2>2, ZenonT(30) DEF ReportTypes
  <2>4. FramesInv' /\ FramesFreedOnce'
    BY <1>0, <2>1
       DEF FramesInv, FrameFits, FramesFreedOnce, Reports!FramesFreedOnce, ReportTypes,
           Reports!Sound
  <2> QED
    BY <1>0, <2>1, <2>3, <2>4
       DEF SocketsInv, Undisturbed, NobodyKnown, ReportTypes, Reports!Sound
<1>7. CASE Reports!AppSends
  <2>1. /\ app = "started"
        /\ fault' = IF \E s \in Reports!Known : participants_[s] = "fake" THEN "wild socket"
             ELSE fault
        /\ UNCHANGED <<app, runner, about, dispatcher, source, initial, participants_, closed,
             frame, hook, seen, raced>>
    BY <1>7
       DEF Reports!AppSends, Reports!AppGoes, Reports!SendToAll, Reports!Misuse,
           Reports!threadVars, Reports!bookVars, Reports!frameVars, Reports!historyVars
  <2>2. ReportTypes'
    BY <2>1 DEF ReportTypes
  <2> QED
    BY <1>0, <2>1, <2>2
       DEF SocketsInv, Undisturbed, NobodyKnown, FramesInv, FrameFits, FramesFreedOnce,
           Reports!FramesFreedOnce, Reports!Known, ReportTypes, Reports!Sound
<1>8. CASE Reports!stop
  <2>1. /\ app = "started" /\ app' = "stopped"
        /\ fault' = IF \E s \in Reports!Known : participants_[s] = "fake" THEN "wild socket"
             ELSE fault
        /\ UNCHANGED <<runner, about, dispatcher, source, initial, participants_, closed,
             frame, hook, seen, raced>>
    BY <1>8
       DEF Reports!stop, Reports!AppGoes, Reports!send_bye_packet, Reports!SendToAll,
           Reports!Misuse, Reports!threadVars, Reports!bookVars, Reports!frameVars,
           Reports!historyVars
  <2>2. ReportTypes'
    BY <2>1 DEF ReportTypes
  <2>3. FramesFreedOnce'
    BY <1>0, <2>1
       DEF FramesInv, FrameFits, FramesFreedOnce, Reports!FramesFreedOnce, ReportTypes,
           Reports!Sound
  <2>4. Reports!Sound' => FramesInv'
    BY <1>0, <2>1, <2>2 DEF FramesInv, FrameFits, ReportTypes, Reports!Sound
  <2> QED
    BY <1>0, <2>1, <2>2, <2>3, <2>4
       DEF SocketsInv, Undisturbed, NobodyKnown, Reports!Known, ReportTypes, Reports!Sound
<1>9. CASE Reports!destroy
  <2>1. /\ app = "stopped" /\ app' = "destroyed"
        /\ UNCHANGED <<runner, about, dispatcher, source, initial, participants_, closed,
             frame, hook, seen, raced, fault>>
    BY <1>9
       DEF Reports!destroy, Reports!AppGoes, Reports!threadVars, Reports!bookVars,
           Reports!frameVars, Reports!historyVars
  <2>2. ReportTypes'
    BY <2>1 DEF ReportTypes
  <2> QED
    BY <1>0, <2>1, <2>2
       DEF SocketsInv, Undisturbed, NobodyKnown, FramesInv, FrameFits, FramesFreedOnce,
           Reports!FramesFreedOnce, Reports!Known, ReportTypes, Reports!Sound
<1>10. CASE \E s \in Ssrcs : Reports!recv_packet_handler(s)
  <2> PICK s \in Ssrcs : Reports!recv_packet_handler(s)
    BY <1>10
  <2>1. /\ app \in {"started", "stopped"}
        /\ dispatcher = "idle" /\ dispatcher' = IF participants_[s] = "none" THEN "add" ELSE
             "use"
        /\ source' = s /\ seen' = seen \cup {s}
        /\ raced' = (raced \/ (participants_[s] = "none" /\ runner = "add" /\ about.of = s))
        /\ UNCHANGED <<app, runner, about, initial, participants_, closed, frame, hook, fault>>
    BY DEF Reports!recv_packet_handler, Reports!DispatcherGoes, Reports!appVars,
           Reports!bookVars, Reports!frameVars, Reports!Enters
  <2>2. ReportTypes'
    BY <2>1, FS_AddElement DEF ReportTypes
  <2> QED
    BY <1>0, <2>1, <2>2
       DEF SocketsInv, Undisturbed, NobodyKnown, FramesInv, FrameFits, FramesFreedOnce,
           Reports!FramesFreedOnce, Reports!Known, ReportTypes, Reports!Sound
<1>11. CASE Reports!dispatcher_adds
  <2>1. /\ dispatcher = "add" /\ dispatcher' = "count"
        /\ initial' = FALSE
        /\ participants_' = [participants_ EXCEPT ![source] = IF initial THEN "real" ELSE
             "fake"]
        /\ frame' \in {[frame EXCEPT ![source] = "none"], [frame EXCEPT ![source] = "wild"]}
        /\ UNCHANGED <<app, runner, about, source, closed, hook, seen, raced, fault>>
    BY <1>11
       DEF Reports!dispatcher_adds, Reports!DispatcherGoes, Reports!appVars, Reports!Entered,
           Reports!frameVars, Reports!historyVars
  <2>2. ReportTypes'
    BY <2>1 DEF ReportTypes
  <2>3. FramesFreedOnce'
    BY <1>0, <2>1
       DEF FramesInv, FrameFits, FramesFreedOnce, Reports!FramesFreedOnce, ReportTypes,
           Reports!Sound
  <2>4. ASSUME Reports!Sound' PROVE FramesInv'
    <3>1. FramesInv
      BY <1>0
    <3>2. ASSUME NEW t \in Ssrcs PROVE FrameFits(t)'
      <4>1. FrameFits(t)
        BY <3>1 DEF FramesInv
      <4>2. (frame[t] = "freed" => hook = "late")'
        BY <2>1, <4>1 DEF FrameFits, ReportTypes
      <4>3. (frame[t] = "kept" /\ participants_[t] # "none" => hook # "early")'
        BY <2>1, <4>1 DEF FrameFits, ReportTypes
      <4>4. (frame[t] = "wild" => \/ dispatcher = "count" /\ source = t
                                  \/ runner = "count" /\ about.of = t)'
        BY <2>1, <4>1 DEF FrameFits, ReportTypes
      <4> QED
        BY <4>2, <4>3, <4>4 DEF FrameFits
    <3> QED
      BY <3>2 DEF FramesInv
  <2> QED
    BY <1>0, <2>1, <2>2, <2>3, <2>4
       DEF SocketsInv, Undisturbed, NobodyKnown, Reports!Known, ReportTypes, Reports!Sound
<1>12. CASE Reports!dispatcher_counts
  <2>1. /\ dispatcher = "count" /\ dispatcher' = "use"
        /\ fault' \in {fault, "null participant"}
        /\ frame' = [frame EXCEPT ![source] = "none"]
        /\ UNCHANGED <<app, runner, about, source, initial, participants_, closed, hook, seen,
             raced>>
    BY <1>12
       DEF Reports!dispatcher_counts, Reports!DispatcherGoes, Reports!appVars, Reports!Counted,
           Reports!Misuse, Reports!historyVars
  <2>2. ReportTypes'
    BY <2>1 DEF ReportTypes
  <2>3. FramesInv' /\ FramesFreedOnce'
    BY <1>0, <2>1
       DEF FramesInv, FrameFits, FramesFreedOnce, Reports!FramesFreedOnce, ReportTypes,
           Reports!Sound
  <2> QED
    BY <1>0, <2>1, <2>2, <2>3
       DEF SocketsInv, Undisturbed, NobodyKnown, ReportTypes, Reports!Sound
<1>13. CASE Reports!dispatcher_uses
  <2>1. /\ dispatcher = "use" /\ dispatcher' = "idle" /\ source' = Reports!None
        /\ fault' \in {fault, "null participant"}
        /\ UNCHANGED <<app, runner, about, initial, participants_, closed, frame, hook, seen,
             raced>>
    BY <1>13
       DEF Reports!dispatcher_uses, Reports!DispatcherGoes, Reports!appVars, Reports!Misuse,
           Reports!bookVars, Reports!frameVars, Reports!historyVars
  <2>2. ReportTypes'
    BY <2>1 DEF ReportTypes
  <2>3. FramesFreedOnce'
    BY <1>0, <2>1
       DEF FramesInv, FrameFits, FramesFreedOnce, Reports!FramesFreedOnce, ReportTypes,
           Reports!Sound
  <2>4. ASSUME Reports!Sound' PROVE FramesInv'
    <3>1. FramesInv
      BY <1>0
    <3>2. ASSUME NEW t \in Ssrcs PROVE FrameFits(t)'
      <4>1. FrameFits(t)
        BY <3>1 DEF FramesInv
      <4>2. (frame[t] = "freed" => hook = "late")'
        BY <2>1, <4>1 DEF FrameFits, ReportTypes
      <4>3. (frame[t] = "kept" /\ participants_[t] # "none" => hook # "early")'
        BY <2>1, <4>1 DEF FrameFits, ReportTypes
      <4>4. (frame[t] = "wild" => \/ dispatcher = "count" /\ source = t
                                  \/ runner = "count" /\ about.of = t)'
        BY <2>1, <4>1 DEF FrameFits, ReportTypes
      <4> QED
        BY <4>2, <4>3, <4>4 DEF FrameFits
    <3> QED
      BY <3>2 DEF FramesInv
  <2> QED
    BY <1>0, <2>1, <2>2, <2>3, <2>4
       DEF SocketsInv, Undisturbed, NobodyKnown, Reports!Known, ReportTypes, Reports!Sound
<1>14. CASE Reports!rtcp_runner
  <2>1. /\ runner = "loop" /\ runner' \in {"poll", "ended"}
        /\ UNCHANGED <<app, about, dispatcher, source, initial, participants_, closed, frame,
             hook, seen, raced, fault>>
    BY <1>14
       DEF Reports!rtcp_runner, Reports!RunnerGoes, Reports!appVars, Reports!poll,
           Reports!RoundEnds, Reports!bookVars, Reports!historyVars
  <2>2. ReportTypes'
    BY <2>1 DEF ReportTypes
  <2> QED
    BY <1>0, <2>1, <2>2
       DEF SocketsInv, Undisturbed, NobodyKnown, FramesInv, FrameFits, FramesFreedOnce,
           Reports!FramesFreedOnce, Reports!Known, ReportTypes, Reports!Sound
<1>15. CASE Reports!poll
  <2>1. /\ runner = "poll" /\ runner' \in {"loop", "report"}
        /\ UNCHANGED <<app, about, dispatcher, source, initial, participants_, closed, frame,
             hook, seen, raced, fault>>
    BY <1>15
       DEF Reports!poll, Reports!RunnerGoes, Reports!appVars, Reports!RoundEnds,
           Reports!bookVars, Reports!historyVars
  <2>2. ReportTypes'
    BY <2>1 DEF ReportTypes
  <2> QED
    BY <1>0, <2>1, <2>2
       DEF SocketsInv, Undisturbed, NobodyKnown, FramesInv, FrameFits, FramesFreedOnce,
           Reports!FramesFreedOnce, Reports!Known, ReportTypes, Reports!Sound
<1>16. CASE Reports!packet_refused
  <2>1. /\ runner = "poll" /\ runner' \in {"loop", "report"}
        /\ UNCHANGED <<app, about, dispatcher, source, initial, participants_, closed, frame,
             hook, seen, raced, fault>>
    BY <1>16
       DEF Reports!packet_refused, Reports!RoundEnds, Reports!RunnerGoes, Reports!appVars,
           Reports!poll, Reports!bookVars, Reports!historyVars
  <2>2. ReportTypes'
    BY <2>1 DEF ReportTypes
  <2> QED
    BY <1>0, <2>1, <2>2
       DEF SocketsInv, Undisturbed, NobodyKnown, FramesInv, FrameFits, FramesFreedOnce,
           Reports!FramesFreedOnce, Reports!Known, ReportTypes, Reports!Sound
<1>17. CASE \E s \in Ssrcs, kind \in Reports!Kinds : Reports!handle_incoming_packet(kind, s)
  <2> PICK s \in Ssrcs, kind \in Reports!Kinds : Reports!handle_incoming_packet(kind, s)
    BY <1>17
  <2>1. /\ runner = "poll"
        /\ runner' = IF kind # "sdes" /\ participants_[s] = "none" THEN "add" ELSE "use"
        /\ about'.of = s /\ seen' = seen \cup {s}
        /\ raced' = (raced \/ (runner' = "add" /\ dispatcher = "add" /\ source = s))
        /\ UNCHANGED <<app, dispatcher, source, initial, participants_, closed, frame, hook,
             fault>>
    BY DEF Reports!handle_incoming_packet, Reports!RunnerGoes, Reports!appVars, Reports!poll,
           Reports!RoundEnds, Reports!bookVars, Reports!historyVars, Reports!Enters
  <2>2. ReportTypes'
    BY <2>1, FS_AddElement DEF ReportTypes
  <2>3. FramesFreedOnce'
    BY <1>0, <2>1
       DEF FramesInv, FrameFits, FramesFreedOnce, Reports!FramesFreedOnce, ReportTypes,
           Reports!Sound
  <2>4. ASSUME Reports!Sound' PROVE FramesInv'
    <3>1. FramesInv
      BY <1>0
    <3>2. ASSUME NEW t \in Ssrcs PROVE FrameFits(t)'
      <4>1. FrameFits(t)
        BY <3>1 DEF FramesInv
      <4>2. (frame[t] = "freed" => hook = "late")'
        BY <2>1, <4>1 DEF FrameFits, ReportTypes
      <4>3. (frame[t] = "kept" /\ participants_[t] # "none" => hook # "early")'
        BY <2>1, <4>1 DEF FrameFits, ReportTypes
      <4>4. (frame[t] = "wild" => \/ dispatcher = "count" /\ source = t
                                  \/ runner = "count" /\ about.of = t)'
        BY <2>1, <4>1 DEF FrameFits, ReportTypes
      <4> QED
        BY <4>2, <4>3, <4>4 DEF FrameFits
    <3> QED
      BY <3>2 DEF FramesInv
  <2> QED
    BY <1>0, <2>1, <2>2, <2>3, <2>4
       DEF SocketsInv, Undisturbed, NobodyKnown, Reports!Known, ReportTypes, Reports!Sound
<1>18. CASE Reports!runner_adds
  <2>1. /\ runner = "add" /\ runner' = "count"
        /\ initial' = FALSE
        /\ participants_' = [participants_ EXCEPT ![about.of] = IF initial THEN "real" ELSE
             "fake"]
        /\ frame' \in {[frame EXCEPT ![about.of] = "none"], [frame EXCEPT ![about.of] = "wild"]}
        /\ UNCHANGED <<app, about, dispatcher, source, closed, hook, seen, raced, fault>>
    BY <1>18
       DEF Reports!runner_adds, Reports!RunnerGoes, Reports!appVars, Reports!Entered,
           Reports!historyVars
  <2>2. ReportTypes'
    BY <2>1 DEF ReportTypes
  <2> QED
    BY <1>0, <2>1, <2>2
       DEF SocketsInv, Undisturbed, NobodyKnown, FramesInv, FrameFits, FramesFreedOnce,
           Reports!FramesFreedOnce, Reports!Known, ReportTypes, Reports!Sound
<1>19. CASE Reports!runner_counts
  <2>1. /\ runner = "count" /\ runner' = "use"
        /\ fault' \in {fault, "null participant"}
        /\ frame' = [frame EXCEPT ![about.of] = "none"]
        /\ UNCHANGED <<app, about, dispatcher, source, initial, participants_, closed, hook,
             seen, raced>>
    BY <1>19
       DEF Reports!runner_counts, Reports!RunnerGoes, Reports!appVars, Reports!Counted,
           Reports!Misuse, Reports!historyVars
  <2>2. ReportTypes'
    BY <2>1 DEF ReportTypes
  <2>3. FramesInv' /\ FramesFreedOnce'
    BY <1>0, <2>1
       DEF FramesInv, FrameFits, FramesFreedOnce, Reports!FramesFreedOnce, ReportTypes,
           Reports!Sound
  <2> QED
    BY <1>0, <2>1, <2>2, <2>3
       DEF SocketsInv, Undisturbed, NobodyKnown, ReportTypes, Reports!Sound
<1>20. CASE \E kind \in Reports!Kinds, keeps \in BOOLEAN : Reports!EntryUsed(kind, keeps)
  <2> PICK kind \in Reports!Kinds, keeps \in BOOLEAN : Reports!EntryUsed(kind, keeps)
    BY <1>20
  <2>1. /\ runner = "use" /\ runner' \in {"loop", "report"}
        /\ frame' \in {frame, [frame EXCEPT ![about.of] =
                                   CASE hook = "none" -> "kept"
                                     [] hook # "none" /\ @ = "none" -> "none"
                                     [] OTHER -> "freed"]}
        /\ fault' \in {fault, "null participant", "frame freed", "frame wild"}
        /\ fault' = "frame freed" =>
             frame[about.of] = "freed" \/ taking = [of |-> about.of, had |-> "kept"]
        /\ fault' = "frame wild" => frame[about.of] = "wild"
        /\ fault' = fault => frame' = frame \/ frame[about.of] # "wild"
        /\ fault' = fault => participants_[about.of] # "none"
        /\ UNCHANGED <<app, dispatcher, source, initial, participants_, closed, hook, seen,
             raced, taking>>
    BY <1>0
       DEF Reports!EntryUsed, Reports!RoundEnds, Reports!RunnerGoes, Reports!appVars,
           Reports!Replaced, Reports!bookVars, Reports!historyVars, Reports!Sound
  <2>2. ReportTypes'
    BY <2>1 DEF ReportTypes
  <2>3. about.of \in Ssrcs
    BY <2>1 DEF ReportTypes
  <2>4. [of |-> about.of, had |-> "kept"] # Reports!Free
    <3>1. [of |-> about.of, had |-> "kept"].had # Reports!Free.had
      BY DEF Reports!Free
    <3> QED
      BY <3>1
  <2>5. ASSUME Reports!Sound' PROVE FramesInv'
    <3>1. FramesInv /\ fault' = fault
      BY <1>0, <2>1, <2>5 DEF Reports!Sound
    <3>2. frame[about.of] # "wild" \/ frame' = frame
      BY <2>1, <3>1
    <3>3. ASSUME NEW t \in Ssrcs PROVE FrameFits(t)'
      <4>1. FrameFits(t) /\ FrameFits(about.of)
        BY <2>3, <3>1 DEF FramesInv
      <4>2. participants_[about.of] # "none"
        BY <2>1, <3>1
      <4>3. (frame[t] = "freed" => hook = "late")'
        BY <2>1, <2>3, <3>2, <4>1, <4>2 DEF FrameFits, ReportTypes
      <4>4. (frame[t] = "kept" /\ participants_[t] # "none" => hook # "early")'
        BY <2>1, <2>3, <3>2, <4>1, <4>2 DEF FrameFits, ReportTypes
      <4>5. (frame[t] = "wild" => \/ dispatcher = "count" /\ source = t
                                  \/ runner = "count" /\ about.of = t)'
        BY <2>1, <2>3, <3>2, <4>1 DEF FrameFits, ReportTypes
      <4> QED
        BY <4>3, <4>4, <4>5 DEF FrameFits
    <3> QED
      BY <3>3 DEF FramesInv
  <2>6. FramesFreedOnce'
    BY <1>0, <2>1, <2>3, <2>4
       DEF FramesInv, FrameFits, FramesFreedOnce, Reports!FramesFreedOnce, Reports!Sound
  <2> QED
    BY <1>0, <2>1, <2>2, <2>5, <2>6
       DEF SocketsInv, Undisturbed, NobodyKnown, ReportTypes, Reports!Sound
<1>21. CASE \E s \in Ssrcs : Reports!handle_bye_packet(s)
  <2> PICK s \in Ssrcs : Reports!handle_bye_packet(s)
    BY <1>21
  <2>1. /\ ~closed /\ runner = "poll" /\ runner' \in {"loop", "report"}
        /\ participants_' = [participants_ EXCEPT ![s] = "none"]
        /\ closed' = (participants_[s] = "real")
        /\ fault' = IF participants_[s] = "fake" THEN "wild socket" ELSE fault
        /\ seen' = seen \cup {s}
        /\ frame' = [frame EXCEPT ![s] = "none"]
        /\ UNCHANGED <<app, about, dispatcher, source, initial, hook, raced>>
    BY DEF Reports!handle_bye_packet, Reports!RoundEnds, Reports!RunnerGoes, Reports!appVars,
           Reports!poll, Reports!bookVars, Reports!historyVars, Reports!Misuse
  <2>2. ReportTypes'
    BY <2>1, FS_AddElement DEF ReportTypes
  <2>3. FramesInv' /\ FramesFreedOnce'
    BY <1>0, <2>1
       DEF FramesInv, FrameFits, FramesFreedOnce, Reports!FramesFreedOnce, ReportTypes,
           Reports!Sound
  <2>4. Undisturbed' => participants_' = participants_ /\ Undisturbed
    BY <1>0, <2>1 DEF SocketsInv, Undisturbed, ReportTypes, Reports!Sound
  <2> QED
    BY <1>0, <2>1, <2>2, <2>3, <2>4
       DEF SocketsInv, Undisturbed, NobodyKnown, ReportTypes, Reports!Sound
<1>22. CASE \E role \in {"SENDER", "RECEIVER"} : Reports!generate_report(role)
  <2>1. /\ runner = "report" /\ runner' \in {"loop", "send"}
        /\ UNCHANGED <<app, about, dispatcher, source, initial, participants_, closed, frame,
             hook, seen, raced, fault>>
    BY <1>22
       DEF Reports!generate_report, Reports!RunnerGoes, Reports!appVars, Reports!bookVars,
           Reports!historyVars
  <2>2. ReportTypes'
    BY <2>1 DEF ReportTypes
  <2> QED
    BY <1>0, <2>1, <2>2
       DEF SocketsInv, Undisturbed, NobodyKnown, FramesInv, FrameFits, FramesFreedOnce,
           Reports!FramesFreedOnce, Reports!Known, ReportTypes, Reports!Sound
<1>23. CASE Reports!send_report
  <2>1. /\ runner = "send" /\ runner' = "loop"
        /\ fault' \in {fault, "overrun", "wild socket"}
        /\ fault' = "wild socket" => \E s \in Reports!Known : participants_[s] = "fake"
        /\ UNCHANGED <<app, about, dispatcher, source, initial, participants_, closed, frame,
             hook, seen, raced>>
    BY <1>0, <1>23
       DEF Reports!send_report, Reports!RunnerGoes, Reports!appVars, Reports!SendToAll,
           Reports!Misuse, Reports!bookVars, Reports!historyVars, Reports!Sound
  <2>2. ReportTypes'
    BY <2>1 DEF ReportTypes
  <2>3. FramesFreedOnce'
    BY <1>0, <2>1
       DEF FramesInv, FrameFits, FramesFreedOnce, Reports!FramesFreedOnce, ReportTypes,
           Reports!Sound
  <2>4. Reports!Sound' => FramesInv'
    BY <1>0, <2>1, <2>2 DEF FramesInv, FrameFits, ReportTypes, Reports!Sound
  <2> QED
    BY <1>0, <2>1, <2>2, <2>3, <2>4
       DEF SocketsInv, Undisturbed, NobodyKnown, Reports!Known, ReportTypes, Reports!Sound
<1>24. CASE Reports!runner_outlives
  <2>1. /\ app = "destroyed" /\ fault' = "object freed"
        /\ UNCHANGED <<app, runner, about, dispatcher, source, initial, participants_, closed,
             frame, hook, seen, raced>>
    BY <1>24
       DEF Reports!runner_outlives, Reports!appVars, Reports!threadVars, Reports!bookVars,
           Reports!frameVars, Reports!historyVars
  <2>2. ReportTypes'
    BY <2>1 DEF ReportTypes
  <2> QED
    BY <1>0, <2>1, <2>2
       DEF SocketsInv, Undisturbed, NobodyKnown, FramesInv, FrameFits, FramesFreedOnce,
           Reports!FramesFreedOnce, Reports!Known, ReportTypes, Reports!Sound
<1> QED
  BY <1>1, <1>2, <1>3, <1>4, <1>5, <1>6, <1>7, <1>8, <1>9, <1>10, <1>11, <1>12, <1>13, <1>14,
     <1>15, <1>16, <1>17, <1>18, <1>19, <1>20, <1>21, <1>22, <1>23, <1>24
     DEF Reports!Next, Reports!install_sender_hook, Reports!install_receiver_hook,
         Reports!install_sdes_hook, Reports!send_sdes_packet, Reports!send_app_packet,
         Reports!handle_sender_report_packet, Reports!handle_receiver_report_packet,
         Reports!handle_sdes_packet, Reports!generate_sender_report,
         Reports!generate_receiver_report, Reports!get_sender_packet,
         Reports!get_receiver_packet, Reports!get_sdes_packet, Reports!Kinds

LEMMA ReportsInvariant == Spec => []ReportsInv
<1>1. Init => ReportsInv
  <2> SUFFICES ASSUME Init PROVE ReportsInv
    OBVIOUS
  <2>1. IsFiniteSet(seen)
    BY FS_EmptySet DEF Init, Reports!Init
  <2> QED
    BY <2>1 DEF Init, Reports!Init, ReportsInv, ReportTypes, SocketsInv, Undisturbed,
                NobodyKnown, FramesInv, FrameFits, FramesFreedOnce, Reports!FramesFreedOnce
<1>2. ASSUME ReportsInv, [Next]_vars PROVE ReportsInv'
  <2>1. CASE Report
    BY <1>2, <2>1, ReportStep DEF Report
  <2>2. CASE UNCHANGED rtcpVars
    <3>0. UNCHANGED <<app, runner, about, dispatcher, source, initial, participants_, closed, hook,
                      frame, seen, raced>>
      BY <2>2 DEF rtcpVars
    <3>1. ReportTypes'
      BY <1>2, <3>0, ZenonT(60) DEF ReportsInv, ReportTypes
    <3> QED
      BY <1>2, <2>2, <3>1
         DEF rtcpVars, ReportsInv, SocketsInv, Undisturbed, NobodyKnown, FramesInv,
             FrameFits, FramesFreedOnce, Reports!FramesFreedOnce, Reports!Sound
  <2> QED
    BY <1>2, <2>1, <2>2 DEF Next, Stream, KeepAlive, Encrypt, Count, Agree, vars
<1> QED
  BY <1>1, <1>2, PTL DEF Spec

\* rtcp.cc and the three handlers that keep frames: a frame is only freed a second time, or
\* read after it, where a hook was installed over kept frames or the application took one
\* during an arrival, and a pointer to one is only used before it is set while its source
\* is being entered, whatever the number of sources.
THEOREM FramesAreFreedOnce == Spec => []FramesFreedOnce
<1>1. ReportsInv => FramesFreedOnce
  BY DEF ReportsInv
<1> QED
  BY <1>1, ReportsInvariant, PTL

\* rtcp.cc, add_participant(): with a single source heard, its socket open, our port bound
\* and no race between the two threads, no participant without a socket is used.
THEOREM OneSourceIsConnected == Spec => []OneSourceHasSocket
<1>1. ASSUME ReportsInv, fault = "wild socket", runner # "none", ~closed, ~raced
      PROVE  Cardinality(seen) > 1
  <2>1. PICK a \in seen, b \in seen : a # b
    BY <1>1 DEF ReportsInv, ReportTypes, Undisturbed
  <2>2. IsFiniteSet(seen) /\ {a, b} \subseteq seen
    BY <1>1, <2>1 DEF ReportsInv, ReportTypes
  <2>3. Cardinality({a, b}) = 2
    <3>1. Cardinality({a}) = 1 /\ IsFiniteSet({a})
      BY FS_Singleton
    <3>2. Cardinality({a} \cup {b}) = Cardinality({a}) + 1
      BY <2>1, <3>1, FS_AddElement
    <3>3. {a} \cup {b} = {a, b}
      OBVIOUS
    <3> QED
      BY <3>1, <3>2, <3>3
  <2>4. Cardinality({a, b}) <= Cardinality(seen) /\ Cardinality(seen) \in Nat
    BY <2>2, FS_Subset, FS_CardinalityType
  <2> QED
    BY <2>3, <2>4
<1>2. Reports!Cardinality(seen) = Cardinality(seen)
  BY Zenon DEF Reports!Cardinality, Cardinality
<1>3. ReportsInv => OneSourceHasSocket
  BY <1>1, <1>2 DEF OneSourceHasSocket, Reports!OneSourceHasSocket, ReportsInv, ReportTypes
<1> QED
  BY <1>3, ReportsInvariant, PTL

-----------------------------------------------------------------------------
(***************************************************************************)
(* The packets of a source (RtcpSource).                                   *)
(***************************************************************************)
SeqNumbers == 0..(RTP_SEQ_MOD - 1)

Participant ==
    [probation : Nat, max_seq : SeqNumbers, base_seq : SeqNumbers, bad_seq : Nat, cycles : Int,
     received_pkts : Int, dropped_pkts : Int, known : BOOLEAN]

\* What update_participant_seq() remembers of the packet it was given: the highest number,
\* a jump it would believe, or nothing of a number just behind the highest.
Remembered(q, seq) ==
    \/ q.max_seq = seq
    \/ q.bad_seq = Source!Seq16(seq + 1)
    \/ Source!Seq16(seq - q.max_seq) > RTP_SEQ_MOD - MAX_MISORDER

\* The packet before the next is remembered.
SourceInv ==
    /\ first \in SeqNumbers /\ flight \in SUBSET Nat /\ pkts_sent \in Nat
    /\ participant \in Participant
    /\ last \in [seq : SeqNumbers, valid : BOOLEAN]
    /\ last.valid => /\ participant.known /\ participant.probation = 0
                     /\ Remembered(participant, last.seq)
    /\ FollowerIsCounted

LEMMA SourceConstants ==
    /\ RTP_SEQ_MOD \in Nat \ {0} /\ RTP_SEQ_MOD > 1
    /\ MIN_SEQUENTIAL \in Nat \ {0} /\ MIN_SEQUENTIAL > 1
    /\ MAX_DROPOUT \in Nat /\ MAX_DROPOUT > 1 /\ MAX_MISORDER \in Nat
    /\ MAX_DROPOUT + MAX_MISORDER <= RTP_SEQ_MOD
BY MediaAssumption DEF MediaAssumption, Source!SourceBounds

LEMMA Seq16Type == ASSUME NEW n \in Int PROVE Source!Seq16(n) \in SeqNumbers
BY SourceConstants DEF Source!Seq16, SeqNumbers

\* update_participant_seq() once probation is over.
LEMMA UpdateRemembers ==
    ASSUME NEW q \in Participant, NEW seq \in SeqNumbers, q.probation = 0,
           NEW updated, updated = Source!update_participant_seq(q, seq)
    PROVE  /\ updated.state \in Participant
           /\ updated.state.known = q.known /\ updated.state.probation = 0
           /\ Remembered(updated.state, seq)
           /\ \/ updated.verdict = "RTP_OK"
              \/ /\ Source!Seq16(seq - q.max_seq) >= MAX_DROPOUT
                 /\ Source!Seq16(seq - q.max_seq) <= RTP_SEQ_MOD - MAX_MISORDER
                 /\ seq # q.bad_seq
<1> DEFINE udelta == Source!Seq16(seq - q.max_seq)
<1>1. udelta \in SeqNumbers /\ Source!Seq16(seq + 1) \in SeqNumbers
  BY Seq16Type DEF SeqNumbers, Participant
<1>2. CASE udelta < MAX_DROPOUT
  <2>1. updated = [state |-> Source!in_order(q, seq), verdict |-> "RTP_OK"]
    BY <1>1, <1>2, SourceConstants DEF Source!update_participant_seq, SeqNumbers
  <2>2. Source!Seq16(q.cycles + RTP_SEQ_MOD) \in Int
    BY SourceConstants, Seq16Type DEF Participant, SeqNumbers
  <2>3. /\ Source!in_order(q, seq) \in Participant
        /\ Source!in_order(q, seq).known = q.known
        /\ Source!in_order(q, seq).probation = q.probation
        /\ Source!in_order(q, seq).max_seq = seq
    BY <2>2 DEF Source!in_order, Participant
  <2> QED
    BY <2>1, <2>3 DEF Remembered
<1>3. CASE udelta >= MAX_DROPOUT /\ udelta <= RTP_SEQ_MOD - MAX_MISORDER
  <2>1. updated = [state |-> Source!large_jump(q, seq),
                   verdict |-> IF seq = q.bad_seq THEN "RTP_OK" ELSE "RTP_GENERIC_ERROR"]
    BY <1>1, <1>3, SourceConstants DEF Source!update_participant_seq, SeqNumbers
  <2>2. Source!Seq16(RTP_SEQ_MOD) + 1 \in Nat /\ Source!Seq16(seq + 1) \in Nat
    BY <1>1, SourceConstants, Seq16Type DEF SeqNumbers
  <2>3. /\ Source!large_jump(q, seq) \in Participant
        /\ Source!large_jump(q, seq).known = q.known
        /\ Source!large_jump(q, seq).probation = q.probation
        /\ Remembered(Source!large_jump(q, seq), seq)
    BY <2>2 DEF Source!large_jump, Source!init_participant_seq, Participant, Remembered
  <2> QED
    BY <1>3, <2>1, <2>3
<1>4. CASE udelta > RTP_SEQ_MOD - MAX_MISORDER /\ ~(udelta < MAX_DROPOUT)
  <2>1. updated = [state |-> q, verdict |-> "RTP_OK"]
    BY <1>1, <1>4, SourceConstants DEF Source!update_participant_seq, SeqNumbers
  <2> QED
    BY <1>4, <2>1 DEF Remembered
<1> QED
  BY <1>1, <1>2, <1>3, <1>4, SourceConstants DEF SeqNumbers

\* What update_participant_seq() keeps on probation.
LEMMA ProbationKeeps ==
    ASSUME NEW q \in Participant, NEW seq \in SeqNumbers, q.probation # 0
    PROVE  /\ Source!update_participant_seq(q, seq).state \in Participant
           /\ Source!update_participant_seq(q, seq).state.known = q.known
<1>1. Source!update_participant_seq(q, seq).state = Source!on_probation(q, seq)
  BY DEF Source!update_participant_seq
<1>2. Source!Seq16(RTP_SEQ_MOD) + 1 \in Nat
  BY SourceConstants, Seq16Type DEF SeqNumbers
<1>3. Source!on_probation(q, seq) \in Participant /\ Source!on_probation(q, seq).known = q.known
  <2>1. CASE seq # q.max_seq + 1
    <3>1. MIN_SEQUENTIAL - 1 \in Nat
      BY SourceConstants
    <3>2. Source!on_probation(q, seq)
            = [q EXCEPT !.probation = MIN_SEQUENTIAL - 1, !.max_seq = seq]
      BY <2>1 DEF Source!on_probation
    <3> QED
      BY <3>1, <3>2 DEF Participant
  <2>2. CASE seq = q.max_seq + 1 /\ q.probation > 1
    <3>1. q.probation - 1 \in Nat
      BY <2>2 DEF Participant
    <3>2. Source!on_probation(q, seq) = [q EXCEPT !.probation = q.probation - 1, !.max_seq = seq]
      BY <2>2 DEF Source!on_probation
    <3> QED
      BY <3>1, <3>2 DEF Participant
  <2>3. CASE seq = q.max_seq + 1 /\ ~(q.probation > 1)
    BY <1>2, <2>3 DEF Source!on_probation, Source!init_participant_seq, Participant
  <2> QED
    BY <2>1, <2>2, <2>3
<1> QED
  BY <1>1, <1>3

\* A packet that follows the one before in number is not taken for a jump.
LEMMA FollowerIsNear ==
    ASSUME NEW q \in Participant, NEW seq \in SeqNumbers, Remembered(q, seq),
           NEW next \in SeqNumbers, next = Source!Seq16(seq + 1)
    PROVE  \/ Source!Seq16(next - q.max_seq) < MAX_DROPOUT
           \/ Source!Seq16(next - q.max_seq) > RTP_SEQ_MOD - MAX_MISORDER
           \/ next = q.bad_seq
<1>1. q.max_seq \in SeqNumbers
  BY DEF Participant
<1>2. ASSUME NEW m \in SeqNumbers
      PROVE  Source!Seq16(next - m) = IF Source!Seq16(seq - m) = RTP_SEQ_MOD - 1 THEN 0
                                      ELSE Source!Seq16(seq - m) + 1
  <2>1. next = IF seq = RTP_SEQ_MOD - 1 THEN 0 ELSE seq + 1
    BY ModNext, SourceConstants DEF Source!Seq16, SeqNumbers
  <2>2. Source!Seq16(seq - m) = IF seq >= m THEN seq - m ELSE seq - m + RTP_SEQ_MOD
    BY ModDifference, SourceConstants DEF Source!Seq16, SeqNumbers
  <2>3. Source!Seq16(next - m) = IF next >= m THEN next - m ELSE next - m + RTP_SEQ_MOD
    BY ModDifference, SourceConstants DEF Source!Seq16, SeqNumbers
  <2> QED
    BY <2>1, <2>2, <2>3, SourceConstants DEF SeqNumbers
<1>3. Source!Seq16(seq - q.max_seq) \in SeqNumbers
  BY <1>1, Seq16Type DEF SeqNumbers
<1>4. CASE q.max_seq = seq
  <2>1. Source!Seq16(seq - seq) = 0
    BY ModSmall, SourceConstants DEF Source!Seq16, SeqNumbers
  <2> QED
    BY <1>2, <1>4, <2>1, SourceConstants
<1> QED
  BY <1>1, <1>2, <1>3, <1>4, SourceConstants DEF Remembered, SeqNumbers

LEMMA StatisticsKeep ==
    ASSUME NEW q \in Participant
    PROVE  /\ Source!update_session_statistics(q) \in Participant
           /\ Source!update_session_statistics(q).known = q.known
           /\ Source!update_session_statistics(q).probation = q.probation
           /\ \A seq : Remembered(q, seq)
                         => Remembered(Source!update_session_statistics(q), seq)
<1>1. PICK received \in Int, dropped \in Int :
        Source!update_session_statistics(q)
          = [q EXCEPT !.received_pkts = received, !.dropped_pkts = dropped]
  <2>1. q.received_pkts + 1 \in Int
    BY DEF Participant
  <2>2. q.cycles + q.max_seq - q.base_seq + 1 - (q.received_pkts + 1) \in Int
    BY DEF Participant, SeqNumbers
  <2>3. Source!update_session_statistics(q)
          = [q EXCEPT !.received_pkts = q.received_pkts + 1,
                      !.dropped_pkts = Source!update_session_statistics(q).dropped_pkts]
        /\ Source!update_session_statistics(q).dropped_pkts \in Int
    BY <2>2 DEF Source!update_session_statistics, Participant
  <2> QED
    BY <2>1, <2>3
<1> QED
  BY <1>1 DEF Participant, Remembered

\* A packet of the source, however late or often it comes.
LEMMA ArrivalStep ==
    ASSUME SourceInv, NEW n \in flight, NEW stays \in BOOLEAN, Source!packet_arrives(n, stays)
    PROVE  SourceInv'
<1> DEFINE seq == Source!SeqOf(n)
           updated == IF participant.known THEN Source!update_participant_seq(participant, seq)
                      ELSE [state |-> Source!init_new_participant(seq), verdict |-> "RTP_OK"]
<1>1. seq \in SeqNumbers
  <2>1. first + n \in Int
    BY DEF SourceInv, SeqNumbers
  <2> QED
    BY <2>1, Seq16Type DEF Source!SeqOf
<1>2. /\ participant' = IF updated.verdict = "RTP_OK"
                        THEN Source!update_session_statistics(updated.state) ELSE updated.state
      /\ last' = [seq |-> seq, valid |-> participant.known /\ participant.probation = 0]
      /\ steady' = [verdict |-> updated.verdict,
                    follows |-> last.valid /\ seq = Source!Seq16(last.seq + 1)]
      /\ flight' \in SUBSET flight /\ UNCHANGED <<first, pkts_sent>>
  BY DEF Source!packet_arrives, Source!recv_packet_handler
<1>3. CASE participant.known /\ participant.probation = 0
  <2>1. /\ updated.state \in Participant
        /\ updated.state.known /\ updated.state.probation = 0
        /\ Remembered(updated.state, seq)
        /\ \/ updated.verdict = "RTP_OK"
           \/ /\ Source!Seq16(seq - participant.max_seq) >= MAX_DROPOUT
              /\ Source!Seq16(seq - participant.max_seq) <= RTP_SEQ_MOD - MAX_MISORDER
              /\ seq # participant.bad_seq
    BY <1>1, <1>3, UpdateRemembers DEF SourceInv
  <2>2. participant' \in Participant /\ participant'.known /\ participant'.probation = 0
        /\ Remembered(participant', seq)
    BY <1>2, <2>1, StatisticsKeep
  <2>3. last.valid /\ seq = Source!Seq16(last.seq + 1) => updated.verdict = "RTP_OK"
    <3> SUFFICES ASSUME last.valid, seq = Source!Seq16(last.seq + 1)
                 PROVE  updated.verdict = "RTP_OK"
      OBVIOUS
    <3>1. last.seq \in SeqNumbers /\ Remembered(participant, last.seq)
      BY DEF SourceInv
    <3>2. \/ Source!Seq16(seq - participant.max_seq) < MAX_DROPOUT
          \/ Source!Seq16(seq - participant.max_seq) > RTP_SEQ_MOD - MAX_MISORDER
          \/ seq = participant.bad_seq
      BY <1>1, <3>1, FollowerIsNear DEF SourceInv
    <3>3. Source!Seq16(seq - participant.max_seq) \in SeqNumbers
      BY <1>1, Seq16Type DEF SourceInv, Participant, SeqNumbers
    <3> QED
      BY <2>1, <3>2, <3>3, SourceConstants DEF SeqNumbers
  <2>4. FollowerIsCounted'
    BY <1>2, <2>3 DEF FollowerIsCounted, Source!FollowerIsCounted
  <2> QED
    BY <1>1, <1>2, <1>3, <2>2, <2>4 DEF SourceInv
<1>4. CASE ~(participant.known /\ participant.probation = 0)
  <2>1. updated.state \in Participant
    <3>1. CASE participant.known
      BY <1>1, <1>4, <3>1, ProbationKeeps DEF SourceInv
    <3>2. CASE ~participant.known
      <4>1. Source!Seq16(RTP_SEQ_MOD) + 1 \in Nat
        BY SourceConstants, Seq16Type DEF SeqNumbers
      <4>2. PICK q \in Participant : Source!init_new_participant(seq)
                                        = Source!init_participant_seq(q, seq)
        <5>1. Source!Unknown \in Participant
          BY SourceConstants DEF Source!Unknown, Participant, SeqNumbers
        <5>2. [Source!Unknown EXCEPT !.known = TRUE, !.probation = MIN_SEQUENTIAL]
                \in Participant
          BY <5>1, SourceConstants DEF Participant
        <5> QED
          BY <5>2 DEF Source!init_new_participant
      <4>3. Source!init_participant_seq(q, seq) \in Participant
        BY <1>1, <4>1 DEF Source!init_participant_seq, Participant
      <4> QED
        BY <3>2, <4>2, <4>3
    <3> QED
      BY <3>1, <3>2
  <2>2. participant' \in Participant
    BY <1>2, <2>1, StatisticsKeep
  <2>3. ~last.valid /\ last'.valid = FALSE
    BY <1>2, <1>4 DEF SourceInv
  <2>4. FollowerIsCounted'
    BY <1>2, <2>3 DEF FollowerIsCounted, Source!FollowerIsCounted
  <2> QED
    BY <1>1, <1>2, <2>2, <2>3, <2>4 DEF SourceInv
<1> QED
  BY <1>3, <1>4

LEMMA SourceInvariant == Spec => []SourceInv
<1>1. Init => SourceInv
  BY SourceConstants
     DEF Init, Source!Init, SourceInv, SeqNumbers, Participant, Source!Unknown, Source!NoPacket,
         FollowerIsCounted, Source!FollowerIsCounted
<1>2. ASSUME SourceInv, [Next]_vars PROVE SourceInv'
  <2>1. CASE Count
    <3>1. CASE Source!source_sends
      BY <1>2, <3>1
         DEF Source!source_sends, SourceInv, FollowerIsCounted, Source!FollowerIsCounted
    <3>2. CASE Source!report_arrives
      <4>1. PICK probation \in Source!Uninitialised :
              participant' = [probation |-> probation, max_seq |-> 0, base_seq |-> 0,
                              bad_seq |-> 0, cycles |-> 0, received_pkts |-> 0,
                              dropped_pkts |-> 0, known |-> TRUE]
        BY <3>2 DEF Source!report_arrives, Source!Unknown
      <4>2. participant' \in Participant
        BY <4>1, SourceConstants DEF Participant, SeqNumbers, Source!Uninitialised
      <4> QED
        BY <1>2, <3>2, <4>2
           DEF Source!report_arrives, SourceInv, FollowerIsCounted, Source!FollowerIsCounted
    <3>3. CASE \E n \in flight : Source!packet_lost(n)
      BY <1>2, <3>3
         DEF Source!packet_lost, SourceInv, FollowerIsCounted, Source!FollowerIsCounted
    <3>4. CASE \E n \in flight, stays \in BOOLEAN : Source!packet_arrives(n, stays)
      BY <1>2, <3>4, ArrivalStep
    <3> QED
      BY <2>1, <3>1, <3>2, <3>3, <3>4 DEF Count, Source!Next
  <2>2. CASE UNCHANGED sourceVars
    BY <1>2, <2>2 DEF sourceVars, SourceInv, FollowerIsCounted, Source!FollowerIsCounted
  <2> QED
    BY <1>2, <2>1, <2>2 DEF Next, Stream, KeepAlive, Encrypt, Report, Agree, vars
<1> QED
  BY <1>1, <1>2, PTL DEF Spec

\* rtcp.cc, update_participant_seq(): once the probation of a source is over, a packet
\* that follows the one before in number is counted, whatever was lost, repeated,
\* reordered or wrapped before, for every modulus and tolerance.
THEOREM FollowersAreCounted == Spec => []FollowerIsCounted
<1>1. SourceInv => FollowerIsCounted
  BY DEF SourceInv
<1> QED
  BY <1>1, SourceInvariant, PTL

-----------------------------------------------------------------------------
\* Base and highest number of q are those of two packets that were sent, in this order.
Spans(q) ==
    \E b, m \in 1..pkts_sent :
        b <= m /\ q.base_seq = Source!SeqOf(b) /\ q.max_seq = Source!SeqOf(m)

\* The base and the highest number are those of two packets, the first not after the second;
\* what was counted was received at least once; packets under way are not far behind.
LossInv ==
    /\ flight \subseteq 1..pkts_sent
    /\ \A n \in flight : pkts_sent < n + MaxInFlight
    /\ counted \subseteq 1..pkts_sent
    /\ ~participant.known => counted = {} /\ participant = Source!Unknown
    /\ ~heard_of =>
         /\ participant.cycles = 0
         /\ Cardinality(counted) <= participant.received_pkts
         /\ participant.dropped_pkts + Cardinality(counted) <= pkts_sent
         /\ participant.known /\ participant.probation = 0 =>
              Spans(participant)

LEMMA Counted ==
    ASSUME NEW sent_ \in Nat, NEW C \in SUBSET (1..sent_), NEW n \in 1..sent_
    PROVE  /\ IsFiniteSet(C) /\ Cardinality(C) \in Nat /\ Cardinality(C) <= sent_
           /\ Cardinality((1..sent_) \ C) = sent_ - Cardinality(C)
           /\ Cardinality(C \cup {n}) <= Cardinality(C) + 1
           /\ Cardinality(C \cup {n}) \in Nat /\ Cardinality(C \cup {n}) <= sent_
<1>1. IsFiniteSet(1..sent_) /\ Cardinality(1..sent_) = sent_
  BY FS_Interval
<1>2. IsFiniteSet(C) /\ Cardinality(C) <= sent_
  BY <1>1, FS_Subset
<1>3. Cardinality(C) \in Nat
  BY <1>2, FS_CardinalityType
<1>4. Cardinality((1..sent_) \ C) = sent_ - Cardinality(C)
  <2>1. (1..sent_) \cap C = C
    OBVIOUS
  <2>2. Cardinality((1..sent_) \ C) = Cardinality(1..sent_) - Cardinality((1..sent_) \cap C)
    BY <1>1, FS_Difference
  <2> QED
    BY <1>1, <2>1, <2>2
<1>5. Cardinality(C \cup {n}) <= Cardinality(C) + 1 /\ IsFiniteSet(C \cup {n})
  BY <1>2, <1>3, FS_AddElement
<1>6. Cardinality(C \cup {n}) <= sent_ /\ Cardinality(C \cup {n}) \in Nat
  BY <1>1, <1>5, FS_Subset, FS_CardinalityType
<1> QED
  BY <1>2, <1>3, <1>4, <1>5, <1>6

\* The distance from the base to the highest number is not more than that of the packets.
LEMMA Distance ==
    ASSUME first \in SeqNumbers, NEW b \in Nat, NEW m \in Nat, b <= m
    PROVE  Source!SeqOf(m) - Source!SeqOf(b) <= m - b
<1>1. PICK d \in Nat : d = m - b
  OBVIOUS
<1>2. first + b \in Nat /\ first + m = (first + b) + d
  BY <1>1 DEF SeqNumbers
<1>3. ((first + b) + d) % RTP_SEQ_MOD <= ((first + b) % RTP_SEQ_MOD) + d
  BY <1>2, ModGrows, SourceConstants
<1>4. Source!SeqOf(b) \in SeqNumbers /\ Source!SeqOf(m) \in SeqNumbers
  BY <1>2, Seq16Type DEF Source!SeqOf
<1> QED
  BY <1>1, <1>2, <1>3, <1>4 DEF Source!SeqOf, Source!Seq16, SeqNumbers

\* A packet that passes for a small step forwards is none from before, as long as none is
\* overtaken by so many that the number comes round.
LEMMA StepsForward ==
    ASSUME first \in SeqNumbers, NEW n \in Nat, NEW m \in Nat, m < n + MaxInFlight,
           MaxInFlight \in Nat, MaxInFlight <= RTP_SEQ_MOD - MAX_DROPOUT,
           Source!Seq16(Source!SeqOf(n) - Source!SeqOf(m)) < MAX_DROPOUT
    PROVE  m <= n
<1>1. SUFFICES ASSUME n < m PROVE FALSE
  OBVIOUS
<1>2. PICK d \in Nat : d = m - n
  BY <1>1
<1>3. d \in 1..(RTP_SEQ_MOD - 1) /\ d < RTP_SEQ_MOD - MAX_DROPOUT
  BY <1>1, <1>2, SourceConstants
<1>4. PICK x \in Nat : x = first + n
  BY DEF SeqNumbers
<1>5. first + m = x + d
  BY <1>2, <1>4 DEF SeqNumbers
<1>6. PICK r \in SeqNumbers, s \in SeqNumbers : r = x % RTP_SEQ_MOD /\ s = (x + d) % RTP_SEQ_MOD
  BY SourceConstants DEF SeqNumbers
<1>7. s = IF r + d < RTP_SEQ_MOD THEN r + d ELSE r + d - RTP_SEQ_MOD
  <2>1. d \in 0..(RTP_SEQ_MOD - 1)
    BY <1>3
  <2>2. (x + d) % RTP_SEQ_MOD = IF (x % RTP_SEQ_MOD) + d < RTP_SEQ_MOD
                                THEN (x % RTP_SEQ_MOD) + d
                                ELSE (x % RTP_SEQ_MOD) + d - RTP_SEQ_MOD
    BY <2>1, ModForward, SourceConstants
  <2> QED
    BY <1>6, <2>2
<1>8. (r - s) % RTP_SEQ_MOD = IF r >= s THEN r - s ELSE r - s + RTP_SEQ_MOD
  BY <1>6, ModDifference, SourceConstants DEF SeqNumbers
<1>9. (r - s) % RTP_SEQ_MOD < MAX_DROPOUT
  BY <1>4, <1>5, <1>6 DEF Source!SeqOf, Source!Seq16
<1> QED
  BY <1>3, <1>6, <1>7, <1>8, <1>9, SourceConstants DEF SeqNumbers

\* update_participant_seq() counts nothing, and keeps base and highest number of packets.
LEMMA UpdateSpans ==
    ASSUME SourceInv, LossInv, MaxInFlight <= RTP_SEQ_MOD - MAX_DROPOUT, NEW n \in flight,
           NEW q \in Participant, q.cycles = 0, q.probation = 0 => Spans(q),
           NEW updated, updated = Source!update_participant_seq(q, Source!SeqOf(n))
    PROVE  /\ updated.state.cycles = 0
           /\ updated.state.received_pkts = q.received_pkts
           /\ updated.state.dropped_pkts = q.dropped_pkts
           /\ updated.state.probation = 0 => Spans(updated.state)
           /\ updated.verdict = "RTP_OK" => updated.state.probation = 0
<1>1. PICK seq : seq = Source!SeqOf(n)
  OBVIOUS
<1>2. /\ n \in 1..pkts_sent /\ pkts_sent \in Nat /\ pkts_sent < n + MaxInFlight
      /\ seq \in SeqNumbers /\ MaxInFlight \in Nat
  <2>1. n \in 1..pkts_sent /\ pkts_sent \in Nat /\ pkts_sent < n + MaxInFlight
    BY DEF SourceInv, LossInv
  <2>2. first + n \in Int
    BY <2>1 DEF SourceInv, SeqNumbers
  <2> QED
    BY <1>1, <2>1, <2>2, Seq16Type, MediaAssumption
       DEF Source!SeqOf, MediaAssumption, Source!SourceBounds
<1>3. PICK g : g = Source!init_participant_seq(q, seq)
  OBVIOUS
<1>4. /\ g.cycles = 0 /\ g.received_pkts = q.received_pkts /\ g.dropped_pkts = q.dropped_pkts
      /\ g.base_seq = seq /\ g.max_seq = seq /\ g.probation = q.probation /\ Spans(g)
  <2>1. /\ g.cycles = 0 /\ g.received_pkts = q.received_pkts /\ g.dropped_pkts = q.dropped_pkts
        /\ g.base_seq = seq /\ g.max_seq = seq /\ g.probation = q.probation
    BY <1>3 DEF Source!init_participant_seq, Participant
  <2>2. n <= n
    BY <1>2
  <2> QED
    BY <1>1, <1>2, <2>1, <2>2 DEF Spans
<1>5. CASE q.probation # 0
  <2>1. PICK t : t = Source!on_probation(q, seq)
    OBVIOUS
  <2>2. /\ updated.state = t
        /\ updated.verdict = IF t.probation # 0 THEN "RTP_GENERIC_ERROR" ELSE "RTP_OK"
    BY <1>1, <1>5, <2>1 DEF Source!update_participant_seq
  <2>3. /\ t.cycles = 0 /\ t.received_pkts = q.received_pkts /\ t.dropped_pkts = q.dropped_pkts
        /\ t.probation = 0 => Spans(t)
    <3>1. CASE seq # q.max_seq + 1
      <4>1. t = [q EXCEPT !.probation = MIN_SEQUENTIAL - 1, !.max_seq = seq]
        BY <2>1, <3>1 DEF Source!on_probation
      <4>2. t.probation # 0
        BY <4>1, SourceConstants DEF Participant
      <4> QED
        BY <4>1, <4>2 DEF Participant
    <3>2. CASE seq = q.max_seq + 1 /\ q.probation > 1
      <4>1. t = [q EXCEPT !.probation = q.probation - 1, !.max_seq = seq]
        BY <2>1, <3>2 DEF Source!on_probation
      <4>2. t.probation # 0
        BY <3>2, <4>1 DEF Participant
      <4> QED
        BY <4>1, <4>2 DEF Participant
    <3>3. CASE seq = q.max_seq + 1 /\ ~(q.probation > 1)
      <4>1. t = Source!init_participant_seq([q EXCEPT !.probation = 0], seq)
        BY <2>1, <3>3 DEF Source!on_probation
      <4>2. /\ t.cycles = 0 /\ t.received_pkts = q.received_pkts
            /\ t.dropped_pkts = q.dropped_pkts /\ t.base_seq = seq /\ t.max_seq = seq
        BY <4>1 DEF Source!init_participant_seq, Participant
      <4> QED
        BY <1>1, <1>2, <4>2 DEF Spans
    <3> QED
      BY <3>1, <3>2, <3>3
  <2> QED
    BY <2>2, <2>3
<1>6. CASE q.probation = 0
  <2>1. PICK udelta \in SeqNumbers : udelta = Source!Seq16(seq - q.max_seq)
    BY <1>2, Seq16Type DEF Participant, SeqNumbers
  <2>2. CASE udelta < MAX_DROPOUT
    <3>1. updated = [state |-> Source!in_order(q, seq), verdict |-> "RTP_OK"]
      BY <1>1, <1>6, <2>1, <2>2, SourceConstants
         DEF Source!update_participant_seq, SeqNumbers, Participant, Source!in_order
    <3>2. Source!Seq16(0 + RTP_SEQ_MOD) = 0
      BY SourceConstants DEF Source!Seq16
    <3>3. PICK t : t = Source!in_order(q, seq)
      OBVIOUS
    <3>4. /\ t.cycles = 0 /\ t.received_pkts = q.received_pkts
          /\ t.dropped_pkts = q.dropped_pkts /\ t.base_seq = q.base_seq /\ t.max_seq = seq
          /\ t.probation = 0
      BY <1>6, <3>2, <3>3 DEF Source!in_order, Participant
    <3>5. PICK b, m \in 1..pkts_sent :
             b <= m /\ q.base_seq = Source!SeqOf(b) /\ q.max_seq = Source!SeqOf(m)
      BY <1>6 DEF Spans
    <3>6. m <= n
      <4>1. m \in Nat /\ n \in Nat /\ m < n + MaxInFlight
        BY <1>2, <3>5
      <4> QED
        BY <1>1, <1>2, <2>1, <2>2, <3>5, <4>1, StepsForward DEF SourceInv
    <3>7. b <= n
      BY <1>2, <3>5, <3>6
    <3>8. Spans(t)
      BY <1>1, <1>2, <3>4, <3>5, <3>7 DEF Spans
    <3> QED
      BY <3>1, <3>3, <3>4, <3>8
  <2>3. CASE udelta >= MAX_DROPOUT /\ udelta <= RTP_SEQ_MOD - MAX_MISORDER
    <3>1. PICK t : t = Source!large_jump(q, seq)
      OBVIOUS
    <3>2. updated.state = t
      BY <1>1, <1>6, <2>1, <2>3, <3>1, SourceConstants
         DEF Source!update_participant_seq, SeqNumbers
    <3>3. CASE seq = q.bad_seq
      BY <1>3, <1>4, <1>6, <3>1, <3>2, <3>3 DEF Source!large_jump
    <3>4. CASE seq # q.bad_seq
      <4>1. t = [q EXCEPT !.bad_seq = Source!Seq16(seq + 1)]
        BY <3>1, <3>4 DEF Source!large_jump
      <4>2. /\ t.cycles = 0 /\ t.received_pkts = q.received_pkts
            /\ t.dropped_pkts = q.dropped_pkts /\ t.base_seq = q.base_seq
            /\ t.max_seq = q.max_seq /\ t.probation = 0
        BY <1>6, <4>1 DEF Participant
      <4>3. Spans(t)
        BY <1>6, <4>2 DEF Spans
      <4> QED
        BY <3>2, <4>2, <4>3
    <3> QED
      BY <3>3, <3>4
  <2>4. CASE udelta > RTP_SEQ_MOD - MAX_MISORDER /\ ~(udelta < MAX_DROPOUT)
    <3>1. updated = [state |-> q, verdict |-> "RTP_OK"]
      BY <1>1, <1>6, <2>1, <2>4, SourceConstants DEF Source!update_participant_seq, SeqNumbers
    <3> QED
      BY <1>6, <3>1
  <2> QED
    BY <2>1, <2>2, <2>3, <2>4, SourceConstants DEF SeqNumbers
<1> QED
  BY <1>5, <1>6

\* update_session_statistics() after a packet was counted, one of at most c.
LEMMA StatisticsSpan ==
    ASSUME first \in SeqNumbers, pkts_sent \in Nat, NEW q \in Participant, q.cycles = 0, Spans(q),
           NEW c \in Nat, c <= pkts_sent, c <= q.received_pkts + 1,
           NEW r, r = Source!update_session_statistics(q)
    PROVE  /\ r.cycles = 0 /\ Spans(r) /\ c <= r.received_pkts
           /\ r.dropped_pkts + c <= pkts_sent
<1>1. PICK b, m \in 1..pkts_sent :
         b <= m /\ q.base_seq = Source!SeqOf(b) /\ q.max_seq = Source!SeqOf(m)
  BY DEF Spans
<1>2. q.max_seq - q.base_seq <= m - b
  BY <1>1, Distance
<1>3. PICK e \in Int : e = q.cycles + q.max_seq - q.base_seq + 1 - (q.received_pkts + 1)
  BY DEF Participant, SeqNumbers
<1>4. r = [q EXCEPT !.received_pkts = q.received_pkts + 1, !.dropped_pkts = IF e >= 0 THEN e ELSE 0]
  BY <1>3 DEF Source!update_session_statistics
<1>5. /\ r.cycles = 0 /\ r.received_pkts = q.received_pkts + 1
      /\ r.dropped_pkts = (IF e >= 0 THEN e ELSE 0)
      /\ r.base_seq = q.base_seq /\ r.max_seq = q.max_seq
  BY <1>4 DEF Participant
<1>6. e + c <= m - b + 1
  BY <1>2, <1>3 DEF Participant, SeqNumbers
<1>7. r.dropped_pkts + c <= pkts_sent
  BY <1>1, <1>5, <1>6
<1> QED
  BY <1>5, <1>7 DEF Spans

LEMMA LossArrival ==
    ASSUME SourceInv, LossInv, MaxInFlight <= RTP_SEQ_MOD - MAX_DROPOUT,
           NEW n \in flight, NEW stays \in BOOLEAN, Source!packet_arrives(n, stays)
    PROVE  LossInv'
<1>1. PICK updated :
        updated = IF participant.known
                  THEN Source!update_participant_seq(participant, Source!SeqOf(n))
                  ELSE [state |-> Source!init_new_participant(Source!SeqOf(n)),
                        verdict |-> "RTP_OK"]
  OBVIOUS
<1>2. /\ participant' = IF updated.verdict = "RTP_OK"
                        THEN Source!update_session_statistics(updated.state) ELSE updated.state
      /\ counted' = IF updated.verdict = "RTP_OK" THEN counted \cup {n} ELSE counted
      /\ flight' \in SUBSET flight /\ UNCHANGED <<first, pkts_sent, heard_of>>
  BY <1>1 DEF Source!packet_arrives, Source!recv_packet_handler
<1>3. n \in 1..pkts_sent /\ pkts_sent \in Nat /\ participant \in Participant
  BY DEF SourceInv, LossInv
<1>4. Source!SeqOf(n) \in SeqNumbers
  <2>1. first + n \in Int
    BY <1>3 DEF SourceInv, SeqNumbers
  <2> QED
    BY <2>1, Seq16Type DEF Source!SeqOf
<1>5. /\ updated.state \in Participant /\ updated.state.known
      /\ ~heard_of =>
           /\ updated.state.cycles = 0
           /\ updated.state.received_pkts = participant.received_pkts
           /\ updated.state.dropped_pkts = participant.dropped_pkts
           /\ updated.state.probation = 0 \/ updated.verdict = "RTP_OK" => Spans(updated.state)
  <2>1. CASE participant.known
    <3>1. updated = Source!update_participant_seq(participant, Source!SeqOf(n))
      BY <1>1, <2>1
    <3>2. updated.state \in Participant /\ updated.state.known
      <4>1. CASE participant.probation = 0
        BY <1>3, <1>4, <2>1, <3>1, <4>1, UpdateRemembers
      <4>2. CASE participant.probation # 0
        BY <1>3, <1>4, <2>1, <3>1, <4>2, ProbationKeeps
      <4> QED
        BY <4>1, <4>2
    <3>3. ASSUME ~heard_of
          PROVE  /\ updated.state.cycles = 0
                 /\ updated.state.received_pkts = participant.received_pkts
                 /\ updated.state.dropped_pkts = participant.dropped_pkts
                 /\ updated.state.probation = 0 => Spans(updated.state)
                 /\ updated.verdict = "RTP_OK" => updated.state.probation = 0
      <4>1. participant.cycles = 0 /\ (participant.probation = 0 => Spans(participant))
        BY <2>1, <3>3 DEF LossInv
      <4> QED
        BY <1>3, <3>1, <4>1, UpdateSpans
    <3> QED
      BY <3>2, <3>3
  <2>2. CASE ~participant.known
    <3>1. Source!Seq16(RTP_SEQ_MOD) + 1 \in Nat
      BY SourceConstants, Seq16Type DEF SeqNumbers
    <3>2. PICK t : t = [probation |-> MIN_SEQUENTIAL, max_seq |-> Source!SeqOf(n),
                        base_seq |-> Source!SeqOf(n), bad_seq |-> Source!Seq16(RTP_SEQ_MOD) + 1,
                        cycles |-> 0, received_pkts |-> 0, dropped_pkts |-> 0, known |-> TRUE]
      OBVIOUS
    <3>3. updated.state = t
      BY <1>1, <2>2, <3>2
         DEF Source!init_new_participant, Source!init_participant_seq, Source!Unknown
    <3>4. t \in Participant
      BY <1>4, <3>1, <3>2, SourceConstants DEF Participant, SeqNumbers
    <3>5. Spans(t)
      <4>1. n <= n
        BY <1>3
      <4> QED
        BY <1>3, <3>2, <4>1 DEF Spans
    <3>6. participant.received_pkts = 0 /\ participant.dropped_pkts = 0
      BY <2>2 DEF LossInv, Source!Unknown
    <3> QED
      BY <3>2, <3>3, <3>4, <3>5, <3>6
  <2> QED
    BY <2>1, <2>2
<1>6. counted \in SUBSET (1..pkts_sent)
  BY DEF LossInv
<1>7. ASSUME ~heard_of
      PROVE  /\ participant'.cycles = 0
             /\ Cardinality(counted') <= participant'.received_pkts
             /\ participant'.dropped_pkts + Cardinality(counted') <= pkts_sent
             /\ participant'.probation = 0 => Spans(participant')
  <2>1. CASE updated.verdict = "RTP_OK"
    <3>1. PICK c : c = Cardinality(counted \cup {n})
      OBVIOUS
    <3>2. c \in Nat /\ c <= pkts_sent /\ c <= Cardinality(counted) + 1 /\ Cardinality(counted) \in Nat
      BY <1>3, <1>6, <3>1, Counted
    <3>3. Cardinality(counted) <= participant.received_pkts
      BY <1>7 DEF LossInv
    <3>4. /\ updated.state.cycles = 0 /\ Spans(updated.state)
          /\ updated.state.received_pkts = participant.received_pkts
      BY <1>5, <1>7, <2>1
    <3>5. c <= updated.state.received_pkts + 1
      BY <1>3, <3>2, <3>3, <3>4 DEF Participant
    <3>6. participant' = Source!update_session_statistics(updated.state)
          /\ counted' = counted \cup {n}
      BY <1>2, <2>1
    <3> QED
      BY <1>3, <1>5, <3>1, <3>2, <3>4, <3>5, <3>6, StatisticsSpan DEF SourceInv
  <2>2. CASE updated.verdict # "RTP_OK"
    BY <1>2, <1>5, <1>7, <2>2 DEF LossInv
  <2> QED
    BY <2>1, <2>2
<1>8. participant'.known
  BY <1>2, <1>5, StatisticsKeep
<1>9. ASSUME NEW q PROVE Spans(q)' <=> Spans(q)
  BY <1>2 DEF Spans, Source!SeqOf, Source!Seq16
<1>10. flight' \subseteq 1..pkts_sent /\ counted' \subseteq 1..pkts_sent
       /\ \A k \in flight' : pkts_sent < k + MaxInFlight
  BY <1>2, <1>3 DEF LossInv
<1>11. participant'.probation = 0 /\ ~heard_of => Spans(participant)'
  BY <1>2, <1>7 DEF Spans, Source!SeqOf, Source!Seq16
<1> QED
  BY <1>2, <1>7, <1>8, <1>10, <1>11 DEF LossInv

LEMMA LossStep ==
    ASSUME SourceInv, LossInv, MaxInFlight <= RTP_SEQ_MOD - MAX_DROPOUT, Source!Next
    PROVE  LossInv'
<1>1. MaxInFlight \in Nat /\ pkts_sent \in Nat
  BY MediaAssumption DEF MediaAssumption, Source!SourceBounds, SourceInv
<1>2. CASE Source!source_sends
  <2>1. /\ pkts_sent' = pkts_sent + 1 /\ flight' = flight \cup {pkts_sent + 1}
        /\ \A n \in flight : pkts_sent + 1 < n + MaxInFlight
        /\ UNCHANGED <<first, counted, participant, heard_of>>
    BY <1>2 DEF Source!source_sends
  <2>2. MaxInFlight > 0
    <3>1. Source!Cardinality(flight) < MaxInFlight
      BY <1>2 DEF Source!source_sends
    <3>2. Source!Cardinality(flight) = Cardinality(flight)
      BY Zenon DEF Source!Cardinality, Cardinality
    <3>3. Cardinality(flight) \in Nat
      <4>1. IsFiniteSet(1..pkts_sent) /\ flight \subseteq 1..pkts_sent
        BY <1>1, FS_Interval DEF LossInv
      <4> QED
        BY <4>1, FS_Subset, FS_CardinalityType
    <3> QED
      BY <1>1, <3>1, <3>2, <3>3
  <2>3. flight' \subseteq 1..pkts_sent' /\ counted' \subseteq 1..pkts_sent'
    BY <1>1, <2>1 DEF LossInv
  <2>4. \A n \in flight' : pkts_sent' < n + MaxInFlight
    BY <1>1, <2>1, <2>2
  <2>5. Spans(participant) => Spans(participant)'
    <3>1. 1..pkts_sent \subseteq 1..pkts_sent'
      BY <1>1, <2>1
    <3> QED
      BY <2>1, <3>1 DEF Spans, Source!SeqOf, Source!Seq16
  <2>6. ~heard_of => participant.dropped_pkts + Cardinality(counted) <= pkts_sent + 1
    <3>1. Cardinality(counted) \in Nat
      <4>1. IsFiniteSet(1..pkts_sent) /\ counted \subseteq 1..pkts_sent
        BY <1>1, FS_Interval DEF LossInv
      <4> QED
        BY <4>1, FS_Subset, FS_CardinalityType
    <3> QED
      BY <1>1, <3>1 DEF LossInv, SourceInv, Participant
  <2> QED
    BY <2>1, <2>3, <2>4, <2>5, <2>6 DEF LossInv
<1>3. CASE Source!report_arrives
  <2>1. /\ heard_of' = TRUE /\ participant'.known
        /\ UNCHANGED <<first, pkts_sent, flight, counted>>
    BY <1>3 DEF Source!report_arrives, Source!Unknown
  <2> QED
    BY <2>1 DEF LossInv
<1>4. CASE \E n \in flight : Source!packet_lost(n)
  <2>1. /\ flight' \in SUBSET flight
        /\ UNCHANGED <<first, pkts_sent, counted, participant, heard_of>>
    BY <1>4 DEF Source!packet_lost
  <2>2. Spans(participant) => Spans(participant)'
    BY <2>1 DEF Spans, Source!SeqOf, Source!Seq16
  <2> QED
    BY <2>1, <2>2 DEF LossInv
<1>5. CASE \E n \in flight, stays \in BOOLEAN : Source!packet_arrives(n, stays)
  BY <1>5, LossArrival
<1> QED
  BY <1>2, <1>3, <1>4, <1>5 DEF Source!Next

\* rtcp.cc, update_session_statistics(): however the numbers wrap, jump and fall back, the
\* losses reported of a source first heard of by a packet never exceed the packets that were
\* not counted, if no packet is overtaken by RTP_SEQ_MOD - MAX_DROPOUT (62536) others.
THEOREM LossesAreBounded ==
    ASSUME MaxInFlight <= RTP_SEQ_MOD - MAX_DROPOUT
    PROVE  Spec => []LossNotOverstated
<1>1. Init => LossInv
  <2> SUFFICES ASSUME Init PROVE LossInv
    OBVIOUS
  <2>1. /\ flight = {} /\ counted = {} /\ pkts_sent = 0 /\ heard_of = FALSE
        /\ participant = Source!Unknown
    BY DEF Init, Source!Init
  <2>2. Cardinality(counted) = 0
    BY <2>1, FS_EmptySet
  <2> QED
    BY <2>1, <2>2 DEF LossInv, Source!Unknown
<1>2. SourceInv /\ LossInv /\ [Next]_vars => LossInv'
  <2> SUFFICES ASSUME SourceInv, LossInv, [Next]_vars PROVE LossInv'
    OBVIOUS
  <2>1. CASE Count
    BY <2>1, LossStep DEF Count
  <2>2. CASE UNCHANGED sourceVars
    <3>1. UNCHANGED <<first, pkts_sent, flight, counted, participant, heard_of>>
      BY <2>2 DEF sourceVars
    <3>2. Spans(participant)' <=> Spans(participant)
      BY <3>1 DEF Spans, Source!SeqOf, Source!Seq16
    <3> QED
      BY <3>1, <3>2 DEF LossInv
  <2> QED
    BY <2>1, <2>2 DEF Next, Stream, KeepAlive, Encrypt, Report, Agree, vars
<1>3. SourceInv /\ LossInv => LossNotOverstated
  <2> SUFFICES ASSUME SourceInv, LossInv, ~heard_of
               PROVE  participant.dropped_pkts <= Cardinality((1..pkts_sent) \ counted)
    <3>1. Source!Cardinality((1..pkts_sent) \ counted) = Cardinality((1..pkts_sent) \ counted)
      BY Zenon DEF Source!Cardinality, Cardinality
    <3> QED
      BY <3>1 DEF LossNotOverstated, Source!LossNotOverstated
  <2>1. pkts_sent \in Nat /\ counted \in SUBSET (1..pkts_sent)
        /\ participant.dropped_pkts + Cardinality(counted) <= pkts_sent
        /\ participant.dropped_pkts \in Int
    BY DEF SourceInv, LossInv, Participant
  <2>2. /\ Cardinality(counted) \in Nat
        /\ Cardinality((1..pkts_sent) \ counted) = pkts_sent - Cardinality(counted)
    <3>1. IsFiniteSet(1..pkts_sent) /\ Cardinality(1..pkts_sent) = pkts_sent
      BY <2>1, FS_Interval
    <3>2. (1..pkts_sent) \cap counted = counted
      BY <2>1
    <3>3. Cardinality((1..pkts_sent) \ counted)
            = Cardinality(1..pkts_sent) - Cardinality((1..pkts_sent) \cap counted)
      BY <3>1, FS_Difference
    <3>4. IsFiniteSet(counted)
      BY <2>1, <3>1, FS_Subset
    <3>5. Cardinality(counted) \in Nat
      BY <3>4, FS_CardinalityType
    <3> QED
      BY <3>1, <3>2, <3>3, <3>5
  <2> QED
    BY <2>1, <2>2
<1> QED
  BY <1>1, <1>2, <1>3, SourceInvariant, PTL DEF Spec

-----------------------------------------------------------------------------
(***************************************************************************)
(* The encryption (Srtp).                                                  *)
(***************************************************************************)
Index(counter, seq) == counter * SEQ_MOD + seq

\* The session keys a packet is protected with: the same at both ends.
SessionKeys == Crypto!init("sender", "local")

CryptoTypes ==
    /\ type \in {"SRTP", "SRTCP"}
    /\ mode \in [user : BOOLEAN, cipher : BOOLEAN, auth : BOOLEAN, replay : BOOLEAN]
    /\ seq_ \in 0..Crypto!Last /\ sent \in Nat
    /\ roc \in [{"sender", "receiver"} -> Nat]
    /\ IsFiniteSet(got) /\ orderly \in BOOLEAN
    /\ \A p \in wire : p.n \in Nat /\ (type = "SRTP" => p.seq \in 0..Crypto!Last)

\* A packet under way was encrypted with the index its number stands for, counted from the
\* next packet's; the tag of the last of a round has the counter of the next round.
WireInv ==
    type = "SRTP" /\ mode.cipher =>
      \A p \in wire : \E m \in Nat :
        /\ p.stream = Crypto!create_iv(SessionKeys.enc, Index(m, p.seq))
        /\ p.tag = <<SessionKeys.auth, p.n, Crypto!Rolled(m, p.seq)>>
        /\ Index(m, p.seq) + sent + 1 = Index(roc["sender"], seq_) + p.n

\* The receiver's counter: it never moves where packets are authenticated, and is that of
\* the packet expected next as long as nothing was lost, repeated or overtaken.
ReceiverInv ==
    type = "SRTP" /\ mode.cipher =>
      /\ mode.auth => roc["receiver"] = 0
      /\ ~mode.auth /\ orderly => \E s \in 0..Crypto!Last :
           Index(roc["receiver"], s) + sent = Index(roc["sender"], seq_) + Cardinality(got)

ReportStreams ==
    type = "SRTCP" => \A p \in wire :
      p.stream = Crypto!create_iv(SessionKeys.enc, p.n % COUNT_MOD)

CryptoInv == CryptoTypes /\ WireInv /\ ReceiverInv /\ ReportStreams /\ DecryptedIsIntact

LEMMA CryptoConstants == SEQ_MOD \in Nat \ {0, 1} /\ MAX_OFF \in Nat /\ COUNT_MOD \in Nat \ {0}
BY MediaAssumption DEF MediaAssumption, Crypto!SrtpBounds

\* The receiver's remote keys are the sender's local ones.
LEMMA KeysFit == Crypto!init("receiver", "remote") = SessionKeys
<1>1. Crypto!Master("receiver", "remote") = Crypto!Master("sender", "local")
  <2>1. (CHOOSE other \in {"sender", "receiver"} : other # "receiver") = "sender"
    OBVIOUS
  <2> QED
    BY <2>1 DEF Crypto!Master
<1> QED
  BY <1>1 DEF Crypto!init, SessionKeys

LEMMA NextIndex ==
    ASSUME NEW c \in Nat, NEW s \in 0..Crypto!Last
    PROVE  /\ (s + 1) % SEQ_MOD \in 0..Crypto!Last
           /\ Crypto!Rolled(c, s) \in Nat
           /\ Index(c, s) \in Nat
           /\ Index(Crypto!Rolled(c, s), (s + 1) % SEQ_MOD) = Index(c, s) + 1
<1>1. (s + 1) % SEQ_MOD = IF s = SEQ_MOD - 1 THEN 0 ELSE s + 1
  BY CryptoConstants, ModNext DEF Crypto!Last
<1>2. c * SEQ_MOD \in Nat /\ (c + 1) * SEQ_MOD = c * SEQ_MOD + SEQ_MOD
  BY CryptoConstants
<1> QED
  BY <1>1, <1>2, CryptoConstants DEF Crypto!Last, Crypto!Rolled, Index

LEMMA SameIndex ==
    ASSUME NEW c \in Nat, NEW d \in Nat, NEW r \in 0..Crypto!Last, NEW s \in 0..Crypto!Last,
           Index(c, r) = Index(d, s)
    PROVE  c = d /\ r = s
BY CryptoConstants, Division DEF Index, Crypto!Last

\* A packet goes out.
LEMMA SendStep == ASSUME CryptoInv, NEW ts, Crypto!send_packet(ts) PROVE CryptoInv'
<1> USE DEF CryptoInv
<1> DEFINE moved == IF mode.cipher THEN Crypto!Rolled(roc["sender"], seq_) ELSE roc["sender"]
           p == Crypto!send_packet_handler(Crypto!fill_header(ts), moved)
<1>1. /\ type = "SRTP" /\ sent' = sent + 1 /\ seq_' = (seq_ + 1) % SEQ_MOD
      /\ roc' = [roc EXCEPT !["sender"] = moved]
      /\ wire' = wire \cup {p}
      /\ UNCHANGED <<type, mode, got, orderly, out>>
  BY DEF Crypto!send_packet
<1>2. /\ roc["sender"] \in Nat /\ roc["receiver"] \in Nat /\ seq_ \in 0..Crypto!Last /\ sent \in Nat
  BY DEF CryptoTypes
<1>3. /\ (seq_ + 1) % SEQ_MOD \in 0..Crypto!Last
      /\ Crypto!Rolled(roc["sender"], seq_) \in Nat
      /\ Index(roc["sender"], seq_) \in Nat
      /\ Index(Crypto!Rolled(roc["sender"], seq_), (seq_ + 1) % SEQ_MOD)
           = Index(roc["sender"], seq_) + 1
  BY <1>2, NextIndex
<1>4. moved \in Nat /\ roc' \in [{"sender", "receiver"} -> Nat]
      /\ roc'["sender"] = moved /\ roc'["receiver"] = roc["receiver"]
  BY <1>1, <1>2, <1>3 DEF CryptoTypes
<1>5. p.n = sent + 1 /\ p.seq = seq_
      /\ p.stream = Crypto!create_iv(SessionKeys.enc, Index(roc["sender"], seq_))
      /\ p.tag = <<SessionKeys.auth, sent + 1, moved>>
  BY DEF Crypto!send_packet_handler, Crypto!fill_header, Crypto!encrypt, SessionKeys, Index
<1>6. CryptoTypes'
  BY <1>1, <1>2, <1>3, <1>4, <1>5 DEF CryptoTypes
<1>7. UNCHANGED SessionKeys
  BY <1>1 DEF SessionKeys, Crypto!init, Crypto!Master, Crypto!derive_key
<1>8. WireInv'
  <2> SUFFICES ASSUME mode.cipher, NEW q \in wire'
               PROVE  \E m \in Nat :
                        /\ q.stream = Crypto!create_iv(SessionKeys.enc, Index(m, q.seq))
                        /\ q.tag = <<SessionKeys.auth, q.n, Crypto!Rolled(m, q.seq)>>
                        /\ Index(m, q.seq) + (sent + 1) + 1 = Index(roc["sender"], seq_) + 1 + q.n
    BY <1>1, <1>3, <1>4, <1>7 DEF WireInv
  <2>1. CASE q \in wire
    <3>1. PICK m \in Nat :
            /\ q.stream = Crypto!create_iv(SessionKeys.enc, Index(m, q.seq))
            /\ q.tag = <<SessionKeys.auth, q.n, Crypto!Rolled(m, q.seq)>>
            /\ Index(m, q.seq) + sent + 1 = Index(roc["sender"], seq_) + q.n
      BY <1>1, <2>1 DEF WireInv
    <3>2. Index(m, q.seq) \in Nat /\ q.n \in Nat
      BY <1>1, <2>1, NextIndex DEF CryptoTypes
    <3>3. Index(m, q.seq) + (sent + 1) + 1 = Index(roc["sender"], seq_) + 1 + q.n
      BY <1>2, <1>3, <3>1, <3>2
    <3> QED
      BY <3>1, <3>3
  <2>2. CASE q = p
    <3>1. Index(roc["sender"], seq_) + (sent + 1) + 1 = Index(roc["sender"], seq_) + 1 + (sent + 1)
      BY <1>2, <1>3
    <3> QED
      BY <1>2, <1>5, <2>2, <3>1
  <2> QED
    BY <1>1, <2>1, <2>2
<1>9. ReceiverInv'
  <2>1. CASE mode.cipher /\ ~mode.auth /\ orderly
    <3>1. PICK s \in 0..Crypto!Last :
            Index(roc["receiver"], s) + sent = Index(roc["sender"], seq_) + Cardinality(got)
      BY <1>1, <2>1 DEF ReceiverInv
    <3>2. Index(roc["receiver"], s) \in Nat /\ Cardinality(got) \in Nat
      BY <1>2, NextIndex, FS_CardinalityType DEF CryptoTypes
    <3>3. Index(roc["receiver"], s) + (sent + 1)
            = (Index(roc["sender"], seq_) + 1) + Cardinality(got)
      BY <1>2, <1>3, <3>1, <3>2
    <3>4. Index(roc'["receiver"], s) + sent' = Index(roc'["sender"], seq_') + Cardinality(got')
      BY <1>1, <1>3, <1>4, <2>1, <3>3
    <3> QED
      BY <1>1, <2>1, <3>4 DEF ReceiverInv
  <2> QED
    BY <1>1, <1>4, <2>1 DEF ReceiverInv
<1>10. ReportStreams' /\ DecryptedIsIntact'
  BY <1>1 DEF ReportStreams, DecryptedIsIntact, Crypto!DecryptedIsIntact, Crypto!Decrypted
<1> QED
  BY <1>6, <1>8, <1>9, <1>10

\* A packet arrives. An unauthenticated one that is next has the index the receiver
\* expects; of the authenticated ones only those of the first round match.
LEMMA ReceiveStep ==
    ASSUME CryptoInv, NEW p \in wire, NEW stays \in BOOLEAN, Crypto!recv_packet(p, stays)
    PROVE  CryptoInv'
<1> USE DEF CryptoInv
<1> DEFINE verdict == Crypto!Result(p)
           rolls == verdict = "RTP_PKT_MODIFIED" /\ p.seq = Crypto!Last
<1>1. /\ type = "SRTP" /\ wire' \in SUBSET wire /\ got' = got \cup {p.n}
      /\ roc' = [roc EXCEPT !["receiver"] = IF rolls THEN @ + 1 ELSE @]
      /\ orderly' = (orderly /\ p.n = Crypto!Cardinality(got) + 1 /\ p.n \notin got)
      /\ out'.n = p.n /\ out'.right = p.stream
      /\ out'.used = IF verdict = "RTP_PKT_MODIFIED"
                     THEN Crypto!create_iv(SessionKeys.enc, Crypto!IndexOf(p)) ELSE <<>>
      /\ UNCHANGED <<type, mode, seq_, sent>>
  BY KeysFit DEF Crypto!recv_packet
<1>2. /\ roc["sender"] \in Nat /\ roc["receiver"] \in Nat /\ seq_ \in 0..Crypto!Last /\ sent \in Nat
      /\ p.n \in Nat /\ p.seq \in 0..Crypto!Last
  BY <1>1 DEF CryptoTypes
<1>3. Crypto!IndexOf(p) = Index(roc["receiver"], p.seq)
  <2>1. ~(p.seq + MAX_OFF < MAX_OFF)
    BY <1>2, CryptoConstants DEF Crypto!Last
  <2> QED
    BY <2>1 DEF Crypto!IndexOf, Index
<1>4. roc' \in [{"sender", "receiver"} -> Nat] /\ roc'["sender"] = roc["sender"]
      /\ roc'["receiver"] = IF rolls THEN roc["receiver"] + 1 ELSE roc["receiver"]
  BY <1>1, <1>2 DEF CryptoTypes
<1>5. CryptoTypes'
  BY <1>1, <1>4, FS_AddElement DEF CryptoTypes
<1>6. UNCHANGED SessionKeys
  BY <1>1 DEF SessionKeys, Crypto!init, Crypto!Master, Crypto!derive_key
<1>7. WireInv' /\ ReportStreams'
  BY <1>1, <1>4, <1>6 DEF WireInv, ReportStreams
<1>8. CASE ~mode.cipher
  <2>1. verdict # "RTP_PKT_MODIFIED"
    BY <1>8 DEF Crypto!Result
  <2> QED
    BY <1>1, <1>5, <1>7, <1>8, <2>1
       DEF ReceiverInv, DecryptedIsIntact, Crypto!DecryptedIsIntact, Crypto!Decrypted
<1>9. CASE mode.cipher
  <2>1. PICK m \in Nat :
          /\ p.stream = Crypto!create_iv(SessionKeys.enc, Index(m, p.seq))
          /\ p.tag = <<SessionKeys.auth, p.n, Crypto!Rolled(m, p.seq)>>
          /\ Index(m, p.seq) + sent + 1 = Index(roc["sender"], seq_) + p.n
    BY <1>1, <1>9 DEF WireInv
  <2>2. CASE mode.auth
    <3>1. roc["receiver"] = 0
      BY <1>1, <1>9, <2>2 DEF ReceiverInv
    <3>2. verdict = "RTP_PKT_MODIFIED" => Crypto!Rolled(m, p.seq) = 0
      BY <1>9, <2>1, <2>2, <3>1, KeysFit DEF Crypto!Result, Crypto!TagMatches
    <3>3. verdict = "RTP_PKT_MODIFIED" => m = 0 /\ ~rolls
      BY <3>2 DEF Crypto!Rolled
    <3>4. roc'["receiver"] = 0
      BY <1>4, <3>1, <3>3
    <3>5. ReceiverInv'
      BY <1>1, <2>2, <3>4 DEF ReceiverInv
    <3>6. DecryptedIsIntact'
      BY <1>1, <1>3, <2>1, <3>1, <3>3
         DEF DecryptedIsIntact, Crypto!DecryptedIsIntact, Crypto!Decrypted
    <3> QED
      BY <1>5, <1>7, <3>5, <3>6
  <2>3. CASE ~mode.auth /\ orderly'
    <3>1. orderly /\ p.n = Cardinality(got) + 1 /\ p.n \notin got
      <4>1. Crypto!Cardinality(got) = Cardinality(got)
        BY Zenon DEF Crypto!Cardinality, Cardinality
      <4> QED
        BY <1>1, <2>3, <4>1 DEF CryptoTypes
    <3>2. verdict = "RTP_PKT_MODIFIED"
      BY <1>9, <2>3 DEF Crypto!Result
    <3>3. PICK s \in 0..Crypto!Last :
            Index(roc["receiver"], s) + sent = Index(roc["sender"], seq_) + Cardinality(got)
      BY <1>1, <1>9, <2>3, <3>1 DEF ReceiverInv
    <3>4. /\ Index(roc["receiver"], s) \in Nat /\ Index(m, p.seq) \in Nat
          /\ Index(roc["sender"], seq_) \in Nat /\ Cardinality(got) \in Nat
      BY <1>2, NextIndex, FS_CardinalityType DEF CryptoTypes
    <3>5. Index(m, p.seq) = Index(roc["receiver"], s)
      BY <1>2, <2>1, <3>1, <3>3, <3>4
    <3>6. m = roc["receiver"] /\ p.seq = s
      BY <1>2, <3>5, SameIndex
    <3>7. roc'["receiver"] = Crypto!Rolled(roc["receiver"], s)
      BY <1>4, <3>2, <3>6 DEF Crypto!Rolled
    <3>8. Cardinality(got') = Cardinality(got) + 1
      BY <1>1, <3>1, FS_AddElement DEF CryptoTypes
    <3>9. /\ (s + 1) % SEQ_MOD \in 0..Crypto!Last
          /\ Index(roc'["receiver"], (s + 1) % SEQ_MOD) = Index(roc["receiver"], s) + 1
      BY <1>2, <3>7, NextIndex
    <3>10. Index(roc'["receiver"], (s + 1) % SEQ_MOD) + sent
             = Index(roc["sender"], seq_) + Cardinality(got')
      BY <1>2, <3>3, <3>4, <3>8, <3>9
    <3>11. ReceiverInv'
      BY <1>1, <1>4, <2>3, <3>9, <3>10 DEF ReceiverInv
    <3>12. DecryptedIsIntact'
      BY <1>1, <1>3, <2>1, <3>2, <3>6
         DEF DecryptedIsIntact, Crypto!DecryptedIsIntact, Crypto!Decrypted
    <3> QED
      BY <1>5, <1>7, <3>11, <3>12
  <2>4. CASE ~mode.auth /\ ~orderly'
    BY <1>1, <1>5, <1>7, <2>4
       DEF ReceiverInv, DecryptedIsIntact, Crypto!DecryptedIsIntact, Crypto!Decrypted
  <2> QED
    BY <2>2, <2>3, <2>4
<1> QED
  BY <1>8, <1>9

\* The reports, and what else may happen.
LEMMA CryptoStep == ASSUME CryptoInv, Crypto!Next PROVE CryptoInv'
<1> USE DEF CryptoInv
<1>1. CASE \E ts \in {1, 2} : Crypto!send_packet(ts)
  BY <1>1, SendStep
<1>2. CASE \E p \in wire, stays \in BOOLEAN : Crypto!recv_packet(p, stays)
  BY <1>2, ReceiveStep
<1>3. CASE \E p \in wire : Crypto!lose_packet(p)
  <2>1. wire' \in SUBSET wire /\ UNCHANGED <<type, mode, seq_, sent, roc, got, orderly, out>>
    BY <1>3 DEF Crypto!lose_packet
  <2>2. UNCHANGED SessionKeys
    BY <2>1 DEF SessionKeys, Crypto!init, Crypto!Master, Crypto!derive_key
  <2> QED
    BY <2>1, <2>2 DEF CryptoTypes, WireInv, ReceiverInv, ReportStreams, DecryptedIsIntact,
                      Crypto!DecryptedIsIntact, Crypto!Decrypted
<1>4. CASE \E d \in Crypto!Strays : Crypto!recv_stray(d)
  <2>1. out'.used = <<>> /\ UNCHANGED <<type, mode, seq_, sent, roc, wire, got, orderly>>
    BY <1>4 DEF Crypto!recv_stray, Crypto!Nothing
  <2>2. UNCHANGED SessionKeys
    BY <2>1 DEF SessionKeys, Crypto!init, Crypto!Master, Crypto!derive_key
  <2> QED
    BY <2>1, <2>2 DEF CryptoTypes, WireInv, ReceiverInv, ReportStreams, DecryptedIsIntact,
                      Crypto!DecryptedIsIntact, Crypto!Decrypted
<1>5. CASE Crypto!generate_report
  <2> DEFINE p == [n |-> sent + 1, stream |-> Crypto!encrypt_report(sent + 1),
                   tag |-> Crypto!add_auth_tag(sent + 1)]
  <2>1. /\ type = "SRTCP" /\ sent' = sent + 1 /\ wire' = wire \cup {p}
        /\ UNCHANGED <<type, mode, seq_, roc, got, orderly, out>>
    BY <1>5 DEF Crypto!generate_report
  <2>2. p.n = sent + 1 /\ p.stream = Crypto!create_iv(SessionKeys.enc, (sent + 1) % COUNT_MOD)
    BY DEF Crypto!encrypt_report, SessionKeys
  <2>3. UNCHANGED SessionKeys
    BY <2>1 DEF SessionKeys, Crypto!init, Crypto!Master, Crypto!derive_key
  <2>4. CryptoTypes'
    BY <2>1, <2>2 DEF CryptoTypes
  <2>5. ReportStreams'
    BY <2>1, <2>2, <2>3 DEF ReportStreams
  <2> QED
    BY <2>1, <2>4, <2>5
       DEF WireInv, ReceiverInv, DecryptedIsIntact, Crypto!DecryptedIsIntact, Crypto!Decrypted
<1>6. CASE \E p \in wire, stays \in BOOLEAN : Crypto!recv_report(p, stays)
  <2> PICK p \in wire, stays \in BOOLEAN : Crypto!recv_report(p, stays)
    BY <1>6
  <2>1. /\ type = "SRTCP" /\ wire' \in SUBSET wire /\ got' = got \cup {p.n}
        /\ out'.n = p.n /\ out'.right = p.stream
        /\ out'.used \in {<<>>, Crypto!create_iv(SessionKeys.enc, p.n)}
        /\ UNCHANGED <<type, mode, seq_, sent, roc, orderly>>
    BY KeysFit DEF Crypto!recv_report, Crypto!decrypt
  <2>2. UNCHANGED SessionKeys
    BY <2>1 DEF SessionKeys, Crypto!init, Crypto!Master, Crypto!derive_key
  <2>3. p.n \in Nat /\ p.stream = Crypto!create_iv(SessionKeys.enc, p.n % COUNT_MOD)
    BY <2>1 DEF CryptoTypes, ReportStreams
  <2>4. p.n < COUNT_MOD => p.n % COUNT_MOD = p.n
    BY <2>3, CryptoConstants, ModSmall
  <2>5. DecryptedIsIntact'
    BY <2>1, <2>3, <2>4 DEF DecryptedIsIntact, Crypto!DecryptedIsIntact, Crypto!Decrypted
  <2>6. CryptoTypes'
    BY <2>1, FS_AddElement DEF CryptoTypes
  <2> QED
    BY <2>1, <2>2, <2>5, <2>6 DEF WireInv, ReceiverInv, ReportStreams
<1> QED
  BY <1>1, <1>2, <1>3, <1>4, <1>5, <1>6 DEF Crypto!Next

\* srtp.cc, srtcp.cc: a packet or report is decrypted with the key stream it was encrypted
\* with or refused: whatever the modulus of the sequence numbers, the number of wraps and
\* what the network did to authenticated packets; with unauthenticated ones while they
\* come in order; with reports until their number leaves 16 bits.
THEOREM DecryptedAreIntact == Spec => []DecryptedIsIntact
<1>1. Init => CryptoInv
  <2> SUFFICES ASSUME Init PROVE CryptoInv
    OBVIOUS
  <2>1. IsFiniteSet(got) /\ Cardinality(got) = 0
    BY FS_EmptySet DEF Init, Crypto!Init
  <2>2. /\ wire = {} /\ out.used = <<>> /\ sent = 0 /\ seq_ \in 0..Crypto!Last /\ orderly = TRUE
        /\ roc = [s \in {"sender", "receiver"} |-> 0] /\ type \in {"SRTP", "SRTCP"}
        /\ mode \in [user : BOOLEAN, cipher : BOOLEAN, auth : BOOLEAN, replay : BOOLEAN]
    BY DEF Init, Crypto!Init, Crypto!Nothing
  <2>3. CryptoTypes
    BY <2>1, <2>2 DEF CryptoTypes
  <2>4. ReceiverInv
    BY <2>1, <2>2 DEF ReceiverInv
  <2> QED
    BY <2>2, <2>3, <2>4 DEF CryptoInv, WireInv, ReportStreams, DecryptedIsIntact,
                            Crypto!DecryptedIsIntact, Crypto!Decrypted
<1>2. ASSUME CryptoInv, [Next]_vars PROVE CryptoInv'
  <2>1. CASE Encrypt
    BY <1>2, <2>1, CryptoStep DEF Encrypt
  <2>2. CASE UNCHANGED srtpVars
    <3>1. UNCHANGED <<type, mode, seq_, sent, roc, wire, got, orderly, out>>
      BY <2>2 DEF srtpVars
    <3>2. UNCHANGED SessionKeys
      BY <3>1 DEF SessionKeys, Crypto!init, Crypto!Master, Crypto!derive_key
    <3> QED
      BY <1>2, <3>1, <3>2 DEF CryptoInv, CryptoTypes, WireInv, ReceiverInv, ReportStreams,
                              DecryptedIsIntact, Crypto!DecryptedIsIntact, Crypto!Decrypted
  <2> QED
    BY <1>2, <2>1, <2>2 DEF Next, Stream, KeepAlive, Count, Report, Agree, vars
<1>3. CryptoInv => DecryptedIsIntact
  BY DEF CryptoInv
<1> QED
  BY <1>1, <1>2, <1>3, PTL DEF Spec
=============================================================================
