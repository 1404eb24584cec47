---------------------------- MODULE MediaLife_proofs ----------------------------
(***************************************************************************)
(* Machine-checked proofs about the life of media streams and sessions     *)
(* (MediaStream), for any number of streams and any combinations of flags: *)
(* where memory may be misused, and what outlives a session.               *)
(***************************************************************************)
EXTENDS MediaParts, Sequences, TLAPS

(***************************************************************************)
(* What a stream's pointers are worth, by what became of the stream.       *)
(***************************************************************************)
Pointers == [Media!Parts -> {"null", "live", "freed"}]
USE DEF Pointers

Bare(ptr)     == \A p \in Media!Parts : ptr[p] = "null"
NoneLive(ptr) == \A p \in Media!Pointed : ptr[p] # "live"
CoreParts     == {"socket", "pkt_dispatcher", "rtp", "rtcp", "media"}

\* Set-up came to its end.
Whole(f, ptr) ==
    /\ \A p \in Media!Pointed : ptr[p] # "freed"
    /\ \A p \in CoreParts : ptr[p] = "live"
    /\ "HOLEPUNCH" \in f => ptr["holepuncher"] = "live"

\* What no destructor deletes is only there if it was asked for.
Asked(f, known, ptr) ==
    /\ ptr["fqueue"] = "live" => known = TRUE
    /\ ptr["participant"] = "live" => "RTCP" \in f
    /\ ptr["srtp_ctx"] = "live" \/ ptr["srtcp_ctx"] = "live" => "SRTP" \in f

\* A set-up that failed came neither to the frame queue nor to the participant.
CutShort(ptr) == ptr["fqueue"] # "live" /\ ptr["participant"] # "live"

\* A stream in the application's hands has all its parts, or waits for its key with none;
\* one that was refused a key has none left that its pointers lead to, and was never
\* initialised.
Consistent(entry, f, known, ptr, ready, failed) ==
    /\ entry = "new" => Bare(ptr) /\ ~ready /\ ~failed
    /\ entry = "rejected" => Bare(ptr)
    /\ entry = "leaked" =>
         /\ \A p \in Media!Pointed : ptr[p] = "live" => p = "socket" /\ "ZRTP" \in f
         /\ CutShort(ptr) /\ Asked(f, known, ptr)
    /\ entry = "erased" => NoneLive(ptr) /\ Asked(f, known, ptr)
    /\ entry = "listed" =>
         /\ failed => ~ready /\ NoneLive(ptr)
         /\ ready => Whole(f, ptr)
         /\ ~ready => {"SRTP", "USER"} \subseteq f /\ (~failed => Bare(ptr))
         /\ "HOLEPUNCH" \in f \/ ptr["holepuncher"] = "null"
         /\ Asked(f, known, ptr)

FlagNames == {"SCD", "SRTP", "ZRTP", "USER", "RTCP", "HOLEPUNCH"}

MediaTypes ==
    /\ session \in {"none", "open", "destroyed"} /\ process \in {"running", "undefined"}
    /\ streams_ \in [Streams -> {"new", "rejected", "leaked", "listed", "erased"}]
    /\ flags_ \in [Streams -> SUBSET FlagNames]
    /\ fmt_ \in [Streams -> BOOLEAN]
    /\ part \in [Streams -> Pointers]
    /\ loose \in SUBSET (Streams \X {"dispatcher", "holepuncher", "rtcp"})
    /\ initialized_ \in [Streams -> BOOLEAN] /\ refused \in [Streams -> BOOLEAN]
    /\ DOMAIN contexts = Streams

StreamsConsistent ==
    \A s \in Streams :
        Consistent(streams_[s], flags_[s], fmt_[s], part[s], initialized_[s], refused[s])

\* Threads only run for streams whose set-up came to its end, and only those asked for.
LooseConsistent ==
    \A s \in Streams, t \in {"dispatcher", "holepuncher", "rtcp"} :
        <<s, t>> \in loose =>
            streams_[s] \in {"listed", "erased"} /\ t \in Media!Threads(flags_[s])

MediaInv ==
    /\ MediaTypes
    /\ session = "none" => process = "running" /\ \A s \in Streams : streams_[s] = "new"
    /\ process = "running" => StreamsConsistent /\ LooseConsistent
    /\ session = "destroyed" /\ process = "running" => \A s \in Streams : streams_[s] # "listed"
    /\ MisuseHasCause

-----------------------------------------------------------------------------
\* What set-up makes, up to the step that fails.
LEMMA MadeParts ==
    ASSUME NEW f
    PROVE  /\ \A order, fail :
                /\ "holepuncher" \in Media!Made(f, order, fail) => "HOLEPUNCH" \in f
                /\ "participant" \in Media!Made(f, order, fail) => "RTCP" \in f
           /\ CoreParts \subseteq Media!Made(f, Media!PlainOrder, "nothing")
           /\ Media!Pointed \ {"holepuncher"} \subseteq Media!Made(f, Media!SecureOrder, "nothing")
           /\ "HOLEPUNCH" \in f =>
                /\ "holepuncher" \in Media!Made(f, Media!PlainOrder, "nothing")
                /\ "holepuncher" \in Media!Made(f, Media!SecureOrder, "nothing")
<1> DEFINE asked == IF "HOLEPUNCH" \in f THEN {} ELSE {"holepuncher"}
           report == IF "RTCP" \in f THEN {} ELSE {"participant"}
<1>1. Media!Made(f, Media!PlainOrder, "nothing")
        = {Media!PlainOrder[i] : i \in 1..8} \ (asked \cup report)
  BY DEF Media!Made, Media!PlainOrder, Media!NotAsked
<1>2. Media!Made(f, Media!SecureOrder, "nothing")
        = {Media!SecureOrder[i] : i \in 1..12} \ (asked \cup report)
  BY DEF Media!Made, Media!SecureOrder, Media!NotAsked
<1>3. CoreParts \cup {"holepuncher"} \subseteq {Media!PlainOrder[i] : i \in 1..8}
  BY DEF Media!PlainOrder, CoreParts
<1>4. Media!Pointed \subseteq {Media!SecureOrder[i] : i \in 1..12}
  BY DEF Media!SecureOrder, Media!Pointed
<1>5. \A order, fail : /\ "holepuncher" \in Media!Made(f, order, fail) => "HOLEPUNCH" \in f
                       /\ "participant" \in Media!Made(f, order, fail) => "RTCP" \in f
  BY DEF Media!Made, Media!NotAsked
<1>6. /\ "holepuncher" \in Media!Pointed /\ "holepuncher" \notin CoreParts
      /\ "participant" \notin Media!Pointed /\ "participant" \notin CoreParts
  BY DEF Media!Pointed, CoreParts
<1> QED
  BY <1>1, <1>2, <1>3, <1>4, <1>5, <1>6

\* A plain set-up makes no contexts; one that fails comes neither to the frame queue nor to
\* the participant.
LEMMA MadeBeforeFailure ==
    ASSUME NEW f
    PROVE  /\ \A fail \in {"socket", "media", "nothing"} :
                /\ "srtp_ctx" \notin Media!Made(f, Media!PlainOrder, fail)
                /\ "srtcp_ctx" \notin Media!Made(f, Media!PlainOrder, fail)
           /\ \A fail \in {"socket", "media"} :
                /\ "fqueue" \notin Media!Made(f, Media!PlainOrder, fail)
                /\ "participant" \notin Media!Made(f, Media!PlainOrder, fail)
           /\ \A fail \in {"socket", "rtp", "srtp", "srtcp", "media"} :
                /\ "fqueue" \notin Media!Made(f, Media!SecureOrder, fail)
                /\ "participant" \notin Media!Made(f, Media!SecureOrder, fail)
           /\ Media!Made(f, Media!SecureOrder, "socket") \subseteq {"socket"}
<1> DEFINE Step(order, fail) == CHOOSE i \in DOMAIN order : order[i] = fail
<1>1. /\ Step(Media!PlainOrder, "socket") = 1 /\ Step(Media!PlainOrder, "media") = 5
      /\ Len(Media!PlainOrder) = 8
  BY DEF Media!PlainOrder
<1>2. Step(Media!SecureOrder, "socket") = 1 /\ Step(Media!SecureOrder, "rtp") = 3
  BY DEF Media!SecureOrder
<1>3. Step(Media!SecureOrder, "srtp") = 5 /\ Step(Media!SecureOrder, "srtcp") = 7
  BY DEF Media!SecureOrder
<1>4. Step(Media!SecureOrder, "media") = 9
  BY DEF Media!SecureOrder
<1>5. \A order : \A fail \in {"socket", "rtp", "srtp", "srtcp", "media"} :
        Media!Made(f, order, fail) \subseteq {order[i] : i \in 1..Step(order, fail)}
  BY DEF Media!Made
<1>6. \A order : Media!Made(f, order, "nothing") \subseteq {order[i] : i \in 1..Len(order)}
  BY DEF Media!Made
<1>7. \A i \in 1..8 : Media!PlainOrder[i] \notin {"srtp_ctx", "srtcp_ctx"}
  BY DEF Media!PlainOrder
<1>8. \A i \in 1..5 : Media!PlainOrder[i] \notin {"fqueue", "participant"}
  BY DEF Media!PlainOrder
<1>9. \A i \in 1..9 : Media!SecureOrder[i] \notin {"fqueue", "participant"}
  BY DEF Media!SecureOrder
<1>10. \A i \in 1..1 : Media!SecureOrder[i] = "socket"
  BY DEF Media!SecureOrder
<1> HIDE DEF Step
<1>11. \A fail \in {"socket", "media", "nothing"} :
         Media!Made(f, Media!PlainOrder, fail) \subseteq {Media!PlainOrder[i] : i \in 1..8}
  <2>1. {"socket", "media"} \subseteq {"socket", "rtp", "srtp", "srtcp", "media"}
    OBVIOUS
  <2>2. /\ Media!Made(f, Media!PlainOrder, "socket") \subseteq {Media!PlainOrder[i] : i \in 1..1}
        /\ Media!Made(f, Media!PlainOrder, "media") \subseteq {Media!PlainOrder[i] : i \in 1..5}
    BY <1>1, <1>5, <2>1
  <2>3. Media!Made(f, Media!PlainOrder, "nothing") \subseteq {Media!PlainOrder[i] : i \in 1..8}
    BY <1>1, <1>6
  <2> QED
    BY <2>2, <2>3
<1>12. \A fail \in {"socket", "media"} :
         Media!Made(f, Media!PlainOrder, fail) \subseteq {Media!PlainOrder[i] : i \in 1..5}
  BY <1>1, <1>5
<1>13. \A fail \in {"socket", "rtp", "srtp", "srtcp", "media"} :
         Media!Made(f, Media!SecureOrder, fail) \subseteq {Media!SecureOrder[i] : i \in 1..9}
  BY <1>2, <1>3, <1>4, <1>5
<1>14. Media!Made(f, Media!SecureOrder, "socket") \subseteq {Media!SecureOrder[i] : i \in 1..1}
  BY <1>2, <1>5
<1>15. \A fail \in {"socket", "media", "nothing"} :
         /\ "srtp_ctx" \notin Media!Made(f, Media!PlainOrder, fail)
         /\ "srtcp_ctx" \notin Media!Made(f, Media!PlainOrder, fail)
  BY <1>7, <1>11
<1>16. \A fail \in {"socket", "media"} :
         /\ "fqueue" \notin Media!Made(f, Media!PlainOrder, fail)
         /\ "participant" \notin Media!Made(f, Media!PlainOrder, fail)
  BY <1>8, <1>12
<1>17. \A fail \in {"socket", "rtp", "srtp", "srtcp", "media"} :
         /\ "fqueue" \notin Media!Made(f, Media!SecureOrder, fail)
         /\ "participant" \notin Media!Made(f, Media!SecureOrder, fail)
  BY <1>9, <1>13
<1> QED
  BY <1>10, <1>14, <1>15, <1>16, <1>17

\* The pointers after a set-up: of the right kind, and only those made or there before.
LEMMA Built ==
    ASSUME NEW old \in Pointers, NEW made, NEW fail,
           NEW built, built = Media!create_media(old, made, fail)
    PROVE  /\ built \in Pointers
           /\ \A p \in Media!Parts :
                /\ p \in made /\ ~(p = "media" /\ fail = "media") => built[p] = "live"
                /\ p \in made /\ p = "media" /\ fail = "media" => built[p] = "null"
                /\ p \notin made => built[p] = old[p]
BY DEF Media!create_media

LEMMA Freed ==
    ASSUME NEW ptr \in Pointers
    PROVE  /\ Media!free_resources(ptr) \in Pointers
           /\ NoneLive(Media!free_resources(ptr))
           /\ \A p \in Media!Parts : ptr[p] = "null" => Media!free_resources(ptr)[p] = "null"
           /\ \A p \in Media!Inner : Media!free_resources(ptr)[p] = ptr[p]
BY DEF Media!free_resources, NoneLive, Media!Parts, Media!Pointed, Media!Inner

\* What is there of no destructor's after a set-up, freed or not.
LEMMA BuiltAsked ==
    ASSUME NEW f, NEW known \in BOOLEAN, NEW old \in Pointers, Asked(f, known, old),
           NEW made, NEW fail,
           "fqueue" \in made => known = TRUE,
           "participant" \in made => "RTCP" \in f,
           "srtp_ctx" \in made \/ "srtcp_ctx" \in made => "SRTP" \in f,
           NEW built, built = Media!create_media(old, made, fail)
    PROVE  Asked(f, known, built) /\ Asked(f, known, Media!free_resources(built))
<1>1. /\ Media!Inner \subseteq Media!Parts /\ "media" \notin Media!Inner
      /\ Media!Inner = {"fqueue", "participant", "srtp_ctx", "srtcp_ctx"}
  BY DEF Media!Inner, Media!Parts
<1>2. \A p \in Media!Inner : p \notin made => built[p] = old[p]
  BY <1>1, Built
<1>3. \A p \in Media!Inner : Media!free_resources(built)[p] = built[p]
  BY Built, Freed
<1>4. Asked(f, known, built)
  BY <1>1, <1>2 DEF Asked
<1> QED
  BY <1>1, <1>3, <1>4 DEF Asked

LEMMA BuiltCutShort ==
    ASSUME NEW old \in Pointers, CutShort(old), NEW made, NEW fail,
           "fqueue" \notin made, "participant" \notin made,
           NEW built, built = Media!create_media(old, made, fail)
    PROVE  CutShort(built) /\ CutShort(Media!free_resources(built))
<1>1. {"fqueue", "participant"} \subseteq Media!Inner /\ Media!Inner \subseteq Media!Parts
  BY DEF Media!Inner, Media!Parts
<1>2. \A p \in {"fqueue", "participant"} : built[p] = old[p]
  BY <1>1, Built
<1>3. \A p \in {"fqueue", "participant"} : Media!free_resources(built)[p] = built[p]
  BY <1>1, Built, Freed
<1> QED
  BY <1>2, <1>3 DEF CutShort

LEMMA BareIsInOrder ==
    ASSUME NEW ptr \in Pointers, Bare(ptr)
    PROVE  /\ \A f, known : Asked(f, known, ptr)
           /\ CutShort(ptr) /\ NoneLive(ptr) /\ ptr["holepuncher"] = "null"
BY DEF Bare, Asked, CutShort, NoneLive, Media!Parts, Media!Pointed, Media!Inner

\* A set-up that ends makes the stream whole.
LEMMA SetUpEnds ==
    ASSUME NEW f, NEW old \in Pointers,
           "HOLEPUNCH" \in f \/ old["holepuncher"] = "null",
           NEW order, NEW built,
           built = Media!create_media(old, Media!Made(f, order, "nothing"), "nothing"),
           order = Media!SecureOrder \/ (order = Media!PlainOrder /\ Bare(old))
    PROVE  Whole(f, built) /\ ("HOLEPUNCH" \in f \/ built["holepuncher"] = "null")
<1> DEFINE made == Media!Made(f, order, "nothing")
<1>1. \A p \in Media!Parts : built[p] = IF p \in made THEN "live" ELSE old[p]
  BY DEF Media!create_media
<1>2. /\ CoreParts \subseteq made /\ CoreParts \subseteq Media!Pointed
      /\ Media!Pointed \subseteq Media!Parts /\ "holepuncher" \in Media!Pointed
  <2>1. /\ CoreParts \subseteq Media!Pointed \ {"holepuncher"} /\ "holepuncher" \in Media!Pointed
        /\ Media!Pointed \subseteq Media!Parts
    BY DEF CoreParts, Media!Pointed, Media!Parts
  <2> QED
    BY <2>1, MadeParts
<1>3. "holepuncher" \in made <=> "HOLEPUNCH" \in f
  BY MadeParts
<1>4. \A p \in Media!Pointed : p \notin made => old[p] = "null"
  <2>1. CASE order = Media!SecureOrder
    BY <1>3, <2>1, MadeParts
  <2>2. CASE Bare(old)
    BY <1>2, <2>2 DEF Bare
  <2> QED
    BY <2>1, <2>2
<1> QED
  BY <1>1, <1>2, <1>3, <1>4 DEF Whole

\* The pointers of the stream s when its set-up has come to the step fail.
BuiltUp(s, f, order, fail) ==
    Media!create_media(part[s], Media!Made(f, order, fail), fail)

\* The threads that a set-up of the stream s may start.
Begun(s, f) == {<<s, t>> : t \in Media!Threads(f)}

LEMMA ThreadNames ==
    ASSUME NEW s \in Streams, NEW f
    PROVE  Begun(s, f) \subseteq Streams \X {"dispatcher", "holepuncher", "rtcp"}
<1>1. Media!Threads(f) \subseteq {"dispatcher", "holepuncher", "rtcp"}
  BY DEF Media!Threads
<1> QED
  BY <1>1 DEF Begun

\* What a set-up of the stream s changes.
LEMMA SetUpChanges ==
    ASSUME MediaTypes, process = "running", NEW s \in Streams, NEW f, NEW order, NEW fail,
           NEW freeing, Media!SetUp(s, f, order, fail, freeing)
    PROVE  /\ BuiltUp(s, f, order, fail) \in Pointers
           /\ part' \in [Streams -> Pointers]
           /\ \A t \in Streams : t # s => part'[t] = part[t]
           /\ initialized_' \in [Streams -> BOOLEAN]
           /\ initialized_'[s] = (initialized_[s] \/ fail = "nothing")
           /\ \A t \in Streams : t # s => initialized_'[t] = initialized_[t]
           /\ process' \in {"running", "undefined"}
           /\ process' = "undefined" <=>
                /\ fail # "nothing" /\ freeing
                /\ Media!FreesTwice(BuiltUp(s, f, order, fail)) \/ initialized_[s]
           /\ loose' \subseteq loose \cup Begun(s, f)
           /\ fail # "nothing" => loose' = loose
<1> DEFINE built == BuiltUp(s, f, order, fail)
<1>1. built \in Pointers
  BY Built DEF MediaTypes, BuiltUp
<1>2. Media!free_resources(built) \in Pointers
  BY <1>1, Freed
<1>3. /\ part' = [part EXCEPT ![s] = IF fail # "nothing" /\ freeing
                                     THEN Media!free_resources(built) ELSE built]
      /\ initialized_' = [initialized_ EXCEPT ![s] = initialized_[s] \/ fail = "nothing"]
      /\ process' = IF fail # "nothing" /\ freeing /\ (Media!FreesTwice(built) \/ initialized_[s])
                    THEN "undefined" ELSE process
  BY DEF Media!SetUp, BuiltUp
<1>4. /\ loose' \subseteq loose \cup Begun(s, f)
      /\ fail # "nothing" => loose' = loose
  <2>1. /\ fail # "nothing" => loose' = loose
        /\ fail = "nothing" => \E unstarted \in {{}, {"rtcp"}} :
                                 loose' = loose \cup {<<s, t>> : t \in Media!Threads(f) \ unstarted}
    BY DEF Media!SetUp
  <2> QED
    BY <2>1 DEF Begun
<1> QED
  BY <1>1, <1>2, <1>3, <1>4 DEF MediaTypes

\* A stream that is new has nothing to free twice.
LEMMA FirstSetUp ==
    ASSUME NEW old \in Pointers, Bare(old), NEW made, NEW fail
    PROVE  ~Media!FreesTwice(Media!create_media(old, made, fail))
BY DEF Media!FreesTwice, Media!create_media, Bare, Media!Parts

\* What create_stream() enters for a new stream and leaves of the others.
LEMMA CreateChanges ==
    ASSUME MediaTypes, NEW s \in Streams, NEW f \in FlagSets, NEW supported \in BOOLEAN,
           NEW entry \in {"rejected", "leaked", "listed"}, Media!Creates(s, f, supported, entry)
    PROVE  /\ process = "running" /\ session = "open" /\ streams_[s] = "new"
           /\ streams_' \in [Streams -> {"new", "rejected", "leaked", "listed", "erased"}]
           /\ streams_'[s] = entry
           /\ flags_' \in [Streams -> SUBSET FlagNames]
           /\ flags_'[s] = f
           /\ fmt_' \in [Streams -> BOOLEAN] /\ fmt_'[s] = supported
           /\ \A t \in Streams : t # s => streams_'[t] = streams_[t] /\ flags_'[t] = flags_[t]
                                          /\ fmt_'[t] = fmt_[t]
           /\ UNCHANGED <<session, contexts, refused>>
<1>1. f \in SUBSET FlagNames
  BY MediaAssumption DEF MediaAssumption, Media!FlagsBound, FlagNames
<1> QED
  BY <1>1 DEF Media!Creates, Media!Running, MediaTypes

\* A stream is made; others, and the memory, are as before.
LEMMA CreateStep ==
    ASSUME MediaInv, NEW s \in Streams, NEW f \in FlagSets, NEW supported \in BOOLEAN,
           NEW entry \in {"rejected", "leaked", "listed"}, Media!Creates(s, f, supported, entry),
           part' \in [Streams -> Pointers],
           initialized_' \in [Streams -> BOOLEAN], process' = "running",
           \A t \in Streams : t # s => part'[t] = part[t] /\ initialized_'[t] = initialized_[t],
           loose' \subseteq loose \cup Begun(s, f),
           entry = "listed" \/ loose' = loose,
           Consistent(entry, f, supported, part'[s], initialized_'[s], FALSE)
    PROVE  MediaInv'
<1>1. /\ process = "running" /\ session = "open" /\ streams_[s] = "new"
      /\ streams_' \in [Streams -> {"new", "rejected", "leaked", "listed", "erased"}]
      /\ streams_'[s] = entry
      /\ flags_' \in [Streams -> SUBSET FlagNames]
      /\ flags_'[s] = f
      /\ fmt_' \in [Streams -> BOOLEAN] /\ fmt_'[s] = supported
      /\ \A t \in Streams : t # s => streams_'[t] = streams_[t] /\ flags_'[t] = flags_[t]
                                     /\ fmt_'[t] = fmt_[t]
      /\ UNCHANGED <<session, contexts, refused>>
  BY CreateChanges DEF MediaInv
<1>2. refused[s] = FALSE
  BY <1>1 DEF MediaInv, StreamsConsistent, Consistent, MediaTypes
<1>3. loose' \in SUBSET (Streams \X {"dispatcher", "holepuncher", "rtcp"})
  BY ThreadNames DEF MediaInv, MediaTypes
<1>4. MediaTypes'
  BY <1>1, <1>3 DEF MediaInv, MediaTypes
<1>5. StreamsConsistent'
  <2> SUFFICES ASSUME NEW t \in Streams
               PROVE  Consistent(streams_'[t], flags_'[t], fmt_'[t], part'[t], initialized_'[t],
                                 refused'[t])
    BY DEF StreamsConsistent
  <2>1. CASE t = s
    BY <1>1, <1>2, <2>1
  <2>2. CASE t # s
    BY <1>1, <2>2 DEF MediaInv, StreamsConsistent
  <2> QED
    BY <2>1, <2>2
<1>6. LooseConsistent'
  <2> SUFFICES ASSUME NEW t \in Streams, NEW x \in {"dispatcher", "holepuncher", "rtcp"},
                      <<t, x>> \in loose'
               PROVE  streams_'[t] \in {"listed", "erased"} /\ x \in Media!Threads(flags_'[t])
    BY DEF LooseConsistent, Media!Threads
  <2>1. CASE <<t, x>> \in loose
    <3>1. streams_[t] \in {"listed", "erased"} /\ x \in Media!Threads(flags_[t])
      BY <1>1, <2>1 DEF MediaInv, LooseConsistent
    <3> QED
      BY <1>1, <3>1
  <2>2. CASE <<t, x>> \notin loose
    <3>1. t = s /\ x \in Media!Threads(f) /\ entry = "listed"
      BY <2>2 DEF Begun
    <3> QED
      BY <1>1, <3>1
  <2> QED
    BY <2>1, <2>2
<1>7. MisuseHasCause'
  BY DEF MisuseHasCause, Media!MisuseHasCause
<1> QED
  BY <1>1, <1>4, <1>5, <1>6, <1>7 DEF MediaInv

LEMMA PlainStep ==
    ASSUME MediaInv, NEW s \in Streams, NEW f \in FlagSets, NEW supported \in BOOLEAN,
           Media!create_stream_plain(s, f, supported)
    PROVE  MediaInv'
<1>1. PICK fail \in Media!MayFail(s, supported, {}) :
        /\ Media!Creates(s, f, supported, IF fail = "nothing" THEN "listed" ELSE "leaked")
        /\ Media!SetUp(s, f, Media!PlainOrder, fail, TRUE)
  BY DEF Media!create_stream_plain
<1> DEFINE built == BuiltUp(s, f, Media!PlainOrder, fail)
<1>2. process = "running" /\ streams_[s] = "new"
  BY <1>1 DEF Media!Creates, Media!Running
<1>3. /\ part[s] \in Pointers /\ Bare(part[s])
      /\ initialized_[s] = FALSE
  BY <1>2 DEF MediaInv, MediaTypes, StreamsConsistent, Consistent
<1>4. /\ built \in Pointers
      /\ part' \in [Streams -> Pointers]
      /\ fail # "nothing" => part'[s] = Media!free_resources(built)
      /\ fail = "nothing" => part'[s] = built
      /\ initialized_' \in [Streams -> BOOLEAN]
      /\ initialized_'[s] = (initialized_[s] \/ fail = "nothing")
      /\ \A t \in Streams : t # s => part'[t] = part[t] /\ initialized_'[t] = initialized_[t]
      /\ process' \in {"running", "undefined"}
      /\ process' = "undefined" => Media!FreesTwice(built) \/ initialized_[s]
      /\ loose' \subseteq loose \cup Begun(s, f)
      /\ fail # "nothing" => loose' = loose
  <2>1. MediaTypes
    BY DEF MediaInv
  <2>2. /\ built \in Pointers
        /\ part' \in [Streams -> Pointers]
    BY <1>1, <1>2, <2>1, SetUpChanges
  <2>3. \A t \in Streams : t # s => part'[t] = part[t] /\ initialized_'[t] = initialized_[t]
    BY <1>1, <1>2, <2>1, SetUpChanges
  <2>4. initialized_' \in [Streams -> BOOLEAN] /\ process' \in {"running", "undefined"}
    BY <1>1, <1>2, <2>1, SetUpChanges
  <2>5. initialized_'[s] = (initialized_[s] \/ fail = "nothing")
    BY <1>1, <1>2, <2>1, SetUpChanges
  <2>6. process' = "undefined" => Media!FreesTwice(built) \/ initialized_[s]
    BY <1>1, <1>2, <2>1, SetUpChanges
  <2>7. /\ fail # "nothing" => part'[s] = Media!free_resources(built)
        /\ fail = "nothing" => part'[s] = built
    BY <1>1, <2>1 DEF Media!SetUp, BuiltUp, MediaTypes
  <2>8. loose' \subseteq loose \cup Begun(s, f)
    BY <1>1, <1>2, <2>1, SetUpChanges
  <2>9. fail # "nothing" => loose' = loose
    BY <1>1 DEF Media!SetUp
  <2> QED
    BY <2>2, <2>3, <2>4, <2>5, <2>6, <2>7, <2>8, <2>9
<1>5. process' = "running"
  BY <1>3, <1>4, FirstSetUp DEF BuiltUp
<1>8. Asked(f, supported, built) /\ Asked(f, supported, Media!free_resources(built))
  <2> DEFINE made == Media!Made(f, Media!PlainOrder, fail)
  <2>1. fail \in {"socket", "media", "nothing"} /\ (fail = "nothing" => supported = TRUE)
    BY DEF Media!MayFail
  <2>2. /\ "fqueue" \in made => supported = TRUE
        /\ "participant" \in made => "RTCP" \in f
        /\ "srtp_ctx" \notin made /\ "srtcp_ctx" \notin made
    BY <2>1, MadeParts, MadeBeforeFailure
  <2> HIDE DEF made
  <2> QED
    BY <1>3, <2>2, BareIsInOrder, BuiltAsked DEF BuiltUp, made
<1>9. fail # "nothing" => CutShort(Media!free_resources(built))
  <2> SUFFICES ASSUME fail # "nothing" PROVE CutShort(Media!free_resources(built))
    OBVIOUS
  <2> DEFINE made == Media!Made(f, Media!PlainOrder, fail)
  <2>1. "fqueue" \notin made /\ "participant" \notin made
    BY MadeBeforeFailure DEF Media!MayFail
  <2> HIDE DEF made
  <2> QED
    BY <1>3, <2>1, BareIsInOrder, BuiltCutShort DEF BuiltUp, made
<1>6. CASE fail = "nothing"
  <2>1. Whole(f, built) /\ ("HOLEPUNCH" \in f \/ built["holepuncher"] = "null")
    <3>1. part[s]["holepuncher"] = "null"
      BY <1>3, BareIsInOrder
    <3> QED
      BY <1>3, <1>6, <3>1, SetUpEnds DEF BuiltUp
  <2>2. Consistent("listed", f, supported, part'[s], initialized_'[s], FALSE)
    BY <1>3, <1>4, <1>6, <1>8, <2>1 DEF Consistent
  <2> QED
    BY <1>1, <1>4, <1>5, <1>6, <2>2, CreateStep
<1>7. CASE fail # "nothing"
  <2>0. NoneLive(Media!free_resources(built))
    BY <1>4, Freed
  <2>1. NoneLive(part'[s])
    BY <1>4, <1>7, <2>0
  <2>2. Consistent("leaked", f, supported, part'[s], initialized_'[s], FALSE)
    BY <1>4, <1>7, <1>8, <1>9, <2>1 DEF Consistent, NoneLive
  <2> QED
    BY <1>1, <1>4, <1>5, <1>7, <2>2, CreateStep
<1> QED
  BY <1>6, <1>7

LEMMA ZrtpStep ==
    ASSUME MediaInv, NEW s \in Streams, NEW f \in FlagSets, NEW supported \in BOOLEAN,
           Media!create_stream_zrtp(s, f, supported)
    PROVE  MediaInv'
<1>1. PICK fail \in Media!MayFail(s, supported, {"rtp", "srtp", "srtcp"}) :
        /\ Media!Creates(s, f, supported, IF fail = "nothing" THEN "listed" ELSE "leaked")
        /\ Media!SetUp(s, f, Media!SecureOrder, fail, fail # "socket")
        /\ "ZRTP" \in f
  BY DEF Media!create_stream_zrtp
<1>0. "SRTP" \in f
  BY DEF Media!create_stream_zrtp
<1> DEFINE built == BuiltUp(s, f, Media!SecureOrder, fail)
<1>2. process = "running" /\ streams_[s] = "new"
  BY <1>1 DEF Media!Creates, Media!Running
<1>3. /\ part[s] \in Pointers /\ Bare(part[s])
      /\ initialized_[s] = FALSE
  BY <1>2 DEF MediaInv, MediaTypes, StreamsConsistent, Consistent
<1>4. /\ built \in Pointers
      /\ part' \in [Streams -> Pointers]
      /\ fail # "nothing" /\ fail # "socket" => part'[s] = Media!free_resources(built)
      /\ fail = "nothing" \/ fail = "socket" => part'[s] = built
      /\ initialized_' \in [Streams -> BOOLEAN]
      /\ initialized_'[s] = (initialized_[s] \/ fail = "nothing")
      /\ \A t \in Streams : t # s => part'[t] = part[t] /\ initialized_'[t] = initialized_[t]
      /\ process' \in {"running", "undefined"}
      /\ process' = "undefined" => Media!FreesTwice(built) \/ initialized_[s]
      /\ loose' \subseteq loose \cup Begun(s, f)
      /\ fail # "nothing" => loose' = loose
  <2>1. MediaTypes
    BY DEF MediaInv
  <2>2. /\ built \in Pointers
        /\ part' \in [Streams -> Pointers]
    BY <1>1, <1>2, <2>1, SetUpChanges
  <2>3. \A t \in Streams : t # s => part'[t] = part[t] /\ initialized_'[t] = initialized_[t]
    BY <1>1, <1>2, <2>1, SetUpChanges
  <2>4. initialized_' \in [Streams -> BOOLEAN] /\ process' \in {"running", "undefined"}
    BY <1>1, <1>2, <2>1, SetUpChanges
  <2>5. initialized_'[s] = (initialized_[s] \/ fail = "nothing")
    BY <1>1, <1>2, <2>1, SetUpChanges
  <2>6. process' = "undefined" => Media!FreesTwice(built) \/ initialized_[s]
    BY <1>1, <1>2, <2>1, SetUpChanges
  <2>7. /\ fail # "nothing" /\ fail # "socket" => part'[s] = Media!free_resources(built)
        /\ fail = "nothing" \/ fail = "socket" => part'[s] = built
    BY <1>1, <2>1 DEF Media!SetUp, BuiltUp, MediaTypes
  <2>8. loose' \subseteq loose \cup Begun(s, f)
    BY <1>1, <1>2, <2>1, SetUpChanges
  <2>9. fail # "nothing" => loose' = loose
    BY <1>1 DEF Media!SetUp
  <2> QED
    BY <2>2, <2>3, <2>4, <2>5, <2>6, <2>7, <2>8, <2>9
<1>5. process' = "running"
  BY <1>3, <1>4, FirstSetUp DEF BuiltUp
<1>9. Asked(f, supported, built) /\ Asked(f, supported, Media!free_resources(built))
  <2> DEFINE made == Media!Made(f, Media!SecureOrder, fail)
  <2>1. /\ fail \in {"socket", "rtp", "srtp", "srtcp", "media", "nothing"}
        /\ fail = "nothing" => supported = TRUE
    BY DEF Media!MayFail
  <2>2. /\ "fqueue" \in made => supported = TRUE
        /\ "participant" \in made => "RTCP" \in f
    BY <2>1, MadeParts, MadeBeforeFailure
  <2> HIDE DEF made
  <2> QED
    BY <1>0, <1>3, <2>2, BareIsInOrder, BuiltAsked DEF BuiltUp, made
<1>10. fail # "nothing" => CutShort(built) /\ CutShort(Media!free_resources(built))
  <2> SUFFICES ASSUME fail # "nothing"
               PROVE  CutShort(built) /\ CutShort(Media!free_resources(built))
    OBVIOUS
  <2> DEFINE made == Media!Made(f, Media!SecureOrder, fail)
  <2>1. "fqueue" \notin made /\ "participant" \notin made
    BY MadeBeforeFailure DEF Media!MayFail
  <2> HIDE DEF made
  <2> QED
    BY <1>3, <2>1, BareIsInOrder, BuiltCutShort DEF BuiltUp, made
<1>6. CASE fail = "nothing"
  <2>1. Whole(f, built) /\ ("HOLEPUNCH" \in f \/ built["holepuncher"] = "null")
    <3>1. part[s]["holepuncher"] = "null"
      BY <1>3, BareIsInOrder
    <3> QED
      BY <1>3, <1>6, <3>1, SetUpEnds DEF BuiltUp
  <2>2. Consistent("listed", f, supported, part'[s], initialized_'[s], FALSE)
    BY <1>3, <1>4, <1>6, <1>9, <2>1 DEF Consistent
  <2> QED
    BY <1>1, <1>4, <1>5, <1>6, <2>2, CreateStep
<1>7. CASE fail = "socket"
  <2>1. \A p \in Media!Parts : built[p] = "live" => p = "socket"
    <3>1. Media!Made(f, Media!SecureOrder, fail) \subseteq {"socket"}
      BY <1>7, MadeBeforeFailure
    <3> QED
      BY <1>3, <3>1, Built DEF Bare, BuiltUp
  <2>2. Consistent("leaked", f, supported, part'[s], initialized_'[s], FALSE)
    BY <1>1, <1>4, <1>7, <1>9, <1>10, <2>1 DEF Consistent, Media!Pointed, Media!Parts
  <2> QED
    BY <1>1, <1>4, <1>5, <1>7, <2>2, CreateStep
<1>8. CASE fail # "nothing" /\ fail # "socket"
  <2>1. Consistent("leaked", f, supported, part'[s], initialized_'[s], FALSE)
    <3>1. NoneLive(part'[s])
      BY <1>4, <1>8, Freed
    <3>2. Asked(f, supported, part'[s]) /\ CutShort(part'[s])
      BY <1>4, <1>8, <1>9, <1>10
    <3> QED
      BY <3>1, <3>2 DEF Consistent, NoneLive
  <2> QED
    BY <1>1, <1>4, <1>5, <1>8, <2>1, CreateStep
<1> QED
  BY <1>6, <1>7, <1>8

\* Streams for which nothing is made: the system call dispatcher's, and those that wait
\* for a key or have no way to get one.
LEMMA NothingMadeStep ==
    ASSUME MediaInv, NEW s \in Streams, NEW f \in FlagSets, NEW supported \in BOOLEAN,
           Media!create_stream_scd(s, f) \/ Media!create_stream_user(s, f, supported)
    PROVE  MediaInv'
<1>1. /\ process = "running" /\ streams_[s] = "new"
      /\ UNCHANGED <<process, part, loose, initialized_>>
  BY DEF Media!create_stream_scd, Media!create_stream_user, Media!Creates, Media!Running
<1>2. Bare(part[s]) /\ initialized_[s] = FALSE /\ part[s] \in Pointers
  BY <1>1 DEF MediaInv, MediaTypes, StreamsConsistent, Consistent
<1>3. /\ part' \in [Streams -> Pointers]
      /\ initialized_' \in [Streams -> BOOLEAN]
      /\ part[s]["holepuncher"] = "null"
  BY <1>1, <1>2, BareIsInOrder DEF MediaInv, MediaTypes
<1>4. CASE Media!create_stream_scd(s, f)
  <2>1. Consistent("rejected", f, TRUE, part'[s], initialized_'[s], FALSE)
    BY <1>1, <1>2 DEF Consistent
  <2>2. Media!Creates(s, f, TRUE, "rejected")
    BY <1>4 DEF Media!create_stream_scd
  <2> QED
    BY <1>1, <1>3, <2>1, <2>2, CreateStep
<1>5. CASE Media!create_stream_user(s, f, supported) /\ "USER" \in f
  <2>1. "SRTP" \in f /\ Media!Creates(s, f, supported, "listed")
    BY <1>5 DEF Media!create_stream_user
  <2>2. Consistent("listed", f, supported, part'[s], initialized_'[s], FALSE)
    BY <1>1, <1>2, <1>3, <1>5, <2>1, BareIsInOrder DEF Consistent
  <2> QED
    BY <1>1, <1>3, <2>1, <2>2, CreateStep
<1>6. CASE Media!create_stream_user(s, f, supported) /\ "USER" \notin f
  <2>1. Media!Creates(s, f, supported, "leaked")
    BY <1>6 DEF Media!create_stream_user
  <2>2. Consistent("leaked", f, supported, part'[s], initialized_'[s], FALSE)
    BY <1>1, <1>2, BareIsInOrder DEF Consistent, NoneLive
  <2> QED
    BY <1>1, <1>3, <2>1, <2>2, CreateStep
<1> QED
  BY <1>4, <1>5, <1>6

\* Streams in the table are destroyed: one, or all with their session.
LEMMA DestroyStep ==
    ASSUME MediaInv, process = "running", NEW gone \in SUBSET Streams, Media!Destroy(gone),
           \A s \in gone : streams_[s] = "listed",
           session' = "open" \/ /\ session' = "destroyed"
                                /\ \A s \in Streams : streams_[s] = "listed" => s \in gone,
           UNCHANGED <<flags_, fmt_, initialized_, contexts, refused>>
    PROVE  MediaInv'
<1>1. CASE \A s \in gone : Media!DestroysSafely(s)
  <2>1. /\ streams_' = [s \in Streams |-> IF s \in gone THEN "erased" ELSE streams_[s]]
        /\ part' = [s \in Streams |-> IF s \in gone THEN Media!free_resources(part[s]) ELSE part[s]]
        /\ process' = "running" /\ loose' \subseteq loose
    BY <1>1 DEF Media!Destroy
  <2>2. \A s \in Streams : /\ Media!free_resources(part[s]) \in Pointers
                           /\ NoneLive(Media!free_resources(part[s]))
    BY Freed DEF MediaInv, MediaTypes
  <2>3. MediaTypes'
    BY <2>1, <2>2 DEF MediaInv, MediaTypes
  <2>4. StreamsConsistent'
    <3> SUFFICES ASSUME NEW s \in Streams
                 PROVE  Consistent(streams_'[s], flags_'[s], fmt_'[s], part'[s], initialized_'[s],
                                   refused'[s])
      BY DEF StreamsConsistent
    <3>1. Consistent(streams_[s], flags_[s], fmt_[s], part[s], initialized_[s], refused[s])
      BY DEF MediaInv, StreamsConsistent
    <3>2. CASE s \in gone
      <4>1. streams_'[s] = "erased" /\ part'[s] = Media!free_resources(part[s])
        BY <2>1, <3>2
      <4>2. Asked(flags_[s], fmt_[s], part[s]) /\ part[s] \in Pointers
        BY <3>1, <3>2 DEF Consistent, MediaInv, MediaTypes
      <4>3. /\ \A p \in Media!Inner : part'[s][p] = part[s][p]
            /\ Media!Inner = {"fqueue", "participant", "srtp_ctx", "srtcp_ctx"}
        BY <4>1, <4>2, Freed DEF Media!Inner
      <4>4. Asked(flags_[s], fmt_[s], part'[s])
        BY <4>2, <4>3 DEF Asked
      <4> QED
        BY <2>2, <4>1, <4>4 DEF Consistent
    <3>3. CASE s \notin gone
      BY <2>1, <3>1, <3>3
    <3> QED
      BY <3>2, <3>3
  <2>7. LooseConsistent'
    BY <2>1 DEF MediaInv, LooseConsistent
  <2>5. MisuseHasCause'
    BY <2>1 DEF MisuseHasCause, Media!MisuseHasCause
  <2>6. session' = "destroyed" => \A s \in Streams : streams_'[s] # "listed"
    BY <2>1
  <2> QED
    BY <2>1, <2>3, <2>4, <2>5, <2>6, <2>7 DEF MediaInv
<1>2. CASE ~ \A s \in gone : Media!DestroysSafely(s)
  <2>1. process' = "undefined" /\ UNCHANGED <<streams_, part, loose>>
    BY <1>2 DEF Media!Destroy
  <2>2. PICK s \in gone : ~Media!DestroysSafely(s)
    BY <1>2
  <2>3. refused[s] \/ ("USER" \in flags_[s] /\ ~initialized_[s])
    <3> SUFFICES ASSUME ~refused[s], "USER" \notin flags_[s] \/ initialized_[s]
                 PROVE  Media!DestroysSafely(s)
      BY <2>2
    <3>1. initialized_[s] = TRUE /\ Whole(flags_[s], part[s])
      BY <2>2 DEF MediaInv, StreamsConsistent, Consistent, MediaTypes
    <3> QED
      BY <3>1 DEF Whole, CoreParts, Media!DestroysSafely, Media!FreesTwice
  <2>4. MisuseHasCause'
    BY <2>1, <2>2, <2>3 DEF MisuseHasCause, Media!MisuseHasCause
  <2>5. MediaTypes'
    BY <2>1 DEF MediaInv, MediaTypes
  <2> QED
    BY <2>1, <2>4, <2>5 DEF MediaInv
<1> QED
  BY <1>1, <1>2

\* A key is added: the set-up that waited for it, or a stream that had one already.
LEMMA ContextStep ==
    ASSUME MediaInv, NEW s \in Streams, Media!add_srtp_ctx(s) PROVE MediaInv'
<1>1. /\ process = "running" /\ session = "open" /\ streams_[s] = "listed"
      /\ UNCHANGED <<session, streams_, flags_, fmt_>>
      /\ contexts' = [contexts EXCEPT ![s] = @ + 1]
  BY DEF Media!add_srtp_ctx, Media!Held, Media!Running, Media!bookVars
<1>2. PICK ends :
        /\ Media!SetUp(s, flags_[s], Media!SecureOrder, ends, TRUE)
        /\ refused' = [refused EXCEPT ![s] = ends # "nothing"]
        /\ ends \in {"socket", "media", "nothing"}
        /\ ends = "nothing" => fmt_[s] = TRUE
        /\ ends # "socket" => "SRTP" \in flags_[s]
  <2>1. PICK fail \in Media!MayFail(s, fmt_[s], {}) :
          LET ends == IF {"SRTP", "USER"} \subseteq flags_[s] THEN fail ELSE "socket"
          IN /\ Media!SetUp(s, flags_[s], Media!SecureOrder, ends, TRUE)
             /\ refused' = [refused EXCEPT ![s] = ends # "nothing"]
    BY DEF Media!add_srtp_ctx
  <2>2. fail \in {"socket", "media", "nothing"} /\ (fail = "nothing" => fmt_[s])
    BY DEF Media!MayFail
  <2>3. fmt_[s] \in BOOLEAN
    BY DEF MediaInv, MediaTypes
  <2> QED
    BY <2>1, <2>2, <2>3
<1> DEFINE built == BuiltUp(s, flags_[s], Media!SecureOrder, ends)
<1>3. /\ built \in Pointers
      /\ part' \in [Streams -> Pointers]
      /\ initialized_' \in [Streams -> BOOLEAN]
      /\ initialized_'[s] = (initialized_[s] \/ ends = "nothing")
      /\ process' \in {"running", "undefined"}
      /\ process' = "undefined" <=> ends # "nothing" /\ (Media!FreesTwice(built) \/ initialized_[s])
  <2>1. MediaTypes
    BY DEF MediaInv
  <2>2. /\ built \in Pointers
        /\ part' \in [Streams -> Pointers]
    BY <1>1, <1>2, <2>1, SetUpChanges
  <2>3. initialized_' \in [Streams -> BOOLEAN] /\ process' \in {"running", "undefined"}
    BY <1>1, <1>2, <2>1, SetUpChanges
  <2>4. initialized_'[s] = (initialized_[s] \/ ends = "nothing")
    BY <1>2 DEF Media!SetUp, MediaInv, MediaTypes
  <2>5. process' = "undefined" <=> ends # "nothing" /\ (Media!FreesTwice(built) \/ initialized_[s])
    BY <1>1, <1>2 DEF Media!SetUp, BuiltUp
  <2> QED
    BY <2>2, <2>3, <2>4, <2>5
<1>13. /\ loose' \subseteq loose \cup Begun(s, flags_[s])
  <2>1. MediaTypes
    BY DEF MediaInv
  <2> QED
    BY <1>1, <1>2, <2>1, SetUpChanges
<1>14. Asked(flags_[s], fmt_[s], built) /\ Asked(flags_[s], fmt_[s], Media!free_resources(built))
  <2> DEFINE made == Media!Made(flags_[s], Media!SecureOrder, ends)
  <2>1. /\ "fqueue" \in made => fmt_[s] = TRUE
        /\ "participant" \in made => "RTCP" \in flags_[s]
        /\ "srtp_ctx" \in made \/ "srtcp_ctx" \in made => "SRTP" \in flags_[s]
    BY <1>2, MadeParts, MadeBeforeFailure
  <2>2. /\ Asked(flags_[s], fmt_[s], part[s]) /\ part[s] \in Pointers
        /\ fmt_[s] \in BOOLEAN
    BY <1>1 DEF MediaInv, MediaTypes, StreamsConsistent, Consistent
  <2> HIDE DEF made
  <2> QED
    BY <2>1, <2>2, BuiltAsked DEF BuiltUp, made
<1>4. /\ ends # "nothing" => part'[s] = Media!free_resources(built)
      /\ ends = "nothing" => part'[s] = built
  BY <1>2 DEF Media!SetUp, BuiltUp, MediaInv, MediaTypes
<1>5. \A t \in Streams : t # s => part'[t] = part[t] /\ initialized_'[t] = initialized_[t]
  BY <1>2 DEF Media!SetUp, MediaInv, MediaTypes
<1>6. refused' \in [Streams -> BOOLEAN] /\ refused'[s] = (ends # "nothing")
      /\ \A t \in Streams : t # s => refused'[t] = refused[t]
  BY <1>2 DEF MediaInv, MediaTypes
<1>7. MediaTypes'
  <2>1. loose' \in SUBSET (Streams \X {"dispatcher", "holepuncher", "rtcp"})
    BY <1>13, ThreadNames DEF MediaInv, MediaTypes
  <2> QED
    BY <1>1, <1>3, <1>6, <2>1 DEF MediaInv, MediaTypes
<1>8. Consistent("listed", flags_[s], fmt_[s], part[s], initialized_[s], refused[s])
  BY <1>1 DEF MediaInv, StreamsConsistent
<1>9. "HOLEPUNCH" \in flags_[s] \/ part[s]["holepuncher"] = "null"
  BY <1>8 DEF Consistent
<1>10. process' = "running" =>
         Consistent("listed", flags_[s], fmt_[s], part'[s], initialized_'[s], refused'[s])
  <2> SUFFICES ASSUME process' = "running"
               PROVE  Consistent("listed", flags_[s], fmt_[s], part'[s], initialized_'[s],
                                 refused'[s])
    OBVIOUS
  <2>1. part[s] \in Pointers
    BY DEF MediaInv, MediaTypes
  <2>2. CASE ends = "nothing"
    <3>1. Whole(flags_[s], built) /\ ("HOLEPUNCH" \in flags_[s] \/ built["holepuncher"] = "null")
      BY <1>9, <2>1, <2>2, SetUpEnds DEF BuiltUp
    <3> QED
      BY <1>3, <1>4, <1>6, <1>14, <2>2, <3>1 DEF Consistent
  <2>3. CASE ends # "nothing"
    <3>1. initialized_'[s] = FALSE /\ initialized_[s] = FALSE
      BY <1>3, <2>3 DEF MediaInv, MediaTypes
    <3>2. {"SRTP", "USER"} \subseteq flags_[s]
      BY <1>8, <3>1 DEF Consistent
    <3>3. NoneLive(part'[s])
      BY <1>3, <1>4, <2>3, Freed
    <3>4. "HOLEPUNCH" \in flags_[s] \/ part'[s]["holepuncher"] = "null"
      <4> SUFFICES ASSUME "HOLEPUNCH" \notin flags_[s] PROVE part'[s]["holepuncher"] = "null"
        OBVIOUS
      <4>1. "holepuncher" \notin Media!Made(flags_[s], Media!SecureOrder, ends)
        BY MadeParts
      <4>2. "holepuncher" \in Media!Parts
        BY DEF Media!Parts, Media!Pointed
      <4>3. built["holepuncher"] = "null"
        BY <1>9, <2>1, <4>1, <4>2, Built DEF BuiltUp
      <4> QED
        BY <1>3, <1>4, <2>3, <4>2, <4>3, Freed
    <3> QED
      BY <1>4, <1>6, <1>14, <2>3, <3>1, <3>2, <3>3, <3>4 DEF Consistent
  <2> QED
    BY <2>2, <2>3
<1>11. process' = "running" => StreamsConsistent'
  BY <1>1, <1>5, <1>6, <1>10 DEF MediaInv, StreamsConsistent
<1>15. LooseConsistent'
  <2> SUFFICES ASSUME NEW t \in Streams, NEW x \in {"dispatcher", "holepuncher", "rtcp"},
                      <<t, x>> \in loose'
               PROVE  streams_[t] \in {"listed", "erased"} /\ x \in Media!Threads(flags_[t])
    BY <1>1 DEF LooseConsistent
  <2>1. CASE <<t, x>> \in loose
    BY <1>1, <2>1 DEF MediaInv, LooseConsistent
  <2>2. CASE <<t, x>> \notin loose
    BY <1>1, <1>13, <2>2 DEF Begun
  <2> QED
    BY <2>1, <2>2
<1>12. MisuseHasCause'
  BY <1>1, <1>3, <1>6 DEF MisuseHasCause, Media!MisuseHasCause
<1> QED
  BY <1>1, <1>7, <1>11, <1>12, <1>15 DEF MediaInv

\* A call that uses parts of a stream.
LEMMA UsesStep ==
    ASSUME MediaInv, NEW s \in Streams, NEW used, Media!Uses(s, used),
           used \subseteq CoreParts \cup (IF "HOLEPUNCH" \in flags_[s] THEN {"holepuncher"} ELSE {})
    PROVE  MediaInv'
<1>1. /\ process = "running" /\ session = "open" /\ streams_[s] = "listed"
      /\ UNCHANGED <<session, streams_, flags_, fmt_, part, loose, initialized_, contexts, refused>>
      /\ process' = IF initialized_[s] /\ \E p \in used : part[s][p] # "live"
                    THEN "undefined" ELSE process
  BY DEF Media!Uses, Media!Held, Media!Running, Media!bookVars, Media!streamVars
<1>2. ~(initialized_[s] /\ \E p \in used : part[s][p] # "live")
  <2>1. initialized_[s] => Whole(flags_[s], part[s])
    BY <1>1 DEF MediaInv, StreamsConsistent, Consistent
  <2> QED
    BY <2>1 DEF Whole
<1>3. MediaTypes'
  BY <1>1, <1>2 DEF MediaInv, MediaTypes
<1>4. StreamsConsistent' /\ LooseConsistent'
  BY <1>1, <1>2 DEF MediaInv, StreamsConsistent, LooseConsistent
<1> QED
  BY <1>1, <1>2, <1>3, <1>4 DEF MediaInv, MisuseHasCause, Media!MisuseHasCause

\* The dispatcher's thread begins in time, or a thread finds its stream deleted.
LEMMA ThreadStep ==
    ASSUME MediaInv, NEW s \in Streams, Media!dispatcher_runs(s) \/ Media!thread_outlives(s)
    PROVE  MediaInv'
<1>1. CASE Media!dispatcher_runs(s)
  <2>1. /\ process = "running" /\ loose' = loose \ {<<s, "dispatcher">>}
        /\ UNCHANGED <<session, streams_, flags_, fmt_, process, part, initialized_, contexts,
                      refused>>
    BY <1>1 DEF Media!dispatcher_runs, Media!bookVars
  <2>2. MediaTypes'
    BY <2>1 DEF MediaInv, MediaTypes
  <2>3. StreamsConsistent' /\ LooseConsistent'
    BY <2>1 DEF MediaInv, StreamsConsistent, LooseConsistent
  <2> QED
    BY <2>1, <2>2, <2>3 DEF MediaInv, MisuseHasCause, Media!MisuseHasCause
<1>2. CASE Media!thread_outlives(s)
  <2>1. /\ process = "running" /\ process' = "undefined" /\ streams_[s] = "erased"
        /\ UNCHANGED <<session, streams_, flags_, fmt_, part, loose, initialized_, contexts,
                      refused>>
    BY <1>2 DEF Media!thread_outlives, Media!bookVars, Media!streamVars
  <2>2. PICK t \in {"dispatcher", "holepuncher", "rtcp"} : <<s, t>> \in loose
    <3>1. PICK x \in loose : x[1] = s
      BY <1>2 DEF Media!thread_outlives
    <3>2. x \in Streams \X {"dispatcher", "holepuncher", "rtcp"}
      BY <3>1 DEF MediaInv, MediaTypes
    <3>3. x = <<s, x[2]>> /\ x[2] \in {"dispatcher", "holepuncher", "rtcp"}
      BY <3>1, <3>2
    <3> QED
      BY <3>1, <3>3
  <2>3. t \in Media!Threads(flags_[s])
    BY <2>1, <2>2 DEF MediaInv, LooseConsistent
  <2>4. MediaTypes'
    BY <2>1 DEF MediaInv, MediaTypes
  <2>5. MisuseHasCause'
    BY <2>1, <2>2, <2>3 DEF MisuseHasCause, Media!MisuseHasCause
  <2>6. session # "none"
    BY <2>1, <2>2 DEF MediaInv
  <2> QED
    BY <2>1, <2>4, <2>5 DEF MediaInv
<1> QED
  BY <1>1, <1>2

LEMMA MediaStep == ASSUME MediaInv, Media!Next PROVE MediaInv'
<1>1. CASE Media!create_session
  BY <1>1 DEF Media!create_session, Media!streamVars, MediaInv, MediaTypes, StreamsConsistent,
              LooseConsistent, MisuseHasCause, Media!MisuseHasCause
<1>2. CASE Media!destroy_session
  <2>1. /\ process = "running" /\ session' = "destroyed"
        /\ Media!Destroy({s \in Streams : streams_[s] = "listed"})
        /\ UNCHANGED <<flags_, fmt_, initialized_, contexts, refused>>
    BY <1>2 DEF Media!destroy_session, Media!Running
  <2> QED
    BY <2>1, DestroyStep
<1>3. CASE \E s \in Streams, f \in FlagSets : Media!create_stream_scd(s, f)
  BY <1>3, NothingMadeStep
<1>4. CASE \E s \in Streams, f \in FlagSets, supported \in BOOLEAN :
             Media!create_stream_plain(s, f, supported)
  BY <1>4, PlainStep
<1>5. CASE \E s \in Streams, f \in FlagSets, supported \in BOOLEAN :
             Media!create_stream_zrtp(s, f, supported)
  BY <1>5, ZrtpStep
<1>6. CASE \E s \in Streams, f \in FlagSets, supported \in BOOLEAN :
             Media!create_stream_user(s, f, supported)
  BY <1>6, NothingMadeStep
<1>7. CASE \E s \in Streams : Media!destroy_stream(s)
  <2>1. PICK s \in Streams : Media!destroy_stream(s)
    BY <1>7
  <2>2. /\ process = "running" /\ session' = "open" /\ streams_[s] = "listed"
        /\ Media!Destroy({s})
        /\ UNCHANGED <<flags_, fmt_, initialized_, contexts, refused>>
    BY <2>1 DEF Media!destroy_stream, Media!Running
  <2> QED
    BY <2>2, DestroyStep
<1>8. CASE \E s \in Streams : Media!add_srtp_ctx(s)
  BY <1>8, ContextStep
<1>9. CASE \E s \in Streams : Media!push_frame(s) \/ Media!pull_frame(s) \/ Media!configure_ctx(s)
  BY <1>9, UsesStep DEF Media!push_frame, Media!pull_frame, Media!configure_ctx, CoreParts
<1>10. CASE \E s \in Streams : Media!dispatcher_runs(s) \/ Media!thread_outlives(s)
  BY <1>10, ThreadStep
<1> QED
  BY <1>1, <1>2, <1>3, <1>4, <1>5, <1>6, <1>7, <1>8, <1>9, <1>10 DEF Media!Next

LEMMA MediaInvariant == Spec => []MediaInv
<1>1. Init => MediaInv
  BY DEF Init, Media!Init, MediaInv, MediaTypes, StreamsConsistent, LooseConsistent, Consistent,
         Bare, MisuseHasCause, Media!MisuseHasCause
<1>2. ASSUME MediaInv, [Next]_vars PROVE MediaInv'
  <2>1. CASE Stream
    BY <1>2, <2>1, MediaStep DEF Stream
  <2>2. CASE UNCHANGED mediaVars
    BY <1>2, <2>2 DEF mediaVars, MediaInv, MediaTypes, StreamsConsistent, LooseConsistent,
                      MisuseHasCause, Media!MisuseHasCause
  <2> QED
    BY <1>2, <2>1, <2>2 DEF Next, KeepAlive, Encrypt, Count, Report, Agree, vars
<1> QED
  BY <1>1, <1>2, PTL DEF Spec

\* session.cc, media_stream.cc: whichever step of set-up fails, and in whatever order
\* streams are made, used and destroyed, memory is only misused for a listed stream that
\* waits for its key or was refused one, or by a thread that its stream's stop() did not
\* wait for.
THEOREM MisuseIsExplained == Spec => []MisuseHasCause
<1>1. MediaInv => MisuseHasCause
  BY DEF MediaInv
<1> QED
  BY <1>1, MediaInvariant, PTL

\* session.cc, media_stream.cc: what outlives a session is the socket of a ZRTP stream
\* whose connection failed, and what no destructor deletes, of the streams that asked for
\* it: no failing step of a set-up leaks anything else.
THEOREM LeaksAreExplained == Spec => []LeaksHaveCause
<1>1. ASSUME MediaInv PROVE LeaksHaveCause
  <2> SUFFICES ASSUME session = "destroyed", process = "running", NEW s \in Streams,
                      NEW p \in Media!Parts, part[s][p] = "live"
               PROVE  \/ p = "socket" /\ streams_[s] = "leaked" /\ "ZRTP" \in flags_[s]
                      \/ p = "fqueue" /\ streams_[s] = "erased" /\ fmt_[s]
                      \/ p \in {"srtp_ctx", "srtcp_ctx"} /\ "SRTP" \in flags_[s]
                      \/ p = "participant" /\ streams_[s] = "erased" /\ "RTCP" \in flags_[s]
    BY DEF LeaksHaveCause, Media!LeaksHaveCause
  <2>1. streams_[s] \in {"leaked", "erased"}
    <3>1. streams_[s] \in {"new", "rejected", "leaked", "erased"}
      BY <1>1 DEF MediaInv, MediaTypes
    <3>2. ~Bare(part[s])
      BY DEF Bare
    <3> QED
      BY <1>1, <3>1, <3>2 DEF MediaInv, StreamsConsistent, Consistent
  <2>2. /\ streams_[s] = "leaked" =>
             /\ \A q \in Media!Pointed : part[s][q] = "live" => q = "socket" /\ "ZRTP" \in flags_[s]
             /\ CutShort(part[s])
        /\ streams_[s] = "erased" => NoneLive(part[s])
        /\ Asked(flags_[s], fmt_[s], part[s])
    BY <1>1, <2>1 DEF MediaInv, StreamsConsistent, Consistent
  <2>3. CASE p \in Media!Pointed
    BY <2>1, <2>2, <2>3 DEF NoneLive
  <2>4. CASE p \in Media!Inner
    <3>1. p \in {"fqueue", "srtp_ctx", "srtcp_ctx", "participant"}
      BY <2>4 DEF Media!Inner
    <3> QED
      BY <2>1, <2>2, <3>1 DEF Asked, CutShort
  <2> QED
    BY <2>3, <2>4 DEF Media!Parts
<1> QED
  BY <1>1, MediaInvariant, PTL
=============================================================================
