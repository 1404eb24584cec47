-------------------------- MODULE MCH26xReassembly --------------------------
(***************************************************************************)
(* Streams for H26xReassembly: intra and inter pictures of fragments,      *)
(* parameter sets alone and aggregated, a fragment with both bits set, and *)
(* generic frames. They meet OneSplitUnitPerTimestamp.                     *)
(***************************************************************************)
EXTENDS H26xRefinement

Fragments(unit, ts, nal, n) ==
    [i \in 1..n |-> [unit |-> unit, count |-> 1, ts |-> ts, marker |-> i \in {1, n},
                     kind |-> "FRAG", nal |-> nal, s |-> i = 1, e |-> i = n]]

Whole(unit, ts, kind, count) ==
    <<[unit |-> unit, count |-> count, ts |-> ts, marker |-> FALSE, kind |-> kind,
       nal |-> "OTHER", s |-> FALSE, e |-> FALSE]>>

Invalid(unit, ts) ==
    <<[unit |-> unit, count |-> 0, ts |-> ts, marker |-> TRUE, kind |-> "FRAG",
       nal |-> "OTHER", s |-> TRUE, e |-> TRUE]>>

FormatStreams ==
    [H264 |-> {Whole(1, 1, "AGGR", 2) \o Fragments(2, 1, "INTRA", 4) \o Whole(3, 2, "SINGLE", 1)},
     H265 |-> {Fragments(1, 1, "INTRA", 3) \o Fragments(2, 2, "INTER", 3),
               Whole(1, 1, "AGGR", 3) \o Fragments(2, 1, "INTER", 3) \o Invalid(3, 1)},
     H266 |-> {Fragments(1, 1, "INTER", 2) \o Fragments(2, 2, "OTHER", 2)
                   \o Fragments(3, 3, "INTRA", 2),
               Invalid(1, 1) \o Fragments(2, 1, "OTHER", 3)},
     GENERIC |-> {Fragments(1, 1, "OTHER", 3) \o Fragments(2, 2, "OTHER", 3)},
     UNFRAGMENTED |-> {Whole(1, 1, "SINGLE", 1) \o Whole(2, 2, "SINGLE", 1)}]

\* One unit in H.264.
H264Stream == [H264 |-> {Fragments(1, 1, "INTER", 3)}]
=============================================================================
