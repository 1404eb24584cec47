----------------------------- MODULE MCSendPath -----------------------------
(***************************************************************************)
(* Frames for SendPath with a payload size of 6 bytes, so that a unit of   *)
(* ten bytes is large: parameter sets and slices before and after each     *)
(* other, start codes at every alignment, an access unit delimiter of two  *)
(* bytes, and slices pushed alone.                                         *)
(***************************************************************************)
EXTENDS SendPath

Unit(type, n) == <<0, 0, 0, 1>> \o [i \in 1..n |-> type]
ShortCoded(type, n) == Tail(Unit(type, n))
Frame(d) == [data |-> d, slice |-> FALSE]

\* One unit, or several that do not wait for each other.
LargeFrames ==
    {Frame(Unit(2, 8)), Frame(Unit(3, 14)), Frame(Unit(3, 12) \o Unit(3, 15)),
     [data |-> [i \in 1..13 |-> 4], slice |-> TRUE],
     [data |-> [i \in 1..6 |-> 4], slice |-> TRUE]}

\* A short frame, a refused unit, units that wait for a large one or for a small one.
MixedFrames ==
    {Frame(<<0, 0, 1, 2, 2>>), Frame(Unit(3, 12) \o Unit(2, 2) \o Unit(3, 12)),
     Frame(Unit(2, 5) \o Unit(3, 14)), Frame(Unit(2, 5) \o Unit(4, 4) \o Unit(3, 14)),
     Frame(Unit(2, 5) \o Unit(4, 4) \o Unit(2, 8)),
     Frame(Unit(2, 5) \o ShortCoded(4, 8)), Frame(Unit(3, 12) \o Unit(4, 12)),
     [data |-> Unit(4, 13), slice |-> TRUE]}

AlignedFrames == {Frame(Unit(2, n) \o Unit(3, 14) \o Unit(2, 8)) : n \in 4..11}

\* Two parameter sets and a slice, all of them small.
WaitingFrame == [H264 |-> {Frame(Unit(2, 5) \o Unit(4, 4) \o Unit(2, 8))}]

MCFrames ==
    [H264 |-> LargeFrames \cup MixedFrames,
     H265 |-> LargeFrames \cup MixedFrames,
     H266 |-> LargeFrames \cup AlignedFrames \cup {Frame(Unit(3, 12) \o Unit(2, 2) \o Unit(3, 12))},
     GENERIC |-> {Frame([i \in 1..n |-> 2]) : n \in {5, 6, 14}}]
=============================================================================
