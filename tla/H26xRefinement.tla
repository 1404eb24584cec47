--------------------------- MODULE H26xRefinement ---------------------------
(***************************************************************************)
(* H26xReassembly implements UnitChannel. What has come of a unit is read  *)
(* off the receipts, what became of it off the entries, the dropped        *)
(* timestamps and what was returned.                                       *)
(***************************************************************************)
EXTENDS H26xReassembly

\* In the generic format the first packet must come first; so it must in H.265 and H.266 if
\* the sequence number overflows within the unit, which the other formats cannot stand.
OrderOf(u) ==
    IF format \in {"H265", "H266"} THEN IF Wraps(u) THEN "first first" ELSE "any"
    ELSE IF Wraps(u) THEN "none" ELSE IF format = "H264" THEN "any" ELSE "first first"

\* Fragments are given up by their timestamp; a unit that is one packet never is.
GivenUp(u) == \E p, q \in Unit(u) : p # q /\ Ts(p) \in dropped

\* The packets with which entries of the unit, and what was returned of it, began.
Beginnings(u) ==
    {p \in Unit(u) : \E t \in DOMAIN frames : frames[t].first = p}
        \cup {returned[i].first : i \in {j \in 1..Len(returned) : UnitOf(returned[j]) = u}}

Exposed(u) == ~Undisturbed(u) \/ \E p \in Beginnings(u) : ~Sheltered(u, p)

StandingOf(u) == IF GivenUp(u) THEN "given up" ELSE IF Exposed(u) THEN "exposed" ELSE "kept"
MissingOf(u) == {p \in Unit(u) : receipts[p] = 0}
CopiesOf(u) == stream[CHOOSE p \in Unit(u) : TRUE].count

ItemOf(r) == [units |-> {stream[r.parts[k]].unit : k \in 1..Len(r.parts)}, whole |-> Intact(r)]

Channel == INSTANCE UnitChannel WITH
    packets <- [u \in Units |-> Unit(u)], copies <- [u \in Units |-> CopiesOf(u)],
    order <- [u \in Units |-> OrderOf(u)], missing <- [u \in Units |-> MissingOf(u)],
    standing <- [u \in Units |-> StandingOf(u)],
    output <- [i \in 1..Len(returned) |-> ItemOf(returned[i])]

\* Under OneSplitUnitPerTimestamp every behaviour of the handlers, whatever is lost,
\* doubled, overtaken or late, is one of UnitChannel: a unit is handed out whole and once,
\* with its last packet, or given up for good, unless it was exposed, and no unit is mixed
\* with another or harmed by another.
ImplementsChannel == Channel!Spec
=============================================================================
