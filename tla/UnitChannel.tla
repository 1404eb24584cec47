----------------------------- MODULE UnitChannel -----------------------------
(***************************************************************************)
(* What the receiving side of a media format promises, with sequence       *)
(* numbers, timestamps and the entries of half-built frames hidden: a      *)
(* channel of units that are sent in packets. A unit whose packets come    *)
(* once each, in an order it can stand, is handed out whole and once, in   *)
(* the very step in which its last packet comes, or is given up for good   *)
(* while a packet is missing. A unit that was exposed may be handed out in *)
(* any shape, but never mixed with another, and never changes what becomes *)
(* of another.                                                             *)
(***************************************************************************)
EXTENDS Naturals, Sequences

VARIABLES
    packets,   \* unit -> the packets it is sent in, numbered in their order (never changes)
    copies,    \* unit -> how many NAL units the user is to get from it (never changes)
    order,     \* unit -> it can stand "any" order, must have its "first first", or can
               \* stand "none" (never changes)
    missing,   \* unit -> its packets that have not come
    standing,  \* unit -> "kept", "exposed" or "given up"
    output     \* what the user has been given: of which units, and is it one of them, whole?

fixedVars == <<packets, copies, order>>
vars == <<fixedVars, missing, standing, output>>

Units == DOMAIN packets
Item(u, whole) == [units |-> {u}, whole |-> whole]

Init ==
    /\ missing = packets
    /\ standing = [u \in Units |-> "kept"]
    /\ output = <<>>

\* A packet of u has come, for the first time or again.
Comes(u, p) == p \in packets[u] /\ missing' = [missing EXCEPT ![u] = @ \ {p}]

Receive(u, p) ==
    /\ standing[u] = "kept" /\ p \in missing[u] /\ Comes(u, p)
    /\ output' = output \o [i \in 1..(IF missing[u] = {p} THEN copies[u] ELSE 0) |-> Item(u, TRUE)]
    /\ UNCHANGED <<fixedVars, standing>>

GiveUp(u, p) ==
    /\ standing[u] # "given up" /\ Comes(u, p)
    /\ standing[u] = "kept" => missing[u] \ {p} # {}
    /\ standing' = [standing EXCEPT ![u] = "given up"]
    /\ UNCHANGED <<fixedVars, output>>

Refuse(u, p) ==
    /\ standing[u] = "given up" /\ Comes(u, p)
    /\ UNCHANGED <<fixedVars, standing, output>>

\* What exposes a unit: a packet that comes again, or before the first when that matters.
Exposes(u, p) ==
    \/ standing[u] = "exposed"
    \/ order[u] = "none"
    \/ p \notin missing[u]
    \/ order[u] = "first first" /\ missing[u] = packets[u] /\ \E q \in packets[u] : q < p

Disturb(u, p) ==
    /\ standing[u] # "given up" /\ Comes(u, p) /\ Exposes(u, p)
    /\ standing' = [standing EXCEPT ![u] = "exposed"]
    /\ \E n \in {0, copies[u]} : \E whole \in [1..n -> BOOLEAN] :
          output' = output \o [i \in 1..n |-> Item(u, whole[i])]
    /\ UNCHANGED fixedVars

Next ==
    \E u \in Units : \E p \in packets[u] :
        Receive(u, p) \/ GiveUp(u, p) \/ Refuse(u, p) \/ Disturb(u, p)

Spec == Init /\ [][Next]_vars
=============================================================================
