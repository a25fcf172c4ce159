------------------------------ MODULE MCSyncDeps ------------------------------
(***************************************************************************)
(* Two k6 versions: the newer has moved a on.  k6 lists neither x nor y.   *)
(* a and x follow each other, and only the old x needs y: when a goes up x *)
(* goes up, and when a goes down x goes down and pulls y up.               *)
(***************************************************************************)
EXTENDS SyncDeps

MCModules == {"k6", "a", "b", "x", "y"}
Needing(a, b, x, y) == [k6 |-> 0, a |-> a, b |-> b, x |-> x, y |-> y]
MCK6Mods == <<Needing(1, 2, 0, 0), Needing(2, 2, 0, 0)>>
MCNeeds ==
    [k6 |-> <<Needing(1, 2, 0, 0), Needing(2, 2, 2, 0)>>,
     a  |-> <<Needing(0, 0, 0, 0), Needing(2, 0, 2, 0)>>,
     b  |-> <<Needing(0, 0, 0, 0), Needing(1, 0, 0, 0)>>,
     x  |-> <<Needing(1, 0, 0, 2), Needing(2, 0, 2, 0)>>,
     y  |-> <<Needing(0, 0, 0, 0), Needing(0, 0, 0, 0)>>]
==============================================================================
