---------------------------- MODULE AbstractSet ----------------------------
(***************************************************************************)
(* What EnumerableSet promises: a set that elements are added to and       *)
(* removed from, each call telling whether it changed the set.             *)
(***************************************************************************)
CONSTANT Element
VARIABLES elements, result

vars == <<elements, result>>

Init == elements = {} /\ result = FALSE

Add(e) ==
    /\ elements' = elements \cup {e}
    /\ result' = (e \notin elements)

Remove(e) ==
    /\ elements' = elements \ {e}
    /\ result' = (e \in elements)

Next == \E e \in Element : Add(e) \/ Remove(e)

Spec == Init /\ [][Next]_vars
=============================================================================
