---------------------------- MODULE AbstractMap ----------------------------
(***************************************************************************)
(* What EnumerableMap promises: a partial function from keys to values,    *)
(* zero being a value like any other.  A key that is set again keeps one   *)
(* entry; each call tells whether the keys changed.                        *)
(***************************************************************************)
CONSTANTS Key, Datum
VARIABLES entries, result

vars == <<entries, result>>

Init == entries = [k \in {} |-> 0] /\ result = FALSE

Put(key, value) ==
    /\ entries' = [k \in DOMAIN entries \cup {key} |->
                      IF k = key THEN value ELSE entries[k]]
    /\ result' = (key \notin DOMAIN entries)

Drop(key) ==
    /\ entries' = [k \in DOMAIN entries \ {key} |-> entries[k]]
    /\ result' = (key \in DOMAIN entries)

Next == \E key \in Key : Drop(key) \/ \E value \in Datum : Put(key, value)

Spec == Init /\ [][Next]_vars
=============================================================================
