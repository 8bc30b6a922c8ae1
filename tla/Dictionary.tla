----------------------------- MODULE Dictionary -----------------------------
(***************************************************************************)
(* What hash.h promises: a map from keys to values that can be set, get,   *)
(* removed one by one, and emptied.                                        *)
(***************************************************************************)
EXTENDS Integers

CONSTANTS Keys, Vals

VARIABLE map    \* a function on the keys that have a value

vars == map

Init == map = [k \in {} |-> 0]

Set(k, v) == map' = [l \in DOMAIN map \cup {k} |-> IF l = k THEN v ELSE map[l]]
Del(k)    == map' = [l \in DOMAIN map \ {k} |-> map[l]]
Clear     == map' = [l \in {} |-> 0]

Next == Clear \/ \E k \in Keys : Del(k) \/ \E v \in Vals : Set(k, v)

Spec == Init /\ [][Next]_vars
=============================================================================
