---------------------------- MODULE CounterArray ----------------------------
(***************************************************************************)
(* What a bitmap_t promises to the counting bloom filters built on it: an  *)
(* array of independent counters in 0..15.  A counter at 15 refuses the    *)
(* increment and a counter at 0 refuses the decrement; neither refusal     *)
(* touches any counter.                                                    *)
(***************************************************************************)
EXTENDS Integers

CONSTANTS Indexes    \* the counter indexes in use

VARIABLES counter,   \* counter[i]: the value of counter i
          result     \* what the last operation returned

vars == <<counter, result>>

Results == {"none", "ok", "error", "zero", "nonzero"}

Init == /\ counter = [i \in Indexes |-> 0]
        /\ result = "none"

Increment(i) ==
    IF counter[i] = 15
      THEN result' = "error" /\ UNCHANGED counter
      ELSE result' = "ok" /\ counter' = [counter EXCEPT ![i] = @ + 1]

Decrement(i) ==
    IF counter[i] = 0
      THEN result' = "error" /\ UNCHANGED counter
      ELSE result' = "ok" /\ counter' = [counter EXCEPT ![i] = @ - 1]

Check(i) ==
    /\ result' = IF counter[i] = 0 THEN "zero" ELSE "nonzero"
    /\ UNCHANGED counter

Next == \E i \in Indexes : Increment(i) \/ Decrement(i) \/ Check(i)

Spec == Init /\ [][Next]_vars
=============================================================================
