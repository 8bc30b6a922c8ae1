------------------------------ MODULE CodeTable -----------------------------
(***************************************************************************)
(* What getCode promises its callers: an atomic look-up in a table that    *)
(* gives a segment a code nobody else has the first time it is asked for,  *)
(* and the same code until the process ends and the table with it.         *)
(***************************************************************************)
EXTENDS Integers

CONSTANTS Callers, Segments, Codes, None

VARIABLES table,    \* the code of each segment, or None
          query     \* what each caller is doing

vars == <<table, query>>

Idle == [state |-> "idle", seg |-> None, code |-> None]
Asked(s) == [state |-> "asked", seg |-> s, code |-> None]
Answered(s, c) == [state |-> "answered", seg |-> s, code |-> c]

Init == /\ table = [s \in Segments |-> None]
        /\ query = [t \in Callers |-> Idle]

Ask(t, s) == /\ query[t] = Idle
             /\ query' = [query EXCEPT ![t] = Asked(s)]
             /\ UNCHANGED table

\* A code no segment has had so far.
Fresh(c) == \A s \in Segments : table[s] # c

\* The one step in which a call takes effect.
Answer(t, s) ==
    /\ query[t] = Asked(s)
    /\ IF table[s] = None
         THEN \E c \in Codes : Fresh(c) /\ table' = [table EXCEPT ![s] = c]
         ELSE UNCHANGED table
    /\ query' = [query EXCEPT ![t] = Answered(s, table'[s])]

Take(t) == /\ query[t].state = "answered"
           /\ query' = [query EXCEPT ![t] = Idle]
           /\ UNCHANGED table

\* The process ends, and another one starts.
Forget == /\ table' = [s \in Segments |-> None]
          /\ query' = [t \in Callers |-> Idle]

Next == \/ Forget
        \/ \E t \in Callers : \/ \E s \in Segments : Ask(t, s) \/ Answer(t, s)
                              \/ Take(t)

Spec == Init /\ [][Next]_vars
=============================================================================
