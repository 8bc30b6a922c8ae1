-------------------------- MODULE MembershipFilter --------------------------
(***************************************************************************)
(* What a scaling bloom filter promises to its client: a set of (key, id)  *)
(* entries that may be asked whether a key is in it, with false positives  *)
(* and, as long as the filter is exact, without false negatives.  An       *)
(* implementation says with exact when it no longer keeps that promise.    *)
(***************************************************************************)
EXTENDS Integers

CONSTANTS Keys, Ids

VARIABLES members,    \* the entries added and not removed
          reported,   \* the keys a check answers "yes" for
          exact       \* the counters still stand for the entries

vars == <<members, reported, exact>>

Entries == Keys \X Ids

KeysOf(entries) == {e[1] : e \in entries}

\* While exact: every live key is reported, and an empty filter reports none.
Promise(entries, answers, precise) ==
    precise => /\ KeysOf(entries) \subseteq answers
               /\ entries = {} => answers = {}

Init == /\ members = {}
        /\ reported = {}
        /\ exact = TRUE

\* An add turns no "yes" into a "no".
Add(e) ==
    /\ members' = members \cup {e}
    /\ reported' \in SUBSET Keys
    /\ reported \subseteq reported'
    /\ exact' \in BOOLEAN
    /\ exact' => exact
    /\ Promise(members', reported', exact')

\* A remove turns no "no" into a "yes"; removing what was never added is the
\* client's mistake and ends the promise.
Remove(e) ==
    /\ members' = members \ {e}
    /\ reported' \in SUBSET reported
    /\ exact' = (exact /\ e \in members)
    /\ Promise(members', reported', exact')

Next == \E e \in Entries : Add(e) \/ Remove(e)

Spec == Init /\ [][Next]_vars
=============================================================================
