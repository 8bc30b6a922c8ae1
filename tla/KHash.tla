------------------------------- MODULE KHash -------------------------------
(***************************************************************************)
(* khash.h, the open-addressing hash table of bloomd and binary-loader-c,  *)
(* behind hash.c, its wrapper for strings.  (The khash.h of bloomd is the  *)
(* same file.)                                                             *)
(*                                                                         *)
(* A table has a power of two of buckets.  A bucket is empty, deleted or   *)
(* live; a search follows the triangular numbers from the hash of its key  *)
(* and ends at the key or at an empty bucket, so there must always be one. *)
(* A deleted bucket is no longer live and not yet empty.  When too few are *)
(* empty, put rehashes in place: every key is moved to its new bucket, and *)
(* kicks out the key that lives there, which is moved next.                *)
(*                                                                         *)
(* Equality of keys is equality of strings; memory and its addresses are   *)
(* left out, but an allocation may fail.                                   *)
(***************************************************************************)
EXTENDS Integers, FiniteSets

CONSTANTS
    Keys, Vals,
    HashFunc,     \* __hash_func, as a function on the keys
    MaxBuckets,   \* bound: the tables that are grown to
    MaxFailures   \* bound: the allocations that fail

ASSUME HashFuncAssumption == HashFunc \in [Keys -> Nat]

VARIABLES
    table,    \* the table: [n, bucket, size, occupied, upper]
    overrun,  \* a value was written past the end of vals
    failures

tableVars == <<table, overrun, failures>>
-----------------------------------------------------------------------------
Empty   == <<"empty">>     \* flag 2
Deleted == <<"deleted">>   \* flag 1

IsLive(x) == x # Empty /\ x # Deleted

\* kh_init: no buckets yet.
NewTable == [n |-> 0, bucket |-> [i \in {} |-> Empty], size |-> 0, occupied |-> 0, upper |-> 0]

NoBuckets(n) == [i \in 0..(n - 1) |-> Empty]

\* (khint_t) (n * __ac_HASH_UPPER + 0.5).
UpperBound(n) == ((77 * n) + 50) \div 100

\* The powers of two a khint_t holds.
Pow2[x \in 0..31] == IF x = 0 THEN 1 ELSE 2 * Pow2[x - 1]

ASSUME BoundsAssumption == MaxBuckets \in 0..Pow2[30] /\ MaxFailures \in Nat

\* kroundup32, and at least 4.
RoundUp(n) ==
    IF n <= 4 THEN 4 ELSE Pow2[CHOOSE x \in 3..31 : Pow2[x - 1] < n /\ n <= Pow2[x]]

\* Where step j of a search for key k looks: the buckets i, i + 1, i + 1 + 2 ...
\* After 2n - 1 steps, and not before, it is back where it started.
Probe(n, k, j) == (HashFunc[k] + ((j * (j + 1)) \div 2)) % n

\* Mutant: a deleted bucket ends a search.
EndsEarly(x, k) == ~IsLive(x) \/ x[1] = k
Ends(x, k) == x = Empty \/ (IsLive(x) /\ x[1] = k)

\* The step at which a search in the buckets b ends: 2n - 1 when it went round.
Stop(n, b, k) ==
    CHOOSE j \in 0..((2 * n) - 1) :
        /\ j = (2 * n) - 1 \/ Ends(b[Probe(n, k, j)], k)
        /\ \A m \in 0..(j - 1) : ~Ends(b[Probe(n, k, m)], k)

\* kh_get: the bucket of k, or n when there is none.
Lookup(h, k) ==
    IF h.n = 0 THEN 0
    ELSE LET j == Stop(h.n, h.bucket, k)
             i == Probe(h.n, k, j)
         IN  IF j < (2 * h.n) - 1 /\ IsLive(h.bucket[i]) THEN i ELSE h.n

\* hash_has, hash_get.
Has(h, k) == Lookup(h, k) # h.n
Get(h, k) == h.bucket[Lookup(h, k)][2]
-----------------------------------------------------------------------------
(* kh_resize, to a size that is not smaller: put asks for no other.        *)

\* The first bucket of a search for k that is empty.
FirstEmpty(n, b, k) ==
    Probe(n, k, CHOOSE j \in 0..((2 * n) - 2) :
        /\ b[Probe(n, k, j)] = Empty
        /\ \A m \in 0..(j - 1) : b[Probe(n, k, m)] # Empty)

\* The old bucket i is emptied when it has an entry: it is marked deleted.
Taken(old, i) == IF i \in DOMAIN old /\ IsLive(old[i]) THEN old[i] ELSE Empty
Left(old, i)  == IF i \in DOMAIN old /\ IsLive(old[i]) THEN [old EXCEPT ![i] = Deleted] ELSE old

\* A turn of the rehashing r: with no entry in hand the next old bucket is taken;
\* an entry in hand is put where the new table of n buckets wants it, and the
\* entry that the old table still has there is the next one in hand.
Turn(r, n) ==
    IF r.hand = Empty
    THEN [j |-> r.j + 1, old |-> Left(r.old, r.j), new |-> r.new, hand |-> Taken(r.old, r.j)]
    ELSE LET i == FirstEmpty(n, r.new, r.hand[1])
         IN  [j |-> r.j, old |-> Left(r.old, i), new |-> [r.new EXCEPT ![i] = r.hand],
              hand |-> Taken(r.old, i)]

\* Two turns for every bucket of the old table, one to take and one to put.
Rehashed(h, n) ==
    LET Run[m \in 0..(2 * h.n)] ==
            IF m = 0 THEN [j |-> 0, old |-> h.bucket, new |-> NoBuckets(n), hand |-> Empty]
            ELSE Turn(Run[m - 1], n)
    IN  Run[2 * h.n].new

Resize(h, asked) ==
    LET n == RoundUp(asked)
    IN  IF h.size >= UpperBound(n) THEN h    \* "requested size is too small"
        ELSE [n |-> n, bucket |-> Rehashed(h, n), size |-> h.size,
              occupied |-> h.size, upper |-> UpperBound(n)]

\* Mutant: a table is grown only when it is full of live keys.
NeverFull(h) == h.size >= h.upper
Full(h) == h.occupied >= h.upper

\* What put makes of the table before it looks for a bucket: with many deleted
\* buckets it asks for one bucket less, which rounds up to as many as before.
Asked(h)  == IF h.n > 2 * h.size THEN h.n - 1 ELSE h.n + 1
Ready(h)  == IF Full(h) THEN Resize(h, Asked(h)) ELSE h
-----------------------------------------------------------------------------
(* kh_put: where the key is or goes.  The last deleted bucket on the way is *)
(* reused, unless the key is found behind it.                              *)
Site(h, k) ==
    LET n    == h.n
        stop == Stop(n, h.bucket, k)
        here == Probe(n, k, stop)
        Dead(j) == h.bucket[Probe(n, k, j)] = Deleted
    IN  IF (stop = (2 * n) - 1 \/ h.bucket[here] = Empty) /\ \E j \in 0..(stop - 1) : Dead(j)
        THEN Probe(n, k, CHOOSE j \in 0..(stop - 1) :
                             Dead(j) /\ \A m \in (j + 1)..(stop - 1) : ~Dead(m))
        ELSE here

\* kh_put and the assignment of the value by its caller.  *ret is 0 for a key
\* that is present, 1 for an empty bucket, 2 for a deleted one.
Ret(h, k) == LET x == h.bucket[Site(h, k)]
             IN  IF x = Empty THEN 1 ELSE IF x = Deleted THEN 2 ELSE 0

PutValue(h, k, v) ==
    LET i == Site(h, k)
        r == Ret(h, k)
    IN  [h EXCEPT !.bucket[i] = <<IF r = 0 THEN @[1] ELSE k, v>>,
                  !.size = IF r = 0 THEN @ ELSE @ + 1,
                  !.occupied = IF r = 1 THEN @ + 1 ELSE @]

\* kh_del.
Erase(h, k) ==
    IF Has(h, k) THEN [h EXCEPT !.bucket[Lookup(h, k)] = Deleted, !.size = @ - 1] ELSE h

\* kh_clear: the buckets stay.
Cleared(h) == [h EXCEPT !.bucket = [i \in DOMAIN h.bucket |-> Empty], !.size = 0, !.occupied = 0]
-----------------------------------------------------------------------------
TableInit == table = NewTable /\ overrun = FALSE /\ failures = 0

\* hash_set.
Set(k, v) ==
    LET h == Ready(table) IN
    /\ ~overrun /\ h.n <= MaxBuckets
    /\ table' = PutValue(h, k, v)
    /\ UNCHANGED <<overrun, failures>>

\* hash_set when the resizing finds no memory: kh_put answers -1 and the end of
\* the table, where hash_set, which does not look at the -1, writes the value.
SetFails ==
    /\ ~overrun /\ Full(table) /\ failures < MaxFailures
    /\ overrun' = TRUE /\ failures' = failures + 1
    /\ UNCHANGED table

\* hash_del.
Del(k) == ~overrun /\ table' = Erase(table, k) /\ UNCHANGED <<overrun, failures>>

\* hash_clear.
Clear == ~overrun /\ table' = Cleared(table) /\ UNCHANGED <<overrun, failures>>

TableNext == \/ \E k \in Keys : Del(k) \/ \E v \in Vals : Set(k, v)
             \/ SetFails
             \/ Clear

TableSpec == TableInit /\ [][TableNext]_tableVars
-----------------------------------------------------------------------------
(* A search ends: some bucket is empty as long as there are any, although  *)
(* deletions never empty one.  The counters say what the buckets hold, and *)
(* no key is live in two of them: hash_each visits every key once.         *)
SearchEnds ==
    /\ table.n > 0 => \E i \in DOMAIN table.bucket : table.bucket[i] = Empty
    /\ table.size = Cardinality({i \in DOMAIN table.bucket : IsLive(table.bucket[i])})
    /\ table.occupied = Cardinality({i \in DOMAIN table.bucket : table.bucket[i] # Empty})
    /\ \A i, j \in DOMAIN table.bucket :
          /\ IsLive(table.bucket[i]) /\ IsLive(table.bucket[j])
          /\ table.bucket[i][1] = table.bucket[j][1]
          => i = j

(* The table is a map: what hash_get finds, through all the deletions,     *)
(* reuses and rehashings, is what was set last and not removed.            *)
Map == INSTANCE Dictionary
    WITH map <- [k \in {x \in Keys : Has(table, x)} |-> Get(table, k)]
ImplementsMap == Map!Spec
=============================================================================
