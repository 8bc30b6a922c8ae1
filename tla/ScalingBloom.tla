---------------------------- MODULE ScalingBloom ----------------------------
(***************************************************************************)
(* The scaling counting bloom filter of dablooms.c as its callers see it:  *)
(* each call of the API is one step.  Entries are (key, id) pairs, the id  *)
(* chooses the level that counts the key, and a level is added when an     *)
(* entry with a new highest id finds the current one full.                 *)
(*                                                                         *)
(* Files, msync and crashes between the writes of a call are the subject   *)
(* of ScalingBloomDisk.                                                    *)
(***************************************************************************)
EXTENDS CountingBloom, Sequences, FiniteSets

CONSTANTS Capacity,      \* entries a level is dimensioned for
          Ids,           \* the ids the clients use
          MaxSeqnum      \* bound: the mem_seqnum at which changes stop

ASSUME CapacityAssumption == Capacity \in Nat /\ Capacity >= 2
ASSUME IdAssumption == Ids \subseteq Nat
ASSUME BoundAssumption == MaxSeqnum \in Nat

VARIABLES header,     \* scaling_bloom_header_t: max_id, mem_seqnum, disk_seqnum
          blooms,     \* the levels, oldest first
          members,    \* history: the entries added and not removed
          saturated,  \* history: an add met a full counter
          strayed,    \* history: an entry was removed that was not there
          ordered     \* history: every add had a new highest id

vars == <<header, blooms, members, saturated, strayed, ordered>>

Entries == Keys \X Ids

-----------------------------------------------------------------------------
\* Mutant: the newest level takes every entry.
RouteNewest(bs, id) == Len(bs)

\* The level of an id: the newest one whose first id does not exceed it, and
\* the oldest when there is none (the loops of scaling_bloom_add and _remove).
Route(bs, id) ==
    LET fits == {b \in 1..Len(bs) : bs[b].id <= id}
    IN  IF fits = {} THEN 1 ELSE CHOOSE b \in fits : \A c \in fits : c <= b

\* The header after a change: scaling_bloom_clear_seqnums clears both seqnums,
\* and the caller stores the next mem_seqnum at the end.
Changed(max_id) == [max_id |-> max_id,
                    mem_seqnum |-> header.mem_seqnum + 1,
                    disk_seqnum |-> 0]

\* Mutant: a full level is full for late ids as well.
MustScaleAlways(id) ==
    blooms[Route(blooms, id)].count >= Capacity - 1

\* Mutant: off by one.
MustScaleLate(id) ==
    /\ id > header.max_id
    /\ blooms[Route(blooms, id)].count >= Capacity

\* Only an entry with a new highest id opens a level, and only when the level
\* it would go to holds Capacity - 1 entries.
MustScale(id) ==
    /\ id > header.max_id
    /\ blooms[Route(blooms, id)].count >= Capacity - 1

\* Mutant: the new level starts at the last id of the old one.
ScaledFromMax == Append(blooms, EmptyBloom(Len(blooms) + 1, header.max_id))

\* new_counting_bloom_from_scale and the header fields scaling_bloom_add sets.
Scaled == Append(blooms, EmptyBloom(Len(blooms) + 1, header.max_id + 1))

-----------------------------------------------------------------------------
\* new_scaling_bloom: an empty file with one level.
Init == /\ header = [max_id |-> 0, mem_seqnum |-> 1, disk_seqnum |-> 0]
        /\ blooms = <<EmptyBloom(1, 0)>>
        /\ members = {}
        /\ saturated = FALSE
        /\ strayed = FALSE
        /\ ordered = TRUE

\* scaling_bloom_add.  An entry is added once until it is removed.
Add(key, id) ==
    LET grown == IF MustScale(id) THEN Scaled ELSE blooms
        b     == IF MustScale(id) THEN Len(grown) ELSE Route(blooms, id)
    IN  /\ header.mem_seqnum < MaxSeqnum
        /\ MustScale(id) => Len(blooms) < MaxBlooms
        /\ <<key, id>> \notin members
        /\ blooms' = [grown EXCEPT ![b] = CountingAdd(b, @, key)]
        /\ header' = Changed(IF header.max_id < id THEN id ELSE header.max_id)
        /\ members' = members \cup {<<key, id>>}
        /\ saturated' = (saturated \/ Saturates(b, grown[b], key))
        /\ ordered' = (ordered /\ id > header.max_id)
        /\ UNCHANGED strayed

\* scaling_bloom_remove; nothing stops a client from removing what it never added.
Remove(key, id) ==
    LET b == Route(blooms, id)
    IN  /\ header.mem_seqnum < MaxSeqnum
        /\ blooms[b].id <= id
        /\ blooms' = [blooms EXCEPT ![b] = CountingRemove(b, @, key)]
        /\ header' = Changed(header.max_id)
        /\ members' = members \ {<<key, id>>}
        /\ strayed' = (strayed \/ <<key, id>> \notin members)
        /\ UNCHANGED <<saturated, ordered>>

\* scaling_bloom_flush, when msync succeeds.
Flush ==
    /\ header' = [header EXCEPT
                     !.disk_seqnum = IF @ = 0 THEN header.mem_seqnum ELSE @]
    /\ UNCHANGED <<blooms, members, saturated, strayed, ordered>>

Next == \/ \E key \in Keys, id \in Ids : Add(key, id) \/ Remove(key, id)
        \/ Flush

Spec == Init /\ [][Next]_vars

\* Mutant: only the newest level is asked.
ScalingCheckNewest(key) == CountingCheck(Len(blooms), blooms[Len(blooms)], key)

\* scaling_bloom_check: whether any level reports the key.
ScalingCheck(key) ==
    \E b \in 1..Len(blooms) : CountingCheck(b, blooms[b], key)

-----------------------------------------------------------------------------
\* The shape of the file: one well-formed level after another, never more than
\* the bound, counters within their four bits, counts within their word.
TypeOK ==
    /\ header \in [max_id : Nat, mem_seqnum : Nat, disk_seqnum : Nat]
    /\ Len(blooms) \in Levels
    /\ \A b \in 1..Len(blooms) : blooms[b] \in BloomType(b)
    /\ members \subseteq Entries
    /\ saturated \in BOOLEAN
    /\ strayed \in BOOLEAN
    /\ ordered \in BOOLEAN

\* The entries a level counts, and those among them that touch a counter.
Stored(b) == {e \in members : Route(blooms, e[2]) = b}
Touching(b, c) == {e \in Stored(b) : c \in IndexesOf(b, e[1])}

\* While no counter was full and nothing absent was removed, every counter is
\* the number of live entries of its level that hash to it
\* (counting_bloom_add, counting_bloom_remove and the routing of both).
CountersExact ==
    ~saturated /\ ~strayed =>
        \A b \in 1..Len(blooms) : \A c \in Counters(b) :
            blooms[b].counter[c] = Cardinality(Touching(b, c))

\* No false negatives (scaling_bloom_check) while the counters are exact.
NoFalseNegative ==
    ~saturated /\ ~strayed => \A e \in members : ScalingCheck(e[1])

\* An entry is looked for where it was stored: no step moves a live entry to
\* another level, though new levels open above it (scaling_bloom_add).
RoutingStable ==
    [][\A e \in members \cap members' :
           Route(blooms', e[2]) = Route(blooms, e[2])]_vars

\* When entries come in the order of their ids, no level is filled beyond what
\* its error rate was computed for (the capacity test of scaling_bloom_add).
FillBound ==
    ordered /\ ~strayed => \A b \in 1..Len(blooms) : blooms[b].count < Capacity

\* The filter keeps the promise of a membership filter: the implementation
\* relation to MembershipFilter.
Filter == INSTANCE MembershipFilter
              WITH reported <- {key \in Keys : ScalingCheck(key)},
                   exact <- ~saturated /\ ~strayed

\* Adds never hide a key, removes never invent one, and an exact filter misses
\* no live entry and is empty when all entries are gone (the dablooms API).
KeepsPromise == Filter!Spec
=============================================================================
