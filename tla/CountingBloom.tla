--------------------------- MODULE CountingBloom ----------------------------
(***************************************************************************)
(* One counting bloom filter (counting_bloom_t of dablooms.c) as a record  *)
(* [id, count, counter] and the operations on it.  A scaling filter holds  *)
(* one such filter per level; the level fixes its number of hash functions *)
(* and of counters per function.                                           *)
(*                                                                         *)
(* The counters are those of CounterArray, which the packed nibbles of     *)
(* Bitmap implement; CounterMax is 15 there and may be scaled down here.   *)
(***************************************************************************)
EXTENDS Integers

CONSTANTS Keys,           \* the keys the clients use
          H1, H2,         \* the two murmur words of a key
          WordSize,       \* 2^32: the hashes are computed in uint32_t
          CountModulus,   \* 2^32: counting_bloom_header_t.count is a uint32_t
          CounterMax,     \* 15: the largest value of a four-bit counter
          MaxBlooms,      \* bound: levels a scaling filter may grow to
          NFuncs,         \* nfuncs of each level
          CountsPerFunc   \* counts_per_func of each level

Levels == 1..MaxBlooms
Positive == Nat \ {0}

ASSUME WordAssumption ==
    /\ WordSize \in Positive
    /\ H1 \in [Keys -> 0..(WordSize - 1)]
    /\ H2 \in [Keys -> 0..(WordSize - 1)]
ASSUME CountAssumption == CountModulus \in Positive /\ CounterMax \in Positive
ASSUME LevelAssumption ==
    /\ MaxBlooms \in Positive
    /\ NFuncs \in [Levels -> Positive]
    /\ CountsPerFunc \in [Levels -> Positive]

\* hash_func: hashes[i], by double hashing in 32-bit arithmetic.
Hash(b, key, i) == ((H1[key] + i * H2[key]) % WordSize) % CountsPerFunc[b]

\* The counter of hash function i: each function owns a slice of the array.
Index(b, key, i) == Hash(b, key, i) + i * CountsPerFunc[b]

IndexesOf(b, key) == {Index(b, key, i) : i \in 0..(NFuncs[b] - 1)}

\* counting_bloom_t.size counters.
Counters(b) == 0..(NFuncs[b] * CountsPerFunc[b] - 1)

\* Filters as the header and the counters hold them.
BloomType(b) == [id : Nat,
                 count : 0..(CountModulus - 1),
                 counter : [Counters(b) -> 0..CounterMax]]

\* A level that was just mapped (ftruncate zeroes it) with its first id.
EmptyBloom(b, first) ==
    [id |-> first, count |-> 0, counter |-> [c \in Counters(b) |-> 0]]

\* bitmap_increment on every index of the key; a full counter stays full.
Incremented(b, bloom, key) ==
    [c \in Counters(b) |->
        IF c \in IndexesOf(b, key) /\ bloom.counter[c] < CounterMax
          THEN bloom.counter[c] + 1 ELSE bloom.counter[c]]

\* bitmap_decrement on every index of the key; a zero counter stays zero.
Decremented(b, bloom, key) ==
    [c \in Counters(b) |->
        IF c \in IndexesOf(b, key) /\ bloom.counter[c] > 0
          THEN bloom.counter[c] - 1 ELSE bloom.counter[c]]

\* Whether an add meets a full counter, whose refusal counting_bloom_add ignores.
Saturates(b, bloom, key) ==
    \E c \in IndexesOf(b, key) : bloom.counter[c] = CounterMax

\* counting_bloom_add.
CountingAdd(b, bloom, key) ==
    [id      |-> bloom.id,
     count   |-> (bloom.count + 1) % CountModulus,
     counter |-> Incremented(b, bloom, key)]

\* counting_bloom_remove: the count is a uint32_t and wraps below zero.
CountingRemove(b, bloom, key) ==
    [id      |-> bloom.id,
     count   |-> (bloom.count - 1) % CountModulus,
     counter |-> Decremented(b, bloom, key)]

\* counting_bloom_check.
CountingCheck(b, bloom, key) ==
    \A c \in IndexesOf(b, key) : bloom.counter[c] # 0
=============================================================================
