------------------------- MODULE ScalingBloomProofs -------------------------
(***************************************************************************)
(* Type correctness, the stability of the routing of ids to levels, the    *)
(* exactness of the counters and the absence of false negatives, for every *)
(* number of keys, ids and levels, every hash and every dimension.         *)
(***************************************************************************)
EXTENDS ScalingBloom, FiniteSetTheorems, TLAPS

\* A remainder lies below its divisor.
LEMMA ModRange == \A x \in Int, m \in Positive : x % m \in 0..(m - 1)
  BY DEF Positive

\* A slot of a slice lies below the end of the last slice.
LEMMA SliceBound ==
    \A n, p \in Positive : \A i \in 0..(n - 1), h \in 0..(p - 1) :
        h + i * p \in 0..(n * p - 1)
<1> SUFFICES ASSUME NEW n \in Positive, NEW p \in Positive,
                    NEW i \in 0..(n - 1), NEW h \in 0..(p - 1)
             PROVE  h + i * p \in 0..(n * p - 1)
  OBVIOUS
<1>1. PICK k \in Nat : n = i + 1 + k
  <2>1. n - i - 1 \in Nat /\ n = i + 1 + (n - i - 1)
    BY DEF Positive
  <2> QED  BY <2>1
<1>2. n * p = i * p + p + k * p
  BY <1>1 DEF Positive
<1>3. i * p \in Nat /\ k * p \in Nat
  BY <1>1 DEF Positive
<1> QED  BY <1>2, <1>3 DEF Positive

\* hash_func and the slice offsets of counting_bloom_add stay inside the array.
LEMMA IndexInRange ==
    \A b \in Levels, key \in Keys : IndexesOf(b, key) \subseteq Counters(b)
<1> SUFFICES ASSUME NEW b \in Levels, NEW key \in Keys,
                    NEW i \in 0..(NFuncs[b] - 1)
             PROVE  Index(b, key, i) \in Counters(b)
  BY DEF IndexesOf
<1>1. NFuncs[b] \in Positive /\ CountsPerFunc[b] \in Positive
  BY LevelAssumption
<1>2. H1[key] \in Int /\ H2[key] \in Int /\ WordSize \in Positive
  BY WordAssumption DEF Positive
<1>3. i \in Int
  BY <1>1 DEF Positive
<1>4. (H1[key] + i * H2[key]) % WordSize \in Int
  <2>1. H1[key] + i * H2[key] \in Int
    BY <1>2, <1>3
  <2> QED  BY <2>1, <1>2, ModRange DEF Positive
<1>5. Hash(b, key, i) \in 0..(CountsPerFunc[b] - 1)
  BY <1>4, <1>1, ModRange DEF Hash
<1> QED  BY <1>5, <1>1, SliceBound DEF Index, Counters

\* No two hash functions of a key share a counter: a call that visits the
\* indexes one after the other changes each counter at most once.
LEMMA IndexInjective ==
    ASSUME NEW b \in Levels, NEW key \in Keys,
           NEW i \in 0..(NFuncs[b] - 1), NEW j \in 0..(NFuncs[b] - 1), i # j
    PROVE  Index(b, key, i) # Index(b, key, j)
<1>1. NFuncs[b] \in Positive /\ CountsPerFunc[b] \in Positive
  BY LevelAssumption
<1>2. ASSUME NEW x \in 0..(NFuncs[b] - 1) PROVE Hash(b, key, x) \in 0..(CountsPerFunc[b] - 1)
  <2>1. H1[key] \in Int /\ H2[key] \in Int /\ WordSize \in Positive /\ x \in Int
    BY WordAssumption, <1>1 DEF Positive
  <2>2. H1[key] + x * H2[key] \in Int
    BY <2>1
  <2>3. (H1[key] + x * H2[key]) % WordSize \in Int
    BY <2>1, <2>2, ModRange DEF Positive
  <2> QED  BY <2>3, <1>1, ModRange DEF Hash
<1>3. ASSUME NEW p \in Positive, NEW x \in Nat, NEW y \in Nat, x < y,
             NEW h \in 0..(p - 1), NEW g \in Nat
      PROVE  h + x * p < g + y * p
  <2>1. PICK k \in Nat : y = x + 1 + k
    <3>1. y - x - 1 \in Nat /\ y = x + 1 + (y - x - 1)
      BY <1>3
    <3> QED  BY <3>1
  <2>2. y * p = x * p + p + k * p
    BY <2>1 DEF Positive
  <2>3. x * p \in Nat /\ k * p \in Nat
    BY <2>1 DEF Positive
  <2> QED  BY <2>2, <2>3 DEF Positive
<1>4. /\ Hash(b, key, i) \in 0..(CountsPerFunc[b] - 1)
      /\ Hash(b, key, j) \in 0..(CountsPerFunc[b] - 1)
  BY <1>2
<1>5. i \in Nat /\ j \in Nat
  BY <1>1 DEF Positive
<1>6. CASE i < j
  <2>1. Hash(b, key, i) + i * CountsPerFunc[b] < Hash(b, key, j) + j * CountsPerFunc[b]
    BY <1>1, <1>3, <1>4, <1>5, <1>6 DEF Positive
  <2>2. i * CountsPerFunc[b] \in Nat /\ j * CountsPerFunc[b] \in Nat
    BY <1>1, <1>5 DEF Positive
  <2> QED  BY <1>1, <1>4, <2>1, <2>2 DEF Index, Positive
<1>7. CASE j < i
  <2>1. Hash(b, key, j) + j * CountsPerFunc[b] < Hash(b, key, i) + i * CountsPerFunc[b]
    BY <1>1, <1>3, <1>4, <1>5, <1>7 DEF Positive
  <2>2. i * CountsPerFunc[b] \in Nat /\ j * CountsPerFunc[b] \in Nat
    BY <1>1, <1>5 DEF Positive
  <2> QED  BY <1>1, <1>4, <2>1, <2>2 DEF Index, Positive
<1> QED  BY <1>5, <1>6, <1>7

-----------------------------------------------------------------------------
(* The operations on one level.                                            *)

\* A level that was just opened is well formed.
LEMMA EmptyBloomType ==
    \A b \in Levels, first \in Nat : EmptyBloom(b, first) \in BloomType(b)
  BY CountAssumption DEF EmptyBloom, BloomType, Positive

\* counting_bloom_add keeps a level well formed and leaves its first id alone.
LEMMA CountingAddType ==
    \A b \in Levels, key \in Keys : \A bloom \in BloomType(b) :
        /\ CountingAdd(b, bloom, key) \in BloomType(b)
        /\ CountingAdd(b, bloom, key).id = bloom.id
        /\ CountingAdd(b, bloom, key).counter = Incremented(b, bloom, key)
<1> SUFFICES ASSUME NEW b \in Levels, NEW key \in Keys, NEW bloom \in BloomType(b)
             PROVE  /\ CountingAdd(b, bloom, key) \in BloomType(b)
                    /\ CountingAdd(b, bloom, key).id = bloom.id
                    /\ CountingAdd(b, bloom, key).counter = Incremented(b, bloom, key)
  OBVIOUS
<1>1. Incremented(b, bloom, key) \in [Counters(b) -> 0..CounterMax]
  BY CountAssumption DEF Incremented, BloomType, Positive
<1>2. (bloom.count + 1) % CountModulus \in 0..(CountModulus - 1)
  <2>1. bloom.count + 1 \in Int
    BY DEF BloomType
  <2> QED  BY <2>1, ModRange, CountAssumption
<1> QED  BY <1>1, <1>2 DEF CountingAdd, BloomType

\* The same for counting_bloom_remove.
LEMMA CountingRemoveType ==
    \A b \in Levels, key \in Keys : \A bloom \in BloomType(b) :
        /\ CountingRemove(b, bloom, key) \in BloomType(b)
        /\ CountingRemove(b, bloom, key).id = bloom.id
        /\ CountingRemove(b, bloom, key).counter = Decremented(b, bloom, key)
<1> SUFFICES ASSUME NEW b \in Levels, NEW key \in Keys, NEW bloom \in BloomType(b)
             PROVE  /\ CountingRemove(b, bloom, key) \in BloomType(b)
                    /\ CountingRemove(b, bloom, key).id = bloom.id
                    /\ CountingRemove(b, bloom, key).counter = Decremented(b, bloom, key)
  OBVIOUS
<1>1. Decremented(b, bloom, key) \in [Counters(b) -> 0..CounterMax]
  BY CountAssumption DEF Decremented, BloomType, Positive
<1>2. (bloom.count - 1) % CountModulus \in 0..(CountModulus - 1)
  <2>1. bloom.count - 1 \in Int
    BY DEF BloomType
  <2> QED  BY <2>1, ModRange, CountAssumption
<1> QED  BY <1>1, <1>2 DEF CountingRemove, BloomType

-----------------------------------------------------------------------------
(* Routing.  It depends on the first ids of the levels only.               *)

\* Filters of any level.
AnyBloom == UNION {BloomType(b) : b \in Levels}

\* Level b is the newest one whose first id does not exceed id.
IsRoute(bs, id, b) ==
    /\ b \in 1..Len(bs)
    /\ bs[b].id <= id
    /\ \A c \in 1..Len(bs) : bs[c].id <= id => c <= b

\* The loops of scaling_bloom_add and scaling_bloom_remove find that level.
LEMMA RouteIs ==
    ASSUME NEW bs, Len(bs) \in Nat, NEW id, NEW b, IsRoute(bs, id, b)
    PROVE  Route(bs, id) = b
<1> DEFINE fits == {c \in 1..Len(bs) : bs[c].id <= id}
<1>1. b \in fits /\ \A c \in fits : c <= b
  BY DEF IsRoute
<1>2. \A d \in fits : (\A c \in fits : c <= d) => d = b
  BY <1>1
<1>3. (CHOOSE d \in fits : \A c \in fits : c <= d) = b
  <2> HIDE DEF fits
  <2> QED  BY <1>1, <1>2
<1> QED  BY <1>1, <1>3 DEF Route

\* Changing a level other than in its first id keeps every route.
LEMMA RouteSame ==
    ASSUME NEW bs, NEW cs, Len(cs) = Len(bs), NEW id, NEW b,
           \A c \in 1..Len(bs) : cs[c].id = bs[c].id, IsRoute(bs, id, b)
    PROVE  IsRoute(cs, id, b)
  BY DEF IsRoute

\* A new level takes the ids from its first id on and no other.
LEMMA RouteAppend ==
    ASSUME NEW bs \in Seq(AnyBloom), NEW new \in AnyBloom, NEW id, NEW b,
           IsRoute(bs, id, b)
    PROVE  IsRoute(Append(bs, new), id, IF new.id <= id THEN Len(bs) + 1 ELSE b)
<1>1. /\ Len(Append(bs, new)) = Len(bs) + 1
      /\ Len(bs) \in Nat
      /\ Append(bs, new)[Len(bs) + 1] = new
      /\ \A c \in 1..Len(bs) : Append(bs, new)[c] = bs[c]
  OBVIOUS
<1> QED  BY <1>1 DEF IsRoute

-----------------------------------------------------------------------------
(* The inductive invariant.                                                *)

\* Every id has a level: the first one starts at 0.
RoutesExist == \A id \in Nat : IsRoute(blooms, id, Route(blooms, id))

\* No live entry has an id above the highest id recorded in the header.
MembersBelow == \A e \in members : e[2] <= header.max_id

\* The type invariant, and that the levels are a sequence.
Shape == TypeOK /\ blooms \in Seq(AnyBloom)

Inv == /\ Shape
       /\ RoutesExist
       /\ MembersBelow
       /\ IsFiniteSet(members)
       /\ CountersExact

\* The levels an add works on and the level it adds to.
Grown(id) == IF MustScale(id) THEN Scaled ELSE blooms
Target(id) == IF MustScale(id) THEN Len(Grown(id)) ELSE Route(blooms, id)

\* What scaling_bloom_add does before it counts the key: the level found or
\* opened is the route of the id, and no older id is routed differently.
LEMMA GrownRoutes ==
    ASSUME Shape, RoutesExist, NEW id \in Nat,
           MustScale(id) => Len(blooms) < MaxBlooms
    PROVE  /\ Grown(id) \in Seq(AnyBloom)
           /\ Len(Grown(id)) \in Levels
           /\ Len(blooms) <= Len(Grown(id))
           /\ \A b \in 1..Len(Grown(id)) : Grown(id)[b] \in BloomType(b)
           /\ \A b \in 1..Len(blooms) : Grown(id)[b] = blooms[b]
           /\ \A b \in 1..Len(Grown(id)) : b \notin 1..Len(blooms) =>
                  Grown(id)[b] = EmptyBloom(b, header.max_id + 1)
           /\ IsRoute(Grown(id), id, Target(id))
           /\ \A i \in Nat : i <= header.max_id =>
                  IsRoute(Grown(id), i, Route(blooms, i))
           /\ \A i \in Nat : \E b : IsRoute(Grown(id), i, b)
<1>1. CASE ~MustScale(id)
  BY <1>1 DEF Grown, Target, Shape, TypeOK, RoutesExist
<1>2. CASE MustScale(id)
  <2> DEFINE new == EmptyBloom(Len(blooms) + 1, header.max_id + 1)
  <2>1. /\ Len(blooms) + 1 \in Levels
        /\ header.max_id + 1 \in Nat
        /\ Len(blooms) \in Nat
    BY <1>2, LevelAssumption DEF Shape, TypeOK, Levels, Positive
  <2>2. new \in BloomType(Len(blooms) + 1) /\ new \in AnyBloom
    BY <2>1, EmptyBloomType DEF AnyBloom
  <2>3. new.id = header.max_id + 1
    BY DEF EmptyBloom
  <2>4. Grown(id) = Append(blooms, new) /\ Target(id) = Len(Append(blooms, new))
    BY <1>2 DEF Grown, Target, Scaled
  <2>5. header.max_id + 1 <= id
    BY <1>2 DEF MustScale, Shape, TypeOK
  <2> HIDE DEF new
  <2>6. /\ Append(blooms, new) \in Seq(AnyBloom)
        /\ Len(Append(blooms, new)) = Len(blooms) + 1
        /\ Append(blooms, new)[Len(blooms) + 1] = new
        /\ \A c \in 1..Len(blooms) : Append(blooms, new)[c] = blooms[c]
    BY <2>2 DEF Shape, TypeOK
  <2>7. \A i \in Nat : IsRoute(Append(blooms, new), i,
              IF new.id <= i THEN Len(blooms) + 1 ELSE Route(blooms, i))
    BY <2>2, RouteAppend DEF Shape, TypeOK, RoutesExist
  <2>8. IsRoute(Grown(id), id, Target(id))
    BY <2>3, <2>4, <2>5, <2>6, <2>7
  <2>9. \A i \in Nat : i <= header.max_id =>
            IsRoute(Grown(id), i, Route(blooms, i))
    BY <2>3, <2>4, <2>7 DEF Shape, TypeOK
  <2>10. \A b \in 1..Len(Grown(id)) : Grown(id)[b] \in BloomType(b)
    BY <2>1, <2>2, <2>4, <2>6 DEF Shape, TypeOK
  <2>11. \A b \in 1..Len(Grown(id)) : b \notin 1..Len(blooms) =>
             Grown(id)[b] = EmptyBloom(b, header.max_id + 1)
    BY <2>1, <2>4, <2>6 DEF new
  <2> QED  BY <2>1, <2>4, <2>6, <2>7, <2>8, <2>9, <2>10, <2>11
<1> QED  BY <1>1, <1>2

\* scaling_bloom_add keeps the shape of the file and every older route.
LEMMA AddShape ==
    ASSUME Shape, RoutesExist, MembersBelow,
           NEW key \in Keys, NEW id \in Ids, Add(key, id)
    PROVE  /\ Shape'
           /\ RoutesExist'
           /\ MembersBelow'
           /\ Len(blooms') = Len(Grown(id))
           /\ Route(blooms', id) = Target(id)
           /\ \A e \in members : Route(blooms', e[2]) = Route(blooms, e[2])
           /\ blooms' = [Grown(id) EXCEPT ![Target(id)] =
                             CountingAdd(Target(id), Grown(id)[Target(id)], key)]
<1> DEFINE g == Grown(id)
           t == Target(id)
           new == CountingAdd(t, g[t], key)
<1>1. id \in Nat /\ (MustScale(id) => Len(blooms) < MaxBlooms)
  BY IdAssumption DEF Add
<1>2. /\ g \in Seq(AnyBloom)
      /\ Len(g) \in Levels
      /\ \A b \in 1..Len(g) : g[b] \in BloomType(b)
      /\ IsRoute(g, id, t)
      /\ \A i \in Nat : i <= header.max_id => IsRoute(g, i, Route(blooms, i))
      /\ \A i \in Nat : \E b : IsRoute(g, i, b)
  BY <1>1, GrownRoutes
<1>3. t \in 1..Len(g) /\ t \in Levels
  BY <1>2, LevelAssumption DEF IsRoute, Levels, Positive
<1>4. new \in BloomType(t) /\ new \in AnyBloom /\ new.id = g[t].id
  BY <1>2, <1>3, CountingAddType DEF AnyBloom
<1>5. blooms' = [g EXCEPT ![t] = new]
  BY DEF Add, Grown, Target
<1> HIDE DEF g, t, new
<1>6. /\ blooms' \in Seq(AnyBloom)
      /\ Len(blooms') = Len(g)
      /\ Len(g) \in Nat
      /\ \A b \in 1..Len(g) : blooms'[b] = IF b = t THEN new ELSE g[b]
  BY <1>2, <1>3, <1>4, <1>5
<1>7. \A b \in 1..Len(g) : blooms'[b].id = g[b].id
  BY <1>4, <1>6
<1>8. \A i \in Nat : \A b : IsRoute(g, i, b) => IsRoute(blooms', i, b)
  BY <1>6, <1>7, RouteSame
<1>9. Route(blooms', id) = t
  BY <1>1, <1>2, <1>6, <1>8, RouteIs
<1>10. RoutesExist'
  <2> SUFFICES ASSUME NEW i \in Nat PROVE IsRoute(blooms', i, Route(blooms', i))
    BY DEF RoutesExist
  <2>1. PICK b : IsRoute(blooms', i, b)
    BY <1>2, <1>8
  <2> QED  BY <2>1, <1>6, RouteIs
<1>11. \A e \in members : Route(blooms', e[2]) = Route(blooms, e[2])
  <2> SUFFICES ASSUME NEW e \in members
               PROVE  Route(blooms', e[2]) = Route(blooms, e[2])
    OBVIOUS
  <2>1. e[2] \in Nat /\ e[2] <= header.max_id
    BY IdAssumption DEF Shape, TypeOK, Entries, MembersBelow
  <2> QED  BY <2>1, <1>2, <1>6, <1>8, RouteIs
<1>12. Shape'
  <2>1. header' \in [max_id : Nat, mem_seqnum : Nat, disk_seqnum : Nat]
    BY <1>1 DEF Add, Changed, Shape, TypeOK
  <2>2. members' \subseteq Entries
    BY DEF Add, Shape, TypeOK, Entries
  <2>3. saturated' \in BOOLEAN /\ strayed' \in BOOLEAN /\ ordered' \in BOOLEAN
    BY DEF Add, Shape, TypeOK
  <2>4. Len(blooms') \in Levels /\ \A b \in 1..Len(blooms') : blooms'[b] \in BloomType(b)
    BY <1>2, <1>4, <1>6
  <2> QED  BY <1>6, <2>1, <2>2, <2>3, <2>4 DEF Shape, TypeOK
<1>13. MembersBelow'
  <2> SUFFICES ASSUME NEW e \in members' PROVE e[2] <= header'.max_id
    BY DEF MembersBelow
  <2>1. header'.max_id = IF header.max_id < id THEN id ELSE header.max_id
    BY DEF Add, Changed, Shape, TypeOK
  <2>2. header.max_id \in Nat
    BY DEF Shape, TypeOK
  <2>3. CASE e = <<key, id>>
    BY <1>1, <2>1, <2>2, <2>3
  <2>4. CASE e \in members
    <3>1. e[2] \in Nat /\ e[2] <= header.max_id
      BY <2>4, IdAssumption DEF Shape, TypeOK, Entries, MembersBelow
    <3> QED  BY <3>1, <1>1, <2>1, <2>2
  <2> QED  BY <2>3, <2>4 DEF Add
<1> QED  BY <1>5, <1>6, <1>9, <1>10, <1>11, <1>12, <1>13 DEF g, t, new

\* scaling_bloom_remove keeps the shape of the file and every route.
LEMMA RemoveShape ==
    ASSUME Shape, RoutesExist, MembersBelow,
           NEW key \in Keys, NEW id \in Ids, Remove(key, id)
    PROVE  /\ Shape'
           /\ RoutesExist'
           /\ MembersBelow'
           /\ Len(blooms') = Len(blooms)
           /\ Route(blooms, id) \in 1..Len(blooms)
           /\ \A i \in Nat : Route(blooms', i) = Route(blooms, i)
           /\ blooms' = [blooms EXCEPT ![Route(blooms, id)] =
                   CountingRemove(Route(blooms, id), blooms[Route(blooms, id)], key)]
<1> DEFINE t == Route(blooms, id)
           new == CountingRemove(t, blooms[t], key)
<1>1. id \in Nat
  BY IdAssumption
<1>2. t \in 1..Len(blooms) /\ t \in Levels
  BY <1>1, LevelAssumption DEF RoutesExist, IsRoute, Shape, TypeOK, Levels, Positive
<1>3. new \in BloomType(t) /\ new \in AnyBloom /\ new.id = blooms[t].id
  BY <1>2, CountingRemoveType DEF AnyBloom, Shape, TypeOK
<1>4. blooms' = [blooms EXCEPT ![t] = new]
  BY DEF Remove
<1> HIDE DEF t, new
<1>5. /\ blooms' \in Seq(AnyBloom)
      /\ Len(blooms') = Len(blooms)
      /\ Len(blooms) \in Nat
      /\ \A b \in 1..Len(blooms) : blooms'[b] = IF b = t THEN new ELSE blooms[b]
  BY <1>2, <1>3, <1>4 DEF Shape, TypeOK
<1>6. \A b \in 1..Len(blooms) : blooms'[b].id = blooms[b].id
  BY <1>3, <1>5
<1>7. \A i \in Nat : IsRoute(blooms', i, Route(blooms, i))
  BY <1>5, <1>6, RouteSame DEF RoutesExist
<1>8. \A i \in Nat : Route(blooms', i) = Route(blooms, i)
  BY <1>5, <1>7, RouteIs
<1>9. RoutesExist'
  BY <1>7, <1>8 DEF RoutesExist
<1>10. Shape'
  <2>1. header' \in [max_id : Nat, mem_seqnum : Nat, disk_seqnum : Nat]
    BY DEF Remove, Changed, Shape, TypeOK
  <2>2. /\ members' \subseteq Entries
        /\ saturated' \in BOOLEAN /\ strayed' \in BOOLEAN /\ ordered' \in BOOLEAN
    BY DEF Remove, Shape, TypeOK
  <2>3. Len(blooms') \in Levels /\ \A b \in 1..Len(blooms') : blooms'[b] \in BloomType(b)
    BY <1>3, <1>5 DEF Shape, TypeOK
  <2> QED  BY <1>5, <2>1, <2>2, <2>3 DEF Shape, TypeOK
<1>11. MembersBelow'
  BY DEF Remove, Changed, Shape, TypeOK, MembersBelow
<1> QED  BY <1>2, <1>4, <1>5, <1>8, <1>9, <1>10, <1>11 DEF t, new

-----------------------------------------------------------------------------
(* The counters count the live entries.                                    *)

\* The entries that touch a counter are finitely many.
LEMMA TouchingFinite ==
    ASSUME IsFiniteSet(members), NEW b, NEW c
    PROVE  /\ IsFiniteSet(Touching(b, c))
           /\ Cardinality(Touching(b, c)) \in Nat
           /\ Touching(b, c) # {} => Cardinality(Touching(b, c)) > 0
<1>1. Touching(b, c) \subseteq members
  BY DEF Touching, Stored
<1>2. IsFiniteSet(Touching(b, c))
  BY <1>1, FS_Subset
<1>3. Cardinality(Touching(b, c)) \in Nat
  BY <1>2, FS_CardinalityType
<1>4. Cardinality(Touching(b, c)) = 0 => Touching(b, c) = {}
  BY <1>2, FS_EmptySet
<1> QED  BY <1>2, <1>3, <1>4

\* scaling_bloom_add: each counter of the new entry in its level counts one
\* more entry, every other counter as many as before.
LEMMA AddExact ==
    ASSUME Inv, NEW key \in Keys, NEW id \in Ids, Add(key, id)
    PROVE  CountersExact'
<1> SUFFICES ASSUME ~saturated', ~strayed',
                    NEW b \in 1..Len(blooms'), NEW c \in Counters(b)
             PROVE  blooms'[b].counter[c] = Cardinality(Touching(b, c)')
  BY DEF CountersExact
<1> DEFINE g == Grown(id)
           t == Target(id)
           m == <<key, id>>
<1>1. /\ ~saturated
      /\ ~strayed
      /\ ~Saturates(t, g[t], key)
      /\ m \notin members
      /\ members' = members \cup {m}
  BY DEF Add, Grown, Target, Inv, Shape, TypeOK
<1>2. /\ Len(blooms') = Len(g)
      /\ Route(blooms', id) = t
      /\ \A e \in members : Route(blooms', e[2]) = Route(blooms, e[2])
      /\ blooms' = [g EXCEPT ![t] = CountingAdd(t, g[t], key)]
  BY AddShape DEF Inv
<1>3. id \in Nat /\ (MustScale(id) => Len(blooms) < MaxBlooms)
  BY IdAssumption DEF Add
<1>4. /\ g \in Seq(AnyBloom)
      /\ Len(g) \in Levels
      /\ \A a \in 1..Len(g) : g[a] \in BloomType(a)
      /\ \A a \in 1..Len(blooms) : g[a] = blooms[a]
      /\ \A a \in 1..Len(g) : a \notin 1..Len(blooms) =>
             g[a] = EmptyBloom(a, header.max_id + 1)
      /\ t \in 1..Len(g)
  BY <1>3, GrownRoutes DEF Inv, IsRoute
<1>5. b \in 1..Len(g)
  BY <1>2
<1> HIDE DEF g, t
<1>6. Touching(b, c)' = {e \in members' : /\ Route(blooms', e[2]) = b
                                         /\ c \in IndexesOf(b, e[1])}
  BY DEF Touching, Stored
<1>7. Touching(b, c) = {e \in members : /\ Route(blooms, e[2]) = b
                                       /\ c \in IndexesOf(b, e[1])}
  BY DEF Touching, Stored
<1>8. Touching(b, c)' = IF t = b /\ c \in IndexesOf(b, key)
                          THEN Touching(b, c) \cup {m} ELSE Touching(b, c)
  <2>1. m[1] = key /\ m[2] = id
    OBVIOUS
  <2> HIDE DEF m
  <2>2. Touching(b, c)' = {e \in members : /\ Route(blooms, e[2]) = b
                                          /\ c \in IndexesOf(b, e[1])}
                          \cup {e \in {m} : t = b /\ c \in IndexesOf(b, key)}
    BY <2>1, <1>1, <1>2, <1>6
  <2> QED  BY <2>2, <1>7
<1>9. g[b].counter[c] = Cardinality(Touching(b, c))
  <2>1. CASE b \in 1..Len(blooms)
    BY <2>1, <1>1, <1>4 DEF Inv, CountersExact
  <2>2. CASE b \notin 1..Len(blooms)
    <3>1. g[b].counter[c] = 0
      <4>1. g[b] = EmptyBloom(b, header.max_id + 1)
        BY <2>2, <1>4, <1>5
      <4>2. EmptyBloom(b, header.max_id + 1).counter[c] = 0
        BY DEF EmptyBloom
      <4> QED  BY <4>1, <4>2
    <3>2. Touching(b, c) = {}
      <4>1. \A e \in members : Route(blooms, e[2]) \in 1..Len(blooms)
        BY IdAssumption DEF Inv, Shape, TypeOK, Entries, RoutesExist, IsRoute
      <4> QED  BY <4>1, <2>2, <1>7
    <3> QED  BY <3>1, <3>2, FS_EmptySet
  <2> QED  BY <2>1, <2>2
<1>10. CASE t = b /\ c \in IndexesOf(b, key)
  <2>1. g[b].counter[c] # CounterMax
    BY <1>1, <1>10 DEF Saturates
  <2>2. g[b].counter[c] \in 0..CounterMax
    BY <1>4, <1>5 DEF BloomType
  <2>3. blooms'[b].counter[c] = g[b].counter[c] + 1
    <3>1. blooms'[b].counter = Incremented(b, g[b], key)
      BY <1>2, <1>4, <1>5, <1>10 DEF CountingAdd
    <3> QED  BY <3>1, <2>1, <2>2, <1>10, CountAssumption DEF Incremented, Positive
  <2>4. Cardinality(Touching(b, c) \cup {m}) = Cardinality(Touching(b, c)) + 1
    <3>1. m \notin Touching(b, c)
      BY <1>1, <1>7
    <3>2. IsFiniteSet(Touching(b, c))
      BY TouchingFinite DEF Inv
    <3> HIDE DEF m
    <3> QED  BY <3>1, <3>2, FS_AddElement
  <2> QED  BY <2>3, <2>4, <1>8, <1>9, <1>10
<1>11. CASE ~(t = b /\ c \in IndexesOf(b, key))
  <2>1. blooms'[b].counter[c] = g[b].counter[c]
    <3>1. CASE t # b
      BY <3>1, <1>2, <1>4, <1>5
    <3>2. CASE t = b
      <4>1. blooms'[b].counter = Incremented(b, g[b], key)
        BY <1>2, <1>4, <1>5, <3>2 DEF CountingAdd
      <4> QED  BY <4>1, <3>2, <1>11 DEF Incremented
    <3> QED  BY <3>1, <3>2
  <2> QED  BY <2>1, <1>8, <1>9, <1>11
<1> QED  BY <1>10, <1>11

\* scaling_bloom_remove of a live entry: each of its counters in its level
\* counts one entry less, every other counter as many as before.
LEMMA RemoveExact ==
    ASSUME Inv, NEW key \in Keys, NEW id \in Ids, Remove(key, id)
    PROVE  CountersExact'
<1> SUFFICES ASSUME ~saturated', ~strayed',
                    NEW b \in 1..Len(blooms'), NEW c \in Counters(b)
             PROVE  blooms'[b].counter[c] = Cardinality(Touching(b, c)')
  BY DEF CountersExact
<1> DEFINE t == Route(blooms, id)
           m == <<key, id>>
<1>1. /\ ~saturated
      /\ ~strayed
      /\ m \in members
      /\ members' = members \ {m}
  BY DEF Remove, Inv, Shape, TypeOK
<1>2. /\ Len(blooms') = Len(blooms)
      /\ t \in 1..Len(blooms)
      /\ \A i \in Nat : Route(blooms', i) = Route(blooms, i)
      /\ blooms' = [blooms EXCEPT ![t] = CountingRemove(t, blooms[t], key)]
  BY RemoveShape DEF Inv
<1>3. /\ blooms \in Seq(AnyBloom)
      /\ \A a \in 1..Len(blooms) : blooms[a] \in BloomType(a)
      /\ b \in 1..Len(blooms)
  BY <1>2 DEF Inv, Shape, TypeOK
<1> HIDE DEF t
<1>4. Touching(b, c)' = {e \in members' : /\ Route(blooms', e[2]) = b
                                         /\ c \in IndexesOf(b, e[1])}
  BY DEF Touching, Stored
<1>5. Touching(b, c) = {e \in members : /\ Route(blooms, e[2]) = b
                                       /\ c \in IndexesOf(b, e[1])}
  BY DEF Touching, Stored
<1>6. \A e \in members : Route(blooms', e[2]) = Route(blooms, e[2])
  BY <1>2, IdAssumption DEF Inv, Shape, TypeOK, Entries
<1>7. Touching(b, c)' = Touching(b, c) \ {m}
  BY <1>1, <1>4, <1>5, <1>6
<1>8. m \in Touching(b, c) <=> (t = b /\ c \in IndexesOf(b, key))
  BY <1>1, <1>5 DEF t
<1>9. blooms[b].counter[c] = Cardinality(Touching(b, c))
  BY <1>1, <1>3 DEF Inv, CountersExact
<1>10. CASE t = b /\ c \in IndexesOf(b, key)
  <2>1. IsFiniteSet(Touching(b, c))
    BY TouchingFinite DEF Inv
  <2>2. m \in Touching(b, c)
    BY <1>8, <1>10
  <2>3. Cardinality(Touching(b, c) \ {m}) = Cardinality(Touching(b, c)) - 1
    <3> HIDE DEF m
    <3> QED  BY <2>1, <2>2, FS_RemoveElement
  <2>4. blooms[b].counter[c] > 0
    BY <2>2, <1>9, TouchingFinite DEF Inv
  <2>5. blooms'[b].counter[c] = blooms[b].counter[c] - 1
    <3>1. blooms'[b].counter = Decremented(b, blooms[b], key)
      BY <1>2, <1>3, <1>10 DEF CountingRemove
    <3> QED  BY <3>1, <2>4, <1>10 DEF Decremented
  <2> QED  BY <2>3, <2>5, <1>7, <1>9
<1>11. CASE ~(t = b /\ c \in IndexesOf(b, key))
  <2>1. blooms'[b].counter[c] = blooms[b].counter[c]
    <3>1. CASE t # b
      BY <3>1, <1>2, <1>3
    <3>2. CASE t = b
      <4>1. blooms'[b].counter = Decremented(b, blooms[b], key)
        BY <1>2, <1>3, <3>2 DEF CountingRemove
      <4> QED  BY <4>1, <3>2, <1>11 DEF Decremented
    <3> QED  BY <3>1, <3>2
  <2>2. Touching(b, c)' = Touching(b, c)
    BY <1>7, <1>8, <1>11
  <2> QED  BY <2>1, <2>2, <1>9
<1> QED  BY <1>10, <1>11

-----------------------------------------------------------------------------
\* new_scaling_bloom leaves an empty first level that starts at id 0.
LEMMA InitInv == Init => Inv
<1> SUFFICES ASSUME Init PROVE Inv
  OBVIOUS
<1> DEFINE first == EmptyBloom(1, 0)
<1>1. 1 \in Levels
  BY LevelAssumption DEF Levels, Positive
<1>2. first \in BloomType(1) /\ first \in AnyBloom /\ first.id = 0
  <2>1. first \in BloomType(1)
    BY <1>1, EmptyBloomType
  <2>2. first.id = 0
    BY DEF EmptyBloom
  <2> QED  BY <2>1, <2>2, <1>1 DEF AnyBloom
<1>3. blooms = <<first>> /\ members = {} /\ header.max_id = 0
  BY DEF Init
<1> HIDE DEF first
<1>4. blooms \in Seq(AnyBloom) /\ Len(blooms) = 1 /\ blooms[1] = first
  BY <1>2, <1>3
<1>5. Shape
  <2>1. header \in [max_id : Nat, mem_seqnum : Nat, disk_seqnum : Nat]
    BY DEF Init
  <2>2. \A b \in 1..Len(blooms) : blooms[b] \in BloomType(b)
    BY <1>2, <1>4
  <2> QED  BY <1>1, <1>3, <1>4, <2>1, <2>2 DEF Shape, TypeOK, Init
<1>6. RoutesExist
  <2> SUFFICES ASSUME NEW id \in Nat PROVE IsRoute(blooms, id, Route(blooms, id))
    BY DEF RoutesExist
  <2>1. IsRoute(blooms, id, 1)
    BY <1>2, <1>4 DEF IsRoute
  <2> QED  BY <2>1, <1>4, RouteIs
<1>7. IsFiniteSet(members) /\ MembersBelow
  BY <1>3, FS_EmptySet DEF MembersBelow
<1>8. CountersExact
  <2> SUFFICES ASSUME NEW b \in 1..Len(blooms), NEW c \in Counters(b)
               PROVE  blooms[b].counter[c] = Cardinality(Touching(b, c))
    BY DEF CountersExact
  <2>1. Touching(b, c) = {}
    BY <1>3 DEF Touching, Stored
  <2>2. blooms[b].counter[c] = 0
    BY <1>4 DEF first, EmptyBloom
  <2> QED  BY <2>1, <2>2, FS_EmptySet
<1> QED  BY <1>5, <1>6, <1>7, <1>8 DEF Inv

\* Every call of the API keeps the invariant.
LEMMA NextInv == Inv /\ [Next]_vars => Inv'
<1> SUFFICES ASSUME Inv, [Next]_vars PROVE Inv'
  OBVIOUS
<1>1. ASSUME NEW key \in Keys, NEW id \in Ids, Add(key, id) PROVE Inv'
  <2>1. IsFiniteSet(members')
    <3>1. members' = members \cup {<<key, id>>} /\ IsFiniteSet(members)
      BY <1>1 DEF Add, Inv
    <3> QED  BY <3>1, FS_AddElement
  <2> QED  BY <1>1, <2>1, AddShape, AddExact DEF Inv
<1>2. ASSUME NEW key \in Keys, NEW id \in Ids, Remove(key, id) PROVE Inv'
  <2>1. IsFiniteSet(members')
    <3>1. members' \subseteq members /\ IsFiniteSet(members)
      BY <1>2 DEF Remove, Inv
    <3> QED  BY <3>1, FS_Subset
  <2> QED  BY <1>2, <2>1, RemoveShape, RemoveExact DEF Inv
<1>3. CASE Flush
  <2>1. header'.max_id = header.max_id
        /\ header' \in [max_id : Nat, mem_seqnum : Nat, disk_seqnum : Nat]
    BY <1>3 DEF Flush, Inv, Shape, TypeOK
  <2>2. UNCHANGED <<blooms, members, saturated, strayed, ordered>>
    BY <1>3 DEF Flush
  <2> QED  BY <2>1, <2>2 DEF Inv, Shape, TypeOK, RoutesExist, MembersBelow, CountersExact,
                             Touching, Stored
<1>4. CASE UNCHANGED vars
  BY <1>4 DEF vars, Inv, Shape, TypeOK, RoutesExist, MembersBelow, CountersExact,
              Touching, Stored
<1> QED  BY <1>1, <1>2, <1>3, <1>4 DEF Next

\* The invariant holds in every behaviour of the filter.
THEOREM Invariance == Spec => []Inv
<1> QED  BY InitInv, NextInv, PTL DEF Spec

\* The file keeps its shape and every counter and count its width
\* (counting_bloom_init, bitmap_increment, counting_bloom_add and _remove).
THEOREM TypeCorrect == Spec => []TypeOK
<1>1. Inv => TypeOK
  BY DEF Inv, Shape
<1> QED  BY <1>1, Invariance, PTL

\* While no counter was full and no absent entry removed, each counter is the
\* number of live entries of its level that hash to it.
THEOREM ExactCounters == Spec => []CountersExact
<1>1. Inv => CountersExact
  BY DEF Inv
<1> QED  BY <1>1, Invariance, PTL

\* While the counters are exact scaling_bloom_check finds every live entry.
THEOREM NoMisses == Spec => []NoFalseNegative
<1>1. Inv => NoFalseNegative
  <2> SUFFICES ASSUME Inv, ~saturated, ~strayed, NEW e \in members
               PROVE  ScalingCheck(e[1])
    BY DEF NoFalseNegative
  <2> DEFINE b == Route(blooms, e[2])
  <2>1. e[1] \in Keys /\ e[2] \in Nat
    BY IdAssumption DEF Inv, Shape, TypeOK, Entries
  <2>2. b \in 1..Len(blooms) /\ b \in Levels
    <3>1. b \in 1..Len(blooms)
      BY <2>1 DEF Inv, RoutesExist, IsRoute
    <3> HIDE DEF b
    <3> QED  BY <3>1, LevelAssumption DEF Inv, Shape, TypeOK, Levels, Positive
  <2>3. ASSUME NEW c \in IndexesOf(b, e[1]) PROVE blooms[b].counter[c] # 0
    <3>1. c \in Counters(b)
      BY <2>1, <2>2, IndexInRange
    <3>2. e \in Touching(b, c)
      BY DEF Touching, Stored
    <3>3. blooms[b].counter[c] = Cardinality(Touching(b, c))
      BY <2>2, <3>1 DEF Inv, CountersExact
    <3>4. Cardinality(Touching(b, c)) > 0
      BY <3>2, TouchingFinite DEF Inv
    <3> QED  BY <3>3, <3>4
  <2> QED  BY <2>2, <2>3 DEF ScalingCheck, CountingCheck
<1> QED  BY <1>1, Invariance, PTL

\* No call moves a live entry to another level (scaling_bloom_add).
THEOREM StableRouting == Spec => RoutingStable
<1>1. Inv /\ [Next]_vars =>
          [\A e \in members \cap members' :
               Route(blooms', e[2]) = Route(blooms, e[2])]_vars
  <2> SUFFICES ASSUME Inv, Next, NEW e \in members
               PROVE  Route(blooms', e[2]) = Route(blooms, e[2])
    OBVIOUS
  <2>1. e[2] \in Nat
    BY IdAssumption DEF Inv, Shape, TypeOK, Entries
  <2>2. ASSUME NEW key \in Keys, NEW id \in Ids, Add(key, id)
        PROVE  Route(blooms', e[2]) = Route(blooms, e[2])
    BY <2>2, AddShape DEF Inv
  <2>3. ASSUME NEW key \in Keys, NEW id \in Ids, Remove(key, id)
        PROVE  Route(blooms', e[2]) = Route(blooms, e[2])
    BY <2>1, <2>3, RemoveShape DEF Inv
  <2>4. CASE Flush
    BY <2>4 DEF Flush
  <2> QED  BY <2>2, <2>3, <2>4 DEF Next
<1> QED  BY <1>1, Invariance, PTL DEF Spec, RoutingStable

-----------------------------------------------------------------------------
(* The fill of the levels.  With ids in order every add goes to the newest *)
(* level, which is left as soon as it holds Capacity - 1 entries; a count  *)
(* that is exact never wraps.                                              *)

\* Every level begins at an id that the header has seen.
LevelsBelow == \A b \in 1..Len(blooms) : blooms[b].id <= header.max_id

Fill == ordered /\ ~strayed =>
            \A b \in 1..Len(blooms) :
                /\ blooms[b].count < Capacity
                /\ Capacity <= CountModulus => blooms[b].count = Cardinality(Stored(b))

FillInv == Inv /\ LevelsBelow /\ Fill

LEMMA StoredFinite ==
    ASSUME IsFiniteSet(members), NEW b
    PROVE  /\ IsFiniteSet(Stored(b)) /\ Cardinality(Stored(b)) \in Nat
           /\ Stored(b) # {} => Cardinality(Stored(b)) > 0
<1>1. IsFiniteSet(Stored(b))
  BY FS_Subset DEF Stored
<1> QED  BY <1>1, FS_CardinalityType, FS_EmptySet

\* A count below the modulus, and one entry more.
LEMMA NextCount ==
    ASSUME NEW c \in 0..(CountModulus - 1), c + 1 < Capacity
    PROVE  /\ (c + 1) % CountModulus < Capacity
           /\ Capacity <= CountModulus => (c + 1) % CountModulus = c + 1
<1>1. CountModulus \in Nat \ {0} /\ Capacity \in Nat /\ Capacity >= 2
  BY CountAssumption, CapacityAssumption DEF Positive
<1>2. CASE c + 1 < CountModulus
  <2>1. (c + 1) % CountModulus = c + 1
    BY <1>1, <1>2
  <2> QED  BY <2>1
<1>3. CASE c + 1 = CountModulus
  <2>1. (c + 1) % CountModulus = 0
    BY <1>1, <1>3
  <2> QED  BY <1>1, <1>3, <2>1
<1> QED  BY <1>1, <1>2, <1>3

\* A level with an entry, and one entry less; the count of a level with none is
\* not known when it may have wrapped.
LEMMA LastCount ==
    ASSUME NEW c \in 0..(CountModulus - 1), c < Capacity,
           Capacity <= CountModulus => c > 0
    PROVE  /\ (c - 1) % CountModulus < Capacity
           /\ Capacity <= CountModulus => (c - 1) % CountModulus = c - 1
<1>1. CountModulus \in Nat \ {0} /\ Capacity \in Nat /\ Capacity >= 2
  BY CountAssumption, CapacityAssumption DEF Positive
<1>2. CASE c > 0
  <2>1. (c - 1) % CountModulus = c - 1
    BY <1>1, <1>2
  <2> QED  BY <1>1, <1>2, <2>1
<1>3. CASE c = 0
  <2>1. (c - 1) % CountModulus \in 0..(CountModulus - 1)
    BY <1>1, <1>3, ModRange DEF Positive
  <2> QED  BY <1>1, <1>3, <2>1
<1> QED  BY <1>1, <1>2, <1>3

LEMMA AddLevels ==
    ASSUME Inv, LevelsBelow, NEW key \in Keys, NEW id \in Ids, Add(key, id)
    PROVE  LevelsBelow'
<1> DEFINE g == Grown(id)
           t == Target(id)
<1>1. id \in Nat /\ (MustScale(id) => Len(blooms) < MaxBlooms)
  BY IdAssumption DEF Add
<1>2. /\ g \in Seq(AnyBloom) /\ Len(g) \in Levels
      /\ \A b \in 1..Len(g) : g[b] \in BloomType(b)
      /\ \A b \in 1..Len(blooms) : g[b] = blooms[b]
      /\ \A b \in 1..Len(g) : b \notin 1..Len(blooms) =>
             g[b] = EmptyBloom(b, header.max_id + 1)
      /\ IsRoute(g, id, t)
  BY <1>1, GrownRoutes DEF Inv
<1>3. blooms' = [g EXCEPT ![t] = CountingAdd(t, g[t], key)] /\ Len(blooms') = Len(g)
  BY AddShape DEF Inv
<1>4. header'.max_id = (IF header.max_id < id THEN id ELSE header.max_id) /\ header.max_id \in Nat
  BY DEF Add, Changed, Inv, Shape, TypeOK
<1>5. ~MustScale(id) => g = blooms
  BY DEF Grown
<1>6. MustScale(id) => id > header.max_id
  BY DEF MustScale
<1> HIDE DEF g, t
<1>7. t \in 1..Len(g) /\ t \in Levels
  BY <1>2, LevelAssumption DEF IsRoute, Levels, Positive
<1>8. \A b \in 1..Len(g) : blooms'[b].id = g[b].id
  <2>1. CountingAdd(t, g[t], key).id = g[t].id
    BY <1>2, <1>7, CountingAddType
  <2> QED  BY <1>2, <1>3, <1>7, <2>1
<1>9. ASSUME NEW b \in 1..Len(g) PROVE g[b].id <= header'.max_id
  <2>1. CASE b \in 1..Len(blooms)
    <3>1. blooms[b].id <= header.max_id /\ blooms[b].id \in Nat
      BY <2>1 DEF LevelsBelow, Inv, Shape, TypeOK, BloomType
    <3> QED  BY <1>1, <1>2, <1>4, <2>1, <3>1
  <2>2. CASE b \notin 1..Len(blooms)
    <3>1. g[b].id = header.max_id + 1
      <4>1. g[b] = EmptyBloom(b, header.max_id + 1)
        BY <1>2, <2>2
      <4>2. EmptyBloom(b, header.max_id + 1).id = header.max_id + 1
        BY DEF EmptyBloom
      <4> QED  BY <4>1, <4>2
    <3>2. MustScale(id)
      BY <1>5, <2>2
    <3> QED  BY <1>1, <1>4, <1>6, <3>1, <3>2
  <2> QED  BY <2>1, <2>2
<1> QED  BY <1>3, <1>8, <1>9 DEF LevelsBelow

LEMMA EmptyCount == \A b, first : EmptyBloom(b, first).count = 0
BY DEF EmptyBloom

\* scaling_bloom_add with a new highest id: the newest level takes the entry.
LEMMA AddFill ==
    ASSUME FillInv, NEW key \in Keys, NEW id \in Ids, Add(key, id)
    PROVE  Fill'
<1> SUFFICES ASSUME ordered', ~strayed', NEW b \in 1..Len(blooms')
             PROVE  /\ blooms'[b].count < Capacity
                    /\ Capacity <= CountModulus => blooms'[b].count = Cardinality(Stored(b)')
  BY DEF Fill
<1> DEFINE g == Grown(id)
           t == Target(id)
           m == <<key, id>>
<1>1. /\ ordered /\ ~strayed /\ id > header.max_id /\ id \in Nat
      /\ m \notin members /\ members' = members \cup {m}
      /\ MustScale(id) => Len(blooms) < MaxBlooms
  BY IdAssumption DEF Add
<1>2. /\ Len(blooms') = Len(g) /\ Route(blooms', id) = t
      /\ \A e \in members : Route(blooms', e[2]) = Route(blooms, e[2])
      /\ blooms' = [g EXCEPT ![t] = CountingAdd(t, g[t], key)]
  BY AddShape DEF FillInv, Inv
<1>3. /\ g \in Seq(AnyBloom) /\ Len(g) \in Levels
      /\ \A a \in 1..Len(g) : g[a] \in BloomType(a)
      /\ \A a \in 1..Len(blooms) : g[a] = blooms[a]
      /\ \A a \in 1..Len(g) : a \notin 1..Len(blooms) =>
             g[a] = EmptyBloom(a, header.max_id + 1)
      /\ t \in 1..Len(g)
  BY <1>1, GrownRoutes DEF FillInv, Inv, IsRoute
<1>4. \A e \in members : Route(blooms, e[2]) \in 1..Len(blooms)
  BY IdAssumption DEF FillInv, Inv, Shape, TypeOK, Entries, RoutesExist, IsRoute
<1>5. MustScale(id) <=> blooms[Route(blooms, id)].count >= Capacity - 1
  BY <1>1 DEF MustScale
<1>6. t = IF MustScale(id) THEN Len(g) ELSE Route(blooms, id)
  BY DEF Target
<1>7. MustScale(id) => Len(g) = Len(blooms) + 1
  BY DEF Grown, Scaled, FillInv, Inv, Shape
<1>8. ~MustScale(id) => g = blooms
  BY DEF Grown
<1>9. IsFiniteSet(members) /\ Capacity \in Nat /\ Capacity >= 2
  BY CapacityAssumption DEF FillInv, Inv
<1> HIDE DEF g, t
<1>10. g[b].count \in 0..(CountModulus - 1) /\ b \in 1..Len(g)
  BY <1>2, <1>3 DEF BloomType
<1>11. Stored(b) = {e \in members : Route(blooms, e[2]) = b}
  BY DEF Stored
<1>12. Stored(b)' = {e \in members' : Route(blooms', e[2]) = b}
  BY DEF Stored
<1>13. Stored(b)' = IF t = b THEN Stored(b) \cup {m} ELSE Stored(b)
  <2>1. m[2] = id
    OBVIOUS
  <2> HIDE DEF m
  <2>2. Stored(b)' = {e \in members : Route(blooms, e[2]) = b} \cup {e \in {m} : t = b}
    BY <2>1, <1>1, <1>2, <1>12
  <2> QED  BY <2>2, <1>11
<1>14. /\ g[b].count < Capacity
       /\ Capacity <= CountModulus => g[b].count = Cardinality(Stored(b))
  <2>1. CASE b \in 1..Len(blooms)
    BY <2>1, <1>1, <1>3 DEF FillInv, Fill
  <2>2. CASE b \notin 1..Len(blooms)
    <3>1. g[b].count = 0
      BY <1>3, <1>10, <2>2, EmptyCount
    <3>2. Stored(b) = {}
      BY <1>4, <1>11, <2>2
    <3> QED  BY <1>9, <3>1, <3>2, FS_EmptySet
  <2> QED  BY <2>1, <2>2
<1>15. CASE t = b
  <2>1. g[b].count + 1 < Capacity
    <3>1. CASE MustScale(id)
      <4>1. b \notin 1..Len(blooms)
        BY <1>3, <1>6, <1>7, <1>15, <3>1 DEF FillInv, Inv, Shape
      <4>2. g[b].count = 0
        BY <1>3, <1>10, <4>1, EmptyCount
      <4> QED  BY <1>9, <4>2
    <3>2. CASE ~MustScale(id)
      BY <1>5, <1>6, <1>8, <1>9, <1>10, <1>15, <3>2
    <3> QED  BY <3>1, <3>2
  <2>2. blooms'[b].count = (g[b].count + 1) % CountModulus
    BY <1>2, <1>3, <1>10, <1>15 DEF CountingAdd
  <2>3. Cardinality(Stored(b)') = Cardinality(Stored(b)) + 1
    <3>1. m \notin Stored(b)
      BY <1>1, <1>11
    <3> HIDE DEF m
    <3> QED  BY <1>9, <1>13, <1>15, <3>1, StoredFinite, FS_AddElement
  <2> QED  BY <1>10, <1>14, <2>1, <2>2, <2>3, NextCount
<1>16. CASE t # b
  <2>1. blooms'[b] = g[b]
    BY <1>2, <1>3, <1>10, <1>16
  <2> QED  BY <1>13, <1>14, <1>16, <2>1
<1> QED  BY <1>15, <1>16

\* scaling_bloom_remove of a live entry takes one from the count of its level.
LEMMA RemoveFill ==
    ASSUME FillInv, NEW key \in Keys, NEW id \in Ids, Remove(key, id)
    PROVE  Fill'
<1> SUFFICES ASSUME ordered', ~strayed', NEW b \in 1..Len(blooms')
             PROVE  /\ blooms'[b].count < Capacity
                    /\ Capacity <= CountModulus => blooms'[b].count = Cardinality(Stored(b)')
  BY DEF Fill
<1> DEFINE t == Route(blooms, id)
           m == <<key, id>>
<1>1. ordered /\ ~strayed /\ m \in members /\ members' = members \ {m}
  BY DEF Remove
<1>2. /\ Len(blooms') = Len(blooms)
      /\ t \in 1..Len(blooms)
      /\ \A i \in Nat : Route(blooms', i) = Route(blooms, i)
      /\ blooms' = [blooms EXCEPT ![t] = CountingRemove(t, blooms[t], key)]
  BY RemoveShape DEF FillInv, Inv
<1>3. /\ blooms \in Seq(AnyBloom) /\ b \in 1..Len(blooms)
      /\ blooms[b].count \in 0..(CountModulus - 1)
      /\ IsFiniteSet(members)
  BY <1>2 DEF FillInv, Inv, Shape, TypeOK, BloomType
<1> HIDE DEF t
<1>4. Stored(b) = {e \in members : Route(blooms, e[2]) = b}
  BY DEF Stored
<1>5. Stored(b)' = {e \in members' : Route(blooms', e[2]) = b}
  BY DEF Stored
<1>6. \A e \in members : Route(blooms', e[2]) = Route(blooms, e[2])
  BY <1>2, IdAssumption DEF FillInv, Inv, Shape, TypeOK, Entries
<1>7. Stored(b)' = Stored(b) \ {m}
  BY <1>1, <1>4, <1>5, <1>6
<1>8. m \in Stored(b) <=> t = b
  BY <1>1, <1>4 DEF t
<1>9. /\ blooms[b].count < Capacity
      /\ Capacity <= CountModulus => blooms[b].count = Cardinality(Stored(b))
  BY <1>1, <1>3 DEF FillInv, Fill
<1>10. CASE t = b
  <2>1. Cardinality(Stored(b)) > 0
    BY <1>3, <1>8, <1>10, StoredFinite
  <2>2. Cardinality(Stored(b)') = Cardinality(Stored(b)) - 1
    <3>1. IsFiniteSet(Stored(b)) /\ m \in Stored(b)
      BY <1>3, <1>8, <1>10, StoredFinite
    <3> HIDE DEF m
    <3> QED  BY <1>7, <3>1, FS_RemoveElement
  <2>3. blooms'[b].count = (blooms[b].count - 1) % CountModulus
    BY <1>2, <1>3, <1>10 DEF CountingRemove
  <2> QED  BY <1>3, <1>9, <2>1, <2>2, <2>3, LastCount
<1>11. CASE t # b
  <2>1. blooms'[b] = blooms[b]
    BY <1>2, <1>3, <1>11
  <2>2. Stored(b)' = Stored(b)
    BY ONLY <1>7, <1>8, <1>11, Zenon
  <2> QED  BY <1>9, <2>1, <2>2
<1> QED  BY <1>10, <1>11

LEMMA FillInit == Init => LevelsBelow /\ Fill
<1> SUFFICES ASSUME Init PROVE LevelsBelow /\ Fill
  OBVIOUS
<1>1. /\ Len(blooms) = 1 /\ blooms[1].id = 0 /\ blooms[1].count = 0 /\ header.max_id = 0
      /\ members = {}
  BY DEF Init, EmptyBloom
<1>2. Stored(1) = {} /\ Capacity \in Nat /\ Capacity >= 2
  BY <1>1, CapacityAssumption DEF Stored
<1> QED  BY <1>1, <1>2, FS_EmptySet DEF LevelsBelow, Fill

LEMMA FillNext == FillInv /\ [Next]_vars => FillInv'
<1> SUFFICES ASSUME FillInv, [Next]_vars PROVE FillInv'
  OBVIOUS
<1>1. Inv'
  BY NextInv DEF FillInv
<1>2. ASSUME NEW key \in Keys, NEW id \in Ids, Add(key, id) PROVE FillInv'
  BY <1>1, <1>2, AddLevels, AddFill DEF FillInv
<1>3. ASSUME NEW key \in Keys, NEW id \in Ids, Remove(key, id) PROVE FillInv'
  <2>1. header'.max_id = header.max_id /\ Len(blooms') = Len(blooms)
    BY <1>3, RemoveShape DEF FillInv, Inv, Remove, Changed
  <2>2. \A b \in 1..Len(blooms) : blooms'[b].id = blooms[b].id
    BY <1>3, RemoveShape DEF FillInv, Inv, CountingRemove, Shape
  <2> QED  BY <1>1, <1>3, <2>1, <2>2, RemoveFill DEF FillInv, LevelsBelow
<1>4. CASE Flush \/ UNCHANGED vars
  <2>1. header'.max_id = header.max_id /\ UNCHANGED <<blooms, members, strayed, ordered>>
    BY <1>4 DEF Flush, vars, FillInv, Inv, Shape, TypeOK
  <2> QED  BY <1>1, <2>1 DEF FillInv, LevelsBelow, Fill, Stored
<1> QED  BY <1>2, <1>3, <1>4 DEF Next

\* With entries in the order of their ids no level is filled beyond what its
\* error rate was computed for, however many are removed meanwhile and whatever
\* the width of the count (the capacity test of scaling_bloom_add).
THEOREM LevelsBounded == Spec => []FillBound
<1>1. Init => FillInv
  BY InitInv, FillInit DEF FillInv
<1>2. FillInv => FillBound
  BY DEF FillInv, Fill, FillBound
<1> QED  BY <1>1, <1>2, FillNext, PTL DEF Spec

-----------------------------------------------------------------------------
(* The scaling filter implements the membership filter.                    *)

\* A key is reported by some counter of every level; the indexes are never none.
LEMMA SomeIndex ==
    ASSUME NEW b \in Levels, NEW key \in Keys
    PROVE  \E c \in Counters(b) : c \in IndexesOf(b, key)
<1>1. NFuncs[b] \in Positive
  BY LevelAssumption
<1>2. 0 \in 0..(NFuncs[b] - 1)
  BY <1>1 DEF Positive
<1>3. Index(b, key, 0) \in IndexesOf(b, key)
  BY <1>2 DEF IndexesOf
<1> QED  BY <1>3, IndexInRange

\* Without live entries an exact filter reports nothing.
LEMMA EmptyReports ==
    ASSUME Inv, ~saturated, ~strayed, members = {}, NEW key \in Keys
    PROVE  ~ScalingCheck(key)
<1> SUFFICES ASSUME NEW b \in 1..Len(blooms), CountingCheck(b, blooms[b], key)
             PROVE  FALSE
  BY DEF ScalingCheck
<1>1. b \in Levels
  BY LevelAssumption DEF Inv, Shape, TypeOK, Levels, Positive
<1>2. PICK c \in Counters(b) : c \in IndexesOf(b, key)
  BY <1>1, SomeIndex
<1>3. Touching(b, c) = {}
  BY DEF Touching, Stored
<1>4. blooms[b].counter[c] = 0
  BY <1>2, <1>3, FS_EmptySet DEF Inv, CountersExact
<1> QED  BY <1>2, <1>4 DEF CountingCheck

\* What every state of the filter promises.
LEMMA Promised ==
    ASSUME Inv, NoFalseNegative
    PROVE  Filter!Promise(members, {key \in Keys : ScalingCheck(key)}, ~saturated /\ ~strayed)
<1>1. \A e \in members : e[1] \in Keys
  BY DEF Inv, Shape, TypeOK, Entries
<1> QED  BY <1>1, EmptyReports DEF Filter!Promise, Filter!KeysOf, NoFalseNegative

\* No counter falls when an entry is added.
LEMMA AddReports ==
    ASSUME Inv, NEW k \in Keys, NEW id \in Ids, Add(k, id), NEW key \in Keys, ScalingCheck(key)
    PROVE  ScalingCheck(key)'
<1> DEFINE g == Grown(id)
           t == Target(id)
<1>1. id \in Nat /\ (MustScale(id) => Len(blooms) < MaxBlooms)
  BY IdAssumption DEF Add
<1>2. /\ g \in Seq(AnyBloom) /\ Len(g) \in Levels /\ Len(blooms) <= Len(g)
      /\ \A b \in 1..Len(g) : g[b] \in BloomType(b)
      /\ \A b \in 1..Len(blooms) : g[b] = blooms[b]
      /\ t \in 1..Len(g)
  BY <1>1, GrownRoutes DEF Inv, IsRoute
<1>3. blooms' = [g EXCEPT ![t] = CountingAdd(t, g[t], k)] /\ Len(blooms') = Len(g)
  BY AddShape DEF Inv
<1> HIDE DEF g, t
<1>4. PICK b \in 1..Len(blooms) : CountingCheck(b, blooms[b], key)
  BY DEF ScalingCheck
<1>5. b \in 1..Len(g) /\ g[b] = blooms[b] /\ b \in Levels
  BY <1>2, <1>4, LevelAssumption DEF Inv, Shape, TypeOK, Levels, Positive
<1>6. ASSUME NEW c \in IndexesOf(b, key) PROVE blooms'[b].counter[c] # 0
  <2>1. c \in Counters(b) /\ g[b].counter[c] # 0
    BY <1>4, <1>5, IndexInRange DEF CountingCheck
  <2>2. CASE t # b
    BY <1>2, <1>3, <1>5, <2>1, <2>2
  <2>3. CASE t = b
    <3>1. blooms'[b].counter = Incremented(b, g[b], k)
      BY <1>2, <1>3, <1>5, <2>3 DEF CountingAdd
    <3>2. g[b].counter[c] \in 0..CounterMax
      BY <1>2, <1>5, <2>1 DEF BloomType
    <3> QED  BY <2>1, <3>1, <3>2, CountAssumption DEF Incremented, Positive
  <2> QED  BY <2>2, <2>3
<1> QED  BY <1>3, <1>5, <1>6 DEF ScalingCheck, CountingCheck

\* No counter rises when an entry is removed.
LEMMA RemoveReports ==
    ASSUME Inv, NEW k \in Keys, NEW id \in Ids, Remove(k, id), NEW key \in Keys,
           ScalingCheck(key)'
    PROVE  ScalingCheck(key)
<1> DEFINE t == Route(blooms, id)
<1>1. /\ Len(blooms') = Len(blooms) /\ t \in 1..Len(blooms)
      /\ blooms' = [blooms EXCEPT ![t] = CountingRemove(t, blooms[t], k)]
  BY RemoveShape DEF Inv
<1> HIDE DEF t
<1>2. PICK b \in 1..Len(blooms) : CountingCheck(b, blooms'[b], key)
  BY <1>1 DEF ScalingCheck
<1>3. b \in Levels /\ blooms[b] \in BloomType(b) /\ blooms \in Seq(AnyBloom)
  BY LevelAssumption DEF Inv, Shape, TypeOK, Levels, Positive
<1>4. ASSUME NEW c \in IndexesOf(b, key) PROVE blooms[b].counter[c] # 0
  <2>1. c \in Counters(b) /\ blooms'[b].counter[c] # 0
    BY <1>2, <1>3, IndexInRange DEF CountingCheck
  <2>2. CASE t # b
    BY <1>1, <1>3, <2>1, <2>2
  <2>3. CASE t = b
    <3>1. blooms'[b].counter = Decremented(b, blooms[b], k)
      BY <1>1, <1>3, <2>3 DEF CountingRemove
    <3> QED  BY <2>1, <3>1 DEF Decremented
  <2> QED  BY <2>2, <2>3
<1> QED  BY <1>4 DEF ScalingCheck, CountingCheck

\* The calls of the dablooms API are those of a membership filter: an add hides
\* no key, a remove invents none, and as long as the filter is exact it reports
\* every live entry, and nothing when all are gone.
THEOREM Refinement == Spec => KeepsPromise
<1> DEFINE reported == {key \in Keys : ScalingCheck(key)}
           exact == ~saturated /\ ~strayed
<1>1. Init => Filter!Init
  <2> SUFFICES ASSUME Init PROVE Filter!Init
    OBVIOUS
  <2>1. Inv /\ ~saturated /\ ~strayed /\ members = {}
    BY InitInv DEF Init
  <2> QED  BY <2>1, EmptyReports DEF Filter!Init
<1>2. Inv /\ NoFalseNegative => Filter!Promise(members, reported, exact)
  BY Promised
<1>3. ASSUME Inv, Filter!Promise(members, reported, exact)', [Next]_vars
      PROVE  [Filter!Next]_(Filter!vars)
  <2>1. Filter!Promise(members', reported', exact')
    BY <1>3
  <2>2. ASSUME NEW key \in Keys, NEW id \in Ids, Add(key, id)
        PROVE  Filter!Add(<<key, id>>)
    <3>1. reported \subseteq reported' /\ reported' \in SUBSET Keys
      BY <1>3, <2>2, AddReports
    <3>2. members' = members \cup {<<key, id>>} /\ exact' \in BOOLEAN /\ (exact' => exact)
      BY <2>2 DEF Add
    <3> QED  BY <2>1, <3>1, <3>2 DEF Filter!Add
  <2>3. ASSUME NEW key \in Keys, NEW id \in Ids, Remove(key, id)
        PROVE  Filter!Remove(<<key, id>>)
    <3>1. reported' \in SUBSET reported
      BY <1>3, <2>3, RemoveReports
    <3>2. members' = members \ {<<key, id>>} /\ exact' = (exact /\ <<key, id>> \in members)
      BY <2>3 DEF Remove
    <3> QED  BY <2>1, <3>1, <3>2 DEF Filter!Remove
  <2>4. CASE Flush \/ UNCHANGED vars
    BY <2>4 DEF Flush, vars, Filter!vars, ScalingCheck, CountingCheck
  <2>5. \A key \in Keys, id \in Ids : <<key, id>> \in Filter!Entries
    BY DEF Filter!Entries
  <2> QED  BY <1>3, <2>2, <2>3, <2>4, <2>5 DEF Next, Filter!Next
<1> QED  BY <1>1, <1>2, <1>3, Invariance, NoMisses, PTL DEF Spec, KeepsPromise, Filter!Spec
=============================================================================
