---------------------------- MODULE BlumeProofs -----------------------------
(***************************************************************************)
(* The growing filter of pyblume for every number of processes, keys,      *)
(* filters and crashes, and for all sizes: the chain of filters is whole   *)
(* at every moment, a check misses no key that was there when it was       *)
(* called, and an access leaves a mapping for the known reasons only.      *)
(*                                                                         *)
(* The argument: the lock makes the writer one, and every other handle a   *)
(* reader that changes nothing in the file.  The writer knows where the    *)
(* chain ends: it lies within its mapping, and while a filter is created,  *)
(* before the offset of the new one.  So neither the header of the new     *)
(* filter nor its offset, which comes behind the counted ones, disturbs    *)
(* what is counted, and the count makes the new one a part of the chain    *)
(* when it is complete.  Bits are never cleared except with the whole      *)
(* file, so that a key which is owed to a check is in a filter that the    *)
(* check has not seen yet.                                                 *)
(***************************************************************************)
EXTENDS Blume, TLAPS

\* Where a reader may be, and where only the writer is.
Readers == {"closed", "map", "idle", "check", "fault"}
Making  == {"remap", "header", "offset", "count"}
Places  == Readers \cup Making \cup {"truncate", "init", "bits", "keys_count"}

TypeOK ==
    /\ header \in [max_file_size : {0, MaxFileSize}, filter_count : 0..MAX_FILTERS,
                   filters : [Ranks -> Nat]]
    /\ fd_size \in Nat
    /\ area \in [Offsets -> [rank : Nat, keys_count : Nat, bits : SUBSET Keys]]
    /\ lock \in Handles \cup {None}
    /\ pc \in [Handles -> Places]
    /\ role \in [Handles -> {"read", "write"}]
    /\ map_size \in [Handles -> Nat]
    /\ key \in [Handles -> Keys \cup {None}]
    /\ idx \in [Handles -> Nat]
    /\ at \in [Handles -> Nat]
    /\ added \subseteq Keys
    /\ owed \in [Handles -> BOOLEAN]
    /\ crashes \in Nat

\* The filters that hd counts are in order, of the rank of their place, and end
\* before so many words.
Chain(hd, ar, words) ==
    \A i \in 1..hd.filter_count :
        /\ hd.filters[i] \in Offsets /\ HeaderSize <= hd.filters[i]
        /\ ar[hd.filters[i]].rank = i
        /\ hd.filters[i] + FilterSize[i] <= words
        /\ i > 1 => hd.filters[i - 1] + FilterSize[i - 1] <= hd.filters[i]

\* A filter that hd counts, behind the first so many, has the bits of the key.
Found(hd, ar, k, seen) ==
    \E i \in 1..hd.filter_count : i > seen /\ k \in ar[hd.filters[i]].bits

\* One handle writes.
Locked == \A h \in Handles :
    /\ lock = h => pc[h] # "closed" /\ role[h] = "write"
    /\ lock # h => /\ pc[h] \in Readers /\ (pc[h] # "closed" => role[h] = "read")
                   /\ pc[h] \in {"idle", "check"} => map_size[h] > 0

Sized == /\ fd_size > 0 => HeaderSize <= fd_size
         /\ fd_size = 0 => count = 0
         /\ \A i \in 1..count : HeaderSize <= header.filters[i]

Whole == HalfCreated \/ Chain(header, area, fd_size)

\* Between two calls, or during a check, the chain is mapped, or nothing.
WriterRests(h) ==
    pc[h] \in {"idle", "check", "fault"} /\ map_size[h] > 0 =>
        /\ HeaderSize <= map_size[h] /\ map_size[h] <= fd_size
        /\ HalfCreated \/ Chain(header, area, map_size[h])

WriterInits(h) ==
    pc[h] = "init" => /\ fd_size = HeaderSize /\ map_size[h] = HeaderSize
                      /\ added = {} /\ \A x \in Handles : ~owed[x]

\* The filter that is created lies between the chain and the end of the file.
WriterMakes(h) ==
    pc[h] \in Making =>
        /\ at[h] \in Offsets /\ HeaderSize <= at[h] /\ count < MAX_FILTERS
        /\ fd_size = at[h] + FilterSize[count + 1]
        /\ Chain(header, area, at[h])
        /\ map_size[h] = IF pc[h] = "remap" THEN at[h] ELSE fd_size
        /\ pc[h] \in {"offset", "count"} => area[at[h]].rank = count + 1
        /\ pc[h] = "count" => header.filters[count + 1] = at[h]

WriterSets(h) ==
    pc[h] \in {"bits", "keys_count"} =>
        /\ count > 0 /\ HeaderSize <= map_size[h] /\ map_size[h] <= fd_size
        /\ Chain(header, area, map_size[h])
        /\ pc[h] = "keys_count" => key[h] \in Filter(count).bits

HasKey(h) == pc[h] \in Making \cup {"bits", "keys_count"} => key[h] \in Keys

Writer == \A h \in Handles : lock = h =>
    WriterRests(h) /\ WriterInits(h) /\ WriterMakes(h) /\ WriterSets(h) /\ HasKey(h)

\* What was added is in the chain, and what a check owes is in the rest of it.
Kept == /\ \A k \in added : Found(header, area, k, 0)
        /\ \A h \in Handles : /\ owed[h] => Found(header, area, key[h], idx[h])
                              /\ pc[h] \notin {"check", "fault"} => idx[h] = 0 /\ ~owed[h]

IInv == TypeOK /\ Locked /\ Sized /\ Whole /\ Writer /\ Kept

-----------------------------------------------------------------------------
(* The chain. *)

LEMMA Constants ==
    /\ MAX_FILTERS \in Nat \ {0} /\ HeaderSize \in Nat \ {0} /\ MaxFileSize \in Nat \ {0}
    /\ n \in [Ranks -> Nat \ {0}] /\ FilterSize \in [Ranks -> Nat \ {0}]
    /\ MaxCrashes \in Nat /\ None \notin Handles
  BY BlumeAssumption

\* A chain stays one while what is counted keeps its place and its rank.
LEMMA ChainKept ==
    ASSUME NEW hd, NEW hd2, NEW ar, NEW ar2, NEW w \in Nat, NEW w2 \in Nat, w <= w2,
           hd.filter_count \in 0..MAX_FILTERS, hd2.filter_count = hd.filter_count,
           \A i \in 1..hd.filter_count : hd2.filters[i] = hd.filters[i],
           \A i \in 1..hd.filter_count : ar2[hd.filters[i]].rank = ar[hd.filters[i]].rank,
           Chain(hd, ar, w)
    PROVE  Chain(hd2, ar2, w2)
<1> SUFFICES ASSUME NEW i \in 1..hd2.filter_count
             PROVE  /\ hd2.filters[i] \in Offsets /\ HeaderSize <= hd2.filters[i]
                    /\ ar2[hd2.filters[i]].rank = i
                    /\ hd2.filters[i] + FilterSize[i] <= w2
                    /\ i > 1 => hd2.filters[i - 1] + FilterSize[i - 1] <= hd2.filters[i]
  BY DEF Chain
<1>1. i \in 1..hd.filter_count /\ i \in Ranks /\ hd2.filters[i] = hd.filters[i]
  BY Constants DEF Ranks
<1>2. /\ hd.filters[i] \in Offsets /\ HeaderSize <= hd.filters[i]
      /\ ar[hd.filters[i]].rank = i
      /\ hd.filters[i] + FilterSize[i] <= w
      /\ i > 1 => hd.filters[i - 1] + FilterSize[i - 1] <= hd.filters[i]
  BY <1>1 DEF Chain
<1>3. hd2.filters[i] + FilterSize[i] <= w2
  BY <1>1, <1>2, Constants DEF Offsets
<1>4. i > 1 => i - 1 \in 1..hd.filter_count
  BY <1>1
<1> QED
  BY <1>1, <1>2, <1>3, <1>4

LEMMA ChainWider ==
    ASSUME NEW hd, NEW ar, NEW w \in Nat, NEW w2 \in Nat, w <= w2,
           hd.filter_count \in 0..MAX_FILTERS, Chain(hd, ar, w)
    PROVE  Chain(hd, ar, w2)
  BY ChainKept

LEMMA FoundKept ==
    ASSUME NEW hd, NEW hd2, NEW ar, NEW ar2, NEW k, NEW seen,
           hd.filter_count \in Nat, hd2.filter_count \in Nat,
           hd.filter_count <= hd2.filter_count,
           \A i \in 1..hd.filter_count : hd2.filters[i] = hd.filters[i],
           \A i \in 1..hd.filter_count :
               ar[hd.filters[i]].bits \subseteq ar2[hd.filters[i]].bits,
           Found(hd, ar, k, seen)
    PROVE  Found(hd2, ar2, k, seen)
<1>1. PICK i \in 1..hd.filter_count : i > seen /\ k \in ar[hd.filters[i]].bits
  BY DEF Found
<1>2. i \in 1..hd2.filter_count
  OBVIOUS
<1> QED
  BY <1>1, <1>2 DEF Found

\* Every filter of a chain is mapped by who maps as many words.
LEMMA ChainWithin ==
    ASSUME TypeOK, NEW w \in Nat, Chain(header, area, w), NEW i \in 1..count
    PROVE  Within(i, w) /\ Filter(i).rank = i
<1>1. i \in Ranks
  BY Constants DEF TypeOK, count, Ranks
<1>2. /\ header.filters[i] \in Offsets /\ area[header.filters[i]].rank = i
      /\ header.filters[i] + FilterSize[i] <= w
  BY DEF Chain, count
<1> QED
  BY <1>1, <1>2 DEF Within, Filter

\* In a file whose creation was cut short no filter is mapped.
LEMMA HalfFaults ==
    ASSUME IInv, HalfCreated, NEW i \in 1..count, NEW h \in Handles
    PROVE  ~Mapped(h, i)
<1>1. HeaderSize <= header.filters[i] /\ fd_size = HeaderSize
  BY DEF IInv, Sized, HalfCreated
<1>2. CASE Within(i, fd_size)
  <2>1. /\ header.filters[i] \in Nat /\ Filter(i).rank \in Ranks
        /\ header.filters[i] + FilterSize[Filter(i).rank] <= HeaderSize
    BY <1>1, <1>2 DEF Within, Offsets
  <2>2. FilterSize[Filter(i).rank] \in Nat \ {0} /\ HeaderSize \in Nat
    BY <2>1, Constants
  <2> QED
    BY <1>1, <2>1, <2>2
<1> QED
  BY <1>2 DEF Mapped

\* A chain with a filter ends behind the header.
LEMMA ChainLong ==
    ASSUME NEW hd, NEW ar, NEW w \in Nat, Chain(hd, ar, w),
           hd.filter_count \in 1..MAX_FILTERS
    PROVE  w > HeaderSize
<1>1. 1 \in 1..hd.filter_count /\ 1 \in Ranks
  BY Constants DEF Ranks
<1>2. /\ hd.filters[1] \in Nat /\ HeaderSize <= hd.filters[1]
      /\ hd.filters[1] + FilterSize[1] <= w
  BY <1>1 DEF Chain, Offsets
<1>3. FilterSize[1] \in Nat \ {0} /\ HeaderSize \in Nat
  BY <1>1, Constants
<1> QED
  BY <1>2, <1>3

-----------------------------------------------------------------------------
(* A step of one handle. *)

Same(x) == /\ pc'[x] = pc[x] /\ role'[x] = role[x] /\ map_size'[x] = map_size[x]
           /\ key'[x] = key[x] /\ idx'[x] = idx[x] /\ at'[x] = at[x]

Clauses(h) == WriterRests(h) /\ WriterInits(h) /\ WriterMakes(h) /\ WriterSets(h) /\ HasKey(h)

\* What a handle is and does, as the lock wants it.
Keeps(h) == /\ lock = h => pc[h] # "closed" /\ role[h] = "write" /\ Clauses(h)
            /\ lock # h => /\ pc[h] \in Readers /\ (pc[h] # "closed" => role[h] = "read")
                           /\ pc[h] \in {"idle", "check"} => map_size[h] > 0

LEMMA Keeping == Locked /\ Writer <=> \A h \in Handles : Keeps(h)
  BY DEF Locked, Writer, Keeps, Clauses

\* A step that leaves the file alone.
LEMMA OneHandle ==
    ASSUME IInv, TypeOK', NEW h \in Handles, UNCHANGED <<fileVars, added>>,
           \A x \in Handles \ {h} :
               Same(x) /\ owed'[x] = owed[x] /\ (lock' = x <=> lock = x),
           Keeps(h)',
           owed'[h] => added # {} \/ owed[h],
           owed'[h] => Found(header, area, key'[h], idx'[h]),
           pc'[h] \notin {"check", "fault"} => idx'[h] = 0 /\ ~owed'[h]
    PROVE  IInv'
<1>1. Sized' /\ Whole'
  BY DEF IInv, Sized, Whole, HalfCreated, count, fileVars
<1>2. ASSUME NEW x \in Handles \ {h} PROVE Keeps(x)'
  <2>1. Keeps(x)
    BY Keeping DEF IInv
  <2>2. Same(x) /\ (lock' = x <=> lock = x) /\ header' = header /\ area' = area
        /\ fd_size' = fd_size /\ added' = added
    BY DEF fileVars
  <2>3. lock = x /\ WriterRests(x) => WriterRests(x)'
    BY <2>2 DEF Same, WriterRests, HalfCreated, count
  <2>4. lock = x /\ WriterInits(x) => WriterInits(x)'
    BY <2>2 DEF Same, WriterInits
  <2>5. WriterMakes(x) => WriterMakes(x)'
    BY <2>2 DEF Same, WriterMakes, count
  <2>6. WriterSets(x) => WriterSets(x)'
    BY <2>2 DEF Same, WriterSets, Filter, count
  <2>7. HasKey(x) => HasKey(x)'
    BY <2>2 DEF Same, HasKey
  <2>8. lock = x /\ Clauses(x) => Clauses(x)'
    BY <2>3, <2>4, <2>5, <2>6, <2>7 DEF Clauses
  <2> QED
    BY <2>1, <2>2, <2>8 DEF Keeps, Same
<1>3. Locked' /\ Writer'
  BY <1>2 DEF Keeps, Locked, Writer, Clauses
<1>4. Kept'
  BY DEF IInv, Kept, Same, fileVars
<1> QED
  BY <1>1, <1>3, <1>4 DEF IInv

\* A step of the writer, which may change the file.
LEMMA OneWriter ==
    ASSUME IInv, TypeOK', NEW h \in Handles, lock = h, lock' = lock,
           \A x \in Handles \ {h} : Same(x), role'[h] = role[h],
           pc'[h] # "closed", Clauses(h)', Sized', Whole', Kept'
    PROVE  IInv'
<1>1. Keeps(h)'
  BY DEF IInv, Locked, Keeps
<1>2. ASSUME NEW x \in Handles \ {h} PROVE Keeps(x)'
  BY DEF IInv, Locked, Keeps, Same
<1>3. Locked' /\ Writer'
  BY <1>1, <1>2 DEF Keeps, Locked, Writer, Clauses
<1> QED
  BY <1>3 DEF IInv

LEMMA InitInv == Init => IInv
<1> SUFFICES ASSUME Init PROVE IInv
  OBVIOUS
<1>1. TypeOK
  BY Constants DEF Init, TypeOK, Zeros, Places, Readers
<1>2. Locked /\ Writer
  BY Constants DEF Init, Locked, Writer, Readers
<1>3. Sized /\ Whole /\ Kept
  BY DEF Init, Sized, Whole, Chain, Kept, count
<1> QED
  BY <1>1, <1>2, <1>3 DEF IInv

-----------------------------------------------------------------------------
(* Opening, creating and closing. *)

LEMMA CreateInv == ASSUME IInv, NEW h \in Handles, Create(h) PROVE IInv'
<1>1. TypeOK'
  BY DEF IInv, TypeOK, Create, Goto, Places, Readers, Making, fileVars, callVars
<1>2. /\ pc[h] = "closed" /\ lock = None /\ lock' = h /\ pc'[h] = "truncate"
      /\ role'[h] = "write" /\ idx' = idx /\ owed' = owed
      /\ \A x \in Handles \ {h} : Same(x)
  BY DEF IInv, TypeOK, Create, Goto, Same, callVars
<1>3. Keeps(h)'
  BY <1>2, Constants DEF Keeps, Clauses, WriterRests, WriterInits, WriterMakes, WriterSets,
     HasKey, Making
<1>4. ~owed'[h] /\ idx'[h] = 0
  BY <1>2 DEF IInv, Kept
<1>5. \A x \in Handles \ {h} : owed'[x] = owed[x] /\ (lock' = x <=> lock = x)
  BY <1>2, Constants
<1> QED
  BY <1>1, <1>2, <1>3, <1>4, <1>5, OneHandle DEF Create

LEMMA TruncateInv == ASSUME IInv, NEW h \in Handles, Truncate(h) PROVE IInv'
<1>1. Zeros \in [Offsets -> [rank : Nat, keys_count : Nat, bits : SUBSET Keys]]
  BY DEF Zeros
<1>2. TypeOK'
  BY <1>1, Constants DEF IInv, TypeOK, Truncate, Goto, Places, callVars
<1>3. /\ pc[h] = "truncate" /\ lock' = lock /\ pc'[h] = "init" /\ role' = role
      /\ map_size'[h] = HeaderSize /\ fd_size' = HeaderSize /\ added' = {}
      /\ header' = header /\ idx' = idx /\ \A x \in Handles : ~owed'[x]
      /\ \A x \in Handles \ {h} : Same(x)
  BY DEF IInv, TypeOK, Truncate, Goto, Same, callVars
<1>4. lock = h
  BY <1>3 DEF IInv, Locked, Readers
<1>5. Clauses(h)'
  BY <1>3 DEF Clauses, WriterRests, WriterInits, WriterMakes, WriterSets, HasKey, Making
<1>6. Sized' /\ Whole'
  <2>1. count' = count /\ count \in Nat /\ HeaderSize \in Nat \ {0}
    BY <1>3, Constants DEF IInv, TypeOK, count
  <2>2. Sized'
    <3>1. \A i \in 1..count : HeaderSize <= header.filters[i]
      BY DEF IInv, Sized
    <3> QED
      BY <1>3, <2>1, <3>1 DEF Sized
  <2>3. CASE count > 0
    BY <1>3, <2>1, <2>2, <2>3 DEF Whole, HalfCreated
  <2>4. CASE count = 0
    <3>1. header'.filter_count = 0
      BY <1>3, <2>4 DEF count
    <3>2. Chain(header', area', fd_size')
      BY <3>1 DEF Chain
    <3> QED
      BY <2>2, <3>2 DEF Whole
  <2> QED
    BY <2>1, <2>2, <2>3, <2>4
<1>7. Kept'
  <2>1. \A x \in Handles : pc'[x] \notin {"check", "fault"} => idx'[x] = 0
    BY <1>3 DEF IInv, Kept, Same
  <2> QED
    BY <1>3, <2>1 DEF Kept
<1> QED
  BY <1>2, <1>3, <1>4, <1>5, <1>6, <1>7, OneWriter

LEMMA InitHeaderInv == ASSUME IInv, NEW h \in Handles, InitHeader(h) PROVE IInv'
<1>1. TypeOK'
  <2>1. header' \in [max_file_size : {0, MaxFileSize}, filter_count : 0..MAX_FILTERS,
                     filters : [Ranks -> Nat]]
    <3>1. /\ header' = [header EXCEPT !.max_file_size = MaxFileSize, !.filter_count = 0]
          /\ header \in [max_file_size : {0, MaxFileSize}, filter_count : 0..MAX_FILTERS,
                          filters : [Ranks -> Nat]]
      BY DEF IInv, TypeOK, InitHeader
    <3>2. 0 \in 0..MAX_FILTERS /\ MaxFileSize \in {0, MaxFileSize}
      BY Constants
    <3> QED
      BY <3>1, <3>2
  <2> QED
    BY <2>1 DEF IInv, TypeOK, InitHeader, Goto, Places, Readers, callVars
<1>2. /\ pc[h] = "init" /\ lock' = lock /\ pc'[h] = "idle" /\ role' = role
      /\ map_size' = map_size /\ fd_size' = fd_size /\ added' = added
      /\ header'.filter_count = 0 /\ count' = 0 /\ idx' = idx /\ owed' = owed
      /\ \A x \in Handles \ {h} : Same(x)
  BY DEF IInv, TypeOK, InitHeader, Goto, Same, callVars, count
<1>3. lock = h
  BY <1>2 DEF IInv, Locked, Readers
<1>4. /\ fd_size = HeaderSize /\ map_size[h] = HeaderSize
      /\ added = {} /\ \A x \in Handles : ~owed[x]
  BY <1>2, <1>3 DEF IInv, Writer, WriterInits
<1>5. \A w : Chain(header', area', w)
  BY <1>2 DEF Chain
<1>6. Clauses(h)'
  BY <1>2, <1>4, <1>5, Constants
  DEF Clauses, WriterRests, WriterInits, WriterMakes, WriterSets, HasKey, Making
<1>7. Sized' /\ Whole'
  BY <1>2, <1>4, <1>5, Constants DEF Sized, Whole
<1>8. Kept'
  <2>1. \A x \in Handles : pc'[x] \notin {"check", "fault"} => idx'[x] = 0
    BY <1>2 DEF IInv, Kept, Same
  <2> QED
    BY <1>2, <1>4, <2>1 DEF Kept
<1> QED
  BY <1>1, <1>2, <1>3, <1>6, <1>7, <1>8, OneWriter

LEMMA OpenInv ==
    ASSUME IInv, NEW h \in Handles, NEW as \in {"read", "write"}, Open(h, as)
    PROVE  IInv'
<1>1. TypeOK'
  BY DEF IInv, TypeOK, Open, Goto, Places, Readers, fileVars, callVars
<1>2. /\ pc[h] = "closed" /\ pc'[h] = "map" /\ role'[h] = as /\ idx' = idx /\ owed' = owed
      /\ lock # h
      /\ as = "write" => lock = None /\ lock' = h
      /\ as = "read" => lock' = lock
      /\ \A x \in Handles \ {h} : Same(x)
  BY DEF IInv, TypeOK, Open, Goto, Same, callVars, Locked
<1>3. Keeps(h)'
  BY <1>2, Constants DEF Keeps, Clauses, WriterRests, WriterInits, WriterMakes, WriterSets,
     HasKey, Making, Readers
<1>4. ~owed'[h] /\ idx'[h] = 0
  BY <1>2 DEF IInv, Kept
<1>5. \A x \in Handles \ {h} : owed'[x] = owed[x] /\ (lock' = x <=> lock = x)
  BY <1>2, Constants
<1> QED
  BY <1>1, <1>2, <1>3, <1>4, <1>5, OneHandle DEF Open

LEMMA MapInv == ASSUME IInv, NEW h \in Handles, Map(h) PROVE IInv'
<1>1. TypeOK'
  BY DEF IInv, TypeOK, Map, Goto, Places, Readers, fileVars, callVars, Unlocked
<1>2. /\ pc[h] = "map" /\ role' = role /\ idx' = idx /\ owed' = owed
      /\ pc'[h] = IF fd_size > 0 THEN "idle" ELSE "closed"
      /\ lock' = IF fd_size > 0 THEN lock ELSE Unlocked(h)
      /\ map_size'[h] = fd_size /\ UNCHANGED fileVars
      /\ \A x \in Handles \ {h} : Same(x)
  BY DEF IInv, TypeOK, Map, Goto, Same, callVars
<1>3. HalfCreated' <=> HalfCreated
  BY <1>2 DEF HalfCreated, count, fileVars
<1>4. Keeps(h)'
  <2>1. CASE fd_size > 0 /\ lock = h
    <3>1. HeaderSize <= fd_size /\ (HalfCreated \/ Chain(header, area, fd_size))
      BY <2>1 DEF IInv, Sized, Whole
    <3>2. fd_size' = fd_size /\ header' = header /\ area' = area /\ fd_size \in Nat
      BY <1>2 DEF fileVars, IInv, TypeOK
    <3>3. WriterRests(h)'
      BY <1>2, <1>3, <2>1, <3>1, <3>2 DEF WriterRests
    <3> QED
      BY <1>2, <2>1, <3>3 DEF Keeps, Clauses, WriterInits, WriterMakes, WriterSets,
         HasKey, Making, IInv, Locked
  <2>2. CASE fd_size > 0 /\ lock # h
    BY <1>2, <2>2 DEF Keeps, IInv, Locked, Readers
  <2>3. CASE ~(fd_size > 0)
    BY <1>2, <2>3, Constants DEF Keeps, Unlocked, Readers
  <2> QED
    BY <2>1, <2>2, <2>3
<1>5. ~owed'[h] /\ idx'[h] = 0
  BY <1>2 DEF IInv, Kept
<1>6. \A x \in Handles \ {h} : owed'[x] = owed[x] /\ (lock' = x <=> lock = x)
  BY <1>2, Constants DEF Unlocked
<1> QED
  BY <1>1, <1>2, <1>4, <1>5, <1>6, OneHandle DEF Map

LEMMA LeaveInv ==
    ASSUME IInv, NEW h \in Handles, Leave(h), crashes' \in Nat
    PROVE  IInv'
<1>1. TypeOK'
  BY DEF IInv, TypeOK, Leave, Goto, Places, Readers, fileVars, Unlocked
<1>2. /\ pc'[h] = "closed" /\ lock' = Unlocked(h) /\ idx'[h] = 0 /\ ~owed'[h]
      /\ UNCHANGED <<fileVars, added>>
      /\ \A x \in Handles \ {h} : Same(x) /\ owed'[x] = owed[x]
  BY DEF IInv, TypeOK, Leave, Goto, Same
<1>3. Keeps(h)'
  BY <1>2, Constants DEF Keeps, Unlocked, Readers
<1>4. \A x \in Handles \ {h} : lock' = x <=> lock = x
  BY <1>2, Constants DEF Unlocked
<1> QED
  BY <1>1, <1>2, <1>3, <1>4, OneHandle

-----------------------------------------------------------------------------
(* Adding. *)

\* The writer, in a call between two places where the file does not change.
LEMMA OneCall ==
    ASSUME IInv, TypeOK', NEW h \in Handles, lock = h, UNCHANGED <<fileVars, lock, role, added, owed>>,
           \A x \in Handles \ {h} : Same(x), ~owed[h] \/ (idx'[h] = idx[h] /\ key'[h] = key[h]),
           pc'[h] # "closed", pc'[h] \in {"check", "fault"} \/ (idx'[h] = 0 /\ ~owed[h]),
           Clauses(h)'
    PROVE  IInv'
<1>1. Keeps(h)'
  BY DEF IInv, Locked, Keeps
<1>2. owed'[h] => Found(header, area, key'[h], idx'[h])
  BY DEF IInv, Kept
<1>3. \A x \in Handles \ {h} : Same(x) /\ owed'[x] = owed[x] /\ (lock' = x <=> lock = x)
  OBVIOUS
<1>4. UNCHANGED <<fileVars, added>>
  OBVIOUS
<1> QED
  BY <1>1, <1>2, <1>3, <1>4, OneHandle

\* What the writer of a call is, and may rely on.
LEMMA WriterHere ==
    ASSUME IInv, NEW h \in Handles,
           pc[h] \notin Readers \/ (pc[h] # "closed" /\ role[h] = "write")
    PROVE  lock = h /\ Clauses(h)
  BY DEF IInv, Locked, Writer, Clauses

LEMMA AddInv == ASSUME IInv, NEW h \in Handles, NEW k \in Keys, Add(h, k) PROVE IInv'
<1>1. /\ pc[h] = "idle" /\ map_size[h] > 0 /\ map_size[h] \in Nat /\ lock' = lock
      /\ count \in 0..MAX_FILTERS /\ count' = count
      /\ UNCHANGED <<header, area, lock, role, map_size, idx, added, owed>>
      /\ count > 0 => Mapped(h, count)
      /\ key' = [key EXCEPT ![h] = k] /\ key'[h] = k
  BY DEF IInv, TypeOK, Add, count
<1>2. lock = h /\ WriterRests(h)
  BY WriterHere DEF Add, Clauses
<1>3. ~HalfCreated
  BY <1>1, HalfFaults DEF HalfCreated
<1>4. /\ HeaderSize <= map_size[h] /\ map_size[h] <= fd_size
      /\ Chain(header, area, map_size[h])
  BY <1>1, <1>2, <1>3 DEF WriterRests
<1>5. ~owed[h] /\ idx[h] = 0
  BY <1>1 DEF IInv, Kept
<1>6. CASE count > 0 /\ ~Full(count) /\ Goto(h, "bits") /\ UNCHANGED <<fd_size, at>>
  <2>1. TypeOK'
    BY <1>1, <1>6 DEF IInv, TypeOK, Add, Goto, Places
  <2>2. pc'[h] = "bits" /\ \A x \in Handles \ {h} : Same(x)
    BY <1>1, <1>6 DEF IInv, TypeOK, Goto, Same
  <2>3. Clauses(h)'
    BY <1>1, <1>4, <1>6, <2>2
    DEF Clauses, WriterRests, WriterInits, WriterMakes, WriterSets, HasKey, Making
  <2> QED
    BY <1>1, <1>2, <1>5, <1>6, <2>1, <2>2, <2>3, OneCall DEF fileVars
<1>7. CASE /\ count < MAX_FILTERS
           /\ fd_size' = map_size[h] + FilterSize[count + 1]
           /\ fd_size' <= header.max_file_size
           /\ at' = [at EXCEPT ![h] = map_size[h]]
           /\ Goto(h, "remap")
  <2>1. /\ FilterSize[count + 1] \in Nat \ {0} /\ fd_size' \in Nat
        /\ fd_size' > map_size[h] /\ map_size[h] \in Offsets
    <3>1. count + 1 \in Ranks
      BY <1>1, <1>7, Constants DEF Ranks
    <3>2. header.max_file_size \in {0, MaxFileSize}
      BY DEF IInv, TypeOK
    <3> QED
      BY <1>1, <1>7, <3>1, <3>2, Constants DEF Offsets
  <2>2. TypeOK'
    BY <1>1, <1>7, <2>1 DEF IInv, TypeOK, Add, Goto, Places, Making
  <2>3. /\ pc'[h] = "remap" /\ at'[h] = map_size[h] /\ role' = role
        /\ \A x \in Handles \ {h} : Same(x)
    BY <1>1, <1>7 DEF IInv, TypeOK, Goto, Same
  <2>4. Clauses(h)'
    BY <1>1, <1>4, <1>7, <2>1, <2>3
    DEF Clauses, WriterRests, WriterInits, WriterMakes, WriterSets, HasKey, Making
  <2>5. Chain(header, area, fd_size')
    BY <1>1, <1>4, <2>1, ChainKept DEF count
  <2>6. Sized' /\ Whole'
    <3>1. \A i \in 1..count : HeaderSize <= header.filters[i]
      BY DEF IInv, Sized
    <3> QED
      BY <1>1, <1>4, <2>1, <2>5, <3>1, Constants DEF Sized, Whole
  <2>7. Kept'
    BY <1>1, <1>5, <2>3 DEF IInv, Kept, Same
  <2> QED
    BY <1>1, <1>2, <2>2, <2>3, <2>4, <2>6, <2>7, OneWriter
<1> QED
  BY <1>6, <1>7 DEF Add

LEMMA AddFaultsInv == ASSUME IInv, NEW h \in Handles, AddFaults(h) PROVE IInv'
<1>1. TypeOK'
  BY DEF IInv, TypeOK, AddFaults, Goto, Places, Readers, fileVars, callVars
<1>2. /\ pc[h] = "idle" /\ pc'[h] = "fault" /\ map_size' = map_size /\ idx' = idx
      /\ UNCHANGED <<fileVars, lock, role, added, owed>>
      /\ \A x \in Handles \ {h} : Same(x)
  BY DEF IInv, TypeOK, AddFaults, Goto, Same, callVars
<1>3. lock = h /\ WriterRests(h)
  BY WriterHere DEF AddFaults, Clauses
<1>4. Clauses(h)'
  BY <1>2, <1>3 DEF Clauses, WriterRests, WriterInits, WriterMakes, WriterSets, HasKey,
     Making, HalfCreated, count, fileVars
<1>5. ~owed[h]
  BY <1>2 DEF IInv, Kept
<1> QED
  BY <1>1, <1>2, <1>3, <1>4, <1>5, OneCall

LEMMA RemapInv == ASSUME IInv, NEW h \in Handles, Remap(h) PROVE IInv'
<1>1. /\ pc[h] = "remap" /\ count \in 0..MAX_FILTERS /\ fd_size \in Nat /\ map_size[h] \in Nat
      /\ UNCHANGED <<fileVars, lock, role, added, owed>>
  BY DEF IInv, TypeOK, Remap, count
<1>2. lock = h /\ WriterMakes(h) /\ HasKey(h)
  BY <1>1, WriterHere DEF Readers, Clauses
<1>3. /\ at[h] \in Offsets /\ HeaderSize <= at[h] /\ count < MAX_FILTERS
      /\ fd_size = at[h] + FilterSize[count + 1]
      /\ Chain(header, area, at[h]) /\ map_size[h] = at[h] /\ key[h] \in Keys
  BY <1>1, <1>2 DEF WriterMakes, HasKey, Making
<1>4. ~owed[h] /\ idx[h] = 0
  BY <1>1 DEF IInv, Kept
<1>5. FilterSize[count + 1] \in Nat \ {0} /\ HeaderSize <= map_size[h] /\ map_size[h] <= fd_size
  BY <1>1, <1>3, Constants DEF Ranks
<1>6. CASE map_size' = [map_size EXCEPT ![h] = fd_size] /\ Goto(h, "header") /\ UNCHANGED callVars
  <2>1. TypeOK'
    BY <1>1, <1>6 DEF IInv, TypeOK, Remap, Goto, Places, Making, fileVars, callVars
  <2>2. /\ pc'[h] = "header" /\ map_size'[h] = fd_size /\ at' = at /\ key' = key /\ idx' = idx
        /\ \A x \in Handles \ {h} : Same(x)
    BY <1>1, <1>6 DEF IInv, TypeOK, Goto, Same, callVars
  <2>3. Clauses(h)'
    BY <1>1, <1>3, <2>2 DEF Clauses, WriterRests, WriterInits, WriterMakes, WriterSets,
       HasKey, Making, fileVars, count
  <2> QED
    BY <1>1, <1>2, <1>4, <2>1, <2>2, <2>3, OneCall
<1>7. CASE map_size' \in {map_size, [map_size EXCEPT ![h] = 0]} /\ Returns(h)
  <2>1. TypeOK'
    BY <1>1, <1>7 DEF IInv, TypeOK, Remap, Returns, Goto, Places, Readers, fileVars
  <2>2. /\ pc'[h] = "idle" /\ map_size'[h] \in {map_size[h], 0} /\ idx'[h] = 0
        /\ \A x \in Handles \ {h} : Same(x)
    BY <1>1, <1>7 DEF IInv, TypeOK, Returns, Goto, Same
  <2>3. Clauses(h)'
    BY <1>1, <1>3, <1>5, <2>2 DEF Clauses, WriterRests, WriterInits, WriterMakes, WriterSets,
       HasKey, Making, fileVars
  <2> QED
    BY <1>1, <1>2, <1>4, <2>1, <2>2, <2>3, OneCall
<1> QED
  BY <1>6, <1>7 DEF Remap

\* The filters that are counted lie before the one that is created.
LEMMA Behind ==
    ASSUME NEW hd, NEW ar, NEW w \in Nat, Chain(hd, ar, w), hd.filter_count \in 0..MAX_FILTERS,
           NEW i \in 1..hd.filter_count
    PROVE  hd.filters[i] \in Offsets /\ hd.filters[i] < w
<1>1. i \in Ranks
  BY Constants DEF Ranks
<1>2. hd.filters[i] \in Offsets /\ hd.filters[i] + FilterSize[i] <= w
  BY DEF Chain
<1> QED
  BY <1>1, <1>2, Constants DEF Offsets

\* While a filter is created.
LEMMA MakerHere ==
    ASSUME IInv, NEW h \in Handles, pc[h] \in Making
    PROVE  /\ lock = h /\ WriterMakes(h) /\ key[h] \in Keys
           /\ at[h] \in Offsets /\ at[h] \in Nat /\ HeaderSize <= at[h] /\ fd_size \in Nat
           /\ count \in Nat /\ count < MAX_FILTERS /\ HeaderSize \in Nat \ {0}
           /\ FilterSize[count + 1] \in Nat \ {0} /\ fd_size = at[h] + FilterSize[count + 1]
           /\ fd_size > at[h] /\ fd_size > HeaderSize
           /\ Chain(header, area, at[h])
           /\ ~owed[h] /\ idx[h] = 0
<1>1. lock = h /\ WriterMakes(h) /\ HasKey(h)
  BY WriterHere DEF Making, Readers, Clauses
<1>2. /\ at[h] \in Offsets /\ HeaderSize <= at[h] /\ count < MAX_FILTERS
      /\ fd_size = at[h] + FilterSize[count + 1] /\ Chain(header, area, at[h])
      /\ key[h] \in Keys
  BY <1>1 DEF WriterMakes, HasKey
<1>3. count \in Nat /\ fd_size \in Nat /\ count + 1 \in Ranks
  <2>1. count \in 0..MAX_FILTERS /\ fd_size \in Nat
    BY DEF IInv, TypeOK, count
  <2> QED
    BY <1>2, <2>1, Constants DEF Ranks
<1>4. ~owed[h] /\ idx[h] = 0
  BY DEF IInv, Kept, Making
<1> QED
  BY <1>1, <1>2, <1>3, <1>4, Constants DEF Offsets

LEMMA WriteHeaderInv == ASSUME IInv, NEW h \in Handles, WriteHeader(h) PROVE IInv'
<1>1. /\ pc[h] = "header" /\ UNCHANGED <<header, fd_size, lock, role, map_size, added, owed>>
      /\ UNCHANGED <<key, idx, at>> /\ count' = count
  BY DEF WriteHeader, callVars, count
<1>2. /\ lock = h /\ WriterMakes(h) /\ key[h] \in Keys
      /\ at[h] \in Offsets /\ at[h] \in Nat /\ HeaderSize <= at[h] /\ fd_size \in Nat
      /\ count \in Nat /\ count < MAX_FILTERS /\ HeaderSize \in Nat \ {0}
      /\ fd_size = at[h] + FilterSize[count + 1] /\ fd_size > at[h] /\ fd_size > HeaderSize
      /\ Chain(header, area, at[h])
      /\ map_size[h] = fd_size
  BY <1>1, MakerHere DEF Making, WriterMakes
<1>3. /\ area'[at[h]].rank = count + 1
      /\ \A o \in Offsets : area'[o].bits = area[o].bits
      /\ \A o \in Offsets : o # at[h] => area'[o].rank = area[o].rank
  BY <1>2 DEF IInv, TypeOK, WriteHeader
<1>4. TypeOK'
  <2>1. area' \in [Offsets -> [rank : Nat, keys_count : Nat, bits : SUBSET Keys]]
    <3> DEFINE f == [area[at[h]] EXCEPT !.rank = count + 1, !.keys_count = 0]
    <3>1. area \in [Offsets -> [rank : Nat, keys_count : Nat, bits : SUBSET Keys]]
      BY DEF IInv, TypeOK
    <3>2. f \in [rank : Nat, keys_count : Nat, bits : SUBSET Keys]
      <4>1. area[at[h]] \in [rank : Nat, keys_count : Nat, bits : SUBSET Keys]
        BY <1>2, <3>1
      <4>2. count + 1 \in Nat
        BY <1>2
      <4> QED
        BY <4>1, <4>2
    <3>3. area' = [area EXCEPT ![at[h]] = f]
      BY <1>2, <3>1 DEF WriteHeader
    <3> HIDE DEF f
    <3> QED
      BY <3>1, <3>2, <3>3
  <2> QED
    BY <1>1, <2>1 DEF IInv, TypeOK, WriteHeader, Goto, Places, Making
<1>5. pc'[h] = "offset" /\ \A x \in Handles \ {h} : Same(x)
  BY <1>1 DEF IInv, TypeOK, WriteHeader, Goto, Same
<1>6. header.filter_count \in 0..MAX_FILTERS /\ header.filter_count = count
  BY DEF IInv, TypeOK, count
<1>7. \A i \in 1..count : /\ area'[header.filters[i]].rank = area[header.filters[i]].rank
                          /\ area'[header.filters[i]].bits = area[header.filters[i]].bits
  BY <1>2, <1>3, <1>6, Behind
<1>8. Chain(header', area', at[h]) /\ Chain(header', area', fd_size)
  BY <1>1, <1>2, <1>6, <1>7, ChainKept
<1>9. Clauses(h)'
  BY <1>1, <1>2, <1>3, <1>5, <1>8 DEF Clauses, WriterRests, WriterInits, WriterMakes,
     WriterSets, HasKey, Making
<1>10. Sized' /\ Whole'
  BY <1>1, <1>8 DEF IInv, Sized, Whole
<1>11. Kept'
  <2>1. ASSUME NEW k, NEW seen, Found(header, area, k, seen)
        PROVE  Found(header', area', k, seen)
    BY <1>1, <1>2, <1>6, <1>7, <2>1, FoundKept
  <2> QED
    BY <1>1, <1>5, <2>1 DEF IInv, Kept, Same
<1> QED
  BY <1>1, <1>2, <1>4, <1>5, <1>9, <1>10, <1>11, OneWriter

LEMMA WriteOffsetInv == ASSUME IInv, NEW h \in Handles, WriteOffset(h) PROVE IInv'
<1>1. /\ pc[h] = "offset" /\ UNCHANGED <<area, fd_size, lock, role, map_size, added, owed>>
      /\ UNCHANGED <<key, idx, at>>
  BY DEF WriteOffset, callVars
<1>2. /\ lock = h /\ WriterMakes(h) /\ key[h] \in Keys
      /\ at[h] \in Offsets /\ at[h] \in Nat /\ HeaderSize <= at[h] /\ fd_size \in Nat
      /\ count \in Nat /\ count < MAX_FILTERS /\ HeaderSize \in Nat \ {0}
      /\ fd_size = at[h] + FilterSize[count + 1] /\ fd_size > at[h] /\ fd_size > HeaderSize
      /\ Chain(header, area, at[h])
      /\ map_size[h] = fd_size /\ area[at[h]].rank = count + 1
  BY <1>1, MakerHere DEF Making, WriterMakes
<1>3. count + 1 \in Ranks
  BY <1>2, Constants DEF Ranks
<1>4. /\ header'.filter_count = header.filter_count /\ count' = count
      /\ header'.filters = [header.filters EXCEPT ![count + 1] = at[h]]
      /\ header' \in [max_file_size : {0, MaxFileSize}, filter_count : 0..MAX_FILTERS,
                      filters : [Ranks -> Nat]]
  BY <1>2, <1>3 DEF IInv, TypeOK, WriteOffset, count
<1>5. /\ header'.filters[count + 1] = at[h]
      /\ \A i \in 1..count : header'.filters[i] = header.filters[i]
  <2>1. header.filters \in [Ranks -> Nat]
    BY DEF IInv, TypeOK
  <2>2. 1..count \subseteq Ranks /\ count + 1 \notin 1..count
    BY <1>2, Constants DEF Ranks
  <2> QED
    BY ONLY <1>3, <1>4, <2>1, <2>2
<1>6. TypeOK'
  BY <1>1, <1>4 DEF IInv, TypeOK, WriteOffset, Goto, Places, Making
<1>7. pc'[h] = "count" /\ \A x \in Handles \ {h} : Same(x)
  BY <1>1 DEF IInv, TypeOK, WriteOffset, Goto, Same
<1>8. header.filter_count \in 0..MAX_FILTERS /\ header.filter_count = count
  BY DEF IInv, TypeOK, count
<1>9. Chain(header', area', at[h]) /\ Chain(header', area', fd_size)
  <2>1. \A i \in 1..header.filter_count :
            /\ header'.filters[i] = header.filters[i]
            /\ area'[header.filters[i]].rank = area[header.filters[i]].rank
    BY <1>1, <1>5, <1>8
  <2>2. header'.filter_count = header.filter_count
    BY <1>4
  <2>3. at[h] <= at[h] /\ at[h] <= fd_size
    BY <1>2
  <2> QED
    BY <1>2, <1>8, <2>1, <2>2, <2>3, ChainKept
<1>10. Clauses(h)'
  BY <1>1, <1>2, <1>4, <1>5, <1>7, <1>9 DEF Clauses, WriterRests, WriterInits, WriterMakes,
     WriterSets, HasKey, Making
<1>11. Sized' /\ Whole'
  BY <1>1, <1>4, <1>5, <1>9 DEF IInv, Sized, Whole
<1>12. Kept'
  <2>1. ASSUME NEW k, NEW seen, Found(header, area, k, seen)
        PROVE  Found(header', area', k, seen)
    <3>1. \A i \in 1..header.filter_count :
              /\ header'.filters[i] = header.filters[i]
              /\ area[header.filters[i]].bits \subseteq area'[header.filters[i]].bits
      BY <1>1, <1>5, <1>8
    <3>2. header.filter_count \in Nat /\ header'.filter_count = header.filter_count
      BY <1>2, <1>4, <1>8
    <3> QED
      BY <2>1, <3>1, <3>2, FoundKept
  <2> QED
    BY <1>1, <1>7, <2>1 DEF IInv, Kept, Same
<1> QED
  BY <1>1, <1>2, <1>6, <1>7, <1>10, <1>11, <1>12, OneWriter

\* The count makes the new filter a part of the chain.
LEMMA WriteCountInv == ASSUME IInv, NEW h \in Handles, WriteCount(h) PROVE IInv'
<1>1. /\ pc[h] = "count" /\ UNCHANGED <<area, fd_size, lock, role, map_size, added, owed>>
      /\ UNCHANGED <<key, idx, at>>
  BY DEF WriteCount, callVars
<1>2. /\ lock = h /\ WriterMakes(h) /\ key[h] \in Keys
      /\ at[h] \in Offsets /\ at[h] \in Nat /\ HeaderSize <= at[h] /\ fd_size \in Nat
      /\ count \in Nat /\ count < MAX_FILTERS /\ HeaderSize \in Nat \ {0}
      /\ fd_size = at[h] + FilterSize[count + 1] /\ fd_size > at[h] /\ fd_size > HeaderSize
      /\ Chain(header, area, at[h])
      /\ map_size[h] = fd_size /\ area[at[h]].rank = count + 1
      /\ header.filters[count + 1] = at[h]
  BY <1>1, MakerHere DEF Making, WriterMakes
<1>3. /\ header'.filter_count = count + 1 /\ count' = count + 1 /\ header'.filters = header.filters
      /\ header' \in [max_file_size : {0, MaxFileSize}, filter_count : 0..MAX_FILTERS,
                      filters : [Ranks -> Nat]]
  BY <1>2, Constants DEF IInv, TypeOK, WriteCount, count
<1>4. TypeOK'
  BY <1>1, <1>3 DEF IInv, TypeOK, WriteCount, Goto, Places
<1>5. pc'[h] = "bits" /\ \A x \in Handles \ {h} : Same(x)
  BY <1>1 DEF IInv, TypeOK, WriteCount, Goto, Same
<1>6. header.filter_count \in 0..MAX_FILTERS /\ header.filter_count = count
  BY DEF IInv, TypeOK, count
<1>7. Chain(header, area, fd_size)
  BY <1>2, <1>6, ChainWider
<1>8. Chain(header', area', fd_size)
  <2> SUFFICES ASSUME NEW i \in 1..(count + 1)
               PROVE  /\ header.filters[i] \in Offsets /\ HeaderSize <= header.filters[i]
                      /\ area[header.filters[i]].rank = i
                      /\ header.filters[i] + FilterSize[i] <= fd_size
                      /\ i > 1 => header.filters[i - 1] + FilterSize[i - 1] <= header.filters[i]
    BY <1>1, <1>3 DEF Chain
  <2>1. CASE i = count + 1
    <3>1. i > 1 => i - 1 \in 1..count
      BY <1>2, <2>1
    <3>2. i > 1 => header.filters[i - 1] + FilterSize[i - 1] <= at[h]
      BY <1>2, <1>6, <3>1 DEF Chain
    <3> QED
      BY <1>2, <2>1, <3>2
  <2>2. CASE i \in 1..count
    BY <1>6, <1>7, <2>2 DEF Chain
  <2> QED
    BY <1>2, <2>1, <2>2
<1>9. Clauses(h)'
  BY <1>1, <1>2, <1>3, <1>5, <1>8 DEF Clauses, WriterRests, WriterInits, WriterMakes,
     WriterSets, HasKey, Making
<1>10. Sized' /\ Whole'
  <2>1. \A i \in 1..(count + 1) : HeaderSize <= header.filters[i]
    BY <1>1, <1>3, <1>8 DEF Chain
  <2> QED
    BY <1>1, <1>2, <1>3, <1>8, <2>1, Constants DEF Sized, Whole
<1>11. Kept'
  <2>1. ASSUME NEW k, NEW seen, Found(header, area, k, seen)
        PROVE  Found(header', area', k, seen)
    BY <1>1, <1>2, <1>3, <1>6, <2>1, FoundKept
  <2> QED
    BY <1>1, <1>5, <2>1 DEF IInv, Kept, Same
<1> QED
  BY <1>1, <1>2, <1>4, <1>5, <1>9, <1>10, <1>11, OneWriter

\* While a key is added to the newest filter.
LEMMA SetterHere ==
    ASSUME IInv, NEW h \in Handles, pc[h] \in {"bits", "keys_count"}
    PROVE  /\ lock = h /\ WriterSets(h) /\ key[h] \in Keys
           /\ header.filter_count = count /\ count \in 1..MAX_FILTERS
           /\ map_size[h] \in Nat /\ fd_size \in Nat /\ map_size[h] <= fd_size
           /\ HeaderSize <= map_size[h]
           /\ Chain(header, area, map_size[h]) /\ Chain(header, area, fd_size)
           /\ header.filters[count] \in Offsets
           /\ ~owed[h] /\ idx[h] = 0
<1>1. lock = h /\ WriterSets(h) /\ HasKey(h)
  BY WriterHere DEF Readers, Clauses
<1>2. /\ count > 0 /\ map_size[h] <= fd_size /\ Chain(header, area, map_size[h])
      /\ HeaderSize <= map_size[h] /\ key[h] \in Keys
  BY <1>1 DEF WriterSets, HasKey
<1>3. /\ header.filter_count = count /\ count \in 0..MAX_FILTERS
      /\ map_size[h] \in Nat /\ fd_size \in Nat
  BY DEF IInv, TypeOK, count
<1>4. count \in 1..MAX_FILTERS /\ count \in 1..header.filter_count
  BY <1>2, <1>3, Constants
<1>5. Chain(header, area, fd_size)
  BY <1>2, <1>3, ChainWider
<1>6. header.filters[count] \in Offsets
  BY <1>2, <1>4 DEF Chain
<1>7. ~owed[h] /\ idx[h] = 0
  BY DEF IInv, Kept
<1> QED
  BY <1>1, <1>2, <1>3, <1>4, <1>5, <1>6, <1>7

LEMMA FiltersGrow ==
    ASSUME NEW hd, NEW ar, NEW ar2, hd.filter_count \in 0..MAX_FILTERS,
           \A i \in 1..hd.filter_count :
               /\ ar2[hd.filters[i]].rank = ar[hd.filters[i]].rank
               /\ ar[hd.filters[i]].bits \subseteq ar2[hd.filters[i]].bits
    PROVE  /\ \A w \in Nat : Chain(hd, ar, w) => Chain(hd, ar2, w)
           /\ \A k, seen : Found(hd, ar, k, seen) => Found(hd, ar2, k, seen)
<1>1. ASSUME NEW w \in Nat, Chain(hd, ar, w) PROVE Chain(hd, ar2, w)
  BY <1>1, ChainKept
<1>2. ASSUME NEW k, NEW seen, Found(hd, ar, k, seen) PROVE Found(hd, ar2, k, seen)
  BY <1>2 DEF Found
<1> QED
  BY <1>1, <1>2

\* Bits that are set and keys that are counted disturb nothing.
LEMMA Filled ==
    ASSUME IInv, NEW h \in Handles, pc[h] \in {"bits", "keys_count"},
           UNCHANGED <<header, fd_size, lock, role, map_size, owed>>,
           NEW f \in [rank : Nat, keys_count : Nat, bits : SUBSET Keys],
           f.rank = Filter(count).rank, Filter(count).bits \subseteq f.bits,
           area' = [area EXCEPT ![header.filters[count]] = f],
           \A x \in Handles \ {h} : Same(x),
           pc'[h] \in {"keys_count", "idle"}, idx'[h] = 0,
           pc'[h] = "keys_count" => key'[h] = key[h] /\ key[h] \in f.bits,
           added' \subseteq added \cup f.bits, TypeOK'
    PROVE  IInv'
<1>1. /\ lock = h /\ WriterSets(h) /\ key[h] \in Keys
      /\ header.filter_count = count /\ count \in 1..MAX_FILTERS
      /\ map_size[h] \in Nat /\ fd_size \in Nat /\ map_size[h] <= fd_size
      /\ HeaderSize <= map_size[h]
      /\ Chain(header, area, map_size[h]) /\ Chain(header, area, fd_size)
      /\ header.filters[count] \in Offsets
      /\ ~owed[h] /\ idx[h] = 0
  BY SetterHere
<1>2. area \in [Offsets -> [rank : Nat, keys_count : Nat, bits : SUBSET Keys]]
  BY DEF IInv, TypeOK
<1>3. \A o \in Offsets : area'[o].rank = area[o].rank /\ area[o].bits \subseteq area'[o].bits
  BY <1>1, <1>2 DEF Filter
<1>4. count' = count /\ header' = header /\ area'[header.filters[count]] = f
  BY <1>1, <1>2 DEF count
<1>5. \A i \in 1..header.filter_count :
          /\ area'[header.filters[i]].rank = area[header.filters[i]].rank
          /\ area[header.filters[i]].bits \subseteq area'[header.filters[i]].bits
  BY <1>1, <1>3 DEF Chain
<1>6. header.filter_count \in 0..MAX_FILTERS /\ header.filter_count \in Nat
  BY <1>1, Constants
<1>7. /\ \A w \in Nat : Chain(header, area, w) => Chain(header, area', w)
      /\ \A k, seen : Found(header, area, k, seen) => Found(header, area', k, seen)
  BY ONLY <1>5, <1>6, FiltersGrow
<1>8. Chain(header', area', map_size[h]) /\ Chain(header', area', fd_size)
  BY ONLY <1>1, <1>4, <1>7
<1>9. Clauses(h)'
  BY <1>1, <1>4, <1>8, Constants DEF Clauses, WriterRests, WriterInits, WriterMakes, WriterSets,
     HasKey, Making, Filter
<1>10. Sized' /\ Whole'
  BY <1>4, <1>8 DEF IInv, Sized, Whole
<1>11. Kept'
  <2>1. \A k \in f.bits : Found(header', area', k, 0)
    BY <1>1, <1>4 DEF Found
  <2>2. Kept
    BY DEF IInv
  <2>3. \A k \in added' : Found(header', area', k, 0)
    <3>1. added' \subseteq added \cup f.bits
      OBVIOUS
    <3> QED
      BY ONLY <1>4, <1>7, <2>1, <2>2, <3>1 DEF Kept
  <2>4. ASSUME NEW x \in Handles
        PROVE  /\ owed'[x] => Found(header', area', key'[x], idx'[x])
               /\ pc'[x] \notin {"check", "fault"} => idx'[x] = 0 /\ ~owed'[x]
    <3>1. owed' = owed /\ idx'[h] = 0 /\ (x # h => Same(x))
      OBVIOUS
    <3> QED
      BY ONLY <1>1, <1>4, <1>7, <2>2, <3>1, x \in Handles DEF Kept, Same
  <2> QED
    BY ONLY <2>3, <2>4 DEF Kept
<1> QED
  BY <1>1, <1>9, <1>10, <1>11, OneWriter

LEMMA SetBitsInv == ASSUME IInv, NEW h \in Handles, SetBits(h) PROVE IInv'
<1> DEFINE f == [Filter(count) EXCEPT !.bits = @ \cup {key[h]}]
<1>1. /\ pc[h] = "bits" /\ UNCHANGED <<header, fd_size, lock, role, map_size, owed>>
      /\ UNCHANGED <<key, idx, at, added, crashes>>
  BY DEF SetBits, callVars
<1>2. key[h] \in Keys /\ header.filters[count] \in Offsets /\ idx[h] = 0
  BY <1>1, SetterHere
<1>3. area \in [Offsets -> [rank : Nat, keys_count : Nat, bits : SUBSET Keys]]
  BY DEF IInv, TypeOK
<1>4. /\ f \in [rank : Nat, keys_count : Nat, bits : SUBSET Keys]
      /\ f.rank = Filter(count).rank /\ f.bits = Filter(count).bits \cup {key[h]}
  BY <1>2, <1>3 DEF Filter
<1>5. area' = [area EXCEPT ![header.filters[count]] = f]
  BY <1>2, <1>3 DEF SetBits, Filter
<1>6. pc'[h] = "keys_count" /\ \A x \in Handles \ {h} : Same(x)
  BY <1>1 DEF IInv, TypeOK, SetBits, Goto, Same
<1> HIDE DEF f
<1>7. TypeOK'
  <2>1. area' \in [Offsets -> [rank : Nat, keys_count : Nat, bits : SUBSET Keys]]
    BY <1>3, <1>4, <1>5
  <2> QED
    BY <1>1, <2>1 DEF IInv, TypeOK, SetBits, Goto, Places
<1> QED
  BY <1>1, <1>2, <1>4, <1>5, <1>6, <1>7, Filled

LEMMA CountKeyInv == ASSUME IInv, NEW h \in Handles, CountKey(h) PROVE IInv'
<1> DEFINE f == [Filter(count) EXCEPT !.keys_count = @ + 1]
<1>1. /\ pc[h] = "keys_count" /\ UNCHANGED <<header, fd_size, lock, role, map_size, owed>>
      /\ added' = added \cup {key[h]} /\ crashes' = crashes
  BY DEF CountKey
<1>2. /\ key[h] \in Keys /\ header.filters[count] \in Offsets
      /\ key[h] \in Filter(count).bits
  BY <1>1, SetterHere DEF WriterSets
<1>3. area \in [Offsets -> [rank : Nat, keys_count : Nat, bits : SUBSET Keys]]
  BY DEF IInv, TypeOK
<1>4. /\ f \in [rank : Nat, keys_count : Nat, bits : SUBSET Keys]
      /\ f.rank = Filter(count).rank /\ f.bits = Filter(count).bits
  BY <1>2, <1>3 DEF Filter
<1>5. area' = [area EXCEPT ![header.filters[count]] = f]
  BY <1>2, <1>3 DEF CountKey, Filter
<1>6. pc'[h] = "idle" /\ idx'[h] = 0 /\ \A x \in Handles \ {h} : Same(x)
  BY <1>1 DEF IInv, TypeOK, CountKey, Returns, Goto, Same
<1> HIDE DEF f
<1>7. TypeOK'
  <2>1. area' \in [Offsets -> [rank : Nat, keys_count : Nat, bits : SUBSET Keys]]
    BY <1>3, <1>4, <1>5
  <2> QED
    BY <1>1, <1>2, <2>1 DEF IInv, TypeOK, CountKey, Returns, Goto, Places, Readers
<1> QED
  BY <1>1, <1>2, <1>4, <1>5, <1>6, <1>7, Filled

-----------------------------------------------------------------------------
(* Checking. *)

\* A handle that checks, reader or writer, changes neither file nor mapping.
LEMMA OneCheck ==
    ASSUME IInv, TypeOK', NEW h \in Handles, UNCHANGED <<fileVars, lock, role, map_size, added>>,
           pc[h] \in {"idle", "check"}, pc'[h] \in {"idle", "check", "fault"},
           \A x \in Handles \ {h} : Same(x) /\ owed'[x] = owed[x],
           owed'[h] => added # {} \/ owed[h],
           owed'[h] => Found(header, area, key'[h], idx'[h]),
           pc'[h] \notin {"check", "fault"} => idx'[h] = 0 /\ ~owed'[h]
    PROVE  IInv'
<1>1. Keeps(h)'
  <2>1. /\ lock' = lock /\ role' = role /\ map_size'[h] = map_size[h]
        /\ fd_size' = fd_size /\ header' = header /\ area' = area
        /\ pc[h] \in {"idle", "check"} /\ pc'[h] \in {"idle", "check", "fault"}
    BY DEF fileVars
  <2>2. CASE lock = h
    <3>1. WriterRests(h) /\ role[h] = "write"
      BY <2>2 DEF IInv, Writer, Locked
    <3>2. WriterRests(h)'
      BY <2>1, <3>1 DEF WriterRests, HalfCreated, count
    <3> QED
      BY ONLY <2>1, <2>2, <3>1, <3>2
      DEF Keeps, Clauses, WriterInits, WriterMakes, WriterSets, HasKey, Making
  <2>3. CASE lock # h
    BY <2>1, <2>3 DEF IInv, Locked, Keeps, Readers
  <2> QED
    BY <2>2, <2>3
<1>2. UNCHANGED <<fileVars, added>>
  OBVIOUS
<1>3. \A x \in Handles \ {h} : Same(x) /\ owed'[x] = owed[x] /\ (lock' = x <=> lock = x)
  OBVIOUS
<1> QED
  BY <1>1, <1>2, <1>3, OneHandle

LEMMA CheckInv == ASSUME IInv, NEW h \in Handles, NEW k \in Keys, Check(h, k) PROVE IInv'
<1>1. TypeOK'
  BY DEF IInv, TypeOK, Check, Goto, Places, Readers, fileVars
<1>2. /\ pc[h] = "idle" /\ pc'[h] = "check" /\ key'[h] = k /\ idx' = idx
      /\ owed'[h] = (k \in added)
      /\ UNCHANGED <<fileVars, lock, role, map_size, added>>
      /\ \A x \in Handles \ {h} : Same(x) /\ owed'[x] = owed[x]
  BY DEF IInv, TypeOK, Check, Goto, Same
<1>3. idx[h] = 0 /\ (k \in added => Found(header, area, k, 0))
  BY <1>2 DEF IInv, Kept
<1>4. /\ owed'[h] => Found(header, area, key'[h], idx'[h])
      /\ owed'[h] => added # {} \/ owed[h]
  BY <1>2, <1>3
<1> QED
  BY <1>1, <1>2, <1>4, OneCheck

LEMMA LookInv == ASSUME IInv, NEW h \in Handles, Look(h) PROVE IInv'
<1>1. /\ pc[h] = "check" /\ UNCHANGED <<fileVars, lock, role, map_size, added, crashes>>
      /\ idx[h] \in Nat
  BY DEF IInv, TypeOK, Look
<1>2. CASE Returns(h) /\ owed' = [owed EXCEPT ![h] = FALSE]
  <2>1. TypeOK'
    BY <1>1, <1>2 DEF IInv, TypeOK, Returns, Goto, Places, Readers, fileVars
  <2>2. /\ pc'[h] = "idle" /\ idx'[h] = 0 /\ ~owed'[h]
        /\ \A x \in Handles \ {h} : Same(x) /\ owed'[x] = owed[x]
    BY <1>1, <1>2 DEF IInv, TypeOK, Returns, Goto, Same
  <2> QED
    BY <1>1, <2>1, <2>2, OneCheck
<1>3. CASE /\ key[h] \notin Filter(idx[h] + 1).bits
           /\ idx' = [idx EXCEPT ![h] = @ + 1]
           /\ UNCHANGED <<pc, key, at, owed>>
  <2>1. TypeOK'
    BY <1>1, <1>3 DEF IInv, TypeOK, fileVars
  <2>2. /\ pc'[h] = "check" /\ idx'[h] = idx[h] + 1 /\ key'[h] = key[h] /\ owed'[h] = owed[h]
        /\ \A x \in Handles \ {h} : Same(x) /\ owed'[x] = owed[x]
    BY <1>1, <1>3 DEF IInv, TypeOK, Same
  <2>3. owed[h] => Found(header, area, key[h], idx[h])
    BY DEF IInv, Kept
  <2>4. Found(header, area, key[h], idx[h]) => Found(header, area, key[h], idx[h] + 1)
    BY <1>1, <1>3 DEF Found, Filter
  <2>5. owed'[h] => Found(header, area, key'[h], idx'[h])
    BY <2>2, <2>3, <2>4
  <2> QED
    BY <1>1, <2>1, <2>2, <2>5, OneCheck
<1> QED
  BY <1>2, <1>3 DEF Look

LEMMA LookFaultsInv == ASSUME IInv, NEW h \in Handles, LookFaults(h) PROVE IInv'
<1>1. TypeOK'
  BY DEF IInv, TypeOK, LookFaults, Goto, Places, Readers, fileVars, callVars
<1>2. /\ pc[h] = "check" /\ pc'[h] = "fault" /\ owed' = owed /\ key' = key /\ idx' = idx
      /\ UNCHANGED <<fileVars, lock, role, map_size, added>>
      /\ \A x \in Handles \ {h} : Same(x) /\ owed'[x] = owed[x]
  BY DEF IInv, TypeOK, LookFaults, Goto, Same, callVars
<1>3. owed'[h] => Found(header, area, key'[h], idx'[h])
  BY <1>2 DEF IInv, Kept
<1> QED
  BY <1>1, <1>2, <1>3, OneCheck

LEMMA Answer0Inv == ASSUME IInv, NEW h \in Handles, Answer0(h) PROVE IInv'
<1>1. TypeOK'
  BY DEF IInv, TypeOK, Answer0, Returns, Goto, Places, Readers, fileVars
<1>2. /\ pc[h] = "check" /\ pc'[h] = "idle" /\ idx'[h] = 0 /\ ~owed'[h]
      /\ UNCHANGED <<fileVars, lock, role, map_size, added>>
      /\ \A x \in Handles \ {h} : Same(x) /\ owed'[x] = owed[x]
  BY DEF IInv, TypeOK, Answer0, Returns, Goto, Same
<1> QED
  BY <1>1, <1>2, OneCheck

-----------------------------------------------------------------------------
LEMMA NextInv == IInv /\ [Next]_vars => IInv'
<1> SUFFICES ASSUME IInv, [Next]_vars PROVE IInv'
  OBVIOUS
<1>1. CASE UNCHANGED vars
  BY <1>1 DEF IInv, TypeOK, Locked, Sized, Whole, Writer, Kept, WriterRests, WriterInits,
     WriterMakes, WriterSets, HasKey, HalfCreated, Filter, count, vars, fileVars, callVars
<1>2. ASSUME NEW h \in Handles, Close(h) \/ Crash(h) \/ Die(h) PROVE IInv'
  <2>1. Leave(h) /\ crashes' \in Nat
    BY <1>2 DEF Close, Crash, Die, IInv, TypeOK
  <2> QED
    BY <2>1, LeaveInv
<1>3. ASSUME NEW h \in Handles, Adder(h) PROVE IInv'
  BY <1>3, AddInv, AddFaultsInv, RemapInv, WriteHeaderInv, WriteOffsetInv, WriteCountInv,
     SetBitsInv, CountKeyInv DEF Adder
<1>4. ASSUME NEW h \in Handles, Checker(h) PROVE IInv'
  BY <1>4, CheckInv, LookInv, LookFaultsInv, Answer0Inv DEF Checker
<1> QED
  BY <1>1, <1>2, <1>3, <1>4, CreateInv, TruncateInv, InitHeaderInv, OpenInv, MapInv DEF Next

\* The inductive invariant holds at every moment, for every number of processes,
\* keys, filters and crashes (blume.c as a whole).
THEOREM Invariance == Spec => []IInv
  BY InitInv, NextInv, PTL DEF Spec

\* The fields of the file and of the handles stay in their types: a filter is
\* counted only while there is a place for its offset (filter_create).
THEOREM TypeCorrect == Spec => []TypeOK
<1>1. IInv => TypeOK
  BY DEF IInv
<1> QED
  BY <1>1, Invariance, PTL

\* Whenever a process dies, the chain it leaves is whole: each filter that is
\* counted lies in the file, has its header, and begins where the one before has
\* ended (filter_create, blume_validate).
THEOREM AlwaysWhole == Spec => []ChainWhole
<1>1. ASSUME IInv PROVE ChainWhole
  <2> SUFFICES ASSUME ~HalfCreated
               PROVE  /\ Valid(fd_size)
                      /\ \A i \in 1..count :
                            /\ Filter(i).rank = i
                            /\ header.filters[i] >= HeaderSize
                            /\ i > 1 => Within(i - 1, header.filters[i])
    BY DEF ChainWhole
  <2>1. TypeOK /\ Chain(header, area, fd_size) /\ fd_size \in Nat
    BY <1>1 DEF IInv, Whole, TypeOK
  <2>2. ASSUME NEW i \in 1..count
        PROVE  Within(i, fd_size) /\ Filter(i).rank = i /\ header.filters[i] >= HeaderSize
    <3>1. HeaderSize <= header.filters[i] /\ header.filters[i] \in Nat
      BY <2>1 DEF Chain, count, Offsets
    <3> QED
      BY <2>1, <3>1, ChainWithin, Constants
  <2>3. ASSUME NEW i \in 1..count, i > 1
        PROVE  Within(i - 1, header.filters[i])
    <3>1. i - 1 \in 1..count /\ i - 1 \in Ranks
      BY <2>1, <2>3, Constants DEF TypeOK, count, Ranks
    <3>2. header.filters[i - 1] + FilterSize[i - 1] <= header.filters[i]
      BY <2>1, <2>3 DEF Chain, count
    <3>3. Filter(i - 1).rank = i - 1 /\ header.filters[i - 1] \in Offsets
      BY <2>1, <2>2, <3>1 DEF Within
    <3> QED
      BY <3>1, <3>2, <3>3 DEF Within
  <2> QED
    BY <2>2, <2>3 DEF Valid
<1> QED
  BY <1>1, Invariance, PTL

\* A check that answers that a key is absent was called before the key's add had
\* returned, whatever was added and whoever died meanwhile (blume_check).
THEOREM Misses == Spec => []NoMiss
<1>1. ASSUME IInv PROVE NoMiss
  <2> SUFFICES ASSUME NEW h \in Handles, AtEnd(h), owed[h] PROVE FALSE
    BY DEF NoMiss, IInv, TypeOK
  <2>1. PICK i \in 1..header.filter_count : i > idx[h]
    BY <1>1 DEF IInv, Kept, Found
  <2>2. idx[h] >= count /\ idx[h] \in Nat /\ count \in Nat
    BY <1>1, Constants DEF AtEnd, IInv, TypeOK, count
  <2> QED
    BY <2>1, <2>2 DEF count
<1> QED
  BY <1>1, Invariance, PTL

\* A handle faults where it follows an offset, and nowhere else.
LEMMA WhoFaults ==
    ASSUME IInv, Next, NEW h \in Handles, pc[h] # "fault", pc'[h] = "fault"
    PROVE  AddFaults(h) \/ LookFaults(h)
<1> DEFINE Sets(x, place) == pc' = [pc EXCEPT ![x] = place] \/ pc' = pc
<1>1. pc \in [Handles -> Places]
  BY DEF IInv, TypeOK
<1>2. ASSUME NEW x \in Handles, NEW place \in Places \ {"fault"}, Sets(x, place) PROVE FALSE
  BY <1>1, <1>2
<1>3. ASSUME NEW x \in Handles, \/ Create(x) \/ Truncate(x) \/ InitHeader(x)
                                \/ \E as \in {"read", "write"} : Open(x, as)
                                \/ Map(x) \/ Close(x) \/ Crash(x) \/ Die(x)
      PROVE  FALSE
  <2>1. \E place \in Places \ {"fault"} : Sets(x, place)
    BY <1>3 DEF Create, Truncate, InitHeader, Open, Map, Close, Crash, Die, Leave, Goto,
       Places, Readers, Making
  <2> QED
    BY <1>2, <2>1
<1>4. ASSUME NEW x \in Handles, Adder(x), ~AddFaults(x) PROVE FALSE
  <2>1. \E place \in Places \ {"fault"} : Sets(x, place)
    BY <1>4 DEF Adder, Add, Remap, WriteHeader, WriteOffset, WriteCount, SetBits, CountKey,
       Returns, Goto, Places, Readers, Making
  <2> QED
    BY <1>2, <2>1
<1>5. ASSUME NEW x \in Handles, Checker(x), ~LookFaults(x) PROVE FALSE
  <2>1. \E place \in Places \ {"fault"} : Sets(x, place)
    BY <1>5 DEF Checker, Check, Look, Answer0, Returns, Goto, Places, Readers, Making
  <2> QED
    BY <1>2, <2>1
<1>6. ASSUME NEW x \in Handles, AddFaults(x) \/ LookFaults(x) PROVE x = h
  BY <1>1, <1>6 DEF AddFaults, LookFaults, Goto
<1> QED
  BY <1>3, <1>4, <1>5, <1>6 DEF Next

\* An access leaves the mapping or the file only in a writer without a map, which a
\* failed resize left it, be it in an add or in a check, in a reader whose mapping is
\* not as long as the file, or in a file whose creation was cut short (blume_add, blume_check, resize_map).
THEOREM Faults == Spec => FaultsExplained
<1> DEFINE Explained ==
        \A h \in Handles : pc[h] # "fault" /\ pc'[h] = "fault" =>
            \/ HalfCreated
            \/ role[h] = "write" /\ pc[h] \in {"idle", "check"} /\ map_size[h] = 0
            \/ role[h] = "read" /\ map_size[h] # fd_size
<1>1. ASSUME IInv, Next PROVE Explained
  <2> SUFFICES ASSUME NEW h \in Handles, pc[h] # "fault", pc'[h] = "fault", ~HalfCreated
               PROVE  \/ role[h] = "write" /\ pc[h] \in {"idle", "check"} /\ map_size[h] = 0
                      \/ role[h] = "read" /\ map_size[h] # fd_size
    OBVIOUS
  <2>1. /\ map_size[h] \in Nat /\ fd_size \in Nat /\ idx[h] \in Nat /\ count \in Nat
        /\ role[h] \in {"read", "write"} /\ Chain(header, area, fd_size)
    BY <1>1, Constants DEF IInv, TypeOK, count, Whole
  <2>2. ASSUME NEW i \in 1..count PROVE Within(i, fd_size)
    BY <1>1, <2>1, ChainWithin DEF IInv
  <2>3. ASSUME lock = h, map_size[h] > 0, pc[h] \in {"idle", "check"}, NEW i \in 1..count
        PROVE  Mapped(h, i)
    <3>1. Chain(header, area, map_size[h])
      BY <1>1, <2>3 DEF IInv, Writer, WriterRests
    <3> QED
      BY <1>1, <2>1, <2>2, <3>1, ChainWithin DEF IInv, Mapped
  <2>4. CASE AddFaults(h)
    <3>1. /\ pc[h] = "idle" /\ role[h] = "write" /\ lock = h
          /\ map_size[h] > 0 => count > 0 /\ ~Mapped(h, count)
      BY <1>1, <2>4, WriterHere DEF AddFaults
    <3>2. CASE map_size[h] > 0
      BY <2>1, <2>3, <3>1, <3>2
    <3> QED
      BY <2>1, <3>1, <3>2
  <2>5. CASE LookFaults(h)
    <3>1. /\ pc[h] = "check"
          /\ map_size[h] > 0 => idx[h] + 1 \in 1..count /\ ~Mapped(h, idx[h] + 1)
      BY <2>1, <2>5 DEF LookFaults
    <3>2. CASE role[h] = "write" /\ map_size[h] > 0
      <4>1. lock = h
        BY <1>1, <3>1, <3>2, WriterHere
      <4> QED
        BY <2>3, <3>1, <3>2, <4>1
    <3>3. CASE role[h] = "read"
      <4>1. CASE map_size[h] > 0
        BY <2>2, <3>1, <3>3, <4>1 DEF Mapped
      <4>2. map_size[h] > 0
        BY <1>1, <3>1, <3>3 DEF IInv, Locked
      <4> QED
        BY <4>1, <4>2
    <3>4. CASE role[h] = "write" /\ map_size[h] = 0
      BY <3>1, <3>4
    <3> QED
      BY <2>1, <3>2, <3>3, <3>4
  <2> QED
    BY <1>1, <2>4, <2>5, WhoFaults
<1>2. IInv /\ [Next]_vars => [Explained]_vars
  BY <1>1
<1> QED
  BY <1>2, Invariance, PTL DEF FaultsExplained, Spec
=============================================================================
