------------------------------- MODULE Blume -------------------------------
(***************************************************************************)
(* The growing filter of pyblume (blume.c): a file with a header and a     *)
(* chain of Bloom filters, mapped by several processes.  One of them may   *)
(* write, the holder of the file's lock; the others read without a lock.   *)
(* What a process stores is in the page cache at once: the others see it,  *)
(* and it stays when the process dies.                                     *)
(*                                                                         *)
(* Sizes are in words: the code rounds the offset of a filter up to one.   *)
(* The k, m and n of a filter follow from its place in the chain, here its *)
(* rank.  Its bits are the keys that find all of theirs set; a key that    *)
(* was not added may find them set, too.                                   *)
(***************************************************************************)
EXTENDS FiniteSets, Naturals

CONSTANTS Handles,      \* processes, each with one handle on the file
          Keys,
          MAX_FILTERS,  \* 32 in the program
          n,            \* how many keys a filter takes, by rank
          FilterSize,   \* the words of a filter with its header, by rank
          HeaderSize,   \* the words of the file's header
          MaxFileSize,  \* the max_file_size that creators ask for
          None,
          MaxCrashes    \* bound: how often a process is killed

Ranks == 1..MAX_FILTERS

ASSUME BlumeAssumption ==
    /\ {MAX_FILTERS, HeaderSize, MaxFileSize} \subseteq Nat \ {0}
    /\ n \in [Ranks -> Nat \ {0}] /\ FilterSize \in [Ranks -> Nat \ {0}]
    /\ MaxCrashes \in Nat
    /\ None \notin Handles

VARIABLES header,   \* the file's header: max_file_size, filter_count, filters
          fd_size,  \* the words of the file, 0 while it is not there or empty
          area,     \* what the file holds at an offset after the header
          lock,     \* the handle that holds the flock on the file
          pc, role, \* what a handle does, and whether it was opened for write
          map_size, \* the words a handle has mapped, 0: map is NULL
          key, idx, \* the key of its call, and how many filters it has checked
          at,       \* the offset of the filter it creates
          added,    \* the keys whose add returned BLUME_ERROR_SUCCESS
          owed,     \* whether the key was among them when its check was called
          crashes   \* how often a process was killed so far

fileVars == <<header, fd_size, area>>
callVars == <<key, idx, at>>
vars == <<fileVars, lock, pc, role, map_size, callVars, added, owed, crashes>>

Offsets == 1..MaxFileSize

Zeros == [o \in Offsets |-> [rank |-> 0, keys_count |-> 0, bits |-> {}]]

Init == /\ header = [max_file_size |-> 0, filter_count |-> 0,
                     filters |-> [i \in Ranks |-> 0]]
        /\ fd_size = 0
        /\ area = Zeros
        /\ lock = None
        /\ pc = [h \in Handles |-> "closed"]
        /\ role = [h \in Handles |-> "read"]
        /\ map_size = [h \in Handles |-> 0]
        /\ key = [h \in Handles |-> None]
        /\ idx = [h \in Handles |-> 0]
        /\ at = [h \in Handles |-> 0]
        /\ added = {}
        /\ owed = [h \in Handles |-> FALSE]
        /\ crashes = 0

count == header.filter_count
Filter(i) == area[header.filters[i]]

\* Filter i lies within so many words of the file.
Within(i, words) == /\ header.filters[i] \in Offsets
                    /\ Filter(i).rank \in Ranks
                    /\ header.filters[i] + FilterSize[Filter(i).rank] <= words

\* What a handle may follow: inside its mapping and inside the file.
Mapped(h, i) == Within(i, map_size[h]) /\ Within(i, fd_size)

\* blume_validate, in a mapping of so many words.
Valid(words) == \A i \in 1..count : Within(i, words)

Goto(h, place) == pc' = [pc EXCEPT ![h] = place]

-----------------------------------------------------------------------------
\* Opening, creating and closing.

\* blume_create: open with O_CREAT and flock; with LOCKED nothing changes.
Create(h) == /\ pc[h] = "closed" /\ lock = None
             /\ lock' = h
             /\ role' = [role EXCEPT ![h] = "write"]
             /\ Goto(h, "truncate")
             /\ UNCHANGED <<fileVars, map_size, callVars, added, owed, crashes>>

\* ftruncate to the size of the header, which keeps what it was, and mmap.
Truncate(h) == /\ pc[h] = "truncate"
               /\ fd_size' = HeaderSize
               /\ area' = Zeros
               /\ map_size' = [map_size EXCEPT ![h] = HeaderSize]
               /\ added' = {}
               /\ owed' = [x \in Handles |-> FALSE]
               /\ Goto(h, "init")
               /\ UNCHANGED <<header, lock, role, callVars, crashes>>

\* blume_init
InitHeader(h) == /\ pc[h] = "init"
                 /\ header' = [header EXCEPT !.max_file_size = MaxFileSize,
                                             !.filter_count = 0]
                 /\ Goto(h, "idle")
                 /\ UNCHANGED <<fd_size, area, lock, role, map_size, callVars, added,
                                owed, crashes>>

\* blume_open: open, and for a writer flock; with LOCKED nothing changes.
Open(h, as) == /\ pc[h] = "closed"
               /\ as = "write" => lock = None
               /\ lock' = IF as = "write" THEN h ELSE lock
               /\ role' = [role EXCEPT ![h] = as]
               /\ Goto(h, "map")
               /\ UNCHANGED <<fileVars, map_size, callVars, added, owed, crashes>>

Unlocked(h) == IF lock = h THEN None ELSE lock

\* fstat and mmap, which refuses an empty file.
Map(h) == /\ pc[h] = "map"
          /\ map_size' = [map_size EXCEPT ![h] = fd_size]
          /\ Goto(h, IF fd_size > 0 THEN "idle" ELSE "closed")
          /\ lock' = IF fd_size > 0 THEN lock ELSE Unlocked(h)
          /\ UNCHANGED <<fileVars, role, callVars, added, owed, crashes>>

\* The handle is gone, and its lock with its descriptor.
Leave(h) == /\ lock' = Unlocked(h)
            /\ map_size' = [map_size EXCEPT ![h] = 0]
            /\ Goto(h, "closed")
            /\ key' = [key EXCEPT ![h] = None]
            /\ idx' = [idx EXCEPT ![h] = 0]
            /\ at' = [at EXCEPT ![h] = 0]
            /\ owed' = [owed EXCEPT ![h] = FALSE]
            /\ UNCHANGED <<fileVars, role, added>>

\* blume_close: close comes before msync and munmap, which change nothing that
\* another process sees.
Close(h) == pc[h] = "idle" /\ Leave(h) /\ UNCHANGED crashes

\* A process is killed, or dies of an access outside its mapping.
Crash(h) == /\ pc[h] \notin {"closed", "fault"}
            /\ crashes < MaxCrashes
            /\ crashes' = crashes + 1
            /\ Leave(h)

Die(h) == pc[h] = "fault" /\ Leave(h) /\ UNCHANGED crashes

-----------------------------------------------------------------------------
\* Adding.

\* filter_is_full
Full(i) == Filter(i).keys_count >= n[Filter(i).rank]

\* blume_add and the start of filter_create, up to ftruncate: a newest filter that
\* has room takes the key, else the file is made longer by one filter.  With
\* OUT_OF_FILTERS, and with FULL, nothing changes.
Add(h, k) ==
    /\ pc[h] = "idle" /\ role[h] = "write"
    /\ map_size[h] > 0
    /\ count > 0 => Mapped(h, count)
    /\ \/ /\ count > 0 /\ ~Full(count)
          /\ Goto(h, "bits")
          /\ UNCHANGED <<fd_size, at>>
       \/ /\ count > 0 => Full(count)
          /\ count < MAX_FILTERS
          /\ fd_size' = map_size[h] + FilterSize[count + 1]
          /\ fd_size' <= header.max_file_size
          /\ at' = [at EXCEPT ![h] = map_size[h]]
          /\ Goto(h, "remap")
    /\ key' = [key EXCEPT ![h] = k]
    /\ UNCHANGED <<header, area, lock, role, map_size, idx, added, owed, crashes>>

\* blume_add follows the offset of the newest filter, or a map that is NULL.
AddFaults(h) ==
    /\ pc[h] = "idle" /\ role[h] = "write"
    /\ map_size[h] > 0 => count > 0 /\ ~Mapped(h, count)
    /\ Goto(h, "fault")
    /\ UNCHANGED <<fileVars, lock, role, map_size, callVars, added, owed, crashes>>

Returns(h) == /\ Goto(h, "idle")
              /\ key' = [key EXCEPT ![h] = None]
              /\ idx' = [idx EXCEPT ![h] = 0]
              /\ at' = [at EXCEPT ![h] = 0]

\* Mutant: map_size is not updated.
RemapOldSize(h) ==
    /\ pc[h] = "remap"
    /\ \/ /\ UNCHANGED map_size
          /\ Goto(h, "header")
          /\ UNCHANGED callVars
       \/ /\ map_size' \in {map_size, [map_size EXCEPT ![h] = 0]}
          /\ Returns(h)
    /\ UNCHANGED <<fileVars, lock, role, added, owed, crashes>>

\* resize_map: munmap and mmap.  When one of them fails the add returns its error,
\* with the old map or with none.
Remap(h) ==
    /\ pc[h] = "remap"
    /\ \/ /\ map_size' = [map_size EXCEPT ![h] = fd_size]
          /\ Goto(h, "header")
          /\ UNCHANGED callVars
       \/ /\ map_size' \in {map_size, [map_size EXCEPT ![h] = 0]}
          /\ Returns(h)
    /\ UNCHANGED <<fileVars, lock, role, added, owed, crashes>>

\* memcpy of the new filter's header, made from that of the last one.
WriteHeader(h) ==
    /\ pc[h] = "header"
    /\ area' = [area EXCEPT ![at[h]].rank = count + 1, ![at[h]].keys_count = 0]
    /\ Goto(h, "offset")
    /\ UNCHANGED <<header, fd_size, lock, role, map_size, callVars, added, owed, crashes>>

\* Mutant: the filter is counted before its offset is there.
WriteOffsetLate(h) ==
    \/ /\ pc[h] = "offset"
       /\ header' = [header EXCEPT !.filter_count = @ + 1]
       /\ Goto(h, "offset2")
       /\ UNCHANGED <<fd_size, area, lock, role, map_size, callVars, added, owed, crashes>>
    \/ /\ pc[h] = "offset2"
       /\ header' = [header EXCEPT !.filters[count] = at[h]]
       /\ Goto(h, "bits")
       /\ UNCHANGED <<fd_size, area, lock, role, map_size, callVars, added, owed, crashes>>

\* bf_header->filters[new_index] = new_filter_offset
WriteOffset(h) ==
    /\ pc[h] = "offset"
    /\ header' = [header EXCEPT !.filters[count + 1] = at[h]]
    /\ Goto(h, "count")
    /\ UNCHANGED <<fd_size, area, lock, role, map_size, callVars, added, owed, crashes>>

\* bf_header->filter_count += 1
WriteCount(h) ==
    /\ pc[h] = "count"
    /\ header' = [header EXCEPT !.filter_count = @ + 1]
    /\ Goto(h, "bits")
    /\ UNCHANGED <<fd_size, area, lock, role, map_size, callVars, added, owed, crashes>>

\* filter_add: the last of the key's bits is set.  The newest filter has room, since
\* nobody else writes.
SetBits(h) ==
    /\ pc[h] = "bits"
    /\ area' = [area EXCEPT ![header.filters[count]].bits = @ \cup {key[h]}]
    /\ Goto(h, "keys_count")
    /\ UNCHANGED <<header, fd_size, lock, role, map_size, callVars, added, owed, crashes>>

\* f->header.keys_count += 1, and blume_add returns.
CountKey(h) ==
    /\ pc[h] = "keys_count"
    /\ area' = [area EXCEPT ![header.filters[count]].keys_count = @ + 1]
    /\ added' = added \cup {key[h]}
    /\ Returns(h)
    /\ UNCHANGED <<header, fd_size, lock, role, map_size, owed, crashes>>

-----------------------------------------------------------------------------
\* Checking.

\* blume_check is called, whether or not there is a map.
Check(h, k) ==
    /\ pc[h] = "idle"
    /\ Goto(h, "check")
    /\ key' = [key EXCEPT ![h] = k]
    /\ owed' = [owed EXCEPT ![h] = k \in added]
    /\ UNCHANGED <<fileVars, lock, role, map_size, idx, at, added, crashes>>

\* A turn of the loop: filter_check finds the key's bits set, or some of them not.
Look(h) ==
    /\ pc[h] = "check" /\ idx[h] < count
    /\ Mapped(h, idx[h] + 1)
    /\ \/ Returns(h) /\ owed' = [owed EXCEPT ![h] = FALSE]
       \/ /\ key[h] \notin Filter(idx[h] + 1).bits
          /\ idx' = [idx EXCEPT ![h] = @ + 1]
          /\ UNCHANGED <<pc, key, at, owed>>
    /\ UNCHANGED <<fileVars, lock, role, map_size, added, crashes>>

\* The header is read through a map that is NULL, or the offset leads outside the
\* mapping, or into a page that the file lost.  blume_length, which keeps nothing,
\* does the same.
LookFaults(h) ==
    /\ pc[h] = "check"
    /\ map_size[h] > 0 => idx[h] < count /\ ~Mapped(h, idx[h] + 1)
    /\ Goto(h, "fault")
    /\ UNCHANGED <<fileVars, lock, role, map_size, callVars, added, owed, crashes>>

\* Mutant: the newest filter is left out.
AtEndEarly(h) == idx[h] + 1 >= count

\* The loop has seen every filter.
AtEnd(h) == idx[h] >= count

\* blume_check answers that the key is not there.
Answer0(h) == /\ pc[h] = "check" /\ map_size[h] > 0 /\ AtEnd(h)
              /\ Returns(h)
              /\ owed' = [owed EXCEPT ![h] = FALSE]
              /\ UNCHANGED <<fileVars, lock, role, map_size, added, crashes>>

-----------------------------------------------------------------------------
Adder(h) == \/ \E k \in Keys : Add(h, k)
            \/ AddFaults(h) \/ Remap(h) \/ WriteHeader(h) \/ WriteOffset(h)
            \/ WriteCount(h) \/ SetBits(h) \/ CountKey(h)

Checker(h) == (\E k \in Keys : Check(h, k)) \/ Look(h) \/ LookFaults(h) \/ Answer0(h)

Next == \E h \in Handles :
    \/ Create(h) \/ Truncate(h) \/ InitHeader(h)
    \/ \E as \in {"read", "write"} : Open(h, as)
    \/ Map(h) \/ Close(h) \/ Crash(h) \/ Die(h)
    \/ Adder(h) \/ Checker(h)

Spec == Init /\ [][Next]_vars

-----------------------------------------------------------------------------
\* blume_create has cut the filters off an old file and not yet, or never, reset
\* the header that counts them.
HalfCreated == count > 0 /\ fd_size = HeaderSize

\* At every moment, and so after a crash at any moment, the chain is whole: each
\* filter that is counted lies within the file, has its header, of the rank of its
\* place, and lies behind the one before it.  blume_validate finds nothing wrong
\* for who opens it then (filter_create).
ChainWhole ==
    ~HalfCreated =>
        /\ Valid(fd_size)
        /\ \A i \in 1..count :
              /\ Filter(i).rank = i
              /\ header.filters[i] >= HeaderSize
              /\ i > 1 => Within(i - 1, header.filters[i])

\* A key whose add had returned when the check was called is not answered to be
\* absent, however much the file grows during the check, and whoever died in
\* between (blume_check, blume_add).
NoMiss == \A h \in Handles : pc[h] = "check" /\ AtEnd(h) => ~owed[h]

\* A writer leaves its mapping only in the calls after a resize that left it none, an
\* add or a check, a reader only when its mapping is not as long as the file is now;
\* either also in a file whose creation was cut short (blume_add, blume_check,
\* resize_map).
FaultsExplained ==
    [][\A h \in Handles : pc[h] # "fault" /\ pc'[h] = "fault" =>
          \/ HalfCreated
          \/ role[h] = "write" /\ pc[h] \in {"idle", "check"} /\ map_size[h] = 0
          \/ role[h] = "read" /\ map_size[h] # fd_size]_vars

=============================================================================
