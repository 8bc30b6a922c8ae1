---------------------------- MODULE BinaryLoader ----------------------------
(***************************************************************************)
(* The binary loader (binary-loader.go): goroutines that pop entries from  *)
(* the redis list "buff", replace the names of their segments by codes     *)
(* (getCode, module SegmentIndex) and store the result in the redis hash   *)
(* "cache".  Redis keeps the list and the hash when the process dies; the  *)
(* index lives in the process only.                                        *)
(*                                                                         *)
(* An entry is [key, segs, form]: its decoded key, the sequence of its     *)
(* segments, and "good", "bad_key" (the base64 of the key does not decode) *)
(* or "no_tab" (no value: key_val[1] does not exist).                      *)
(***************************************************************************)
EXTENDS SegmentIndex, Sequences

CONSTANTS Entries,         \* the entries producers push
          MaxPushed,       \* bound: how many they push
          MaxCrashes,      \* bound: how often the process is killed
          MaxDisconnects   \* bound: how many connections break

ASSUME BoundsAssumption == {MaxPushed, MaxCrashes, MaxDisconnects} \subseteq Nat
ASSUME EntriesAssumption ==
    \A e \in Entries : e.segs \in Seq(Segments) /\ e.form \in {"good", "bad_key", "no_tab"}

VARIABLES buff,      \* the redis list "buff", oldest first, by entry numbers
          cache,     \* the redis hash "cache": the codes stored for a key
          pushed,    \* the entries pushed so far; the place is the number
          entry,     \* the number of the entry a loader works on, 0: none
          value_bin, \* the codes of its first segments
          up,        \* whether a loader's connection to redis works
          alive,     \* whether the process runs
          faults,    \* the crashes, disconnects and restarts so far
          stored,    \* the numbers of the entries that redis has put into the hash
          lost       \* those that went with a broken connection or a dead process

redisVars == <<buff, cache, pushed>>
loaderVars == <<entry, value_bin, up, alive, faults>>
historyVars == <<stored, lost>>
vars == <<indexVars, redisVars, loaderVars, historyVars>>

Keys == {e.key : e \in Entries}

Init == /\ buff = <<>>
        /\ cache = [k \in Keys |-> <<>>]
        /\ pushed = <<>>
        /\ entry = [t \in Loaders |-> 0]
        /\ value_bin = [t \in Loaders |-> <<>>]
        /\ up = [t \in Loaders |-> TRUE]
        /\ alive = TRUE
        /\ faults = [crashes |-> 0, disconnects |-> 0, restarted |-> FALSE]
        /\ stored = {} /\ lost = {}
        /\ IndexInit

\* A producer pushes an entry.
Push(e) ==
    /\ Len(pushed) < MaxPushed
    /\ pushed' = Append(pushed, e)
    /\ buff' = Append(buff, Len(pushed'))
    /\ UNCHANGED <<cache, loaderVars, historyVars, indexVars>>

Busy(t) == entry[t] # 0

\* Mutant: the list is read over a connection of its own, which works.
PopAnyway(t) ==
    /\ alive /\ ~Busy(t)
    /\ buff # <<>>
    /\ buff' = Tail(buff)
    /\ entry' = [entry EXCEPT ![t] = IF pushed[Head(buff)].form = "bad_key"
                                       THEN 0 ELSE Head(buff)]
    /\ UNCHANGED <<cache, pushed, value_bin, up, alive, faults, historyVars, indexVars>>

\* BRPOP "buff" and the decoding of the key: an entry with a bad key is dropped.
\* On a broken connection the command fails and the loop starts again.
Pop(t) ==
    /\ alive /\ up[t] /\ ~Busy(t)
    /\ buff # <<>>
    /\ buff' = Tail(buff)
    /\ entry' = [entry EXCEPT ![t] = IF pushed[Head(buff)].form = "bad_key"
                                       THEN 0 ELSE Head(buff)]
    /\ UNCHANGED <<cache, pushed, value_bin, up, alive, faults, historyVars, indexVars>>

\* encode: getCode of the next segment.
Ask(t) ==
    /\ alive /\ Busy(t)
    /\ pushed[entry[t]].form = "good"
    /\ Len(value_bin[t]) < Len(pushed[entry[t]].segs)
    /\ Call(t, pushed[entry[t]].segs[Len(value_bin[t]) + 1])
    /\ UNCHANGED <<redisVars, loaderVars, historyVars>>

GetCode(t) == alive /\ Inside(t) /\ UNCHANGED <<redisVars, loaderVars, historyVars>>

\* encode: value_bin.Write(getCode(s))
AppendCode(t) ==
    /\ alive
    /\ Return(t)
    /\ value_bin' = [value_bin EXCEPT ![t] = Append(@, code[t])]
    /\ UNCHANGED <<redisVars, entry, up, alive, faults, historyVars>>

\* Mutant: the value is stored while its last code is still missing.
StoreEarly(t) ==
    /\ alive /\ Busy(t)
    /\ pushed[entry[t]].form = "good"
    /\ pc[t] = "idle"
    /\ Len(value_bin[t]) >= Len(pushed[entry[t]].segs) - 1
    /\ IF up[t] THEN /\ cache' = [cache EXCEPT ![pushed[entry[t]].key] = value_bin[t]]
                     /\ stored' = stored \cup {entry[t]}
                     /\ UNCHANGED lost
                ELSE lost' = lost \cup {entry[t]} /\ UNCHANGED <<cache, stored>>
    /\ entry' = [entry EXCEPT ![t] = 0]
    /\ value_bin' = [value_bin EXCEPT ![t] = <<>>]
    /\ UNCHANGED <<buff, pushed, up, alive, faults, indexVars>>

\* HMSET "cache"; an error is printed and the entry is gone.
Store(t) ==
    /\ alive /\ Busy(t)
    /\ pushed[entry[t]].form = "good"
    /\ pc[t] = "idle"
    /\ Len(value_bin[t]) = Len(pushed[entry[t]].segs)
    /\ IF up[t] THEN /\ cache' = [cache EXCEPT ![pushed[entry[t]].key] = value_bin[t]]
                     /\ stored' = stored \cup {entry[t]}
                     /\ UNCHANGED lost
                ELSE lost' = lost \cup {entry[t]} /\ UNCHANGED <<cache, stored>>
    /\ entry' = [entry EXCEPT ![t] = 0]
    /\ value_bin' = [value_bin EXCEPT ![t] = <<>>]
    /\ UNCHANGED <<buff, pushed, up, alive, faults, indexVars>>

\* key_val[1] of an entry without a tab: the panic ends the whole process.
Panic(t) ==
    /\ alive /\ Busy(t)
    /\ pushed[entry[t]].form = "no_tab"
    /\ alive' = FALSE
    /\ UNCHANGED <<redisVars, entry, value_bin, up, faults, historyVars, indexVars>>

\* The process is killed.
Crash == /\ alive
         /\ faults.crashes < MaxCrashes
         /\ faults' = [faults EXCEPT !.crashes = @ + 1]
         /\ alive' = FALSE
         /\ UNCHANGED <<redisVars, entry, value_bin, up, historyVars, indexVars>>

\* What the loaders hold.
Held == {entry[t] : t \in Loaders} \ {0}

\* A new process: new connections and an empty index; what the loaders held is gone.
Restart == /\ ~alive
           /\ alive' = TRUE
           /\ entry' = [t \in Loaders |-> 0]
           /\ value_bin' = [t \in Loaders |-> <<>>]
           /\ up' = [t \in Loaders |-> TRUE]
           /\ index' = [s \in Segments |-> None]
           /\ index_code' = 0
           /\ rw' = FreeLock
           /\ pc' = [t \in Loaders |-> "idle"]
           /\ seg' = [t \in Loaders |-> None]
           /\ code' = [t \in Loaders |-> None]
           /\ faults' = [faults EXCEPT !.restarted = TRUE]
           /\ lost' = lost \cup Held
           /\ UNCHANGED <<redisVars, stored>>

\* A connection breaks; it is never dialled again.  The answer of a BRPOP that
\* redis has carried out may be lost with it.
Disconnect(t) ==
    /\ alive /\ up[t]
    /\ faults.disconnects < MaxDisconnects
    /\ faults' = [faults EXCEPT !.disconnects = @ + 1]
    /\ up' = [up EXCEPT ![t] = FALSE]
    /\ \/ UNCHANGED <<buff, lost>>
       \/ /\ ~Busy(t) /\ buff # <<>>
          /\ buff' = Tail(buff)
          /\ lost' = lost \cup {Head(buff)}
    /\ UNCHANGED <<cache, pushed, entry, value_bin, alive, stored, indexVars>>

Loader(t) == Pop(t) \/ Ask(t) \/ GetCode(t) \/ AppendCode(t) \/ Store(t) \/ Panic(t)

\* Everything pushed has been popped, and the loaders wait in BRPOP or spin on
\* its error.
Idle == /\ alive /\ Len(pushed) = MaxPushed
        /\ \A t \in Loaders : ~Busy(t) /\ (up[t] => buff = <<>>)
        /\ UNCHANGED vars

LoaderNext == \/ \E e \in Entries : Push(e)
              \/ Crash \/ Restart \/ Idle
              \/ \E t \in Loaders : Loader(t) \/ Disconnect(t)

\* The Go scheduler runs every goroutine that can run, and redis answers.
LoaderSpec == /\ Init /\ [][LoaderNext]_vars
              /\ \A t \in Loaders : WF_vars(Loader(t))

-----------------------------------------------------------------------------

\* The good entries pushed so far for a key.
GoodEntries(k) == {pushed[i] : i \in {j \in DOMAIN pushed :
                       pushed[j].key = k /\ pushed[j].form = "good"}}

\* The codes of an entry's segments, where all of them have one.
Encoding(e) == [i \in DOMAIN e.segs |-> index[e.segs[i]]]

\* Until the process is restarted the hash holds for every key nothing, or the
\* codes of the segments of one whole entry of that key: entries of two loaders
\* never mix, and no code changes its meaning after it was stored (loader, encode);
\* the packer reads the hash with the index, "cache_ID = key_bin: value_bin"
\* (bloom-packer.go).  A restart gives the codes in the hash another meaning.
CacheDecodes ==
    ~faults.restarted =>
        \A k \in Keys : cache[k] = <<>> \/ \E e \in GoodEntries(k) : cache[k] = Encoding(e)

\* An entry is worked on by one loader only, and not while it is still in the list,
\* whoever dies or is restarted (BRPOP in loader).
PoppedOnce ==
    \A t \in Loaders : Busy(t) =>
        /\ \A u \in Loaders \ {t} : entry[u] # entry[t]
        /\ \A i \in DOMAIN buff : buff[i] # entry[t]

IsGood(n) == n \in DOMAIN pushed /\ pushed[n].form = "good"
Waiting == {buff[i] : i \in DOMAIN buff}

\* No entry vanishes: a good one waits in the list, is held by a loader, was stored or
\* is lost, whoever dies or is restarted; and as long as no process died, each broken
\* connection loses one entry at most, for its loader never pops again (loader).
FewLost ==
    /\ \A n \in DOMAIN pushed : IsGood(n) => n \in Waiting \cup Held \cup stored \cup lost
    /\ ~faults.restarted => Cardinality(lost) <= faults.disconnects

\* The process runs on, and a connection is left.
Working == alive /\ ~faults.restarted /\ \E t \in Loaders : up[t]

\* While the process runs and not all connections are broken, every single good entry
\* is stored in the end, unless it is one of those lost with a connection: the loaders
\* that are left drain the list (loader, getCode).
Stored == []Working => \A n \in 1..MaxPushed : IsGood(n) ~> n \in stored \cup lost
=============================================================================
