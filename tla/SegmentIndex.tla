----------------------------- MODULE SegmentIndex ---------------------------
(***************************************************************************)
(* The segment index of the binary loader: the map from segment names to   *)
(* two-byte codes that the loader goroutines share, and getCode, which     *)
(* reads it under a read lock, and enters a new segment under the write    *)
(* lock after looking again.  The same code is in binary-loader-mem.go and *)
(* in tests/concurrent-indexation.go.                                      *)
(***************************************************************************)
EXTENDS FiniteSets, Integers

CONSTANTS Loaders,     \* the goroutines
          Segments,    \* names of segments
          CodeSpace,   \* number of different codes two bytes hold
          None         \* "no code", "no segment", "no goroutine"

ASSUME CodeSpaceAssumption == CodeSpace \in Nat \ {0}
ASSUME NoneAssumption == None \notin Segments \cup Loaders \cup Nat

VARIABLES index,       \* the code of each segment; None is an absent key
          index_code,  \* number of codes given out (a uint32)
          rw,          \* index_mutex: its readers, its writer, who waits to write
          pc, seg, code   \* getCode of each goroutine: position and locals

indexVars == <<index, index_code, rw, pc, seg, code>>

Codes == 0..(CodeSpace - 1)

FreeLock == [readers |-> {}, writer |-> None, waiting |-> {}]

IndexInit == /\ index = [s \in Segments |-> None]
             /\ index_code = 0
             /\ rw = FreeLock
             /\ pc = [t \in Loaders |-> "idle"]
             /\ seg = [t \in Loaders |-> None]
             /\ code = [t \in Loaders |-> None]

\* A goroutine calls getCode(s).
Call(t, s) ==
    /\ pc[t] = "idle"
    /\ pc' = [pc EXCEPT ![t] = "rlock"]
    /\ seg' = [seg EXCEPT ![t] = s]
    /\ UNCHANGED <<index, index_code, rw, code>>

\* Mutant: the index is read without the read lock.
RLockMissing(t) ==
    /\ pc[t] = "rlock"
    /\ pc' = [pc EXCEPT ![t] = "read"]
    /\ UNCHANGED <<index, index_code, rw, seg, code>>

\* index_mutex.RLock: a writer that waits keeps new readers out.
RLock(t) ==
    /\ pc[t] = "rlock"
    /\ rw.writer = None
    /\ rw.waiting = {}
    /\ rw' = [rw EXCEPT !.readers = @ \cup {t}]
    /\ pc' = [pc EXCEPT ![t] = "read"]
    /\ UNCHANGED <<index, index_code, seg, code>>

\* The first look-up, index_mutex.RUnlock, and the call of index_mutex.Lock by a
\* goroutine that found nothing.
Read(t) ==
    /\ pc[t] = "read"
    /\ code' = [code EXCEPT ![t] = index[seg[t]]]
    /\ IF code'[t] = None
         THEN /\ rw' = [rw EXCEPT !.readers = @ \ {t}, !.waiting = @ \cup {t}]
              /\ pc' = [pc EXCEPT ![t] = "lock"]
         ELSE /\ rw' = [rw EXCEPT !.readers = @ \ {t}]
              /\ pc' = [pc EXCEPT ![t] = "return"]
    /\ UNCHANGED <<index, index_code, seg>>

\* index_mutex.Lock returns.
Lock(t) ==
    /\ pc[t] = "lock"
    /\ rw.writer = None
    /\ rw.readers = {}
    /\ rw' = [rw EXCEPT !.writer = t, !.waiting = @ \ {t}]
    /\ pc' = [pc EXCEPT ![t] = "check"]
    /\ UNCHANGED <<index, index_code, seg, code>>

\* []byte{byte((index_code>>8) & 0xFF), byte(index_code & 0xFF)}
NextCode == index_code % CodeSpace

\* Mutant: no second look under the write lock.
CheckOnce(t) ==
    /\ pc[t] = "check"
    /\ code' = [code EXCEPT ![t] = NextCode]
    /\ index' = [index EXCEPT ![seg[t]] = NextCode]
    /\ pc' = [pc EXCEPT ![t] = "count"]
    /\ UNCHANGED <<index_code, rw, seg>>

\* Mutant: a goroutine that finds nothing unlocks and starts over.
CheckRetries(t) ==
    /\ pc[t] = "check"
    /\ IF index[seg[t]] = None
         THEN /\ rw' = [rw EXCEPT !.writer = None]
              /\ pc' = [pc EXCEPT ![t] = "rlock"]
              /\ UNCHANGED code
         ELSE /\ code' = [code EXCEPT ![t] = index[seg[t]]]
              /\ pc' = [pc EXCEPT ![t] = "unlock"]
              /\ UNCHANGED rw
    /\ UNCHANGED <<index, index_code, seg>>

\* The second look-up, and the new entry when there is still none.
Check(t) ==
    /\ pc[t] = "check"
    /\ IF index[seg[t]] = None
         THEN /\ code' = [code EXCEPT ![t] = NextCode]
              /\ index' = [index EXCEPT ![seg[t]] = NextCode]
              /\ pc' = [pc EXCEPT ![t] = "count"]
         ELSE /\ code' = [code EXCEPT ![t] = index[seg[t]]]
              /\ pc' = [pc EXCEPT ![t] = "unlock"]
              /\ UNCHANGED index
    /\ UNCHANGED <<index_code, rw, seg>>

\* index_code += 1
Count(t) ==
    /\ pc[t] = "count"
    /\ index_code' = index_code + 1
    /\ pc' = [pc EXCEPT ![t] = "unlock"]
    /\ UNCHANGED <<index, rw, seg, code>>

\* index_mutex.Unlock
Unlock(t) ==
    /\ pc[t] = "unlock"
    /\ rw' = [rw EXCEPT !.writer = None]
    /\ pc' = [pc EXCEPT ![t] = "return"]
    /\ UNCHANGED <<index, index_code, seg, code>>

\* getCode returns code[t].
Return(t) ==
    /\ pc[t] = "return"
    /\ pc' = [pc EXCEPT ![t] = "idle"]
    /\ seg' = [seg EXCEPT ![t] = None]
    /\ code' = [code EXCEPT ![t] = None]
    /\ UNCHANGED <<index, index_code, rw>>

\* The steps a goroutine takes inside getCode.
Inside(t) == RLock(t) \/ Read(t) \/ Lock(t) \/ Check(t) \/ Count(t) \/ Unlock(t)

Next == \E t \in Loaders : \/ \E s \in Segments : Call(t, s)
                           \/ Inside(t)
                           \/ Return(t)

\* The Go scheduler runs every goroutine that can run; a loader is not obliged
\* to call getCode.
Spec == /\ IndexInit /\ [][Next]_indexVars
        /\ \A t \in Loaders : WF_indexVars(Inside(t) \/ Return(t))

-----------------------------------------------------------------------------
PCs == {"idle", "rlock", "read", "lock", "check", "count", "unlock", "return"}

\* The index holds codes, the lock is held by goroutines, and a goroutine that
\* returns has a code.
TypeOK ==
    /\ index \in [Segments -> Codes \cup {None}]
    /\ index_code \in Nat
    /\ rw \in [readers : SUBSET Loaders, writer : Loaders \cup {None},
               waiting : SUBSET Loaders]
    /\ pc \in [Loaders -> PCs]
    /\ seg \in [Loaders -> Segments \cup {None}]
    /\ code \in [Loaders -> Codes \cup {None}]
    /\ \A t \in Loaders : pc[t] # "idle" => seg[t] \in Segments
    /\ \A t \in Loaders : pc[t] \in {"count", "unlock", "return"} => code[t] \in Codes

\* A Go map must not be read while it is written: no goroutine is in the first
\* look-up while another one is between Lock and Unlock (getCode).
NoMapRace ==
    \A t, u \in Loaders :
        pc[t] = "read" => pc[u] \notin {"check", "count", "unlock"}

\* While there are not more segments than codes, no two share one, also while
\* index_code lags behind the index (getCode); the input of the packer, "index_ID =
\* segment_bin: segment_txt", has one name for a code (bloom-packer.go).
CodesUnique ==
    Cardinality(Segments) <= CodeSpace =>
        \A s1, s2 \in Segments :
            s1 # s2 /\ index[s1] # None => index[s1] # index[s2]

Query(t) == IF pc[t] = "idle" THEN "idle"
            ELSE IF pc[t] \in {"count", "unlock", "return"} THEN "answered"
            ELSE "asked"

Table == INSTANCE CodeTable
           WITH Callers <- Loaders, table <- index,
                query <- [t \in Loaders |->
                            [state |-> Query(t), seg |-> seg[t],
                             code |-> IF Query(t) = "answered" THEN code[t] ELSE None]]

\* getCode is an atomic look-up-or-enter: it takes effect in its first look-up
\* or in its second (getCode).
ImplementsTable == Table!Spec
=============================================================================
