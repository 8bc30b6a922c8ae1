-------------------------- MODULE BinaryLoaderProofs --------------------------
(***************************************************************************)
(* The binary loader for every number of loaders, segments, entries, codes *)
(* and faults: the lock of the index excludes, getCode is an atomic        *)
(* look-up-or-enter, an entry has one owner, and what is stored decodes.   *)
(*                                                                         *)
(* The argument: whoever is between Lock and Unlock is the writer of the   *)
(* lock, and there are no readers while there is a writer.  So one         *)
(* goroutine at most is between its new entry and index_code += 1, and the *)
(* codes given out are the numbers below index_code, and that one.  They   *)
(* are as many as the segments that have one, hence fewer than the codes   *)
(* as long as a segment has none.  A code that is given out stays, so what *)
(* a loader has gathered, and what it stored, keeps its meaning.           *)
(*                                                                         *)
(* Then the loader in C, for every input, buffer and number of failed      *)
(* insertions: the counts are right until the codes wrap round, and every  *)
(* key comes out of base64 as it went in.  What a line with an end says    *)
(* does not depend on the buffer.  As many segments as there are have the  *)
(* codes from 1 on, the last of all 0, so that none shares its counter     *)
(* with another or with the failed insertions; a segment counted is a      *)
(* place in the lines less at hand.                                        *)
(***************************************************************************)
EXTENDS BinaryLoader, BinaryLoaderC, FiniteSetTheorems, FunctionTheorems, WellFoundedInduction, TLAPS

Critical == {"check", "count", "unlock"}

\* Who may be where, by the state of the lock.
LockInv ==
    /\ \A t \in Loaders : pc[t] = "read" => t \in rw.readers
    /\ \A t \in Loaders : pc[t] \in Critical => rw.writer = t
    /\ rw.writer # None => rw.readers = {}

\* What getCode holds is what the index says.
AnswerInv ==
    /\ \A t \in Loaders : pc[t] = "idle" => seg[t] = None
    /\ \A t \in Loaders : pc[t] \in {"count", "unlock", "return"} =>
                              index[seg[t]] = code[t]

\* There is a code for every segment.
Fits == IsFiniteSet(Segments) /\ Cardinality(Segments) <= CodeSpace

Coded == {s \in Segments : index[s] # None}

Lagging == \E t \in Loaders : pc[t] = "count"

\* The number of codes given out, of which index_code may not know the last.
Issued == IF Lagging THEN index_code + 1 ELSE index_code

CodeInv ==
    /\ \A s \in Segments : index[s] # None => index[s] < Issued
    /\ \A s1, s2 \in Segments :
           s1 # s2 /\ index[s1] # None => index[s1] # index[s2]
    /\ Cardinality(Coded) = Issued

IndexInv == TypeOK /\ LockInv /\ AnswerInv /\ (Fits => CodeInv)

\* No segment loses its code.
Keeps == \A s \in Segments : index[s] # None => index'[s] = index[s]

-----------------------------------------------------------------------------
LEMMA NoneFresh ==
    /\ None \notin Segments /\ None \notin Loaders /\ None \notin Codes
    /\ Codes \subseteq Nat
  BY NoneAssumption, CodeSpaceAssumption DEF Codes

LEMMA IndexInitInv == IndexInit => IndexInv
<1> SUFFICES ASSUME IndexInit PROVE IndexInv
  OBVIOUS
<1>1. TypeOK /\ LockInv /\ AnswerInv
  BY NoneFresh DEF IndexInit, TypeOK, LockInv, AnswerInv, FreeLock, PCs, Critical
<1>2. CodeInv
  <2>1. Coded = {}
    BY DEF Coded, IndexInit
  <2>2. ~Lagging /\ index_code = 0
    BY DEF Lagging, IndexInit
  <2> QED
    BY <2>1, <2>2, FS_EmptySet DEF CodeInv, Issued, IndexInit
<1> QED
  BY <1>1, <1>2 DEF IndexInv

\* A step that leaves the index and its counter alone, and brings nobody to count
\* or from there.
LEMMA CodeFrame ==
    ASSUME Fits => CodeInv, UNCHANGED <<index, index_code>>, Lagging' = Lagging
    PROVE  (Fits => CodeInv)'
<1>1. Coded' = Coded /\ Issued' = Issued
  BY DEF Coded, Issued
<1> QED
  BY <1>1 DEF CodeInv, Fits

LEMMA CallInv ==
    ASSUME IndexInv, NEW t \in Loaders, NEW s \in Segments, Call(t, s)
    PROVE  IndexInv' /\ Keeps
<1>1. TypeOK'
  BY NoneFresh DEF IndexInv, TypeOK, Call, PCs
<1>2. LockInv' /\ AnswerInv'
  BY DEF IndexInv, TypeOK, LockInv, AnswerInv, Call, Critical
<1>3. (Fits => CodeInv)'
  <2>1. Lagging' = Lagging
    BY DEF IndexInv, TypeOK, Call, Lagging
  <2> QED
    BY <2>1, CodeFrame DEF IndexInv, Call
<1> QED
  BY <1>1, <1>2, <1>3 DEF IndexInv, Keeps, Call

LEMMA RLockInv ==
    ASSUME IndexInv, NEW t \in Loaders, RLock(t)
    PROVE  IndexInv' /\ Keeps
<1>1. TypeOK'
  BY NoneFresh DEF IndexInv, TypeOK, RLock, PCs
<1>2. LockInv' /\ AnswerInv'
  BY DEF IndexInv, TypeOK, LockInv, AnswerInv, RLock, Critical
<1>3. (Fits => CodeInv)'
  <2>1. Lagging' = Lagging
    BY DEF IndexInv, TypeOK, RLock, Lagging
  <2> QED
    BY <2>1, CodeFrame DEF IndexInv, RLock
<1> QED
  BY <1>1, <1>2, <1>3 DEF IndexInv, Keeps, RLock

LEMMA ReadInv ==
    ASSUME IndexInv, NEW t \in Loaders, Read(t)
    PROVE  IndexInv' /\ Keeps
<1> DEFINE c == index[seg[t]]
<1>1. /\ pc[t] = "read" /\ seg[t] \in Segments /\ c \in Codes \cup {None}
      /\ code' = [code EXCEPT ![t] = c] /\ code'[t] = c
      /\ UNCHANGED <<index, index_code, seg>>
  BY DEF IndexInv, TypeOK, Read
<1>2. ASSUME c = None PROVE TypeOK' /\ LockInv' /\ AnswerInv'
  <2>1. /\ rw' = [rw EXCEPT !.readers = @ \ {t}, !.waiting = @ \cup {t}]
        /\ pc' = [pc EXCEPT ![t] = "lock"]
    BY <1>1, <1>2 DEF Read
  <2>2. /\ rw' \in [readers : SUBSET Loaders, writer : Loaders \cup {None},
                    waiting : SUBSET Loaders]
        /\ rw'.readers = rw.readers \ {t} /\ rw'.writer = rw.writer
    BY <2>1 DEF IndexInv, TypeOK
  <2> HIDE DEF c
  <2>3. TypeOK'
    BY <1>1, <2>1, <2>2 DEF IndexInv, TypeOK, PCs
  <2>4. LockInv'
    BY <1>1, <2>1, <2>2 DEF IndexInv, TypeOK, LockInv, Critical
  <2>5. AnswerInv'
    BY <1>1, <2>1 DEF IndexInv, TypeOK, AnswerInv
  <2> QED
    BY <2>3, <2>4, <2>5
<1>3. ASSUME c # None PROVE TypeOK' /\ LockInv' /\ AnswerInv'
  <2>1. /\ rw' = [rw EXCEPT !.readers = @ \ {t}]
        /\ pc' = [pc EXCEPT ![t] = "return"]
    BY <1>1, <1>3 DEF Read
  <2>2. /\ rw' \in [readers : SUBSET Loaders, writer : Loaders \cup {None},
                    waiting : SUBSET Loaders]
        /\ rw'.readers = rw.readers \ {t} /\ rw'.writer = rw.writer
    BY <2>1 DEF IndexInv, TypeOK
  <2>3. TypeOK'
    BY <1>1, <1>3, <2>1, <2>2 DEF IndexInv, TypeOK, PCs
  <2>4. LockInv'
    BY <1>1, <2>1, <2>2 DEF IndexInv, TypeOK, LockInv, Critical
  <2>5. AnswerInv'
    BY <1>1, <2>1 DEF IndexInv, TypeOK, AnswerInv
  <2> QED
    BY <2>3, <2>4, <2>5
<1>4. TypeOK' /\ LockInv' /\ AnswerInv'
  BY <1>2, <1>3
<1>5. Lagging' = Lagging
  <2>1. pc' = [pc EXCEPT ![t] = "lock"] \/ pc' = [pc EXCEPT ![t] = "return"]
    BY DEF Read
  <2> QED
    BY <1>1, <2>1 DEF IndexInv, TypeOK, Lagging
<1>6. (Fits => CodeInv)'
  BY <1>1, <1>5, CodeFrame DEF IndexInv
<1> QED
  BY <1>1, <1>4, <1>6 DEF IndexInv, Keeps

LEMMA LockInvStep ==
    ASSUME IndexInv, NEW t \in Loaders, Lock(t)
    PROVE  IndexInv' /\ Keeps
<1>1. TypeOK'
  BY NoneFresh DEF IndexInv, TypeOK, Lock, PCs
<1>2. LockInv' /\ AnswerInv'
  BY NoneFresh DEF IndexInv, TypeOK, LockInv, AnswerInv, Lock, Critical
<1>3. (Fits => CodeInv)'
  <2>1. Lagging' = Lagging
    BY DEF IndexInv, TypeOK, Lock, Lagging
  <2> QED
    BY <2>1, CodeFrame DEF IndexInv, Lock
<1> QED
  BY <1>1, <1>2, <1>3 DEF IndexInv, Keeps, Lock

\* The code a new segment gets is index_code itself, which nobody has.
LEMMA NewCode ==
    ASSUME IndexInv, Fits, NEW s \in Segments, index[s] = None, ~Lagging
    PROVE  /\ NextCode = index_code
           /\ index_code < CodeSpace
           /\ Cardinality(Coded \cup {s}) = index_code + 1
           /\ \A r \in Segments : index[r] # None => index[r] < index_code
<1>1. index_code \in Nat /\ CodeSpace \in Nat \ {0}
  BY CodeSpaceAssumption DEF IndexInv, TypeOK
<1>2. Issued = index_code
  BY DEF Issued
<1>3. IsFiniteSet(Coded) /\ IsFiniteSet(Coded \cup {s})
  BY FS_Subset, FS_AddElement DEF Fits, Coded
<1>4. Cardinality(Coded \cup {s}) = index_code + 1
  BY <1>2, <1>3, FS_AddElement DEF IndexInv, CodeInv, Coded
<1>5. Coded \cup {s} \in SUBSET Segments /\ IsFiniteSet(Segments)
  BY DEF Coded, Fits
<1>6. Cardinality(Coded \cup {s}) <= Cardinality(Segments)
  BY <1>5, FS_Subset
<1>7. Cardinality(Segments) \in Nat
  BY <1>5, FS_CardinalityType
<1>8. index_code < CodeSpace
  BY <1>1, <1>4, <1>6, <1>7 DEF Fits
<1>9. NextCode = index_code
  BY <1>1, <1>8 DEF NextCode
<1> QED
  BY <1>2, <1>4, <1>8, <1>9 DEF IndexInv, CodeInv

LEMMA CheckInv ==
    ASSUME IndexInv, NEW t \in Loaders, Check(t)
    PROVE  IndexInv' /\ Keeps
<1> DEFINE s == seg[t]
<1>1. s \in Segments /\ pc[t] = "check" /\ rw.writer = t
  BY DEF IndexInv, TypeOK, LockInv, Check, Critical
<1>2. ~Lagging
  BY <1>1 DEF IndexInv, LockInv, Lagging, Critical
<1>3. NextCode \in Codes /\ NextCode # None
  BY NoneFresh, CodeSpaceAssumption DEF IndexInv, TypeOK, NextCode, Codes
<1>4. CASE index[s] = None
  <2>1. /\ code' = [code EXCEPT ![t] = NextCode]
        /\ index' = [index EXCEPT ![s] = NextCode]
        /\ pc' = [pc EXCEPT ![t] = "count"]
        /\ UNCHANGED <<index_code, rw, seg>>
    BY <1>4 DEF Check
  <2>2. TypeOK'
    BY <1>1, <1>3, <2>1 DEF IndexInv, TypeOK, PCs
  <2>3. LockInv'
    BY <1>1, <2>1 DEF IndexInv, TypeOK, LockInv, Critical
  <2>4. AnswerInv'
    BY <1>1, <2>1, <1>4, NoneFresh DEF IndexInv, TypeOK, AnswerInv
  <2>5. Keeps
    BY <1>1, <1>4, <2>1 DEF IndexInv, TypeOK, Keeps
  <2>6. (Fits => CodeInv)'
    <3> SUFFICES ASSUME Fits PROVE CodeInv'
      BY DEF Fits
    <3>1. /\ NextCode = index_code
          /\ Cardinality(Coded \cup {s}) = index_code + 1
          /\ \A r \in Segments : index[r] # None => index[r] < index_code
      BY <1>1, <1>2, <1>4, NewCode
    <3>2. Coded' = Coded \cup {s}
      BY <1>1, <1>3, <2>1 DEF IndexInv, TypeOK, Coded
    <3>3. Lagging'
      BY <2>1 DEF IndexInv, TypeOK, Lagging
    <3>4. Issued' = index_code + 1
      BY <2>1, <3>3 DEF Issued
    <3>5. index_code \in Nat /\ index \in [Segments -> Codes \cup {None}]
      BY DEF IndexInv, TypeOK
    <3>6. \A r \in Segments : index'[r] # None => index'[r] < index_code + 1
      <4> SUFFICES ASSUME NEW r \in Segments, index'[r] # None
                   PROVE  index'[r] < index_code + 1
        OBVIOUS
      <4>1. CASE r = s
        BY <4>1, <2>1, <3>1, <3>5
      <4>2. CASE r # s
        <5>1. index'[r] = index[r]
          BY <4>2, <2>1, <3>5
        <5>2. index[r] \in Nat /\ index[r] < index_code
          BY <5>1, <3>1, <3>5, NoneFresh
        <5> QED
          BY <5>1, <5>2, <3>5
      <4> QED
        BY <4>1, <4>2
    <3>7. \A r1, r2 \in Segments : r1 # r2 /\ index'[r1] # None => index'[r1] # index'[r2]
      <4> SUFFICES ASSUME NEW r1 \in Segments, NEW r2 \in Segments,
                          r1 # r2, index'[r1] # None
                   PROVE  index'[r1] # index'[r2]
        OBVIOUS
      <4>1. CASE r1 = s
        BY <4>1, <1>1, <2>1, <3>1, <3>5, <1>3, NoneFresh
      <4>2. CASE r2 = s
        BY <4>2, <1>1, <2>1, <3>1, <3>5, NoneFresh
      <4>3. CASE r1 # s /\ r2 # s
        BY <4>3, <1>1, <2>1, <3>5 DEF IndexInv, CodeInv
      <4> QED
        BY <4>1, <4>2, <4>3
    <3> QED
      BY <3>1, <3>2, <3>4, <3>6, <3>7 DEF CodeInv
  <2> QED
    BY <2>2, <2>3, <2>4, <2>5, <2>6 DEF IndexInv
<1>5. CASE index[s] # None
  <2>1. /\ code' = [code EXCEPT ![t] = index[s]]
        /\ pc' = [pc EXCEPT ![t] = "unlock"]
        /\ UNCHANGED <<index, index_code, rw, seg>>
    BY <1>5 DEF Check
  <2>2. TypeOK'
    BY <1>1, <1>5, <2>1 DEF IndexInv, TypeOK, PCs
  <2>3. LockInv' /\ AnswerInv'
    BY <1>1, <2>1 DEF IndexInv, TypeOK, LockInv, AnswerInv, Critical
  <2>4. Lagging' = Lagging
    BY <1>1, <2>1 DEF IndexInv, TypeOK, Lagging
  <2>5. (Fits => CodeInv)'
    BY <2>1, <2>4, CodeFrame DEF IndexInv
  <2> QED
    BY <2>1, <2>2, <2>3, <2>5 DEF IndexInv, Keeps
<1> QED
  BY <1>4, <1>5

LEMMA CountInv ==
    ASSUME IndexInv, NEW t \in Loaders, Count(t)
    PROVE  IndexInv' /\ Keeps
<1>1. TypeOK'
  BY NoneFresh DEF IndexInv, TypeOK, Count, PCs
<1>2. LockInv' /\ AnswerInv'
  BY NoneFresh DEF IndexInv, TypeOK, LockInv, AnswerInv, Count, Critical
<1>3. (Fits => CodeInv)'
  <2>1. Lagging
    BY DEF Lagging, Count
  <2>2. ~Lagging'
    BY DEF IndexInv, TypeOK, LockInv, Count, Lagging, Critical
  <2>3. Issued' = Issued
    BY <2>1, <2>2 DEF Issued, Count
  <2>4. Coded' = Coded
    BY DEF Coded, Count
  <2> QED
    BY <2>3, <2>4 DEF IndexInv, CodeInv, Count, Fits
<1> QED
  BY <1>1, <1>2, <1>3 DEF IndexInv, Keeps, Count

LEMMA UnlockInv ==
    ASSUME IndexInv, NEW t \in Loaders, Unlock(t)
    PROVE  IndexInv' /\ Keeps
<1>1. TypeOK'
  BY NoneFresh DEF IndexInv, TypeOK, Unlock, PCs
<1>2. LockInv' /\ AnswerInv'
  BY NoneFresh DEF IndexInv, TypeOK, LockInv, AnswerInv, Unlock, Critical
<1>3. (Fits => CodeInv)'
  <2>1. Lagging' = Lagging
    BY DEF IndexInv, TypeOK, Unlock, Lagging
  <2> QED
    BY <2>1, CodeFrame DEF IndexInv, Unlock
<1> QED
  BY <1>1, <1>2, <1>3 DEF IndexInv, Keeps, Unlock

LEMMA ReturnInv ==
    ASSUME IndexInv, NEW t \in Loaders, Return(t)
    PROVE  IndexInv' /\ Keeps
<1>1. TypeOK'
  BY NoneFresh DEF IndexInv, TypeOK, Return, PCs
<1>2. LockInv' /\ AnswerInv'
  BY NoneFresh DEF IndexInv, TypeOK, LockInv, AnswerInv, Return, Critical
<1>3. (Fits => CodeInv)'
  <2>1. Lagging' = Lagging
    BY DEF IndexInv, TypeOK, Return, Lagging
  <2> QED
    BY <2>1, CodeFrame DEF IndexInv, Return
<1> QED
  BY <1>1, <1>2, <1>3 DEF IndexInv, Keeps, Return

LEMMA InsideInv ==
    ASSUME IndexInv, NEW t \in Loaders, Inside(t)
    PROVE  IndexInv' /\ Keeps
  BY RLockInv, ReadInv, LockInvStep, CheckInv, CountInv, UnlockInv DEF Inside

LEMMA IndexFrame ==
    ASSUME IndexInv, UNCHANGED indexVars
    PROVE  IndexInv' /\ Keeps
<1>1. Lagging' = Lagging
  BY DEF Lagging, indexVars
<1>2. (Fits => CodeInv)'
  BY <1>1, CodeFrame DEF IndexInv, indexVars
<1> QED
  BY <1>2 DEF IndexInv, TypeOK, LockInv, AnswerInv, Keeps, indexVars

-----------------------------------------------------------------------------
(* getCode takes effect in one step. *)

\* The call of a goroutine, as the abstract table sees it.
Seen == [t \in Loaders |-> [state |-> Query(t), seg |-> seg[t],
                            code |-> IF Query(t) = "answered" THEN code[t] ELSE None]]

\* A step of one goroutine is seen in its call only.
LEMMA SeenStep ==
    ASSUME IndexInv, NEW t \in Loaders, NEW r,
           \E p \in PCs : pc' = [pc EXCEPT ![t] = p],
           \A u \in Loaders \ {t} : seg'[u] = seg[u] /\ code'[u] = code[u],
           Seen'[t] = r
    PROVE  Seen' = [Seen EXCEPT ![t] = r]
<1>1. \A u \in Loaders \ {t} : pc'[u] = pc[u]
  BY DEF IndexInv, TypeOK
<1>2. \A u \in Loaders \ {t} : Seen'[u] = Seen[u]
  BY <1>1 DEF Seen, Query
<1>3. Seen' = [u \in Loaders |-> Seen'[u]]
  BY DEF Seen
<1>4. \A u \in Loaders : Seen'[u] = [Seen EXCEPT ![t] = r][u]
  BY <1>2 DEF Seen
<1> QED
  BY <1>3, <1>4 DEF Seen

LEMMA SeenSame ==
    ASSUME IndexInv, NEW t \in Loaders,
           \E p \in PCs : pc' = [pc EXCEPT ![t] = p],
           \A u \in Loaders \ {t} : seg'[u] = seg[u] /\ code'[u] = code[u],
           Seen'[t] = Seen[t], UNCHANGED index
    PROVE  UNCHANGED Table!vars
<1>1. Seen' = [Seen EXCEPT ![t] = Seen[t]]
  BY SeenStep
<1>2. Seen' = Seen
  BY <1>1 DEF Seen
<1> QED
  BY <1>2 DEF Table!vars, Seen

LEMMA RefinesInit == IndexInit => Table!Init
  BY DEF IndexInit, Table!Init, Table!Idle, Query

LEMMA RefinesCall ==
    ASSUME IndexInv, NEW t \in Loaders, NEW s \in Segments, Call(t, s)
    PROVE  Table!Ask(t, s)
<1>1. Seen[t] = Table!Idle
  BY DEF Seen, Query, Table!Idle, Call, IndexInv, AnswerInv
<1>2. Seen'[t] = Table!Asked(s)
  BY DEF Seen, Query, Table!Asked, Call, IndexInv, TypeOK
<1>3. Seen' = [Seen EXCEPT ![t] = Table!Asked(s)]
  <2>1. "rlock" \in PCs /\ pc' = [pc EXCEPT ![t] = "rlock"]
    BY DEF Call, PCs
  <2>2. \A u \in Loaders \ {t} : seg'[u] = seg[u] /\ code'[u] = code[u]
    BY DEF Call, IndexInv, TypeOK
  <2> QED
    BY <1>2, <2>1, <2>2, SeenStep
<1> QED
  BY <1>1, <1>3 DEF Table!Ask, Seen, Call

LEMMA RefinesReturn ==
    ASSUME IndexInv, NEW t \in Loaders, Return(t)
    PROVE  Table!Take(t)
<1>1. Seen[t].state = "answered"
  BY DEF Seen, Query, Return
<1>2. Seen'[t] = Table!Idle
  BY DEF Seen, Query, Table!Idle, Return, IndexInv, TypeOK
<1>3. "idle" \in PCs /\ pc' = [pc EXCEPT ![t] = "idle"]
  BY DEF Return, PCs
<1>4. \A u \in Loaders \ {t} : seg'[u] = seg[u] /\ code'[u] = code[u]
  BY DEF Return, IndexInv, TypeOK
<1>5. Seen' = [Seen EXCEPT ![t] = Table!Idle]
  BY <1>2, <1>3, <1>4, SeenStep
<1> QED
  BY <1>1, <1>5 DEF Table!Take, Seen, Return

\* The first look-up answers if the segment has a code; the second one answers, and
\* enters a code first if there is still none.
LEMMA RefinesRead ==
    ASSUME IndexInv, NEW t \in Loaders, NEW s \in Segments, s = seg[t], Read(t)
    PROVE  Table!Answer(t, s) \/ UNCHANGED Table!vars
<1>1. /\ pc[t] = "read" /\ s \in Segments /\ index[s] \in Codes \cup {None}
      /\ code' = [code EXCEPT ![t] = index[s]] /\ code'[t] = index[s]
      /\ UNCHANGED <<index, index_code, seg>>
  BY DEF IndexInv, TypeOK, Read
<1>2. \A u \in Loaders \ {t} : seg'[u] = seg[u] /\ code'[u] = code[u]
  BY <1>1 DEF IndexInv, TypeOK
<1>3. Seen[t] = Table!Asked(s)
  BY <1>1 DEF Seen, Query, Table!Asked
<1>4. ASSUME index[s] = None PROVE UNCHANGED Table!vars
  <2>1. "lock" \in PCs /\ pc' = [pc EXCEPT ![t] = "lock"]
    BY <1>1, <1>4 DEF Read, PCs
  <2>2. Seen'[t] = Seen[t]
    BY <1>1, <2>1 DEF Seen, Query, IndexInv, TypeOK
  <2> QED
    BY <1>1, <1>2, <2>1, <2>2, SeenSame
<1>5. ASSUME index[s] # None PROVE Table!Answer(t, s)
  <2>1. "return" \in PCs /\ pc' = [pc EXCEPT ![t] = "return"]
    BY <1>1, <1>5 DEF Read, PCs
  <2>2. Seen'[t] = Table!Answered(s, index'[s])
    BY <1>1, <2>1 DEF Seen, Query, Table!Answered, IndexInv, TypeOK
  <2>3. Seen' = [Seen EXCEPT ![t] = Table!Answered(s, index'[s])]
    BY <1>2, <2>1, <2>2, SeenStep
  <2> QED
    BY <1>1, <1>3, <1>5, <2>3 DEF Table!Answer, Seen
<1> QED
  BY <1>4, <1>5

LEMMA RefinesCheck ==
    ASSUME Fits, IndexInv, NEW t \in Loaders, NEW s \in Segments, s = seg[t], Check(t)
    PROVE  Table!Answer(t, s)
<1>1. /\ pc[t] = "check" /\ s \in Segments /\ index[s] \in Codes \cup {None}
      /\ UNCHANGED <<index_code, rw, seg>>
  BY DEF IndexInv, TypeOK, Check
<1>2. ~Lagging
  BY <1>1 DEF IndexInv, LockInv, Lagging, Critical
<1>3. Seen[t] = Table!Asked(s)
  BY <1>1 DEF Seen, Query, Table!Asked
<1>4. ASSUME index[s] = None PROVE Table!Answer(t, s)
  <2>1. /\ code' = [code EXCEPT ![t] = NextCode]
        /\ index' = [index EXCEPT ![s] = NextCode]
        /\ pc' = [pc EXCEPT ![t] = "count"]
    BY <1>4 DEF Check
  <2>2. index'[s] = NextCode /\ "count" \in PCs
    BY <1>1, <2>1 DEF IndexInv, TypeOK, PCs
  <2>3. \A u \in Loaders \ {t} : seg'[u] = seg[u] /\ code'[u] = code[u]
    BY <1>1, <2>1 DEF IndexInv, TypeOK
  <2>4. Seen'[t] = Table!Answered(s, index'[s])
    BY <1>1, <2>1, <2>2 DEF Seen, Query, Table!Answered, IndexInv, TypeOK
  <2>5. Seen' = [Seen EXCEPT ![t] = Table!Answered(s, index'[s])]
    BY <2>1, <2>2, <2>3, <2>4, SeenStep
  <2>6. NextCode \in Codes /\ Table!Fresh(NextCode)
    <3>1. /\ NextCode = index_code /\ index_code < CodeSpace
          /\ \A r \in Segments : index[r] # None => index[r] < index_code
      BY <1>1, <1>2, <1>4, NewCode
    <3>2. index_code \in Nat /\ index \in [Segments -> Codes \cup {None}]
      BY DEF IndexInv, TypeOK
    <3>3. NextCode \in Codes
      BY <3>1, <3>2, CodeSpaceAssumption DEF Codes
    <3>4. ASSUME NEW r \in Segments PROVE index[r] # NextCode
      BY <3>1, <3>2, <3>3, NoneFresh
    <3> QED
      BY <3>3, <3>4 DEF Table!Fresh
  <2> QED
    BY <1>3, <1>4, <2>1, <2>5, <2>6 DEF Table!Answer, Seen
<1>5. ASSUME index[s] # None PROVE Table!Answer(t, s)
  <2>1. /\ code' = [code EXCEPT ![t] = index[s]]
        /\ pc' = [pc EXCEPT ![t] = "unlock"]
        /\ UNCHANGED index
    BY <1>5 DEF Check
  <2>2. \A u \in Loaders \ {t} : seg'[u] = seg[u] /\ code'[u] = code[u]
    BY <1>1, <2>1 DEF IndexInv, TypeOK
  <2>3. "unlock" \in PCs
    BY DEF PCs
  <2>4. Seen'[t] = Table!Answered(s, index'[s])
    BY <1>1, <2>1 DEF Seen, Query, Table!Answered, IndexInv, TypeOK
  <2>5. Seen' = [Seen EXCEPT ![t] = Table!Answered(s, index'[s])]
    BY <2>1, <2>2, <2>3, <2>4, SeenStep
  <2> QED
    BY <1>3, <1>5, <2>1, <2>5 DEF Table!Answer, Seen
<1> QED
  BY <1>4, <1>5

LEMMA RefinesInside ==
    ASSUME Fits, IndexInv, NEW t \in Loaders, Inside(t)
    PROVE  Table!Next \/ UNCHANGED Table!vars
<1>1. CASE RLock(t) \/ Lock(t) \/ Count(t) \/ Unlock(t)
  <2>1. /\ \E p \in PCs : pc' = [pc EXCEPT ![t] = p]
        /\ UNCHANGED <<index, seg, code>>
    BY <1>1 DEF RLock, Lock, Count, Unlock, PCs
  <2>2. Seen'[t] = Seen[t]
    BY <1>1 DEF RLock, Lock, Count, Unlock, Seen, Query, IndexInv, TypeOK
  <2> QED
    BY <2>1, <2>2, SeenSame
<1>2. CASE Read(t)
  <2>1. PICK s \in Segments : s = seg[t]
    BY <1>2 DEF Read, IndexInv, TypeOK
  <2>2. Table!Answer(t, s) \/ UNCHANGED Table!vars
    BY <1>2, <2>1, RefinesRead
  <2> QED
    BY <2>2 DEF Table!Next
<1>3. CASE Check(t)
  <2>1. PICK s \in Segments : s = seg[t]
    BY <1>3 DEF Check, IndexInv, TypeOK
  <2>2. Table!Answer(t, s)
    BY <1>3, <2>1, RefinesCheck
  <2> QED
    BY <2>2 DEF Table!Next
<1> QED
  BY <1>1, <1>2, <1>3 DEF Inside

-----------------------------------------------------------------------------
(* The loaders. *)

LoaderTypeOK ==
    /\ pushed \in Seq(Entries)
    /\ buff \in Seq(Nat)
    /\ cache \in [Keys -> Seq(Codes)]
    /\ entry \in [Loaders -> Nat]
    /\ value_bin \in [Loaders -> Seq(Codes)]
    /\ faults \in [crashes : Nat, disconnects : Nat, restarted : BOOLEAN]
    /\ \A i \in DOMAIN buff : buff[i] \in DOMAIN pushed
    /\ \A t \in Loaders : entry[t] # 0 => entry[t] \in DOMAIN pushed

\* An entry that is not stored yet is in the list once or with one loader.
QueueInv ==
    /\ \A i, j \in DOMAIN buff : buff[i] = buff[j] => i = j
    /\ PoppedOnce

\* A loader asks for the code of the segment after the ones it has gathered, and
\* these are what the index says.
WorkInv ==
    \A t \in Loaders :
        LET e == pushed[entry[t]]  v == value_bin[t] IN
        /\ ~Busy(t) => v = <<>> /\ pc[t] = "idle"
        /\ pc[t] # "idle" => /\ e.form = "good"
                             /\ Len(v) < Len(e.segs)
                             /\ seg[t] = e.segs[Len(v) + 1]
        /\ Busy(t) => /\ Len(v) <= Len(e.segs)
                      /\ \A i \in 1..Len(v) : index[e.segs[i]] = v[i]

\* The codes stored for key k are those of the n-th entry.
Decodes(k, n) ==
    LET e == pushed[n] IN
    /\ e.key = k /\ e.form = "good"
    /\ Len(cache[k]) = Len(e.segs)
    /\ \A i \in 1..Len(e.segs) : index[e.segs[i]] = cache[k][i]

CacheInv ==
    ~faults.restarted =>
        \A k \in Keys : cache[k] = <<>> \/ \E n \in DOMAIN pushed : Decodes(k, n)

LoaderInv == IndexInv /\ LoaderTypeOK /\ QueueInv /\ WorkInv /\ CacheInv

LEMMA TailFacts ==
    ASSUME NEW S, NEW q \in Seq(S), q # <<>>
    PROVE  /\ Tail(q) \in Seq(S) /\ Head(q) = q[1] /\ 1 \in DOMAIN q
           /\ \A i \in DOMAIN Tail(q) : i \in Nat /\ i + 1 \in DOMAIN q /\ Tail(q)[i] = q[i + 1]
  OBVIOUS

LEMMA AppendFacts ==
    ASSUME NEW S, NEW q \in Seq(S), NEW x \in S
    PROVE  /\ Append(q, x) \in Seq(S)
           /\ Len(Append(q, x)) = Len(q) + 1
           /\ DOMAIN Append(q, x) = 1..(Len(q) + 1) /\ DOMAIN q = 1..Len(q)
           /\ \A i \in DOMAIN q : Append(q, x)[i] = q[i]
           /\ Append(q, x)[Len(q) + 1] = x
  OBVIOUS

LEMMA EntryType ==
    ASSUME LoaderTypeOK, NEW n \in DOMAIN pushed
    PROVE  /\ pushed[n] \in Entries /\ pushed[n].segs \in Seq(Segments)
           /\ pushed[n].key \in Keys
<1>1. pushed[n] \in Entries
  BY DEF LoaderTypeOK
<1> QED
  BY <1>1, EntriesAssumption DEF Keys

LEMMA LoaderInitInv == Init => LoaderInv
<1> SUFFICES ASSUME Init PROVE LoaderInv
  OBVIOUS
<1>1. IndexInv
  BY IndexInitInv DEF Init
<1>2. LoaderTypeOK
  BY DEF Init, LoaderTypeOK
<1>3. QueueInv
  BY DEF Init, QueueInv, PoppedOnce, Busy
<1>4. WorkInv
  BY DEF Init, IndexInit, WorkInv, Busy
<1>5. CacheInv
  BY DEF Init, CacheInv
<1> QED
  BY <1>1, <1>2, <1>3, <1>4, <1>5 DEF LoaderInv

\* What is stored keeps its meaning while the index only grows.
LEMMA CacheKeeps ==
    ASSUME LoaderInv, Keeps, UNCHANGED cache, faults'.restarted = faults.restarted,
           \A n \in DOMAIN pushed : n \in DOMAIN pushed' /\ pushed'[n] = pushed[n]
    PROVE  CacheInv'
<1> SUFFICES ASSUME ~faults.restarted, NEW k \in Keys, cache[k] # <<>>
             PROVE  \E n \in DOMAIN pushed' : Decodes(k, n)'
  BY DEF CacheInv
<1>1. PICK n \in DOMAIN pushed : Decodes(k, n)
  BY DEF LoaderInv, CacheInv
<1>2. pushed[n].segs \in Seq(Segments) /\ cache[k] \in Seq(Codes)
  BY EntryType DEF LoaderInv, LoaderTypeOK
<1>3. ASSUME NEW i \in 1..Len(pushed[n].segs)
      PROVE  index'[pushed[n].segs[i]] = cache[k][i]
  <2>1. pushed[n].segs[i] \in Segments /\ index[pushed[n].segs[i]] = cache[k][i]
    BY <1>1, <1>2 DEF Decodes
  <2>2. cache[k][i] \in Codes
    BY <1>1, <1>2 DEF Decodes
  <2> QED
    BY <2>1, <2>2, NoneFresh DEF Keeps
<1>4. pushed'[n] = pushed[n] /\ n \in DOMAIN pushed'
  OBVIOUS
<1>5. Decodes(k, n)'
  BY <1>1, <1>3, <1>4 DEF Decodes
<1> QED
  BY <1>4, <1>5

\* What loader t gathered keeps its meaning, too.
LEMMA GatheredKeeps ==
    ASSUME LoaderInv, Keeps, NEW t \in Loaders, Busy(t)
    PROVE  LET e == pushed[entry[t]]  v == value_bin[t]
           IN  /\ e.segs \in Seq(Segments) /\ v \in Seq(Codes) /\ Len(v) <= Len(e.segs)
               /\ \A i \in 1..Len(v) : index'[e.segs[i]] = v[i]
<1> DEFINE e == pushed[entry[t]]  v == value_bin[t]
<1>1. e.segs \in Seq(Segments) /\ v \in Seq(Codes)
  BY EntryType DEF LoaderInv, LoaderTypeOK, Busy
<1>2. Len(v) <= Len(e.segs) /\ \A i \in 1..Len(v) : index[e.segs[i]] = v[i]
  BY DEF LoaderInv, WorkInv
<1> HIDE DEF e, v
<1>3. ASSUME NEW i \in 1..Len(v) PROVE index'[e.segs[i]] = v[i]
  <2>1. e.segs[i] \in Segments /\ v[i] \in Codes
    BY <1>1, <1>2
  <2> QED
    BY <2>1, <1>2, NoneFresh DEF Keeps
<1> QED
  BY <1>1, <1>2, <1>3 DEF e, v

LEMMA PushInv ==
    ASSUME LoaderInv, NEW e \in Entries, Push(e)
    PROVE  LoaderInv'
<1>1. /\ pushed' = Append(pushed, e) /\ Len(pushed') = Len(pushed) + 1
      /\ pushed' \in Seq(Entries)
      /\ DOMAIN pushed' = 1..(Len(pushed) + 1) /\ DOMAIN pushed = 1..Len(pushed)
      /\ \A n \in DOMAIN pushed : pushed'[n] = pushed[n]
  BY AppendFacts DEF LoaderInv, LoaderTypeOK, Push
<1>2. \A n \in DOMAIN pushed : n \in DOMAIN pushed' /\ pushed'[n] = pushed[n]
  BY <1>1 DEF LoaderInv, LoaderTypeOK
<1>3. IndexInv' /\ Keeps
  BY IndexFrame DEF LoaderInv, Push
<1>4. /\ buff' = Append(buff, Len(pushed) + 1) /\ buff' \in Seq(Nat)
      /\ DOMAIN buff' = 1..(Len(buff) + 1) /\ DOMAIN buff = 1..Len(buff)
      /\ \A i \in DOMAIN buff : buff'[i] = buff[i] /\ buff[i] \in 1..Len(pushed)
      /\ buff'[Len(buff) + 1] = Len(pushed) + 1
  <2>1. Len(pushed) + 1 \in Nat /\ buff' = Append(buff, Len(pushed) + 1)
    BY <1>1 DEF LoaderInv, LoaderTypeOK, Push
  <2>2. \A i \in DOMAIN buff : buff[i] \in 1..Len(pushed)
    BY <1>1 DEF LoaderInv, LoaderTypeOK
  <2> QED
    BY <2>1, <2>2, AppendFacts DEF LoaderInv, LoaderTypeOK
<1>5. Len(pushed) \in Nat /\ Len(buff) \in Nat
  BY DEF LoaderInv, LoaderTypeOK
<1>6. UNCHANGED <<cache, entry, value_bin, faults, pc, seg, code, index>>
  BY DEF Push, loaderVars, indexVars
<1>7. LoaderTypeOK'
  <2>1. \A i \in DOMAIN buff' : buff'[i] \in DOMAIN pushed'
    BY <1>1, <1>4, <1>5
  <2>2. \A t \in Loaders : entry'[t] # 0 => entry'[t] \in DOMAIN pushed'
    BY <1>2, <1>6 DEF LoaderInv, LoaderTypeOK
  <2> QED
    BY <1>1, <1>4, <1>6, <2>1, <2>2 DEF LoaderInv, LoaderTypeOK
<1>8. QueueInv'
  <2>1. \A i, j \in DOMAIN buff' : buff'[i] = buff'[j] => i = j
    BY <1>4, <1>5 DEF LoaderInv, QueueInv
  <2>2. \A t \in Loaders : entry[t] = 0 \/ entry[t] \in 1..Len(pushed)
    BY <1>1 DEF LoaderInv, LoaderTypeOK
  <2>3. PoppedOnce'
    BY <1>4, <1>5, <1>6, <2>2 DEF LoaderInv, QueueInv, PoppedOnce, Busy
  <2> QED
    BY <2>1, <2>3 DEF QueueInv
<1>9. WorkInv'
  BY <1>2, <1>6 DEF LoaderInv, LoaderTypeOK, WorkInv, Busy
<1>10. CacheInv'
  BY <1>2, <1>3, <1>6, CacheKeeps
<1> QED
  BY <1>3, <1>7, <1>8, <1>9, <1>10 DEF LoaderInv

\* The head of the list goes to nobody, or to a loader that has nothing.
LEMMA QueuePop ==
    ASSUME LoaderInv, buff # <<>>, buff' = Tail(buff), NEW t \in Loaders, ~Busy(t),
           \/ UNCHANGED entry
           \/ entry' = [entry EXCEPT ![t] = Head(buff)]
           \/ entry' = [entry EXCEPT ![t] = 0]
    PROVE  QueueInv'
<1>1. /\ buff \in Seq(Nat) /\ entry \in [Loaders -> Nat]
      /\ \A i, j \in DOMAIN buff : buff[i] = buff[j] => i = j
  BY DEF LoaderInv, LoaderTypeOK, QueueInv
<1>2. /\ 1 \in DOMAIN buff /\ Head(buff) = buff[1]
      /\ \A i \in DOMAIN buff' : i \in Nat /\ i + 1 \in DOMAIN buff /\ buff'[i] = buff[i + 1]
      /\ \A i \in DOMAIN buff' : i > 0
  BY <1>1, TailFacts
<1>3. \A i, j \in DOMAIN buff' : buff'[i] = buff'[j] => i = j
  BY <1>1, <1>2
<1>4. \A i \in DOMAIN buff' : buff'[i] # Head(buff)
  BY <1>1, <1>2
<1>5. \A u \in Loaders : entry[u] # 0 =>
          /\ \A v \in Loaders \ {u} : entry[v] # entry[u]
          /\ \A i \in DOMAIN buff : buff[i] # entry[u]
  BY DEF LoaderInv, QueueInv, PoppedOnce, Busy
<1>6. \A u \in Loaders : entry'[u] # 0 => \A i \in DOMAIN buff' : buff'[i] # entry'[u]
  BY <1>1, <1>2, <1>4, <1>5
<1>7. \A u \in Loaders : entry'[u] # 0 => \A v \in Loaders \ {u} : entry'[v] # entry'[u]
  <2>1. CASE UNCHANGED entry \/ entry' = [entry EXCEPT ![t] = 0]
    BY <1>1, <1>5, <2>1
  <2>2. CASE entry' = [entry EXCEPT ![t] = Head(buff)]
    <3>1. \A u \in Loaders : entry[u] = Head(buff) => entry[u] = 0
      BY <1>2, <1>5
    <3> SUFFICES ASSUME NEW u \in Loaders, NEW v \in Loaders \ {u}, entry'[u] # 0,
                        entry'[v] = entry'[u]
                 PROVE  FALSE
      OBVIOUS
    <3>2. CASE u = t
      BY <1>1, <2>2, <3>1, <3>2
    <3>3. CASE v = t
      BY <1>1, <2>2, <3>1, <3>3
    <3>4. CASE u # t /\ v # t
      BY <1>1, <1>5, <2>2, <3>4
    <3> QED
      BY <3>2, <3>3, <3>4
  <2> QED
    BY <2>1, <2>2
<1> QED
  BY <1>3, <1>6, <1>7 DEF QueueInv, PoppedOnce, Busy

LEMMA PopInv ==
    ASSUME LoaderInv, NEW t \in Loaders, Pop(t)
    PROVE  LoaderInv'
<1>1. /\ buff # <<>> /\ buff' = Tail(buff) /\ ~Busy(t)
      /\ UNCHANGED <<cache, pushed, value_bin, faults, indexVars>>
      /\ \/ entry' = [entry EXCEPT ![t] = Head(buff)]
         \/ entry' = [entry EXCEPT ![t] = 0]
  BY DEF Pop
<1>2. IndexInv' /\ Keeps
  BY <1>1, IndexFrame DEF LoaderInv
<1>3. LoaderTypeOK'
  <2>1. /\ buff' \in Seq(Nat) /\ Head(buff) = buff[1] /\ 1 \in DOMAIN buff
        /\ \A i \in DOMAIN buff' : i + 1 \in DOMAIN buff /\ buff'[i] = buff[i + 1]
    BY <1>1, TailFacts DEF LoaderInv, LoaderTypeOK
  <2>2. Head(buff) \in DOMAIN pushed /\ Head(buff) \in Nat
    BY <2>1 DEF LoaderInv, LoaderTypeOK
  <2>3. \A i \in DOMAIN buff' : buff'[i] \in DOMAIN pushed
    BY <2>1 DEF LoaderInv, LoaderTypeOK
  <2>4. PICK n \in Nat : n \in {0, Head(buff)} /\ entry' = [entry EXCEPT ![t] = n]
    BY <1>1, <2>2
  <2>5. entry \in [Loaders -> Nat] /\ \A u \in Loaders : entry[u] # 0 => entry[u] \in DOMAIN pushed
    BY DEF LoaderInv, LoaderTypeOK
  <2>6. n # 0 => n \in DOMAIN pushed
    BY <2>2, <2>4
  <2>7. entry' \in [Loaders -> Nat] /\ \A u \in Loaders : entry'[u] # 0 => entry'[u] \in DOMAIN pushed
    BY <2>4, <2>5, <2>6
  <2> QED
    BY <1>1, <2>1, <2>3, <2>7 DEF LoaderInv, LoaderTypeOK
<1>4. QueueInv'
  BY <1>1, QueuePop
<1>5. WorkInv'
  <2> SUFFICES ASSUME NEW u \in Loaders
               PROVE  LET e == pushed'[entry'[u]]  v == value_bin'[u] IN
                      /\ ~Busy(u)' => v = <<>> /\ pc'[u] = "idle"
                      /\ pc'[u] # "idle" => /\ e.form = "good"
                                            /\ Len(v) < Len(e.segs)
                                            /\ seg'[u] = e.segs[Len(v) + 1]
                      /\ Busy(u)' => /\ Len(v) <= Len(e.segs)
                                     /\ \A i \in 1..Len(v) : index'[e.segs[i]] = v[i]
    BY DEF WorkInv
  <2>1. CASE u = t
    <3>1. value_bin[t] = <<>> /\ pc[t] = "idle"
      BY <1>1 DEF LoaderInv, WorkInv
    <3>2. entry'[t] # 0 => pushed[entry'[t]].segs \in Seq(Segments)
      BY <1>3, <1>1, EntryType DEF LoaderInv, LoaderTypeOK
    <3>3. value_bin'[u] = <<>> /\ pc'[u] = "idle" /\ Len(value_bin'[u]) = 0
      BY <1>1, <2>1, <3>1 DEF indexVars
    <3> QED
      BY <1>1, <2>1, <3>2, <3>3 DEF Busy
  <2>2. CASE u # t
    <3>1. entry'[u] = entry[u]
      BY <1>1, <2>2 DEF LoaderInv, LoaderTypeOK
    <3> QED
      BY <1>1, <3>1 DEF LoaderInv, WorkInv, Busy, indexVars
  <2> QED
    BY <2>1, <2>2
<1>6. CacheInv'
  BY <1>1, <1>2, CacheKeeps
<1> QED
  BY <1>2, <1>3, <1>4, <1>5, <1>6 DEF LoaderInv

LEMMA AskInv ==
    ASSUME LoaderInv, NEW t \in Loaders, Ask(t)
    PROVE  LoaderInv'
<1> DEFINE e == pushed[entry[t]]  v == value_bin[t]
<1>1. /\ Busy(t) /\ e.form = "good" /\ Len(v) < Len(e.segs)
      /\ UNCHANGED <<buff, cache, pushed, entry, value_bin, faults>>
      /\ Call(t, e.segs[Len(v) + 1])
  BY DEF Ask, redisVars, loaderVars
<1>2. e.segs \in Seq(Segments) /\ v \in Seq(Codes)
  BY <1>1, EntryType DEF LoaderInv, LoaderTypeOK, Busy
<1>3. e.segs[Len(v) + 1] \in Segments
  BY <1>1, <1>2
<1>4. IndexInv' /\ Keeps
  BY <1>1, <1>3, CallInv DEF LoaderInv
<1>5. LoaderTypeOK'
  BY <1>1 DEF LoaderInv, LoaderTypeOK
<1>6. QueueInv'
  BY <1>1 DEF LoaderInv, QueueInv, PoppedOnce, Busy
<1>7. WorkInv'
  <2>1. /\ pc' = [pc EXCEPT ![t] = "rlock"]
        /\ seg' = [seg EXCEPT ![t] = e.segs[Len(v) + 1]]
        /\ UNCHANGED index
    BY <1>1 DEF Call
  <2> HIDE DEF e, v
  <2>2. pc \in [Loaders -> PCs] /\ seg \in [Loaders -> Segments \cup {None}]
    BY DEF LoaderInv, IndexInv, TypeOK
  <2>3. \A u \in Loaders \ {t} : pc'[u] = pc[u] /\ seg'[u] = seg[u]
    BY <2>1, <2>2
  <2>4. pc'[t] = "rlock" /\ seg'[t] = e.segs[Len(v) + 1]
    BY <2>1, <2>2
  <2> QED
    BY <1>1, <2>1, <2>3, <2>4 DEF LoaderInv, WorkInv, Busy, e, v
<1>8. CacheInv'
  BY <1>1, <1>4, CacheKeeps
<1> QED
  BY <1>4, <1>5, <1>6, <1>7, <1>8 DEF LoaderInv

LEMMA GetCodeInv ==
    ASSUME LoaderInv, NEW t \in Loaders, GetCode(t)
    PROVE  LoaderInv'
<1>1. /\ Inside(t)
      /\ UNCHANGED <<buff, cache, pushed, entry, value_bin, faults>>
  BY DEF GetCode, redisVars, loaderVars
<1>2. IndexInv' /\ Keeps
  BY <1>1, InsideInv DEF LoaderInv
<1>3. /\ \E p \in PCs : pc' = [pc EXCEPT ![t] = p]
      /\ UNCHANGED seg
      /\ pc[t] # "idle" /\ pc \in [Loaders -> PCs]
  BY <1>1 DEF Inside, RLock, Read, Lock, Check, Count, Unlock, PCs, LoaderInv, IndexInv, TypeOK
<1>4. LoaderTypeOK'
  BY <1>1 DEF LoaderInv, LoaderTypeOK
<1>5. QueueInv'
  BY <1>1 DEF LoaderInv, QueueInv, PoppedOnce, Busy
<1>6. WorkInv'
  <2>1. \A u \in Loaders : pc'[u] # "idle" => pc[u] # "idle"
    BY <1>3
  <2>2. \A u \in Loaders : ~Busy(u) => pc'[u] = "idle"
    BY <1>3 DEF LoaderInv, WorkInv
  <2>3. \A u \in Loaders : Busy(u) =>
            LET e == pushed[entry[u]]  v == value_bin[u]
            IN  \A i \in 1..Len(v) : index'[e.segs[i]] = v[i]
    BY <1>2, GatheredKeeps
  <2> QED
    BY <1>1, <1>3, <2>1, <2>2, <2>3 DEF LoaderInv, WorkInv, Busy
<1>7. CacheInv'
  BY <1>1, <1>2, CacheKeeps
<1> QED
  BY <1>2, <1>4, <1>5, <1>6, <1>7 DEF LoaderInv

LEMMA AppendCodeInv ==
    ASSUME LoaderInv, NEW t \in Loaders, AppendCode(t)
    PROVE  LoaderInv'
<1> DEFINE e == pushed[entry[t]]  v == value_bin[t]
<1>1. /\ Return(t)
      /\ value_bin' = [value_bin EXCEPT ![t] = Append(v, code[t])]
      /\ UNCHANGED <<buff, cache, pushed, entry, faults>>
  BY DEF AppendCode, redisVars
<1>2. /\ pc[t] = "return" /\ pc' = [pc EXCEPT ![t] = "idle"]
      /\ seg' = [seg EXCEPT ![t] = None]
      /\ UNCHANGED index
  BY <1>1 DEF Return
<1>3. /\ Busy(t) /\ e.form = "good" /\ Len(v) < Len(e.segs) /\ seg[t] = e.segs[Len(v) + 1]
      /\ \A i \in 1..Len(v) : index[e.segs[i]] = v[i]
  BY <1>2 DEF LoaderInv, WorkInv
<1>4. code[t] \in Codes /\ index[seg[t]] = code[t]
  BY <1>2 DEF LoaderInv, IndexInv, TypeOK, AnswerInv
<1>5. e.segs \in Seq(Segments) /\ v \in Seq(Codes)
  BY <1>3, EntryType DEF LoaderInv, LoaderTypeOK, Busy
<1>6. IndexInv' /\ Keeps
  BY <1>1, ReturnInv DEF LoaderInv
<1>7. LoaderTypeOK'
  <2>1. Append(v, code[t]) \in Seq(Codes)
    BY <1>4, <1>5
  <2> HIDE DEF v
  <2>2. value_bin' \in [Loaders -> Seq(Codes)]
    BY <1>1, <2>1 DEF LoaderInv, LoaderTypeOK
  <2> QED
    BY <1>1, <2>2 DEF LoaderInv, LoaderTypeOK
<1>8. QueueInv'
  BY <1>1 DEF LoaderInv, QueueInv, PoppedOnce, Busy
<1>9. WorkInv'
  <2> DEFINE w == Append(v, code[t])
  <2>1. /\ w \in Seq(Codes) /\ Len(w) = Len(v) + 1 /\ Len(v) \in Nat /\ Len(e.segs) \in Nat
        /\ \A i \in 1..Len(v) : w[i] = v[i]
        /\ w[Len(v) + 1] = code[t]
    BY <1>4, <1>5
  <2> HIDE DEF e, v, w
  <2>2. Len(w) <= Len(e.segs) /\ \A i \in 1..Len(w) : index[e.segs[i]] = w[i]
    BY <1>3, <1>4, <2>1
  <2>3. /\ pc \in [Loaders -> PCs] /\ seg \in [Loaders -> Segments \cup {None}]
        /\ value_bin \in [Loaders -> Seq(Codes)]
    BY DEF LoaderInv, IndexInv, TypeOK, LoaderTypeOK
  <2>4. \A u \in Loaders \ {t} : /\ pc'[u] = pc[u] /\ seg'[u] = seg[u]
                                 /\ value_bin'[u] = value_bin[u]
    BY <1>1, <1>2, <2>3
  <2>5. pc'[t] = "idle" /\ value_bin'[t] = w
    BY <1>1, <1>2, <2>3 DEF w
  <2>6. e = pushed'[entry'[t]]
    BY <1>1 DEF e
  <2> SUFFICES ASSUME NEW u \in Loaders
               PROVE  LET d == pushed'[entry'[u]]  x == value_bin'[u] IN
                      /\ ~Busy(u)' => x = <<>> /\ pc'[u] = "idle"
                      /\ pc'[u] # "idle" => /\ d.form = "good"
                                            /\ Len(x) < Len(d.segs)
                                            /\ seg'[u] = d.segs[Len(x) + 1]
                      /\ Busy(u)' => /\ Len(x) <= Len(d.segs)
                                     /\ \A i \in 1..Len(x) : index'[d.segs[i]] = x[i]
    BY DEF WorkInv
  <2>7. CASE u = t
    BY <1>1, <1>2, <1>3, <2>2, <2>5, <2>6, <2>7 DEF Busy
  <2>8. CASE u # t
    BY <1>1, <1>2, <2>4, <2>8 DEF LoaderInv, WorkInv, Busy
  <2> QED
    BY <2>7, <2>8
<1>10. CacheInv'
  BY <1>1, <1>6, CacheKeeps
<1> QED
  BY <1>6, <1>7, <1>8, <1>9, <1>10 DEF LoaderInv

LEMMA StoreInv ==
    ASSUME LoaderInv, NEW t \in Loaders, Store(t)
    PROVE  LoaderInv'
<1> DEFINE n == entry[t]  e == pushed[n]  v == value_bin[t]
<1>1. /\ Busy(t) /\ e.form = "good" /\ pc[t] = "idle" /\ Len(v) = Len(e.segs)
      /\ \/ cache' = [cache EXCEPT ![e.key] = v]
         \/ UNCHANGED cache
      /\ entry' = [entry EXCEPT ![t] = 0]
      /\ value_bin' = [value_bin EXCEPT ![t] = <<>>]
      /\ UNCHANGED <<buff, pushed, faults, indexVars>>
  BY DEF Store
<1>2. n \in DOMAIN pushed /\ e.segs \in Seq(Segments) /\ e.key \in Keys /\ v \in Seq(Codes)
  BY <1>1, EntryType DEF LoaderInv, LoaderTypeOK, Busy
<1>3. IndexInv' /\ Keeps
  BY <1>1, IndexFrame DEF LoaderInv
<1>4. /\ cache \in [Keys -> Seq(Codes)] /\ entry \in [Loaders -> Nat]
      /\ value_bin \in [Loaders -> Seq(Codes)]
  BY DEF LoaderInv, LoaderTypeOK
<1>5. \A i \in 1..Len(e.segs) : index[e.segs[i]] = v[i]
  BY <1>1 DEF LoaderInv, WorkInv
<1> HIDE DEF e, v
<1>6. LoaderTypeOK'
  <2>1. cache' \in [Keys -> Seq(Codes)] /\ value_bin' \in [Loaders -> Seq(Codes)]
    BY <1>1, <1>2, <1>4
  <2>2. entry' \in [Loaders -> Nat] /\ \A u \in Loaders : entry'[u] # 0 => entry'[u] \in DOMAIN pushed
    BY <1>1, <1>4 DEF LoaderInv, LoaderTypeOK
  <2> QED
    BY <1>1, <2>1, <2>2 DEF LoaderInv, LoaderTypeOK
<1>7. QueueInv'
  BY <1>1, <1>4 DEF LoaderInv, QueueInv, PoppedOnce, Busy
<1>8. WorkInv'
  <2>1. \A u \in Loaders \ {t} : entry'[u] = entry[u] /\ value_bin'[u] = value_bin[u]
    BY <1>1, <1>4
  <2>2. entry'[t] = 0 /\ value_bin'[t] = <<>>
    BY <1>1, <1>4
  <2> QED
    BY <1>1, <2>1, <2>2 DEF LoaderInv, WorkInv, Busy, indexVars
<1>9. CacheInv'
  <2> SUFFICES ASSUME ~faults.restarted, NEW k \in Keys, cache'[k] # <<>>
               PROVE  \E m \in DOMAIN pushed : Decodes(k, m)'
    BY <1>1 DEF CacheInv
  <2>1. CASE cache'[k] = cache[k]
    <3>1. PICK m \in DOMAIN pushed : Decodes(k, m)
      BY <2>1 DEF LoaderInv, CacheInv
    <3>2. Decodes(k, m)'
      BY <1>1, <2>1, <3>1 DEF Decodes, indexVars
    <3> QED
      BY <3>2
  <2>2. CASE cache'[k] # cache[k]
    <3>1. k = e.key /\ cache'[k] = v
      BY <1>1, <1>2, <1>4, <2>2
    <3>2. pushed' = pushed /\ pushed[n] = e /\ index' = index
      BY <1>1 DEF indexVars, e
    <3>3. PICK m \in DOMAIN pushed : m = n
      BY <1>2
    <3>4. Decodes(k, m)'
      BY <1>1, <1>5, <3>1, <3>2, <3>3 DEF Decodes
    <3> QED
      BY <3>4
  <2> QED
    BY <2>1, <2>2
<1> QED
  BY <1>3, <1>6, <1>7, <1>8, <1>9 DEF LoaderInv

LEMMA DisconnectInv ==
    ASSUME LoaderInv, NEW t \in Loaders, Disconnect(t)
    PROVE  LoaderInv'
<1>1. /\ faults'.restarted = faults.restarted
      /\ faults' \in [crashes : Nat, disconnects : Nat, restarted : BOOLEAN]
      /\ UNCHANGED <<cache, pushed, entry, value_bin, indexVars>>
  <2>1. faults \in [crashes : Nat, disconnects : Nat, restarted : BOOLEAN]
    BY DEF LoaderInv, LoaderTypeOK
  <2>2. PICK d \in Nat : faults' = [faults EXCEPT !.disconnects = d]
    <3>1. faults.disconnects + 1 \in Nat
      BY <2>1
    <3>2. faults' = [faults EXCEPT !.disconnects = faults.disconnects + 1]
      BY DEF Disconnect
    <3> QED
      BY <3>1, <3>2
  <2>3. /\ faults'.restarted = faults.restarted
        /\ faults' \in [crashes : Nat, disconnects : Nat, restarted : BOOLEAN]
    BY <2>1, <2>2
  <2> QED
    BY <2>3 DEF Disconnect
<1>2. IndexInv' /\ Keeps
  BY <1>1, IndexFrame DEF LoaderInv
<1>3. buff' = buff \/ (~Busy(t) /\ buff # <<>> /\ buff' = Tail(buff))
  BY DEF Disconnect
<1>4. LoaderTypeOK'
  <2>1. CASE buff' = buff
    BY <1>1, <2>1 DEF LoaderInv, LoaderTypeOK
  <2>2. CASE buff # <<>> /\ buff' = Tail(buff)
    <3>1. /\ buff' \in Seq(Nat)
          /\ \A i \in DOMAIN buff' : i + 1 \in DOMAIN buff /\ buff'[i] = buff[i + 1]
      BY <2>2, TailFacts DEF LoaderInv, LoaderTypeOK
    <3>2. \A i \in DOMAIN buff' : buff'[i] \in DOMAIN pushed
      BY <3>1 DEF LoaderInv, LoaderTypeOK
    <3> QED
      BY <1>1, <3>1, <3>2 DEF LoaderInv, LoaderTypeOK
  <2> QED
    BY <1>3, <2>1, <2>2
<1>5. QueueInv'
  <2>1. CASE buff' = buff
    BY <1>1, <2>1 DEF LoaderInv, QueueInv, PoppedOnce, Busy
  <2>2. CASE ~Busy(t) /\ buff # <<>> /\ buff' = Tail(buff)
    BY <1>1, <2>2, QueuePop
  <2> QED
    BY <1>3, <2>1, <2>2
<1>6. WorkInv'
  BY <1>1 DEF LoaderInv, WorkInv, Busy, indexVars
<1>7. CacheInv'
  BY <1>1, <1>2, CacheKeeps
<1> QED
  BY <1>2, <1>4, <1>5, <1>6, <1>7 DEF LoaderInv

\* A new process starts as the first one did, with what redis kept.
LEMMA RestartInv == LoaderInv /\ Restart => LoaderInv'
<1> SUFFICES ASSUME LoaderInv, Restart PROVE LoaderInv'
  OBVIOUS
<1>1. IndexInv'
  <2>1. IndexInit'
    BY DEF Restart, IndexInit
  <2>2. IndexInit' => IndexInv'
    BY IndexInitInv, PTL
  <2> QED
    BY <2>1, <2>2
<1>2. LoaderTypeOK'
  <2>1. faults' \in [crashes : Nat, disconnects : Nat, restarted : BOOLEAN]
    BY DEF Restart, LoaderInv, LoaderTypeOK
  <2> QED
    BY <2>1 DEF Restart, redisVars, LoaderInv, LoaderTypeOK
<1>3. QueueInv'
  BY DEF Restart, redisVars, LoaderInv, QueueInv, PoppedOnce, Busy
<1>4. WorkInv'
  BY DEF Restart, WorkInv, Busy
<1>5. CacheInv'
  <2>1. faults'.restarted
    BY DEF Restart, LoaderInv, LoaderTypeOK
  <2> QED
    BY <2>1 DEF CacheInv
<1> QED
  BY <1>1, <1>2, <1>3, <1>4, <1>5 DEF LoaderInv

\* The process ends; what its goroutines held is of no use to anybody.
LEMMA EndInv ==
    ASSUME LoaderInv, Crash \/ \E t \in Loaders : Panic(t)
    PROVE  LoaderInv'
<1>1. UNCHANGED <<buff, cache, pushed, entry, value_bin, indexVars>>
  BY DEF Crash, Panic, redisVars
<1>2. /\ faults'.restarted = faults.restarted
      /\ faults' \in [crashes : Nat, disconnects : Nat, restarted : BOOLEAN]
  <2>1. faults \in [crashes : Nat, disconnects : Nat, restarted : BOOLEAN]
    BY DEF LoaderInv, LoaderTypeOK
  <2>2. CASE Crash
    <3>1. PICK c \in Nat : faults' = [faults EXCEPT !.crashes = c]
      BY <2>1, <2>2 DEF Crash
    <3> QED
      BY <2>1, <3>1
  <2>3. CASE \E t \in Loaders : Panic(t)
    BY <2>1, <2>3 DEF Panic
  <2> QED
    BY <2>2, <2>3
<1>3. IndexInv' /\ Keeps
  BY <1>1, IndexFrame DEF LoaderInv
<1>4. LoaderTypeOK'
  BY <1>1, <1>2 DEF LoaderInv, LoaderTypeOK
<1>5. QueueInv' /\ WorkInv'
  BY <1>1 DEF LoaderInv, QueueInv, PoppedOnce, WorkInv, Busy, indexVars
<1>6. CacheInv'
  BY <1>1, <1>2, <1>3, CacheKeeps
<1> QED
  BY <1>3, <1>4, <1>5, <1>6 DEF LoaderInv

LEMMA StutterInv ==
    ASSUME LoaderInv, UNCHANGED vars
    PROVE  LoaderInv'
<1>1. UNCHANGED <<buff, cache, pushed, entry, value_bin, faults, indexVars>>
  BY DEF vars, redisVars, loaderVars
<1>2. IndexInv' /\ Keeps
  BY <1>1, IndexFrame DEF LoaderInv
<1>3. LoaderTypeOK'
  BY <1>1 DEF LoaderInv, LoaderTypeOK
<1>4. QueueInv' /\ WorkInv'
  BY <1>1 DEF LoaderInv, QueueInv, PoppedOnce, WorkInv, Busy, indexVars
<1>5. CacheInv'
  BY <1>1, <1>2, CacheKeeps
<1> QED
  BY <1>2, <1>3, <1>4, <1>5 DEF LoaderInv

LEMMA LoaderNextInv == LoaderInv /\ [LoaderNext]_vars => LoaderInv'
<1> SUFFICES ASSUME LoaderInv, [LoaderNext]_vars PROVE LoaderInv'
  OBVIOUS
<1>1. ASSUME NEW e \in Entries, Push(e) PROVE LoaderInv'
  BY <1>1, PushInv
<1>2. CASE Crash
  BY <1>2, EndInv
<1>3. CASE Restart
  BY <1>3, RestartInv
<1>4. ASSUME NEW t \in Loaders, Loader(t) PROVE LoaderInv'
  <2>1. CASE Pop(t)
    BY <2>1, PopInv
  <2>2. CASE Ask(t)
    BY <2>2, AskInv
  <2>3. CASE GetCode(t)
    BY <2>3, GetCodeInv
  <2>4. CASE AppendCode(t)
    BY <2>4, AppendCodeInv
  <2>5. CASE Store(t)
    BY <2>5, StoreInv
  <2>6. CASE Panic(t)
    BY <2>6, EndInv
  <2> QED
    BY <1>4, <2>1, <2>2, <2>3, <2>4, <2>5, <2>6 DEF Loader
<1>5. ASSUME NEW t \in Loaders, Disconnect(t) PROVE LoaderInv'
  BY <1>5, DisconnectInv
<1>6. CASE Idle \/ UNCHANGED vars
  BY <1>6, StutterInv DEF Idle
<1> QED
  BY <1>1, <1>2, <1>3, <1>4, <1>5, <1>6 DEF LoaderNext

\* Every step of the program is one of the table, or none.
LEMMA RefinesNext ==
    ASSUME Fits, LoaderInv, [LoaderNext]_vars
    PROVE  [Table!Next]_(Table!vars)
<1>1. ASSUME UNCHANGED indexVars PROVE UNCHANGED Table!vars
  BY <1>1 DEF indexVars, Table!vars, Query
<1>2. CASE Restart
  <2>1. Table!Forget
    BY <1>2 DEF Restart, Table!Forget, Table!Idle, Query
  <2> QED
    BY <2>1 DEF Table!Next
<1>3. ASSUME NEW t \in Loaders, Ask(t) PROVE Table!Next
  <2> DEFINE e == pushed[entry[t]]
  <2>1. /\ Busy(t) /\ Len(value_bin[t]) < Len(e.segs)
        /\ Call(t, e.segs[Len(value_bin[t]) + 1])
    BY <1>3 DEF Ask
  <2>2. e.segs \in Seq(Segments) /\ value_bin[t] \in Seq(Codes)
    BY <2>1, EntryType DEF LoaderInv, LoaderTypeOK, Busy
  <2>3. PICK s \in Segments : s = e.segs[Len(value_bin[t]) + 1]
    BY <2>1, <2>2
  <2>4. Call(t, s)
    BY <2>1, <2>3 DEF Call
  <2>5. Table!Ask(t, s)
    BY <2>4, RefinesCall DEF LoaderInv
  <2> QED
    BY <2>5 DEF Table!Next
<1>4. ASSUME NEW t \in Loaders, GetCode(t) PROVE Table!Next \/ UNCHANGED Table!vars
  BY <1>4, RefinesInside DEF GetCode, LoaderInv
<1>5. ASSUME NEW t \in Loaders, AppendCode(t) PROVE Table!Next
  <2>1. Table!Take(t)
    BY <1>5, RefinesReturn DEF AppendCode, LoaderInv
  <2> QED
    BY <2>1 DEF Table!Next
<1>6. CASE \/ \E e \in Entries : Push(e)
           \/ Crash \/ Idle \/ UNCHANGED vars
           \/ \E t \in Loaders : Pop(t) \/ Store(t) \/ Panic(t) \/ Disconnect(t)
  <2>1. UNCHANGED indexVars
    BY <1>6 DEF Push, Crash, Idle, vars, Pop, Store, Panic, Disconnect
  <2> QED
    BY <1>1, <2>1
<1> QED
  BY <1>2, <1>3, <1>4, <1>5, <1>6 DEF LoaderNext, Loader

-----------------------------------------------------------------------------
\* The invariant above holds of the loader (loader, getCode).
THEOREM Invariance == LoaderSpec => []LoaderInv
  BY LoaderInitInv, LoaderNextInv, PTL DEF LoaderSpec

\* No goroutine reads the index while another one may write it, for every number of
\* goroutines (getCode).
THEOREM NoRace == LoaderSpec => []NoMapRace
<1>1. LoaderInv => NoMapRace
  BY NoneFresh DEF LoaderInv, IndexInv, LockInv, NoMapRace, Critical
<1> QED
  BY <1>1, Invariance, PTL

\* An entry has one owner, through crashes, panics and lost connections (loader).
THEOREM OneOwner == LoaderSpec => []PoppedOnce
<1>1. LoaderInv => PoppedOnce
  BY DEF LoaderInv, QueueInv
<1> QED
  BY <1>1, Invariance, PTL

\* What is stored are the codes of one whole entry, until a restart (encode, loader).
THEOREM CacheSound == LoaderSpec => []CacheDecodes
<1>1. LoaderInv => CacheDecodes
  <2> SUFFICES ASSUME LoaderInv, ~faults.restarted, NEW k \in Keys, cache[k] # <<>>
               PROVE  \E e \in GoodEntries(k) : cache[k] = Encoding(e)
    BY DEF CacheDecodes
  <2>1. PICK n \in DOMAIN pushed : Decodes(k, n)
    BY DEF LoaderInv, CacheInv
  <2> DEFINE e == pushed[n]
  <2>2. e.segs \in Seq(Segments) /\ cache[k] \in Seq(Codes)
    BY EntryType DEF LoaderInv, LoaderTypeOK
  <2>3. e \in GoodEntries(k)
    BY <2>1 DEF Decodes, GoodEntries
  <2>4. /\ Len(cache[k]) = Len(e.segs)
        /\ \A i \in 1..Len(e.segs) : index[e.segs[i]] = cache[k][i]
    BY <2>1 DEF Decodes
  <2> HIDE DEF e
  <2>5. cache[k] = [i \in 1..Len(cache[k]) |-> cache[k][i]] /\ DOMAIN e.segs = 1..Len(e.segs)
    BY <2>2
  <2>6. cache[k] = Encoding(e)
    BY <2>4, <2>5 DEF Encoding
  <2> QED
    BY <2>3, <2>6
<1> QED
  BY <1>1, Invariance, PTL

-----------------------------------------------------------------------------
(* Where the entries are, and what the broken connections have taken.      *)

\* What is lost, or will be: what is in the hands of a loader without a connection.
Gone == lost \cup {entry[t] : t \in {u \in Loaders : ~up[u] /\ entry[u] # 0}}

Placed == Waiting \cup Held \cup stored \cup lost

FewInv ==
    /\ up \in [Loaders -> BOOLEAN]
    /\ \A n \in DOMAIN pushed : IsGood(n) => n \in Placed
    /\ ~faults.restarted => IsFiniteSet(Gone) /\ Cardinality(Gone) <= faults.disconnects

\* Less or the same is gone, and every entry has a place still.
LEMMA FewKept ==
    ASSUME FewInv, LoaderTypeOK, up' \in [Loaders -> BOOLEAN], pushed' = pushed,
           \A n \in Placed : n \in Placed' \/ ~IsGood(n),
           faults'.restarted \/ (Gone' \subseteq Gone /\ ~faults.restarted),
           ~faults'.restarted => faults'.disconnects = faults.disconnects
    PROVE  FewInv'
<1>1. \A n \in DOMAIN pushed' : IsGood(n)' => n \in Placed'
  BY DEF FewInv, IsGood
<1>2. ASSUME ~faults'.restarted
      PROVE  IsFiniteSet(Gone') /\ Cardinality(Gone') <= faults'.disconnects
  <2>1. IsFiniteSet(Gone) /\ Cardinality(Gone) <= faults.disconnects /\ Gone' \subseteq Gone
    BY <1>2 DEF FewInv
  <2>2. IsFiniteSet(Gone') /\ Cardinality(Gone') <= Cardinality(Gone)
    BY <2>1, FS_Subset
  <2>3. Cardinality(Gone) \in Nat /\ Cardinality(Gone') \in Nat /\ faults.disconnects \in Nat
    BY <2>1, <2>2, FS_CardinalityType DEF LoaderTypeOK
  <2> QED
    BY <1>2, <2>1, <2>2, <2>3
<1> QED
  BY <1>1, <1>2 DEF FewInv

LEMMA FewSame ==
    ASSUME FewInv, LoaderTypeOK, UNCHANGED <<buff, pushed, entry, up, stored, lost>>,
           faults'.restarted = faults.restarted, faults'.disconnects = faults.disconnects
    PROVE  FewInv'
<1>1. Waiting' = Waiting /\ Held' = Held
  BY DEF Waiting, Held
<1>2. Placed' = Placed /\ Gone' = Gone
  BY <1>1 DEF Placed, Gone
<1> QED
  BY <1>2 DEF FewInv, IsGood

LEMMA FewInitInv == Init => FewInv
<1> SUFFICES ASSUME Init PROVE FewInv
  OBVIOUS
<1>1. Gone = {} /\ DOMAIN pushed = {}
  BY DEF Init, Gone
<1>2. IsFiniteSet(Gone) /\ Cardinality(Gone) = 0
  BY <1>1, FS_EmptySet
<1> QED
  BY <1>1, <1>2 DEF FewInv, Init

LEMMA FewPush == ASSUME FewInv, LoaderInv, NEW e \in Entries, Push(e) PROVE FewInv'
<1>1. /\ pushed \in Seq(Entries) /\ buff \in Seq(Nat) /\ pushed' = Append(pushed, e)
      /\ buff' = Append(buff, Len(pushed')) /\ UNCHANGED <<entry, up, faults, stored, lost>>
  BY DEF Push, LoaderInv, LoaderTypeOK, loaderVars, historyVars
<1>2. /\ Len(pushed') = Len(pushed) + 1 /\ DOMAIN pushed' = 1..(Len(pushed) + 1)
      /\ DOMAIN pushed = 1..Len(pushed) /\ Len(pushed) \in Nat
      /\ \A n \in DOMAIN pushed : pushed'[n] = pushed[n]
  BY <1>1, AppendFacts
<1>3. /\ \A i \in DOMAIN buff : i \in DOMAIN buff' /\ buff'[i] = buff[i]
      /\ Len(buff) + 1 \in DOMAIN buff' /\ buff'[Len(buff) + 1] = Len(pushed')
  BY <1>1, <1>2
<1>4. Waiting \subseteq Waiting' /\ Len(pushed') \in Waiting'
  BY <1>3 DEF Waiting
<1>5. Placed \subseteq Placed' /\ Len(pushed') \in Placed' /\ Gone' = Gone
  BY <1>1, <1>4 DEF Placed, Held, Gone
<1>6. \A n \in DOMAIN pushed' : IsGood(n)' => n \in Placed'
  <2> SUFFICES ASSUME NEW n \in DOMAIN pushed', IsGood(n)' PROVE n \in Placed'
    OBVIOUS
  <2>1. CASE n = Len(pushed')
    BY <1>5, <2>1
  <2>2. CASE n # Len(pushed')
    <3>1. n \in DOMAIN pushed /\ IsGood(n)
      BY <1>2, <2>2 DEF IsGood
    <3> QED
      BY <1>5, <3>1 DEF FewInv
  <2> QED
    BY <2>1, <2>2
<1> QED
  BY <1>1, <1>5, <1>6 DEF FewInv

\* The head of the list goes elsewhere; the others stay.
LEMMA WaitingLess ==
    ASSUME LoaderTypeOK, buff # <<>>, buff' = Tail(buff)
    PROVE  Waiting \subseteq Waiting' \cup {Head(buff)}
<1>1. buff \in Seq(Nat)
  BY DEF LoaderTypeOK
<1>2. \A i \in DOMAIN buff : i = 1 \/ (i - 1 \in DOMAIN buff' /\ buff'[i - 1] = buff[i])
  BY <1>1
<1>3. Head(buff) = buff[1]
  BY <1>1
<1> QED
  BY <1>2, <1>3 DEF Waiting

LEMMA FewPop == ASSUME FewInv, LoaderInv, NEW t \in Loaders, Pop(t) PROVE FewInv'
<1>1. /\ buff # <<>> /\ buff' = Tail(buff) /\ entry[t] = 0 /\ up[t]
      /\ entry' = [entry EXCEPT ![t] = IF pushed[Head(buff)].form = "bad_key" THEN 0 ELSE Head(buff)]
      /\ UNCHANGED <<pushed, up, faults, stored, lost>> /\ LoaderTypeOK
  BY DEF Pop, Busy, LoaderInv, historyVars
<1>2. entry \in [Loaders -> Nat] /\ \A u \in Loaders \ {t} : entry'[u] = entry[u]
  BY <1>1 DEF LoaderTypeOK
<1>3. Held \subseteq Held'
  BY <1>1, <1>2 DEF Held
<1>4. IsGood(Head(buff)) => Head(buff) \in Held' \cup {0}
  BY <1>1, <1>2 DEF IsGood, Held
<1>5. ~IsGood(0)
  BY <1>1 DEF LoaderTypeOK, IsGood
<1>6. \A n \in Placed : n \in Placed' \/ ~IsGood(n)
  <2>1. Waiting \subseteq Waiting' \cup {Head(buff)}
    BY <1>1, WaitingLess
  <2> QED
    BY <1>1, <1>3, <1>4, <1>5, <2>1 DEF Placed
<1>7. Gone' = Gone
  BY <1>1, <1>2 DEF Gone
<1> QED
  BY <1>1, <1>6, <1>7, FewKept DEF FewInv

LEMMA FewStore == ASSUME FewInv, LoaderInv, NEW t \in Loaders, Store(t) PROVE FewInv'
<1>1. /\ UNCHANGED <<buff, pushed, up, faults>> /\ LoaderTypeOK /\ entry[t] # 0
      /\ entry' = [entry EXCEPT ![t] = 0]
      /\ \/ up[t] /\ stored' = stored \cup {entry[t]} /\ lost' = lost
         \/ ~up[t] /\ lost' = lost \cup {entry[t]} /\ stored' = stored
  BY DEF Store, Busy, LoaderInv
<1>2. /\ entry \in [Loaders -> Nat] /\ entry'[t] = 0
      /\ \A u \in Loaders \ {t} : entry'[u] = entry[u]
  BY <1>1 DEF LoaderTypeOK
<1>3. Held \subseteq Held' \cup {entry[t]} /\ Waiting' = Waiting
  BY <1>1, <1>2 DEF Held, Waiting
<1>4. \A n \in Placed : n \in Placed'
  BY <1>1, <1>3 DEF Placed
<1>5. Gone' \subseteq Gone
  BY <1>1, <1>2 DEF Gone
<1> QED
  BY <1>1, <1>4, <1>5, FewKept DEF FewInv

LEMMA FewRestart == ASSUME FewInv, LoaderInv, Restart PROVE FewInv'
<1>1. /\ LoaderTypeOK /\ UNCHANGED <<buff, pushed, stored>> /\ lost' = lost \cup Held
      /\ up' = [u \in Loaders |-> TRUE] /\ faults'.restarted
  BY DEF Restart, redisVars, LoaderInv, LoaderTypeOK
<1>2. \A n \in Placed : n \in Placed'
  BY <1>1 DEF Placed, Waiting
<1> QED
  BY <1>1, <1>2, FewKept

\* The loader holds an entry, or an answer with one is on its way, and not both.
LEMMA FewDisconnect == ASSUME FewInv, LoaderInv, NEW t \in Loaders, Disconnect(t) PROVE FewInv'
<1>1. /\ LoaderTypeOK /\ UNCHANGED <<pushed, entry, stored>> /\ up' = [up EXCEPT ![t] = FALSE]
      /\ faults' = [faults EXCEPT !.disconnects = @ + 1]
      /\ \/ UNCHANGED <<buff, lost>>
         \/ /\ entry[t] = 0 /\ buff # <<>> /\ buff' = Tail(buff)
            /\ lost' = lost \cup {Head(buff)}
  BY DEF Disconnect, Busy, LoaderInv
<1>2. /\ up' \in [Loaders -> BOOLEAN] /\ \A u \in Loaders \ {t} : up'[u] = up[u]
  BY <1>1 DEF FewInv
<1>3. /\ faults'.restarted = faults.restarted /\ faults'.disconnects = faults.disconnects + 1
      /\ faults.disconnects \in Nat
  BY <1>1 DEF LoaderTypeOK
<1>4. \A n \in Placed : n \in Placed'
  <2>1. Waiting \subseteq Waiting' \cup {Head(buff)} \/ UNCHANGED buff
    BY <1>1, WaitingLess
  <2> QED
    BY <1>1, <2>1 DEF Placed, Waiting, Held
<1>5. \E x : Gone' \subseteq Gone \cup {x}
  <2>1. \A n \in Gone' : n \in lost' \/ n \in Gone \/ (n = entry[t] /\ entry[t] # 0)
    <3> SUFFICES ASSUME NEW n \in Gone' PROVE n \in lost' \/ n \in Gone \/ (n = entry[t] /\ entry[t] # 0)
      OBVIOUS
    <3>1. CASE n \in lost'
      BY <3>1
    <3>2. CASE n \notin lost'
      <4>1. PICK u \in Loaders : ~up'[u] /\ entry[u] # 0 /\ n = entry[u]
        BY <1>1, <3>2 DEF Gone
      <4>2. CASE u = t
        BY <4>1, <4>2
      <4>3. CASE u # t
        BY <1>2, <4>1, <4>3 DEF Gone
      <4> QED
        BY <4>2, <4>3
    <3> QED
      BY <3>1, <3>2
  <2>2. lost \subseteq Gone
    BY DEF Gone
  <2>3. CASE lost' = lost
    <3>1. Gone' \subseteq Gone \cup {entry[t]}
      BY <2>1, <2>2, <2>3
    <3> QED
      BY <3>1
  <2>4. CASE entry[t] = 0 /\ lost' = lost \cup {Head(buff)}
    <3>1. Gone' \subseteq Gone \cup {Head(buff)}
      BY <2>1, <2>2, <2>4
    <3> QED
      BY <3>1
  <2> QED
    BY <1>1, <2>3, <2>4
<1>6. ASSUME ~faults'.restarted
      PROVE  IsFiniteSet(Gone') /\ Cardinality(Gone') <= faults'.disconnects
  <2>1. PICK x : Gone' \subseteq Gone \cup {x}
    BY <1>5
  <2>2. IsFiniteSet(Gone) /\ Cardinality(Gone) <= faults.disconnects
    BY <1>3, <1>6 DEF FewInv
  <2>3. /\ IsFiniteSet(Gone \cup {x}) /\ Cardinality(Gone) \in Nat
        /\ Cardinality(Gone \cup {x}) <= Cardinality(Gone) + 1
        /\ Cardinality(Gone \cup {x}) \in Nat
    BY <2>2, FS_AddElement, FS_CardinalityType
  <2>4. /\ IsFiniteSet(Gone') /\ Cardinality(Gone') <= Cardinality(Gone \cup {x})
        /\ Cardinality(Gone') \in Nat
    BY <2>1, <2>3, FS_Subset, FS_CardinalityType
  <2> QED
    BY <1>3, <2>2, <2>3, <2>4
<1>7. \A n \in DOMAIN pushed' : IsGood(n)' => n \in Placed'
  BY <1>1, <1>4 DEF FewInv, IsGood
<1> QED
  BY <1>2, <1>6, <1>7 DEF FewInv

LEMMA FewNext == FewInv /\ LoaderInv /\ [LoaderNext]_vars => FewInv'
<1> SUFFICES ASSUME FewInv, LoaderInv, [LoaderNext]_vars PROVE FewInv'
  OBVIOUS
<1>1. LoaderTypeOK
  BY DEF LoaderInv
<1>2. ASSUME NEW t \in Loaders, Ask(t) \/ GetCode(t) \/ AppendCode(t) \/ Panic(t) PROVE FewInv'
  <2>1. UNCHANGED <<buff, pushed, entry, up, faults, stored, lost>>
    BY <1>2 DEF Ask, GetCode, AppendCode, Panic, redisVars, loaderVars, historyVars
  <2> QED
    BY <1>1, <2>1, FewSame
<1>3. CASE Crash
  <2>1. /\ UNCHANGED <<buff, pushed, entry, up, stored, lost>>
        /\ faults' = [faults EXCEPT !.crashes = @ + 1]
    BY <1>3 DEF Crash, redisVars, historyVars
  <2>2. faults'.restarted = faults.restarted /\ faults'.disconnects = faults.disconnects
    BY <1>1, <2>1 DEF LoaderTypeOK
  <2> QED
    BY <1>1, <2>1, <2>2, FewSame
<1>4. CASE Idle \/ UNCHANGED vars
  <2>1. UNCHANGED <<buff, pushed, entry, up, faults, stored, lost>>
    BY <1>4 DEF Idle, vars, redisVars, loaderVars, historyVars
  <2> QED
    BY <1>1, <2>1, FewSame
<1>5. ASSUME NEW t \in Loaders, Loader(t) PROVE FewInv'
  BY <1>2, <1>5, FewPop, FewStore DEF Loader
<1> QED
  BY <1>3, <1>4, <1>5, FewPush, FewRestart, FewDisconnect DEF LoaderNext

\* No entry vanishes but with a process or a broken connection, and each connection
\* takes one at most, for every number of loaders, entries and faults (loader).
THEOREM Accounted == LoaderSpec => []FewLost
<1>1. FewInv /\ LoaderInv => FewLost
  <2> SUFFICES ASSUME FewInv, LoaderInv PROVE FewLost
    OBVIOUS
  <2>1. ASSUME ~faults.restarted PROVE Cardinality(lost) <= faults.disconnects
    <3>1. IsFiniteSet(Gone) /\ Cardinality(Gone) <= faults.disconnects /\ lost \subseteq Gone
      BY <2>1 DEF FewInv, Gone
    <3>2. /\ IsFiniteSet(lost) /\ Cardinality(lost) <= Cardinality(Gone)
          /\ Cardinality(Gone) \in Nat /\ faults.disconnects \in Nat
          /\ Cardinality(lost) \in Nat
      BY <3>1, FS_Subset, FS_CardinalityType DEF LoaderInv, LoaderTypeOK
    <3> QED
      BY <3>1, <3>2
  <2> QED
    BY <2>1 DEF FewLost, FewInv, Placed
<1> QED
  BY <1>1, FewInitInv, FewNext, Invariance, PTL DEF LoaderSpec

\* With a code for every segment no two segments share one, also while index_code
\* lags behind (getCode).
THEOREM UniqueCodes == LoaderSpec => [](Fits => CodesUnique)
<1>1. LoaderInv => (Fits => CodesUnique)
  BY DEF LoaderInv, IndexInv, CodeInv, CodesUnique
<1> QED
  BY <1>1, Invariance, PTL

\* With a code for every segment getCode is an atomic look-up-or-enter, for every
\* number of goroutines and segments, across restarts (getCode).
THEOREM Refinement == ASSUME Fits PROVE LoaderSpec => ImplementsTable
<1>1. Init => Table!Init
  BY RefinesInit DEF Init
<1>2. LoaderInv /\ [LoaderNext]_vars => [Table!Next]_(Table!vars)
  BY RefinesNext
<1> QED
  BY <1>1, <1>2, Invariance, PTL DEF LoaderSpec, ImplementsTable, Table!Spec

-----------------------------------------------------------------------------
(* The loader in C: what a line says does not depend on what was in the    *)
(* buffer before it.                                                       *)

Chars(l) == {l[n] : n \in DOMAIN l}

\* A line as getline reads it, with a line end and no Nul.
Ended(l) == /\ l \in Seq(Chars(l)) /\ Len(l) < Capacity /\ NewLine \in Chars(l)
            /\ \A n \in DOMAIN l : l[n] # Nul

EndsAt(b, n) == n \in DOMAIN b /\ b[n] = NewLine /\ \A m \in 1..(n - 1) : b[m] # NewLine

LEMMA LeastOf ==
    ASSUME NEW T, T \subseteq Nat, T # {}
    PROVE  \E x \in T : \A y \in T : x <= y
<1>1. PICK x \in T : \A y \in T : ~ (<<y, x>> \in OpToRel(<, Nat))
  BY NatLessThanWellFounded, WFMin
<1>2. ASSUME NEW y \in T PROVE x <= y
  <2>1. ~ (<<y, x>> \in OpToRel(<, Nat))
    BY <1>1
  <2>2. ~ (y < x)
    BY <2>1 DEF OpToRel
  <2> QED
    BY <2>2
<1> QED
  BY <1>2

LEMMA FirstEnd ==
    ASSUME NEW l, Ended(l)
    PROVE  \E n \in 1..Len(l) : EndsAt(l, n)
<1> DEFINE T == {n \in 1..Len(l) : l[n] = NewLine}
<1>1. Len(l) \in Nat /\ DOMAIN l = 1..Len(l)
  BY DEF Ended
<1>2. T # {} /\ T \subseteq Nat
  BY <1>1 DEF Ended, Chars
<1>3. PICK x \in T : \A y \in T : x <= y
  BY <1>2, LeastOf
<1>4. ASSUME NEW m \in 1..(x - 1) PROVE l[m] # NewLine
  <2>1. m \in Nat /\ x \in Nat /\ m < x /\ m \in 1..Len(l)
    BY <1>1
  <2> QED
    BY <1>3, <2>1
<1> QED
  BY <1>1, <1>4 DEF EndsAt

LEMMA LastFound ==
    ASSUME NEW n \in Nat, NEW S, S \subseteq 1..n
    PROVE  LastOf(S) = 0 \/ LastOf(S) \in S
<1> SUFFICES ASSUME S # {} PROVE LastOf(S) \in S
  BY DEF LastOf
<1> DEFINE T == {n - m : m \in S}
<1>1. T \subseteq Nat /\ T # {}
  <2>1. PICK m \in S : TRUE
    OBVIOUS
  <2>2. n - m \in T
    OBVIOUS
  <2>3. \A k \in 1..n : n - k \in Nat
    OBVIOUS
  <2> QED
    BY <2>2, <2>3
<1>2. PICK x \in T : \A y \in T : x <= y
  <2> HIDE DEF T
  <2> QED
    BY <1>1, LeastOf
<1>3. PICK k \in S : x = n - k
  OBVIOUS
<1>4. \A m \in S : n - k <= n - m
  BY <1>2, <1>3
<1>5. \A m \in S : m <= k
  BY <1>4
<1> QED
  BY <1>5 DEF LastOf

LEMMA EndUnique ==
    ASSUME NEW b, NEW n \in Nat, EndsAt(b, n), n > 0
    PROVE  LineEnd(b) = n \/ \E m \in DOMAIN b : m \notin Nat \ {0}
<1> SUFFICES ASSUME DOMAIN b \subseteq Nat \ {0} PROVE LineEnd(b) = n
  OBVIOUS
<1> DEFINE e == CHOOSE k \in DOMAIN b : b[k] = NewLine /\ \A m \in 1..(k - 1) : b[m] # NewLine
<1>1. LineEnd(b) = e
  BY DEF LineEnd, EndsAt
<1>2. n \in DOMAIN b /\ b[n] = NewLine /\ \A m \in 1..(n - 1) : b[m] # NewLine
  BY DEF EndsAt
<1>3. e \in DOMAIN b /\ b[e] = NewLine /\ \A m \in 1..(e - 1) : b[m] # NewLine
  BY <1>2
<1> HIDE DEF e
<1>4. e \in Nat /\ e > 0
  BY <1>3
<1>5. ~(e < n) /\ ~(n < e)
  BY <1>2, <1>3, <1>4
<1> QED
  BY <1>1, <1>4, <1>5

LEMMA SameLine ==
    ASSUME NEW l, Ended(l), NEW old
    PROVE  LET b == Filled(old, l)
           IN  /\ WellFormed(b) <=> WellFormed(l)
               /\ WellFormed(l) => ValOf(b) = ValOf(l) /\ KeyOf(b) = KeyOf(l)
<1> DEFINE b == Filled(old, l)
<1>1. /\ Len(l) \in Nat /\ DOMAIN l = 1..Len(l) /\ Capacity \in Nat /\ Len(l) < Capacity
      /\ DOMAIN b = 1..Capacity /\ \A n \in 1..Len(l) : b[n] = l[n] /\ l[n] # Nul
  BY SizesAssumption DEF Ended, Filled
<1>9. b \in Seq(Chars(b)) /\ l \in Seq(Chars(l))
  <2>1. \A n \in 1..Capacity : b[n] \in Chars(b)
    BY <1>1 DEF Chars
  <2>2. b \in [1..Capacity -> Chars(b)]
    <3>1. b = [n \in 1..Capacity |-> b[n]]
      BY DEF Filled
    <3> HIDE DEF b
    <3> QED
      BY <2>1, <3>1
  <2> HIDE DEF b
  <2> QED
    BY <1>1, <2>2 DEF Ended
<1> HIDE DEF b
<1>2. PICK e \in 1..Len(l) : EndsAt(l, e)
  BY FirstEnd
<1>3. EndsAt(b, e)
  BY <1>1, <1>2 DEF EndsAt
<1>4. LineEnd(l) = e /\ LineEnd(b) = e /\ e \in Nat /\ e > 0
  BY <1>1, <1>2, <1>3, EndUnique
<1>5. \A n \in 1..(e - 1) : b[n] = l[n]
  BY <1>1, <1>4
<1>6. LastTab(b) = LastTab(l) /\ LastSpace(b) = LastSpace(l)
  <2>1. \A x : {n \in 1..(e - 1) : b[n] = x} = {n \in 1..(e - 1) : l[n] = x}
    BY <1>5
  <2> QED
    BY <1>4, <2>1 DEF LastTab, LastSpace
<1>7. WellFormed(b) <=> WellFormed(l)
  BY <1>4, <1>6 DEF WellFormed
<1>8. ASSUME WellFormed(l) PROVE ValOf(b) = ValOf(l)
  <2>1. PICK p \in 1..(e - 1) : p = LastSpace(l)
    <3> DEFINE S == {n \in 1..(e - 1) : l[n] = Space}
    <3>1. LastSpace(l) = LastOf(S) /\ LastSpace(l) > 0
      BY <1>4, <1>8 DEF LastSpace, WellFormed
    <3>2. e - 1 \in Nat /\ S \subseteq 1..(e - 1)
      BY <1>4
    <3> HIDE DEF S
    <3>3. LastOf(S) \in S
      <4>1. LastOf(S) # 0
        BY <3>1
      <4> QED
        BY ONLY <3>2, <4>1, LastFound, Zenon
    <3>4. LastSpace(l) \in 1..(e - 1)
      BY <3>1, <3>2, <3>3
    <3> QED
      BY <3>4
  <2>3. PICK n \in Nat : n = e - p - 1
    BY <1>4
  <2>4. (p + 1) + n - 1 = e - 1 /\ p + 1 \in Nat /\ p + 1 > 0
    BY <1>4, <2>3
  <2>5. SubSeq(b, p + 1, e - 1) = SubSeq(l, p + 1, e - 1)
    BY <1>1, <1>4, <1>5, <1>9
  <2>6. ValOf(b) = Dup(b, p + 1, n) /\ ValOf(l) = Dup(l, p + 1, n)
    BY <1>4, <1>6, <2>1, <2>3 DEF ValOf
  <2>7. SubSeq(b, p + 1, (p + 1) + n - 1) = SubSeq(l, p + 1, (p + 1) + n - 1)
    BY <2>4, <2>5
  <2>8. Dup(b, p + 1, n) = Dup(l, p + 1, n)
    <3> DEFINE Whole(t) ==
            IF \E m \in DOMAIN t : t[m] = Nul
            THEN SubSeq(t, 1, (CHOOSE m \in DOMAIN t : t[m] = Nul /\ \A k \in 1..(m - 1) : t[k] # Nul) - 1)
            ELSE t
    <3>1. \A a : Dup(a, p + 1, n) = Whole(SubSeq(a, p + 1, (p + 1) + n - 1))
      BY Zenon DEF Dup
    <3> HIDE DEF Whole
    <3> QED
      BY ONLY <2>7, <3>1, Zenon
  <2> QED
    BY ONLY <2>6, <2>8
<1>10. ASSUME WellFormed(l) PROVE KeyOf(b) = KeyOf(l)
  <2>1. PICK p \in 1..(e - 1) : p = LastTab(l)
    <3> DEFINE S == {n \in 1..(e - 1) : l[n] = Tab}
    <3>1. LastTab(l) = LastOf(S) /\ LastTab(l) # 0
      BY <1>4, <1>10 DEF LastTab, WellFormed
    <3>2. e - 1 \in Nat /\ S \subseteq 1..(e - 1)
      BY <1>4
    <3> HIDE DEF S
    <3>3. LastOf(S) \in S
      BY ONLY <3>1, <3>2, LastFound, Zenon
    <3>4. LastTab(l) \in 1..(e - 1)
      BY <3>1, <3>2, <3>3
    <3> QED
      BY <3>4
  <2>2. PICK n \in Nat : n = p - 1 /\ 1 + n - 1 = n /\ n <= e - 1
    <3>1. p - 1 \in Nat /\ 1 + (p - 1) - 1 = p - 1 /\ p - 1 <= e - 1
      BY <1>4
    <3> QED
      BY <3>1
  <2>3. SubSeq(b, 1, n) = SubSeq(l, 1, n)
    BY <1>1, <1>4, <1>5, <1>9, <2>2
  <2>4. KeyOf(b) = Dup(b, 1, n) /\ KeyOf(l) = Dup(l, 1, n)
    BY <1>6, <2>1, <2>2 DEF KeyOf
  <2>5. Dup(b, 1, n) = Dup(l, 1, n)
    <3> DEFINE Whole(t) ==
            IF \E m \in DOMAIN t : t[m] = Nul
            THEN SubSeq(t, 1, (CHOOSE m \in DOMAIN t : t[m] = Nul /\ \A i \in 1..(m - 1) : t[i] # Nul) - 1)
            ELSE t
    <3>1. \A a : Dup(a, 1, n) = Whole(SubSeq(a, 1, 1 + n - 1))
      BY Zenon DEF Dup
    <3> HIDE DEF Whole
    <3> QED
      BY ONLY <2>2, <2>3, <3>1, Zenon
  <2> QED
    BY ONLY <2>4, <2>5
<1> QED
  BY <1>7, <1>8, <1>10 DEF b

LEMMA ValueList ==
    ASSUME NEW l, Ended(l), WellFormed(l)
    PROVE  ValOf(l) \in Seq(Chars(l))
<1>1. /\ Len(l) \in Nat /\ DOMAIN l = 1..Len(l) /\ l \in Seq(Chars(l))
      /\ \A n \in 1..Len(l) : l[n] # Nul
  BY DEF Ended
<1>2. PICK e \in 1..Len(l) : EndsAt(l, e)
  BY FirstEnd
<1>3. LineEnd(l) = e /\ e \in Nat /\ e > 0
  BY <1>1, <1>2, EndUnique
<1>4. PICK p \in 1..(e - 1) : p = LastSpace(l)
  <2> DEFINE S == {n \in 1..(e - 1) : l[n] = Space}
  <2>1. LastSpace(l) = LastOf(S) /\ LastSpace(l) # 0
    BY <1>3 DEF LastSpace, WellFormed
  <2>2. e - 1 \in Nat /\ S \subseteq 1..(e - 1)
    BY <1>3
  <2> HIDE DEF S
  <2>3. LastOf(S) \in S
    BY ONLY <2>1, <2>2, LastFound, Zenon
  <2>4. LastSpace(l) \in 1..(e - 1)
    BY <2>1, <2>2, <2>3
  <2> QED
    BY <2>4
<1>5. PICK n \in Nat : n = e - p - 1
  BY <1>3
<1>6. (p + 1) + n - 1 = e - 1 /\ p + 1 \in Nat /\ p + 1 > 0
  BY <1>3, <1>5
<1>7. PICK t \in Seq(Chars(l)) : t = SubSeq(l, p + 1, (p + 1) + n - 1) /\ \A m \in DOMAIN t : t[m] # Nul
  <2>1. SubSeq(l, p + 1, e - 1) \in Seq(Chars(l))
    BY <1>1, <1>3, <1>6
  <2>2. ASSUME NEW m \in DOMAIN SubSeq(l, p + 1, e - 1) PROVE SubSeq(l, p + 1, e - 1)[m] # Nul
    <3>1. m \in 1..(e - 1 - p) /\ SubSeq(l, p + 1, e - 1)[m] = l[p + m]
      BY <1>1, <1>3, <1>6
    <3>2. p + m \in 1..Len(l)
      BY <1>1, <1>3, <3>1
    <3> QED
      BY <1>1, <3>1, <3>2
  <2> QED
    BY <1>6, <2>1, <2>2
<1>8. ValOf(l) = Dup(l, p + 1, n)
  BY <1>3, <1>4, <1>5 DEF ValOf
<1>9. Dup(l, p + 1, n) = t
  <2> DEFINE Whole(q) ==
          IF \E m \in DOMAIN q : q[m] = Nul
          THEN SubSeq(q, 1, (CHOOSE m \in DOMAIN q : q[m] = Nul /\ \A k \in 1..(m - 1) : q[k] # Nul) - 1)
          ELSE q
  <2>1. \A a : Dup(a, p + 1, n) = Whole(SubSeq(a, p + 1, (p + 1) + n - 1))
    BY Zenon DEF Dup
  <2>2. Whole(t) = t
    BY ONLY <1>7, Zenon
  <2> HIDE DEF Whole
  <2> QED
    BY ONLY <1>7, <2>1, <2>2, Zenon
<1> QED
  BY <1>8, <1>9

LEMMA SegmentList ==
    ASSUME NEW S, NEW v \in Seq(S)
    PROVE  SegmentsIn(v) \in Seq(Chars(SegmentsIn(v)))
<1>1. IsFiniteSet(Starts(v))
  <2>1. Len(v) \in Nat /\ DOMAIN v = 1..Len(v)
    OBVIOUS
  <2>2. Starts(v) \subseteq 1..(Len(v) + 1)
    BY <2>1 DEF Starts, Slashes
  <2>3. IsFiniteSet(1..(Len(v) + 1))
    BY <2>1, FS_Interval
  <2> QED
    BY <2>2, <2>3, FS_Subset
<1>2. PICK k \in Nat : k = Cardinality(Starts(v))
  BY <1>1, FS_CardinalityType
<1> DEFINE s == SegmentsIn(v)
           Nth(i) == CHOOSE n \in Starts(v) : Cardinality({m \in Starts(v) : m < n}) = i - 1
<1>3. s = [i \in 1..Cardinality(Starts(v)) |-> Atoi(Piece(v, Nth(i)))]
  BY Zenon DEF SegmentsIn
<1> HIDE DEF s, Nth
<1>4. s = [i \in 1..k |-> s[i]] /\ DOMAIN s = 1..k
  BY <1>2, <1>3
<1>5. s \in [1..k -> Chars(s)]
  BY <1>4 DEF Chars
<1>6. s \in Seq(Chars(s))
  BY <1>5
<1> QED
  BY <1>6 DEF s

-----------------------------------------------------------------------------
(* Where a segment stands: in the lines read, and among those at hand.     *)

LEMMA Paired ==
    ASSUME NEW S, IsFiniteSet(S), NEW T, NEW F \in [S -> T],
           \A a, b \in S : F[a] = F[b] => a = b, \A t \in T : \E a \in S : F[a] = t
    PROVE  IsFiniteSet(T) /\ Cardinality(T) = Cardinality(S)
<1>1. F \in Bijection(S, T)
  BY Fun_IsBij
<1>2. ExistsBijection(S, T)
  BY <1>1, Fun_ExistsBij
<1> QED
  BY <1>2, FS_Bijection

\* The places of a segment in a list, and in the first k lines of the file.
In(t, s) == {n \in DOMAIN t : t[n] = s}
Places(s, k) ==
    {p \in (1..k) \X (1..MaxSegs) :
        p[2] <= Len(CleanSegments(file[p[1]])) /\ CleanSegments(file[p[1]])[p[2]] = s}

LEMMA InFinite ==
    ASSUME NEW t, NEW n \in Nat, DOMAIN t = 1..n, NEW s
    PROVE  IsFiniteSet(In(t, s)) /\ Cardinality(In(t, s)) \in Nat
<1>1. In(t, s) \subseteq 1..n
  BY DEF In
<1>2. IsFiniteSet(1..n)
  BY FS_Interval
<1>3. IsFiniteSet(In(t, s))
  BY <1>1, <1>2, FS_Subset
<1> QED
  BY <1>3, FS_CardinalityType

LEMMA PlacesFinite ==
    ASSUME NEW s, NEW k \in Nat
    PROVE  IsFiniteSet(Places(s, k)) /\ Cardinality(Places(s, k)) \in Nat
<1>1. MaxSegs \in Nat
  BY SizesAssumption
<1>2. IsFiniteSet(1..k) /\ IsFiniteSet(1..MaxSegs)
  BY <1>1, FS_Interval
<1>3. IsFiniteSet((1..k) \X (1..MaxSegs))
  BY <1>2, FS_Product
<1>4. Places(s, k) \subseteq (1..k) \X (1..MaxSegs)
  BY DEF Places
<1> QED
  BY <1>3, <1>4, FS_Subset, FS_CardinalityType

\* One line more.
LEMMA PlacesNext ==
    ASSUME NEW s, NEW k \in Nat, NEW n \in Nat, n <= MaxSegs,
           NEW t, t = CleanSegments(file[k + 1]), DOMAIN t = 1..n, Len(t) = n
    PROVE  Cardinality(Places(s, k + 1)) = Cardinality(Places(s, k)) + Cardinality(In(t, s))
<1> DEFINE Q == {<<k + 1, m>> : m \in In(t, s)}
           F == [m \in In(t, s) |-> <<k + 1, m>>]
<1>1. MaxSegs \in Nat
  BY SizesAssumption
<1>2. IsFiniteSet(Q) /\ Cardinality(Q) = Cardinality(In(t, s))
  <2>1. F \in [In(t, s) -> Q]
    OBVIOUS
  <2>2. \A a, b \in In(t, s) : F[a] = F[b] => a = b
    OBVIOUS
  <2>3. \A q \in Q : \E a \in In(t, s) : F[a] = q
    OBVIOUS
  <2> HIDE DEF Q, F
  <2> QED
    BY <2>1, <2>2, <2>3, InFinite, Paired
<1>3. Places(s, k + 1) = Places(s, k) \cup Q
  <2>1. ASSUME NEW a \in 1..(k + 1), NEW b \in 1..MaxSegs
        PROVE  <<a, b>> \in Places(s, k + 1) <=> <<a, b>> \in Places(s, k) \cup Q
    <3>1. CASE a = k + 1
      <4>1. b \in 1..n <=> b <= Len(t)
        OBVIOUS
      <4>2. <<a, b>> \in Places(s, k + 1) <=> b \in In(t, s)
        BY <1>1, <3>1, <4>1 DEF Places, In
      <4>3. <<a, b>> \notin Places(s, k)
        BY <3>1 DEF Places
      <4> QED
        BY <3>1, <4>2, <4>3
    <3>2. CASE a # k + 1
      <4>1. a \in 1..k
        BY <3>2
      <4> QED
        BY <3>2, <4>1 DEF Places
    <3> QED
      BY <3>1, <3>2
  <2>2. Q \subseteq (1..(k + 1)) \X (1..MaxSegs)
    BY <1>1 DEF In
  <2>3. Places(s, k) \subseteq (1..(k + 1)) \X (1..MaxSegs)
    BY DEF Places
  <2>4. Places(s, k + 1) \subseteq (1..(k + 1)) \X (1..MaxSegs)
    BY DEF Places
  <2> HIDE DEF Q
  <2> QED
    BY <2>1, <2>2, <2>3, <2>4
<1>4. Places(s, k) \cap Q = {}
  BY DEF Places
<1>5. IsFiniteSet(Places(s, k)) /\ Cardinality(Places(s, k)) \in Nat
  BY PlacesFinite
<1>6. Cardinality(In(t, s)) \in Nat
  BY InFinite
<1> HIDE DEF Q
<1>7. Cardinality(Places(s, k) \cup Q) = Cardinality(Places(s, k)) + Cardinality(Q) - Cardinality({})
  BY <1>2, <1>4, <1>5, FS_Union
<1>8. Cardinality({}) = 0
  BY FS_EmptySet
<1>9. PICK a \in Nat, b \in Nat : a = Cardinality(Places(s, k)) /\ b = Cardinality(In(t, s))
  BY <1>5, <1>6
<1>10. a + b - 0 = a + b
  OBVIOUS
<1> QED
  BY ONLY <1>2, <1>3, <1>7, <1>8, <1>9, <1>10, Zenon

\* One segment less at hand.
LEMMA InTail ==
    ASSUME NEW S, NEW t \in Seq(S), t # <<>>, NEW s
    PROVE  Cardinality(In(t, s)) = Cardinality(In(Tail(t), s)) + (IF Head(t) = s THEN 1 ELSE 0)
<1>1. PICK n \in Nat : /\ n + 1 = Len(t) /\ Len(Tail(t)) = n /\ DOMAIN Tail(t) = 1..n
                       /\ DOMAIN t = 1..(n + 1) /\ Head(t) = t[1]
                       /\ \A i \in 1..n : Tail(t)[i] = t[i + 1]
  <2>1. Len(t) \in Nat /\ Len(t) > 0 /\ Len(Tail(t)) = Len(t) - 1
    OBVIOUS
  <2>2. Tail(t) \in Seq(S) /\ \A i \in 1..Len(Tail(t)) : Tail(t)[i] = t[i + 1]
    OBVIOUS
  <2>3. DOMAIN t = 1..Len(t) /\ DOMAIN Tail(t) = 1..Len(Tail(t)) /\ Head(t) = t[1]
    BY <2>1, <2>2
  <2>4. PICK n \in Nat : n + 1 = Len(t) /\ Len(t) - 1 = n
    <3>1. Len(t) - 1 \in Nat /\ (Len(t) - 1) + 1 = Len(t)
      BY <2>1
    <3> QED
      BY <3>1
  <2>5. Len(Tail(t)) = n
    BY <2>1, <2>4
  <2>6. /\ n + 1 = Len(t) /\ Len(Tail(t)) = n /\ DOMAIN Tail(t) = 1..n
        /\ DOMAIN t = 1..(n + 1) /\ Head(t) = t[1]
        /\ \A i \in 1..n : Tail(t)[i] = t[i + 1]
    BY ONLY <2>2, <2>3, <2>4, <2>5, Zenon
  <2> QED
    BY ONLY <2>6, Zenon
<1> DEFINE Q == {m + 1 : m \in In(Tail(t), s)}
           F == [m \in In(Tail(t), s) |-> m + 1]
<1>2. IsFiniteSet(Q) /\ Cardinality(Q) = Cardinality(In(Tail(t), s)) /\ Cardinality(Q) \in Nat
  <2>1. F \in [In(Tail(t), s) -> Q]
    OBVIOUS
  <2>2. \A a, b \in In(Tail(t), s) : F[a] = F[b] => a = b
    BY <1>1 DEF In
  <2>3. \A q \in Q : \E a \in In(Tail(t), s) : F[a] = q
    OBVIOUS
  <2>4. IsFiniteSet(In(Tail(t), s)) /\ Cardinality(In(Tail(t), s)) \in Nat
    BY <1>1, InFinite
  <2> HIDE DEF Q, F
  <2> QED
    BY <2>1, <2>2, <2>3, <2>4, Paired
<1>3. 1 \notin Q
  BY <1>1 DEF In
<1>4. ASSUME NEW i \in 1..(n + 1), i # 1 PROVE i \in In(t, s) <=> i \in Q
  <2>1. PICK m \in 1..n : i = m + 1
    <3>1. i - 1 \in 1..n /\ i = (i - 1) + 1
      BY <1>4
    <3> QED
      BY <3>1
  <2>2. i \in In(t, s) <=> m \in In(Tail(t), s)
    BY <1>1, <2>1 DEF In
  <2>3. i \in Q <=> m \in In(Tail(t), s)
    <3>1. \A a \in 1..n : a + 1 = m + 1 => a = m
      OBVIOUS
    <3>2. In(Tail(t), s) \subseteq 1..n
      BY <1>1 DEF In
    <3> QED
      BY <2>1, <3>1, <3>2
  <2> QED
    BY <2>2, <2>3
<1>5. 1 \in In(t, s) <=> Head(t) = s
  BY <1>1 DEF In
<1>6. In(t, s) \subseteq 1..(n + 1) /\ Q \subseteq 1..(n + 1)
  BY <1>1 DEF In
<1> HIDE DEF Q
<1>7. CASE Head(t) = s
  <2>1. In(t, s) = Q \cup {1}
    BY <1>4, <1>5, <1>6, <1>7
  <2> QED
    BY <1>2, <1>3, <1>7, <2>1, FS_AddElement
<1>8. CASE Head(t) # s
  <2>1. \A i \in 1..(n + 1) : i \in In(t, s) <=> i \in Q
    BY <1>3, <1>4, <1>5, <1>8
  <2>2. In(t, s) = Q
    BY ONLY <1>6, <2>1
  <2> QED
    BY <1>2, <1>8, <2>2
<1> QED
  BY <1>7, <1>8

-----------------------------------------------------------------------------
(* The inductive invariant.                                                *)

Known == DOMAIN seg_index

\* As long as the codes have not wrapped round, they are the numbers up to that
\* of the segments, the last of them 0; nothing else is counted, except under
\* the 0 of a failed insertion.
Coding(k) ==
    /\ k = Cardinality(Known)
    /\ k + 1 < ShortSpace => last_index = k + 1
    /\ k + 1 = ShortSpace => last_index = 0
    /\ k <= ShortSpace =>
          /\ \A s \in Known : seg_index[s] \in 1..k \/ (k = ShortSpace /\ seg_index[s] = 0)
          /\ \A s, r \in Known : seg_index[s] = seg_index[r] => s = r
          /\ \A c \in DOMAIN seg_counter :
                c \in 1..k \/ (c = 0 /\ (failures > 0 \/ k = ShortSpace))

Tables ==
    /\ IsFiniteSet(Known) /\ failures \in Nat
    /\ \A c \in DOMAIN seg_counter : seg_counter[c] \in Nat
    /\ \E k \in Nat : Coding(k)

\* No two segments have the same code, and none that of a failed insertion.
Distinct == \/ Cardinality(Known) < ShortSpace
            \/ failures = 0 /\ Cardinality(Known) = ShortSpace

Balance(s) == (Occurrences(s) - Pending(s)) - CountOf(s) \in 0..failures

Good == ~dead /\ Terminated

CInv == /\ file \in Files /\ next \in 1..(Len(file) + 1)
        /\ Good => segs \in Seq(Chars(segs)) /\ Tables /\ (Distinct => \A s : Balance(s))

LEMMA Sizes ==
    /\ ShortSpace \in Nat /\ ShortSpace > 1 /\ MaxSegs \in Nat
    /\ \A f \in Files : Len(f) \in Nat /\ DOMAIN f = 1..Len(f)
<1>1. ASSUME NEW f \in Files PROVE Len(f) \in Nat /\ DOMAIN f = 1..Len(f)
  <2>1. f \in Seq({f[l] : l \in DOMAIN f})
    BY FilesAssumption
  <2> QED
    BY ONLY <2>1
<1> QED
  BY <1>1, SizesAssumption

LEMMA Counting ==
    ASSUME NEW s
    PROVE  Occurrences(s) = Cardinality(Places(s, next - 1)) /\ Pending(s) = Cardinality(In(segs, s))
BY Zenon DEF Occurrences, Pending, Places, In

LEMMA CInit == MainInit => CInv
<1> SUFFICES ASSUME MainInit PROVE CInv
  OBVIOUS
<1>1. /\ file \in Files /\ next = 1 /\ segs = <<>> /\ seg_index = [s \in {} |-> 0]
      /\ last_index = 1 /\ seg_counter = [c \in {} |-> 0] /\ ~dead /\ failures = 0
  BY DEF MainInit
<1>2. Known = {} /\ DOMAIN seg_counter = {}
  BY <1>1 DEF Known
<1>3. Cardinality({}) = 0 /\ IsFiniteSet({})
  BY FS_EmptySet
<1>4. Tables
  <2>1. Coding(0)
    BY <1>1, <1>2, <1>3, Sizes DEF Coding
  <2> QED
    BY <1>1, <1>2, <1>3, <2>1 DEF Tables
<1>5. segs \in Seq(Chars(segs))
  BY <1>1
<1>6. ASSUME NEW s PROVE Balance(s)
  <2>1. Places(s, next - 1) = {}
    <3>1. next - 1 = 0 /\ 1..0 = {}
      BY <1>1
    <3>2. \A A : ({} \X A) = {}
      OBVIOUS
    <3> QED
      BY <3>1, <3>2 DEF Places
  <2>2. In(segs, s) = {}
    BY <1>1 DEF In
  <2>3. CountOf(s) = 0
    BY <1>2 DEF CountOf, Known
  <2>4. Occurrences(s) = 0 /\ Pending(s) = 0
    BY <1>3, <2>1, <2>2, Counting
  <2> QED
    BY <1>1, <2>3, <2>4 DEF Balance
<1>7. next \in 1..(Len(file) + 1)
  BY <1>1, Sizes
<1> QED
  BY <1>1, <1>4, <1>5, <1>6, <1>7 DEF CInv

\* The line getline reads is one with an end, as long as all of them are.
LEMMA LineEnded ==
    ASSUME file \in Files, file' = file, next \in 1..Len(file), next' = next + 1, Terminated'
    PROVE  Ended(file[next])
<1> DEFINE l == file[next]
<1>1. next \in DOMAIN file /\ next \in 1..(next' - 1)
  BY Sizes
<1>2. l \in Seq(Chars(l)) /\ Len(l) < Capacity /\ \A n \in DOMAIN l : l[n] # Nul
  BY <1>1, FilesAssumption DEF Chars
<1>3. NewLine \in Chars(l)
  BY <1>1 DEF Terminated, Chars
<1> QED
  BY <1>2, <1>3 DEF Ended

LEMMA CRead == ASSUME CInv, ReadLine PROVE CInv'
<1>1. /\ file \in Files /\ file' = file /\ next \in 1..Len(file) /\ next' = next + 1 /\ Len(file) \in Nat
      /\ segs = <<>> /\ ~dead
      /\ UNCHANGED <<seg_index, last_index, seg_counter, failures>>
  BY Sizes DEF CInv, ReadLine
<1>2. next' \in 1..(Len(file') + 1)
  BY <1>1
<1> SUFFICES ASSUME Good'
             PROVE  segs' \in Seq(Chars(segs')) /\ Tables' /\ (Distinct' => \A s : Balance(s)')
  BY <1>1, <1>2 DEF CInv
<1> DEFINE l == file[next]
           b == Filled(buffer, l)
<1>3. Ended(l)
  BY <1>1, LineEnded DEF Good
<1>4. Good
  <2>1. \A n \in 1..(next - 1) : n \in 1..(next' - 1)
    BY <1>1
  <2> QED
    BY <1>1, <2>1 DEF Good, Terminated
<1>5. PICK t : t = CleanSegments(l)
  OBVIOUS
<1>6. /\ WellFormed(b) <=> WellFormed(l)
      /\ WellFormed(l) => ValOf(b) = ValOf(l)
  BY <1>3, SameLine
<1>7. t \in Seq(Chars(t))
  <2>1. CASE WellFormed(l)
    <3>1. ValOf(l) \in Seq(Chars(l)) /\ t = SegmentsIn(ValOf(l))
      BY <1>3, <1>5, <2>1, ValueList DEF CleanSegments
    <3> QED
      BY <3>1, SegmentList
  <2>2. CASE ~WellFormed(l)
    <3>1. t = <<>>
      BY <1>5, <2>2 DEF CleanSegments
    <3> QED
      BY <3>1
  <2> QED
    BY <2>1, <2>2
<1>8. segs' = t /\ Len(t) <= MaxSegs
  <2>1. CASE WellFormed(l)
    <3>1. t = SegmentsIn(ValOf(b))
      BY <1>5, <1>6, <2>1 DEF CleanSegments
    <3>2. dead' = (Len(t) > MaxSegs) /\ segs' = IF dead' THEN <<>> ELSE t
      BY <1>6, <2>1, <3>1 DEF ReadLine
    <3>3. ~dead'
      BY DEF Good
    <3>4. Len(t) \in Nat
      BY <1>7
    <3>5. ~(Len(t) > MaxSegs) /\ segs' = t
      BY ONLY <3>2, <3>3, Zenon
    <3> QED
      BY <3>4, <3>5, Sizes
  <2>2. CASE ~WellFormed(l)
    <3>1. t = <<>> /\ segs' = segs
      BY <1>5, <1>6, <2>2 DEF CleanSegments, ReadLine
    <3> QED
      BY <1>1, <3>1, Sizes
  <2> QED
    BY <2>1, <2>2
<1>9. Tables'
  <2>1. \A k : Coding(k)' <=> Coding(k)
    BY <1>1 DEF Coding, Known
  <2> QED
    BY <1>1, <1>4, <2>1 DEF CInv, Tables, Known
<1>10. ASSUME Distinct', NEW s PROVE Balance(s)'
  <2>1. Balance(s) /\ failures \in Nat
    BY <1>1, <1>4, <1>10 DEF CInv, Distinct, Known, Tables
  <2>2. PICK k \in Nat : k + 1 = next /\ k = next - 1
    <3>1. next - 1 \in Nat /\ (next - 1) + 1 = next
      BY <1>1
    <3> QED
      BY <3>1
  <2>3. PICK n \in Nat : n = Len(t) /\ DOMAIN t = 1..n
    BY <1>7
  <2>4. Cardinality(Places(s, k + 1)) = Cardinality(Places(s, k)) + Cardinality(In(t, s))
    BY <1>5, <1>8, <2>2, <2>3, PlacesNext
  <2>5. Occurrences(s) = Cardinality(Places(s, k))
    BY <2>2, Counting
  <2>6. Occurrences(s)' = Cardinality(Places(s, k + 1))
    <3>1. next' - 1 = k + 1
      BY <1>1, <2>2
    <3>2. Occurrences(s)' = Cardinality(Places(s, next - 1))'
      BY Zenon DEF Occurrences, Places
    <3> QED
      BY <1>1, <3>1, <3>2 DEF Places
  <2>7. Pending(s) = 0
    <3>1. In(segs, s) = {}
      BY <1>1 DEF In
    <3> QED
      BY <3>1, Counting, FS_EmptySet
  <2>8. Pending(s)' = Cardinality(In(t, s))
    BY <1>8 DEF Pending, In
  <2>9. CountOf(s)' = CountOf(s)
    BY <1>1 DEF CountOf
  <2>10. PICK a \in Nat, c \in Nat : a = Cardinality(Places(s, k)) /\ c = Cardinality(In(t, s))
    BY <2>2, <2>3, PlacesFinite, InFinite
  <2>11. (a - 0) - CountOf(s) \in 0..failures
    BY <2>1, <2>5, <2>7, <2>10 DEF Balance
  <2>12. (a + c) - c = a /\ a - 0 = a
    OBVIOUS
  <2>13. (Occurrences(s)' - Pending(s)') - CountOf(s)' = (a - 0) - CountOf(s)
    BY ONLY <2>4, <2>6, <2>8, <2>9, <2>10, <2>12, Zenon
  <2> QED
    BY <1>1, <2>11, <2>13 DEF Balance
<1> QED
  BY <1>7, <1>8, <1>9, <1>10

\* What the segment h does to the tables: it is counted under a code, its own
\* unless its insertion failed, once or not at all; f insertions fail.
Changes(h, short, f, times) ==
    /\ failures' = failures + f
    /\ \/ /\ h \in Known /\ short = seg_index[h] /\ (times = 1 <=> f = 0)
          /\ seg_index' = seg_index /\ last_index' = last_index
       \/ /\ h \notin Known /\ short = last_index /\ (times = 1 <=> f = 0)
          /\ seg_index' = [x \in Known \cup {h} |-> IF x = h THEN last_index ELSE seg_index[x]]
          /\ last_index' = (last_index + 1) % ShortSpace
       \/ short = 0 /\ f > 0 /\ seg_index' = seg_index /\ last_index' = last_index
    /\ (times = 1) => seg_counter' = Counted(short)
    /\ (times = 0) => seg_counter' = seg_counter

LEMMA CountShape ==
    ASSUME CountSegment
    PROVE  \E f \in Nat, times \in {0, 1} : \E short : Changes(Head(segs), short, f, times)
<1>1. PICK h : h = Head(segs)
  OBVIOUS
<1>2. PICK fails \in SUBSET {"index", "count"} :
        LET id == IF "index" \in fails THEN NotIndexed ELSE Indexed(Head(segs)) IN
        /\ failures' = failures + Cardinality(fails)
        /\ seg_index' = id.index /\ last_index' = id.last
        /\ seg_counter' = IF "count" \in fails THEN seg_counter ELSE Counted(id.code)
  BY DEF CountSegment
<1>3. PICK f \in Nat : f = Cardinality(fails) /\ (f = 0 <=> fails = {})
  <2>1. IsFiniteSet({"index", "count"})
    <3>1. IsFiniteSet({"index"})
      BY FS_Singleton
    <3>2. {"index", "count"} = {"index"} \cup {"count"}
      OBVIOUS
    <3> QED
      BY <3>1, <3>2, FS_AddElement
  <2>2. IsFiniteSet(fails)
    BY <2>1, FS_Subset
  <2> QED
    BY <2>2, FS_CardinalityType, FS_EmptySet
<1>4. PICK times \in {0, 1} : times = 1 <=> "count" \notin fails
  OBVIOUS
<1>5. CASE "index" \in fails
  <2>1. NotIndexed.index = seg_index /\ NotIndexed.last = last_index /\ NotIndexed.code = 0
    BY DEF NotIndexed
  <2>2. /\ seg_index' = seg_index /\ last_index' = last_index
        /\ times = 1 => seg_counter' = Counted(0)
        /\ times = 0 => seg_counter' = seg_counter
    BY <1>2, <1>4, <1>5, <2>1
  <2>3. f > 0 /\ failures' = failures + f
    BY <1>2, <1>3, <1>5
  <2>4. Changes(h, 0, f, times)
    BY <2>2, <2>3 DEF Changes
  <2> QED
    BY <1>1, <2>4
<1>6. CASE "index" \notin fails
  <2>1. /\ seg_index' = Indexed(h).index /\ last_index' = Indexed(h).last
        /\ times = 1 => seg_counter' = Counted(Indexed(h).code)
        /\ times = 0 => seg_counter' = seg_counter
        /\ failures' = failures + f
    BY <1>1, <1>2, <1>3, <1>4, <1>6
  <2>2. times = 1 <=> f = 0
    BY <1>3, <1>4, <1>6
  <2>3. CASE h \in Known
    <3>1. Indexed(h).index = seg_index /\ Indexed(h).last = last_index /\ Indexed(h).code = seg_index[h]
      BY <2>3 DEF Indexed, Known
    <3>2. Changes(h, seg_index[h], f, times)
      BY <2>1, <2>2, <2>3, <3>1 DEF Changes
    <3> QED
      BY <1>1, <3>2
  <2>4. CASE h \notin Known
    <3>1. /\ Indexed(h).index = [x \in Known \cup {h} |-> IF x = h THEN last_index ELSE seg_index[x]]
          /\ Indexed(h).last = (last_index + 1) % ShortSpace /\ Indexed(h).code = last_index
      BY <2>4 DEF Indexed, Known
    <3>2. Changes(h, last_index, f, times)
      BY <2>1, <2>2, <2>4, <3>1 DEF Changes
    <3> QED
      BY <1>1, <3>2
  <2> QED
    BY <2>3, <2>4
<1> QED
  BY <1>5, <1>6

LEMMA CodingSame ==
    ASSUME Tables, NEW k \in Nat, Coding(k), NEW h, NEW short, NEW f \in Nat, NEW times \in {0, 1},
           Changes(h, short, f, times), seg_index' = seg_index, last_index' = last_index,
           (h \in Known /\ short = seg_index[h]) \/ (short = 0 /\ f > 0)
    PROVE  Coding(k)' /\ Known' = Known
<1>1. Known' = Known
  BY DEF Known
<1>2. failures \in Nat /\ failures' = failures + f
  BY DEF Tables, Changes
<1>4. /\ (times = 1) => DOMAIN seg_counter' = DOMAIN seg_counter \cup {short}
      /\ (times = 0) => seg_counter' = seg_counter
  BY DEF Changes, Counted
<1>3. ASSUME k <= ShortSpace, NEW c \in DOMAIN seg_counter'
      PROVE  c \in 1..k \/ (c = 0 /\ (failures' > 0 \/ k = ShortSpace))
  <2>1. CASE c \in DOMAIN seg_counter
    BY <1>2, <1>3, <2>1 DEF Coding
  <2>2. CASE c \notin DOMAIN seg_counter
    <3>1. c = short
      BY ONLY <1>3, <1>4, <2>2
    <3> QED
      BY <1>2, <1>3, <3>1 DEF Coding
  <2> QED
    BY <2>1, <2>2
<1> QED
  BY <1>1, <1>3 DEF Coding

LEMMA CodingMore ==
    ASSUME Tables, NEW k \in Nat, Coding(k), NEW h, NEW short, NEW f \in Nat, NEW times \in {0, 1},
           Changes(h, short, f, times), h \notin Known, short = last_index,
           seg_index' = [x \in Known \cup {h} |-> IF x = h THEN last_index ELSE seg_index[x]],
           last_index' = (last_index + 1) % ShortSpace
    PROVE  Coding(k + 1)' /\ Known' = Known \cup {h} /\ IsFiniteSet(Known')
<1>1. Known' = Known \cup {h}
  BY DEF Known
<1>2. IsFiniteSet(Known') /\ Cardinality(Known') = k + 1
  BY <1>1, FS_AddElement DEF Tables, Coding
<1>3. failures \in Nat /\ failures' = failures + f
  BY DEF Tables, Changes
<1>4. ShortSpace \in Nat /\ ShortSpace > 1
  BY Sizes
<1>5. PICK j \in Nat : j = k + 1
  OBVIOUS
<1>6. /\ j < ShortSpace => last_index = j
      /\ j = ShortSpace => last_index = 0
      /\ k <= ShortSpace =>
            /\ \A s \in Known : seg_index[s] \in 1..k \/ (k = ShortSpace /\ seg_index[s] = 0)
            /\ \A s, r \in Known : seg_index[s] = seg_index[r] => s = r
            /\ \A c \in DOMAIN seg_counter :
                  c \in 1..k \/ (c = 0 /\ (failures > 0 \/ k = ShortSpace))
  BY <1>5 DEF Coding
<1>7. /\ j + 1 < ShortSpace => last_index' = j + 1
      /\ j + 1 = ShortSpace => last_index' = 0
  <2>1. ASSUME j + 1 < ShortSpace PROVE last_index' = j + 1
    <3>1. j + 1 \in 0..(ShortSpace - 1)
      BY <1>4, <2>1
    <3>2. (j + 1) % ShortSpace = j + 1
      BY <1>4, <2>1, <3>1
    <3> QED
      BY <1>4, <1>6, <2>1, <3>2
  <2>2. ASSUME j + 1 = ShortSpace PROVE last_index' = 0
    <3>1. ShortSpace % ShortSpace = 0
      BY <1>4
    <3>2. last_index = j
      BY <1>4, <1>6, <2>2
    <3> QED
      BY <2>2, <3>1, <3>2
  <2> QED
    BY <2>1, <2>2
<1>9. /\ (times = 1) => DOMAIN seg_counter' = DOMAIN seg_counter \cup {short}
      /\ (times = 0) => seg_counter' = seg_counter
  BY DEF Changes, Counted
<1>8. ASSUME j <= ShortSpace
      PROVE  /\ \A s \in Known' : seg_index'[s] \in 1..j \/ (j = ShortSpace /\ seg_index'[s] = 0)
             /\ \A s, r \in Known' : seg_index'[s] = seg_index'[r] => s = r
             /\ \A c \in DOMAIN seg_counter' :
                   c \in 1..j \/ (c = 0 /\ (failures' > 0 \/ j = ShortSpace))
  <2>1. k < ShortSpace /\ (\A c \in 1..k : c \in 1..j)
    BY <1>4, <1>5, <1>8
  <2>2. (last_index = j \/ (last_index = 0 /\ j = ShortSpace)) /\ last_index \notin 1..k /\ j \in 1..j
    BY <1>4, <1>5, <1>6, <1>8
  <2>3. seg_index'[h] = last_index /\ \A s \in Known : seg_index'[s] = seg_index[s] /\ seg_index[s] \in 1..k
    BY <1>4, <1>6, <2>1
  <2>4. \A s \in Known' : seg_index'[s] \in 1..j \/ (j = ShortSpace /\ seg_index'[s] = 0)
    BY ONLY <1>1, <2>1, <2>2, <2>3
  <2>5. \A s, r \in Known' : seg_index'[s] = seg_index'[r] => s = r
    <3>1. \A s, r \in Known : seg_index[s] = seg_index[r] => s = r
      BY <1>4, <1>6, <2>1
    <3> QED
      BY ONLY <1>1, <2>2, <2>3, <3>1
  <2>6. ASSUME NEW c \in DOMAIN seg_counter'
        PROVE  c \in 1..j \/ (c = 0 /\ (failures' > 0 \/ j = ShortSpace))
    <3>1. CASE c \in DOMAIN seg_counter
      <4>1. c \in 1..k \/ (c = 0 /\ failures > 0)
        BY <1>4, <1>6, <2>1, <3>1
      <4>2. failures > 0 => failures' > 0
        BY <1>3
      <4> QED
        BY ONLY <2>1, <4>1, <4>2
    <3>2. CASE c \notin DOMAIN seg_counter
      <4>1. c = short
        BY ONLY <1>9, <2>6, <3>2
      <4>2. c = last_index
        BY <4>1
      <4> QED
        BY ONLY <2>2, <4>2
    <3> QED
      BY <3>1, <3>2
  <2> QED
    BY <2>4, <2>5, <2>6
<1> QED
  BY <1>1, <1>2, <1>5, <1>7, <1>8 DEF Coding

\* Where the codes have not wrapped round: those of the segments known differ,
\* and no new one has been counted under.
LEMMA CodesApart ==
    ASSUME Tables, NEW k \in Nat, Coding(k), k <= ShortSpace
    PROVE  /\ \A s, r \in Known : seg_index[s] = seg_index[r] => s = r
           /\ k < ShortSpace => /\ last_index \notin DOMAIN seg_counter \/ (last_index = 0 /\ failures > 0)
                                /\ \A s \in Known : seg_index[s] # 0 /\ seg_index[s] # last_index
           /\ k + 1 < ShortSpace => last_index \notin DOMAIN seg_counter
<1>1. ShortSpace \in Nat /\ ShortSpace > 1 /\ k \in Nat
  BY Sizes
<1>2. /\ k + 1 < ShortSpace => last_index = k + 1
      /\ k + 1 = ShortSpace => last_index = 0
      /\ \A s \in Known : seg_index[s] \in 1..k \/ (k = ShortSpace /\ seg_index[s] = 0)
      /\ \A s, r \in Known : seg_index[s] = seg_index[r] => s = r
      /\ \A c \in DOMAIN seg_counter : c \in 1..k \/ (c = 0 /\ (failures > 0 \/ k = ShortSpace))
  BY DEF Coding
<1>3. ASSUME k < ShortSpace
      PROVE  /\ last_index \notin DOMAIN seg_counter \/ (last_index = 0 /\ failures > 0)
             /\ \A s \in Known : seg_index[s] # 0 /\ seg_index[s] # last_index
  <2>1. last_index = k + 1 \/ last_index = 0
    BY <1>1, <1>2, <1>3
  <2>2. last_index \notin 1..k /\ 0 \notin 1..k /\ k # ShortSpace
    BY <1>1, <1>3, <2>1
  <2>3. k + 1 # 0
    BY <1>1
  <2> QED
    BY ONLY <1>2, <2>1, <2>2, <2>3
<1>4. ASSUME k + 1 < ShortSpace PROVE last_index \notin DOMAIN seg_counter
  <2>1. last_index = k + 1 /\ k + 1 \notin 1..k /\ k + 1 # 0
    BY <1>1, <1>2, <1>4
  <2> QED
    BY ONLY <1>2, <2>1
<1> QED
  BY ONLY <1>2, <1>3, <1>4

\* The codes stay apart only as long as they were.
LEMMA DistinctBefore ==
    ASSUME Tables, NEW k \in Nat, Coding(k), NEW h, NEW short, NEW f \in Nat, NEW times \in {0, 1},
           Changes(h, short, f, times), Distinct'
    PROVE  /\ Distinct /\ k <= ShortSpace /\ (f > 0 => k < ShortSpace)
           /\ h \notin Known /\ seg_index' # seg_index =>
                  k < ShortSpace /\ (failures' > 0 => k + 1 < ShortSpace)
<1>1. ShortSpace \in Nat /\ k = Cardinality(Known) /\ failures \in Nat /\ failures' = failures + f
  BY Sizes DEF Coding, Changes, Tables
<1>2. Cardinality(Known') < ShortSpace \/ (failures' = 0 /\ Cardinality(Known') = ShortSpace)
  BY DEF Distinct
<1>3. CASE seg_index' = seg_index
  <2>1. Cardinality(Known') = k
    BY <1>1, <1>3 DEF Known
  <2>2. k < ShortSpace \/ (failures' = 0 /\ k = ShortSpace)
    BY <1>2, <2>1
  <2> QED
    BY <1>1, <1>3, <2>2 DEF Distinct
<1>4. CASE seg_index' # seg_index
  <2>1. h \notin Known /\ seg_index' = [x \in Known \cup {h} |-> IF x = h THEN last_index ELSE seg_index[x]]
    BY <1>4 DEF Changes
  <2>2. Known' = Known \cup {h}
    BY <2>1 DEF Known
  <2>3. Cardinality(Known') = k + 1
    BY <1>1, <2>1, <2>2, FS_AddElement DEF Tables
  <2>4. k + 1 < ShortSpace \/ (failures' = 0 /\ k + 1 = ShortSpace)
    BY <1>2, <2>3
  <2> QED
    BY <1>1, <2>4 DEF Distinct
<1> QED
  BY <1>3, <1>4

\* No failure: the count of the segment, and no other, has grown by one.
LEMMA CountGrows ==
    ASSUME Tables, NEW k \in Nat, Coding(k), NEW h, NEW short, NEW times \in {0, 1},
           Changes(h, short, 0, times), Distinct', NEW s
    PROVE  CountOf(s)' = CountOf(s) + (IF s = h THEN 1 ELSE 0)
<1>1. failures \in Nat /\ failures' = failures /\ times = 1 /\ \A c \in DOMAIN seg_counter : seg_counter[c] \in Nat
  BY DEF Changes, Tables
<1>2. k <= ShortSpace
  BY DistinctBefore
<1>3. /\ DOMAIN seg_counter' = DOMAIN seg_counter \cup {short}
      /\ \A c \in DOMAIN seg_counter : c # short => seg_counter'[c] = seg_counter[c]
      /\ seg_counter'[short] = IF short \in DOMAIN seg_counter THEN seg_counter[short] + 1 ELSE 1
  BY <1>1 DEF Changes, Counted
<1>4. CASE h \in Known
  <2>1. seg_index' = seg_index /\ short = seg_index[h]
    BY <1>4 DEF Changes
  <2>2. CASE s = h
    <3>1. CountOf(s) = IF short \in DOMAIN seg_counter THEN seg_counter[short] ELSE 0
      BY <1>4, <2>1, <2>2 DEF CountOf, Known
    <3>2. CountOf(s)' = seg_counter'[short]
      BY <1>3, <1>4, <2>1, <2>2 DEF CountOf, Known
    <3> QED
      BY <1>1, <1>3, <2>2, <3>1, <3>2
  <2>3. CASE s # h /\ s \in Known
    <3>1. seg_index[s] # short
      BY <1>2, <1>4, <2>1, <2>3, CodesApart
    <3>2. CountOf(s)' = CountOf(s)
      BY <1>3, <2>1, <3>1 DEF CountOf
    <3>3. CountOf(s) \in Nat
      BY <1>1 DEF CountOf
    <3> QED
      BY <2>3, <3>2, <3>3
  <2>4. CASE s \notin Known
    <3>1. CountOf(s)' = 0 /\ CountOf(s) = 0 /\ s # h
      BY <1>4, <2>1, <2>4 DEF CountOf, Known
    <3> QED
      BY <3>1
  <2> QED
    BY <2>2, <2>3, <2>4
<1>5. CASE h \notin Known
  <2>1. seg_index' = [x \in Known \cup {h} |-> IF x = h THEN last_index ELSE seg_index[x]] /\ short = last_index
    BY <1>5 DEF Changes
  <2>2. h \in DOMAIN seg_index' /\ seg_index' # seg_index
    BY <1>5, <2>1 DEF Known
  <2>3. k < ShortSpace /\ (failures' > 0 => k + 1 < ShortSpace)
    BY <1>5, <2>2, DistinctBefore
  <2>4. short \notin DOMAIN seg_counter /\ \A r \in Known : seg_index[r] # short
    BY <1>1, <1>2, <2>1, <2>3, CodesApart
  <2>5. CASE s = h
    <3>1. CountOf(s) = 0
      BY <1>5, <2>5 DEF CountOf, Known
    <3>2. CountOf(s)' = seg_counter'[short]
      BY <1>3, <2>1, <2>5 DEF CountOf
    <3> QED
      BY <1>3, <2>4, <2>5, <3>1, <3>2
  <2>6. CASE s # h
    <3>1. s \in DOMAIN seg_index' <=> s \in Known
      BY <2>1, <2>6
    <3>2. s \in Known => seg_index'[s] = seg_index[s] /\ seg_index[s] # short
      BY <2>1, <2>4, <2>6
    <3>3. CountOf(s)' = CountOf(s)
      BY <1>3, <3>1, <3>2 DEF CountOf, Known
    <3>4. CountOf(s) \in Nat
      BY <1>1 DEF CountOf
    <3> QED
      BY <2>6, <3>3, <3>4
  <2> QED
    BY <2>5, <2>6
<1> QED
  BY <1>4, <1>5

\* A failure: no count has changed.
LEMMA CountStays ==
    ASSUME Tables, NEW k \in Nat, Coding(k), NEW h, NEW short, NEW f \in Nat, f > 0, NEW times \in {0, 1},
           Changes(h, short, f, times), Distinct', NEW s
    PROVE  CountOf(s)' = CountOf(s)
<1>1. failures \in Nat /\ failures' > 0
  <2>1. failures \in Nat /\ failures' = failures + f
    BY DEF Changes, Tables
  <2> QED
    BY <2>1
<1>2. k < ShortSpace
  BY DistinctBefore
<1>3. CASE times = 0
  <2>1. seg_counter' = seg_counter
    BY <1>3 DEF Changes
  <2>2. CASE seg_index' = seg_index
    BY <2>1, <2>2 DEF CountOf
  <2>3. CASE seg_index' # seg_index
    <3>1. h \notin Known /\ seg_index' = [x \in Known \cup {h} |-> IF x = h THEN last_index ELSE seg_index[x]]
      BY <2>3 DEF Changes
    <3>2. k + 1 < ShortSpace
      BY <1>1, <2>3, <3>1, DistinctBefore
    <3>3. last_index \notin DOMAIN seg_counter
      BY <1>2, <3>2, Sizes, CodesApart
    <3>4. CASE s = h
      BY <2>1, <3>1, <3>3, <3>4 DEF CountOf, Known
    <3>5. CASE s # h
      <4>1. (s \in DOMAIN seg_index' <=> s \in Known) /\ (s \in Known => seg_index'[s] = seg_index[s])
        BY <3>1, <3>5
      <4> QED
        BY <2>1, <4>1 DEF CountOf, Known
    <3> QED
      BY <3>4, <3>5
  <2> QED
    BY <2>2, <2>3
<1>4. CASE times = 1
  <2>1. short = 0 /\ seg_index' = seg_index
    BY <1>4 DEF Changes
  <2>2. /\ DOMAIN seg_counter' = DOMAIN seg_counter \cup {0}
        /\ \A c \in DOMAIN seg_counter : c # 0 => seg_counter'[c] = seg_counter[c]
    BY <1>4, <2>1 DEF Changes, Counted
  <2>3. \A r \in Known : seg_index[r] # 0
    BY <1>2, Sizes, CodesApart
  <2> QED
    BY <2>1, <2>2, <2>3 DEF CountOf, Known
<1> QED
  BY <1>3, <1>4

LEMMA CCount == ASSUME CInv, CountSegment PROVE CInv'
<1>1. /\ segs # <<>> /\ segs' = Tail(segs) /\ UNCHANGED <<file, next, dead>>
  BY DEF CountSegment
<1>2. Good' <=> Good
  BY <1>1 DEF Good, Terminated
<1> SUFFICES ASSUME Good
             PROVE  segs' \in Seq(Chars(segs')) /\ Tables' /\ (Distinct' => \A s : Balance(s)')
  BY <1>1, <1>2 DEF CInv
<1>3. segs \in Seq(Chars(segs)) /\ Tables /\ (Distinct => \A s : Balance(s))
  BY DEF CInv
<1>4. PICK h : h = Head(segs)
  OBVIOUS
<1>5. PICK f \in Nat, times \in {0, 1} : \E short : Changes(h, short, f, times)
  BY <1>4, CountShape
<1>6. PICK short : Changes(h, short, f, times)
  BY <1>5
<1>7. PICK k \in Nat : Coding(k)
  BY <1>3 DEF Tables
<1>8. failures \in Nat /\ failures' = failures + f
  BY <1>3, <1>6 DEF Tables, Changes
<1>9. segs' \in Seq(Chars(segs'))
  <2>1. PICK n \in Nat : DOMAIN segs' = 1..n
    BY <1>1, <1>3
  <2>2. segs' \in [1..n -> Chars(segs')]
    <3>1. \A i \in 1..n : segs'[i] \in Chars(segs')
      BY <2>1 DEF Chars
    <3>2. segs' \in Seq(Chars(segs))
      BY <1>1, <1>3
    <3>3. segs' = [i \in 1..n |-> segs'[i]]
      BY <2>1, <3>2
    <3> QED
      BY ONLY <3>1, <3>3
  <2> QED
    BY ONLY <2>2, n \in Nat
<1>10. Tables'
  <2>1. \A c \in DOMAIN seg_counter' : seg_counter'[c] \in Nat
    <3>1. \A c \in DOMAIN seg_counter : seg_counter[c] \in Nat
      BY <1>3 DEF Tables
    <3>2. /\ (times = 1) => DOMAIN seg_counter' = DOMAIN seg_counter \cup {short}
          /\ \A d \in DOMAIN seg_counter : d # short => seg_counter'[d] = seg_counter[d]
          /\ times = 0 => seg_counter' = seg_counter
          /\ times = 1 => seg_counter'[short] =
                  IF short \in DOMAIN seg_counter THEN seg_counter[short] + 1 ELSE 1
      BY <1>6 DEF Changes, Counted
    <3> SUFFICES ASSUME NEW c \in DOMAIN seg_counter' PROVE seg_counter'[c] \in Nat
      OBVIOUS
    <3>3. CASE times = 0
      BY <3>1, <3>2, <3>3
    <3>4. CASE times = 1 /\ c = short
      BY <3>1, <3>2, <3>4
    <3>5. CASE times = 1 /\ c # short
      BY <3>1, <3>2, <3>5
    <3> QED
      BY <3>3, <3>4, <3>5
  <2>2. failures' \in Nat
    BY <1>8
  <2>3. IsFiniteSet(Known)
    BY <1>3 DEF Tables
  <2>4. CASE h \notin Known /\ seg_index' # seg_index
    <3>1. /\ short = last_index /\ last_index' = (last_index + 1) % ShortSpace
          /\ seg_index' = [x \in Known \cup {h} |-> IF x = h THEN last_index ELSE seg_index[x]]
      BY <1>6, <2>4 DEF Changes
    <3>2. Coding(k + 1)' /\ IsFiniteSet(Known')
      BY <1>3, <1>6, <1>7, <2>4, <3>1, CodingMore
    <3>3. k + 1 \in Nat
      OBVIOUS
    <3> QED
      BY <2>1, <2>2, <3>2, <3>3 DEF Tables
  <2>5. CASE ~(h \notin Known /\ seg_index' # seg_index)
    <3>1. /\ seg_index' = seg_index /\ last_index' = last_index
          /\ (h \in Known /\ short = seg_index[h]) \/ (short = 0 /\ f > 0)
      <4>1. h \in DOMAIN [x \in Known \cup {h} |-> IF x = h THEN last_index ELSE seg_index[x]]
        OBVIOUS
      <4> QED
        BY <1>6, <2>5, <4>1 DEF Changes, Known
    <3>2. Coding(k)' /\ Known' = Known
      BY <1>3, <1>6, <1>7, <3>1, CodingSame
    <3> QED
      BY <2>1, <2>2, <2>3, <3>2 DEF Tables
  <2> QED
    BY <2>4, <2>5
<1>11. ASSUME Distinct', NEW s PROVE Balance(s)'
  <2>1. Balance(s)
    BY <1>3, <1>6, <1>7, <1>11, DistinctBefore
  <2>2. Occurrences(s)' = Occurrences(s)
    BY <1>1 DEF Occurrences, CleanSegments
  <2>3. PICK one \in {0, 1} : one = IF s = h THEN 1 ELSE 0
    OBVIOUS
  <2>4. Cardinality(In(segs, s)) = Cardinality(In(segs', s)) + one
    <3>1. Cardinality(In(segs, s)) = Cardinality(In(Tail(segs), s)) + (IF Head(segs) = s THEN 1 ELSE 0)
      BY <1>1, <1>3, InTail
    <3> QED
      BY <1>1, <1>4, <2>3, <3>1
  <2>5. PICK q \in Nat : q = Cardinality(In(segs', s))
    <3>1. PICK n \in Nat : DOMAIN segs' = 1..n
      BY <1>9
    <3> QED
      BY <3>1, InFinite
  <2>6. Pending(s)' = q /\ Pending(s) = q + one
    BY <2>4, <2>5, Counting DEF Pending, In
  <2>7. PICK o \in Nat : o = Occurrences(s)
    <3>1. next - 1 \in Nat
      BY Sizes DEF CInv
    <3> QED
      BY <3>1, Counting, PlacesFinite
  <2>8. PICK c \in Nat : c = CountOf(s)
    BY <1>3 DEF CountOf, Tables
  <2>9. (o - (q + one)) - c \in 0..failures
    BY <2>1, <2>6, <2>7, <2>8 DEF Balance
  <2>10. CASE f = 0
    <3>1. CountOf(s)' = c + one
      BY <1>3, <1>6, <1>7, <1>11, <2>3, <2>8, <2>10, CountGrows
    <3>2. (o - q) - (c + one) \in 0..(failures + f)
      BY <1>8, <2>9, <2>10
    <3> QED
      BY <1>8, <2>2, <2>6, <2>7, <3>1, <3>2 DEF Balance
  <2>11. CASE f > 0
    <3>1. CountOf(s)' = c
      BY <1>3, <1>6, <1>7, <1>11, <2>8, <2>11, CountStays
    <3>2. (o - q) - c \in 0..(failures + f)
      BY <1>8, <2>9, <2>11
    <3> QED
      BY <1>8, <2>2, <2>6, <2>7, <3>1, <3>2 DEF Balance
  <2> QED
    BY <2>10, <2>11
<1> QED
  BY <1>9, <1>10, <1>11

\* The inductive invariant of the loader: as long as every line had an end and
\* none too many segments, the codes are the numbers up to that of the segments
\* and the counts are right.
THEOREM CInvariance == MainSpec => []CInv
<1>1. CInv /\ [MainNext]_mainVars => CInv'
  <2> SUFFICES ASSUME CInv, [MainNext]_mainVars PROVE CInv'
    OBVIOUS
  <2>1. CASE ReadLine
    BY <2>1, CRead
  <2>2. CASE CountSegment
    BY <2>2, CCount
  <2>3. CASE UNCHANGED mainVars
    <3>1. /\ UNCHANGED <<file, next, segs>> /\ UNCHANGED <<seg_index, last_index, seg_counter>>
          /\ UNCHANGED <<dead, failures>>
      BY <2>3 DEF mainVars
    <3>2. Good' = Good /\ Tables' = Tables
      BY <3>1 DEF Good, Terminated, Tables, Coding, Known
    <3>3. Distinct' = Distinct /\ \A s : Balance(s)' = Balance(s)
      BY <3>1 DEF Distinct, Known, Balance, Occurrences, Pending, CountOf, CleanSegments
    <3> QED
      BY <3>1, <3>2, <3>3 DEF CInv
  <2> QED
    BY <2>1, <2>2, <2>3 DEF MainNext
<1> QED
  BY CInit, <1>1, PTL DEF MainSpec

\* What segIndexation and segCount make of the segments of any input: each is
\* counted once for every place in the lines read and counted, less one for
\* each insertion that failed, until the codes of two bytes wrap round.
THEOREM Counts == MainSpec => []CountsExact
<1>1. CInv => CountsExact
  <2> SUFFICES ASSUME CInv, Good,
                      Cardinality(DOMAIN seg_index) < ShortSpace
                          \/ (failures = 0 /\ Cardinality(DOMAIN seg_index) = ShortSpace),
                      NEW s
               PROVE  (Occurrences(s) - Pending(s)) - CountOf(s) \in 0..failures
    BY DEF CountsExact, Good
  <2>1. Distinct
    BY DEF Distinct, Known
  <2> QED
    BY <2>1 DEF CInv, Balance
<1> QED
  BY CInvariance, <1>1, PTL

-----------------------------------------------------------------------------
(* base64 and back.                                                        *)

Octets == 0..255
Byte(k, n) == IF n <= Len(k) THEN k[n] ELSE 0
Group(k, b) == Triplet(Byte(k, (3 * b) + 1), Byte(k, (3 * b) + 2), Byte(k, (3 * b) + 3))

\* Three bytes are four letters, and these the bytes again.
LEMMA GroupBack ==
    ASSUME NEW a \in Octets, NEW b \in Octets, NEW c \in Octets
    PROVE  /\ \A p \in 1..4 : Triplet(a, b, c)[p] \in Alphabet
           /\ Quartet(Triplet(a, b, c)) = <<a, b, c>>
           /\ c = 0 => Triplet(a, b, c)[4] = 0
           /\ b = 0 /\ c = 0 => Triplet(a, b, c)[3] = 0
<1>1. PICK a1 \in 0..63, a0 \in 0..3 : a \div 4 = a1 /\ a % 4 = a0 /\ a = (4 * a1) + a0
  BY DEF Octets
<1>2. PICK b1 \in 0..15, b0 \in 0..15 : b \div 16 = b1 /\ b % 16 = b0 /\ b = (16 * b1) + b0
  BY DEF Octets
<1>3. PICK c1 \in 0..3, c0 \in 0..63 : c \div 64 = c1 /\ c % 64 = c0 /\ c = (64 * c1) + c0
  BY DEF Octets
<1>4. Triplet(a, b, c) = <<a1, (a0 * 16) + b1, c1 + (b0 * 4), c0>>
  BY <1>1, <1>2, <1>3 DEF Triplet
<1>5. PICK q : q = Triplet(a, b, c)
  OBVIOUS
<1>6. q[1] = a1 /\ q[2] = (a0 * 16) + b1 /\ q[3] = c1 + (b0 * 4) /\ q[4] = c0
  BY <1>4, <1>5
<1>7. \A p \in 1..4 : q[p] \in Alphabet
  <2>1. q[1] \in Alphabet /\ q[2] \in Alphabet /\ q[3] \in Alphabet /\ q[4] \in Alphabet
    BY <1>6 DEF Alphabet
  <2>2. \A p \in 1..4 : p = 1 \/ p = 2 \/ p = 3 \/ p = 4
    OBVIOUS
  <2> QED
    BY <2>1, <2>2
<1>8. Quartet(q) = <<a, b, c>>
  <2>1. Quartet(q) = << ((q[1] * 4) % 256) + (q[2] \div 16), ((q[2] % 16) * 16) + (q[3] \div 4),
                        ((q[3] % 4) * 64) + q[4] >>
    BY <1>7 DEF Quartet
  <2>2. ((q[1] * 4) % 256) + (q[2] \div 16) = a
    <3>1. (a1 * 4) % 256 = 4 * a1 /\ ((a0 * 16) + b1) \div 16 = a0
      OBVIOUS
    <3> QED
      BY <1>1, <1>6, <3>1
  <2>3. ((q[2] % 16) * 16) + (q[3] \div 4) = b
    <3>1. ((a0 * 16) + b1) % 16 = b1 /\ (c1 + (b0 * 4)) \div 4 = b0
      OBVIOUS
    <3> QED
      BY <1>2, <1>6, <3>1
  <2>4. ((q[3] % 4) * 64) + q[4] = c
    <3>1. (c1 + (b0 * 4)) % 4 = c1
      OBVIOUS
    <3> QED
      BY <1>3, <1>6, <3>1
  <2> QED
    BY <2>1, <2>2, <2>3, <2>4
<1>9. (c = 0 => q[4] = 0) /\ (b = 0 /\ c = 0 => q[3] = 0)
  BY <1>2, <1>3, <1>6
<1> QED
  BY <1>5, <1>7, <1>8, <1>9

LEMMA ByteType ==
    ASSUME NEW k \in Seq(Octets), NEW n \in Nat, n > 0
    PROVE  Byte(k, n) \in Octets
<1>1. n <= Len(k) => k[n] \in Octets
  OBVIOUS
<1>2. 0 \in Octets
  BY DEF Octets
<1> QED
  BY <1>1, <1>2 DEF Byte

\* What is decoded: the letters of all the bytes, with padding behind them or
\* without.
Spells(src, k, f, r, m) ==
    /\ Len(k) = (3 * f) + r /\ Len(src) = (4 * f) + m
    /\ \A b \in 0..(f - 1) : \A p \in 1..4 : src[(4 * b) + p] = Group(k, b)[p]
    /\ \A p \in 1..(r + 1) : src[(4 * f) + p] = Group(k, f)[p]
    /\ \A p \in (r + 2)..m : src[(4 * f) + p] = Pad

LEMMA Slice ==
    ASSUME NEW S, NEW s \in Seq(S), NEW i \in Nat, NEW n \in Nat, i + n <= Len(s),
           NEW part, part = SubSeq(s, i + 1, i + n)
    PROVE  part \in Seq(S) /\ Len(part) = n /\ \A p \in 1..n : part[p] = s[i + p]
<1>1. Len(s) \in Nat
  OBVIOUS
<1>2. SubSeq(s, i + 1, i + n) \in Seq(S) /\ Len(SubSeq(s, i + 1, i + n)) = n
  BY <1>1
<1>3. \A p \in 1..n : SubSeq(s, i + 1, i + n)[p] = s[i + p]
  BY <1>1
<1> QED
  BY <1>2, <1>3

\* The full groups.
LEMMA PartBack ==
    ASSUME NEW S, NEW src \in Seq(S), NEW k \in Seq(Octets), NEW f \in Nat, NEW r \in 1..3, NEW m \in 1..4,
           Spells(src, k, f, r, m), NEW b \in 0..(f - 1)
    PROVE  Quartet(SubSeq(src, (4 * b) + 1, (4 * b) + 4)) = <<k[(3 * b) + 1], k[(3 * b) + 2], k[(3 * b) + 3]>>
<1> DEFINE q == SubSeq(src, (4 * b) + 1, (4 * b) + 4)
<1>1. b \in Nat /\ (3 * b) + 3 <= Len(k) /\ (4 * b) + 4 <= Len(src) /\ Len(k) \in Nat
  BY DEF Spells
<1>2. Group(k, b) = Triplet(k[(3 * b) + 1], k[(3 * b) + 2], k[(3 * b) + 3])
  BY <1>1 DEF Group, Byte
<1>3. k[(3 * b) + 1] \in Octets /\ k[(3 * b) + 2] \in Octets /\ k[(3 * b) + 3] \in Octets
  BY <1>1
<1>4. q \in Seq(S) /\ Len(q) = 4 /\ \A p \in 1..4 : q[p] = src[(4 * b) + p]
  <2>1. PICK i \in Nat : i = 4 * b
    BY <1>1
  <2>2. i + 4 <= Len(src) /\ q = SubSeq(src, i + 1, i + 4)
    BY <1>1, <2>1
  <2> HIDE DEF q
  <2>3. q \in Seq(S) /\ Len(q) = 4 /\ \A p \in 1..4 : q[p] = src[i + p]
    BY <2>2, Slice
  <2> QED
    BY ONLY <2>1, <2>3, Zenon
<1>5. \A p \in 1..4 : q[p] = Group(k, b)[p]
  <2>1. \A p \in 1..4 : src[(4 * b) + p] = Group(k, b)[p]
    BY DEF Spells
  <2> QED
    BY ONLY <1>4, <2>1
<1> HIDE DEF q
<1>6. q = Group(k, b)
  <2>1. q = <<q[1], q[2], q[3], q[4]>>
    BY <1>4
  <2>2. \A x, y, z : Triplet(x, y, z) = <<Triplet(x, y, z)[1], Triplet(x, y, z)[2], Triplet(x, y, z)[3], Triplet(x, y, z)[4]>>
    BY DEF Triplet
  <2>3. Group(k, b) = <<Group(k, b)[1], Group(k, b)[2], Group(k, b)[3], Group(k, b)[4]>>
    BY <2>2 DEF Group
  <2>4. q[1] = Group(k, b)[1] /\ q[2] = Group(k, b)[2] /\ q[3] = Group(k, b)[3] /\ q[4] = Group(k, b)[4]
    BY <1>5
  <2> QED
    BY ONLY <2>1, <2>3, <2>4, Zenon
<1>7. Quartet(Group(k, b)) = <<k[(3 * b) + 1], k[(3 * b) + 2], k[(3 * b) + 3]>>
  <2>1. PICK x \in Octets, y \in Octets, z \in Octets :
            x = k[(3 * b) + 1] /\ y = k[(3 * b) + 2] /\ z = k[(3 * b) + 3]
    BY <1>3
  <2>2. Quartet(Triplet(x, y, z)) = <<x, y, z>>
    BY GroupBack
  <2> QED
    BY ONLY <1>2, <2>1, <2>2, Zenon
<1> QED
  BY <1>6, <1>7 DEF q

LastPart(src, f) == Tail4(SubSeq(src, (4 * f) + 1, Len(src)))

\* The last group, of one to three bytes.
LEMMA TailBack ==
    ASSUME NEW S, NEW src \in Seq(S), NEW k \in Seq(Octets), NEW f \in Nat, NEW r \in 1..3, NEW m \in (r + 1)..4,
           Spells(src, k, f, r, m)
    PROVE  /\ LastPart(src, f) # Failed /\ LastPart(src, f) \in Seq(Octets) /\ Len(LastPart(src, f)) = r
           /\ \A n \in 1..r : LastPart(src, f)[n] = k[(3 * f) + n]
<1> DEFINE t == SubSeq(src, (4 * f) + 1, (4 * f) + m)
           a == Byte(k, (3 * f) + 1)
           b == Byte(k, (3 * f) + 2)
           c == Byte(k, (3 * f) + 3)
<1>1. /\ Len(k) = (3 * f) + r /\ Len(src) = (4 * f) + m
      /\ \A p \in 1..(r + 1) : src[(4 * f) + p] = Group(k, f)[p]
      /\ \A p \in (r + 2)..m : src[(4 * f) + p] = Pad
  BY DEF Spells
<1>2. t \in Seq(S) /\ Len(t) = m /\ \A p \in 1..m : t[p] = src[(4 * f) + p]
  <2>1. PICK i \in Nat, n \in Nat : i = 4 * f /\ n = m
    OBVIOUS
  <2>2. /\ i + n <= Len(src) /\ t = SubSeq(src, i + 1, i + n)
        /\ src \in Seq(S) /\ i \in Nat /\ n \in Nat
    BY <1>1, <2>1
  <2> HIDE DEF t
  <2>3. t \in Seq(S) /\ Len(t) = n /\ \A p \in 1..n : t[p] = src[i + p]
    BY ONLY <2>2, Slice
  <2> QED
    BY ONLY <2>1, <2>3, Zenon
<1>3. a \in Octets /\ b \in Octets /\ c \in Octets
  BY ByteType
<1>4. a = k[(3 * f) + 1] /\ (r >= 2 => b = k[(3 * f) + 2]) /\ (r = 3 => c = k[(3 * f) + 3])
      /\ (r < 2 => b = 0) /\ (r < 3 => c = 0)
  BY <1>1 DEF Byte
<1>5. Group(k, f) = Triplet(a, b, c)
  BY DEF Group
<1> HIDE DEF a, b, c, t
<1>6. PICK q : q = Triplet(a, b, c)
  OBVIOUS
<1>7. /\ \A p \in 1..4 : q[p] \in Alphabet
      /\ Quartet(q) = <<a, b, c>> /\ (r < 3 => q[4] = 0) /\ (r < 2 => q[3] = 0)
  <2>1. /\ \A p \in 1..4 : Triplet(a, b, c)[p] \in Alphabet
        /\ Quartet(Triplet(a, b, c)) = <<a, b, c>>
        /\ c = 0 => Triplet(a, b, c)[4] = 0
        /\ b = 0 /\ c = 0 => Triplet(a, b, c)[3] = 0
    BY ONLY <1>3, GroupBack, Zenon
  <2>2. (r < 3 => c = 0) /\ (r < 2 => b = 0 /\ c = 0)
    BY <1>4
  <2> QED
    BY ONLY <1>6, <2>1, <2>2, Zenon
<1>8. /\ \A p \in 1..(r + 1) : t[p] = q[p] /\ t[p] # Pad
      /\ \A p \in (r + 2)..m : t[p] = Pad
  <2>1. \A p \in 1..(r + 1) : p \in 1..m /\ p \in 1..4
    OBVIOUS
  <2>2. \A p \in (r + 2)..m : p \in 1..m
    OBVIOUS
  <2>3. \A p \in 1..(r + 1) : t[p] = q[p]
    BY ONLY <1>1, <1>2, <1>5, <1>6, <2>1, Zenon
  <2>4. \A p \in 1..(r + 1) : t[p] # Pad
    BY ONLY <1>7, <2>1, <2>3, PadAssumption, Zenon
  <2>5. \A p \in (r + 2)..m : t[p] = Pad
    BY ONLY <1>1, <1>2, <2>2, Zenon
  <2> QED
    BY ONLY <2>3, <2>4, <2>5, Zenon
<1> DEFINE Kept(n) == /\ n > 0 => t[n] # Pad
                      /\ \A l \in (n + 1)..Len(t) : t[l] = Pad
           kept == CHOOSE n \in 0..Len(t) : Kept(n)
<1>9. kept = r + 1
  <2>1. r + 1 \in 0..Len(t) /\ Kept(r + 1)
    <3>1. r + 1 \in 0..Len(t) /\ r + 1 \in 1..(r + 1) /\ (r + 1) + 1 = r + 2
      BY <1>2
    <3>2. t[r + 1] # Pad /\ \A l \in ((r + 1) + 1)..Len(t) : t[l] = Pad
      BY ONLY <1>2, <1>8, <3>1
    <3> QED
      BY <3>1, <3>2
  <2>2. ASSUME NEW n \in 0..Len(t), Kept(n) PROVE n = r + 1
    <3>1. n \in 0..m
      BY <1>2
    <3>2. ~(n < r + 1)
      <4>1. r + 1 \in 1..(r + 1) /\ r + 1 \in 1..m
        OBVIOUS
      <4>2. t[r + 1] # Pad
        BY <1>8, <4>1
      <4>3. n < r + 1 => r + 1 \in (n + 1)..Len(t)
        BY <1>2, <3>1
      <4>4. \A l \in (n + 1)..Len(t) : t[l] = Pad
        BY <2>2
      <4> QED
        BY ONLY <4>2, <4>3, <4>4
    <3>3. ~(n > r + 1)
      BY <1>8, <2>2, <3>1
    <3> QED
      BY <3>1, <3>2, <3>3
  <2> HIDE DEF Kept
  <2> QED
    BY <2>1, <2>2
<1> DEFINE three == Quartet([p \in 1..4 |-> IF p <= kept THEN t[p] ELSE 0])
<1>10. Tail4(t) = IF kept = 0 THEN <<>>
                  ELSE IF kept = 1 \/ three = Failed THEN Failed
                  ELSE SubSeq(three, 1, kept - 1)
  BY Zenon DEF Tail4
<1> HIDE DEF kept
<1>11. three = <<a, b, c>>
  <2>1. [p \in 1..4 |-> IF p <= kept THEN t[p] ELSE 0] = [p \in 1..4 |-> q[p]]
    <3>1. \A p \in 1..4 : (IF p <= kept THEN t[p] ELSE 0) = q[p]
      <4>1. ASSUME NEW p \in 1..4, p > r + 1 PROVE q[p] = 0
        BY <1>7, <4>1
      <4> QED
        BY <1>8, <1>9, <4>1
    <3> QED
      BY <3>1
  <2>2. q = <<q[1], q[2], q[3], q[4]>>
    BY <1>6 DEF Triplet
  <2>3. [p \in 1..4 |-> q[p]] = <<q[1], q[2], q[3], q[4]>>
    OBVIOUS
  <2> QED
    BY <1>7, <2>1, <2>2, <2>3
<1> HIDE DEF three
<1>12. three # Failed
  <2>1. Len(<<a, b, c>>) = 3 /\ Len(Failed) = 1
    BY DEF Failed
  <2> QED
    BY <1>11, <2>1
<1>13. Tail4(t) = SubSeq(<<a, b, c>>, 1, r)
  <2>1. kept # 0 /\ kept # 1 /\ kept - 1 = r
    BY <1>9
  <2> QED
    BY <1>10, <1>11, <1>12, <2>1
<1>14. SubSeq(<<a, b, c>>, 1, r) = [n \in 1..r |-> k[(3 * f) + n]]
  <2>1. CASE r = 1
    BY <1>3, <1>4, <2>1
  <2>2. CASE r = 2
    BY <1>3, <1>4, <2>2
  <2>3. CASE r = 3
    BY <1>3, <1>4, <2>3
  <2>4. r = 1 \/ r = 2 \/ r = 3
    OBVIOUS
  <2> QED
    BY ONLY <2>1, <2>2, <2>3, <2>4, Zenon
<1>15. SubSeq(<<a, b, c>>, 1, r) # Failed
  <2>1. SubSeq(<<a, b, c>>, 1, r)[1] = a /\ Failed[1] = -1
    BY DEF Failed
  <2>2. a # -1
    BY <1>3 DEF Octets
  <2> QED
    BY <2>1, <2>2
<1>0. PICK tail : tail = LastPart(src, f)
  OBVIOUS
<1>16. tail = [n \in 1..r |-> k[(3 * f) + n]] /\ tail # Failed
  <2>1. tail = Tail4(t)
    BY <1>0, <1>1 DEF t, LastPart
  <2> QED
    BY ONLY <1>13, <1>14, <1>15, <2>1, Zenon
<1>17. tail \in Seq(Octets) /\ Len(tail) = r
  <2>1. \A n \in 1..r : k[(3 * f) + n] \in Octets
    BY <1>1
  <2>2. r \in Nat
    OBVIOUS
  <2> QED
    BY ONLY <1>16, <2>1, <2>2
<1> QED
  BY <1>0, <1>16, <1>17

\* All of it.
LEMMA DecodeBack ==
    ASSUME NEW S, NEW src \in Seq(S), NEW k \in Seq(Octets), NEW f \in Nat, NEW r \in 1..3, NEW m \in (r + 1)..4,
           Spells(src, k, f, r, m), NEW destlen \in Nat, (3 * f) + 3 <= destlen
    PROVE  Decode(src, destlen) = k
<1> DEFINE Part(b) == Quartet(SubSeq(src, (4 * b) + 1, (4 * b) + 4))
           tail == LastPart(src, f)
           head == [n \in 1..(3 * f) |-> Part((n - 1) \div 3)[((n - 1) % 3) + 1]]
<1>1. Len(k) = (3 * f) + r /\ Len(src) = (4 * f) + m /\ src # <<>> /\ Len(src) \in Nat
  BY DEF Spells
<1>2. (Len(src) - 1) \div 4 = f /\ ((Len(src) + 3) \div 4) * 3 = (3 * f) + 3
  <2>1. PICK i \in 0..2 : m = i + 2
    <3>1. m - 2 \in 0..2 /\ m = (m - 2) + 2
      OBVIOUS
    <3> QED
      BY <3>1
  <2>2. ((4 * f) + (i + 1)) \div 4 = f /\ ((4 * (f + 1)) + (i + 1)) \div 4 = f + 1
    OBVIOUS
  <2>3. Len(src) - 1 = (4 * f) + (i + 1) /\ Len(src) + 3 = (4 * (f + 1)) + (i + 1)
    BY <1>1, <2>1
  <2> QED
    BY <2>2, <2>3
<1>3. \A b \in 0..(f - 1) : Part(b) = <<k[(3 * b) + 1], k[(3 * b) + 2], k[(3 * b) + 3]>>
  BY PartBack
<1>4. /\ tail # Failed /\ tail \in Seq(Octets) /\ Len(tail) = r
      /\ \A n \in 1..r : tail[n] = k[(3 * f) + n]
  BY TailBack
<1>5. \A b \in 0..(f - 1) : Part(b) # Failed
  <2>1. \A x, y, z : <<x, y, z>> # Failed
    <3>1. \A x, y, z : Len(<<x, y, z>>) = 3
      OBVIOUS
    <3>2. Len(Failed) = 1
      BY DEF Failed
    <3> QED
      BY <3>1, <3>2
  <2> QED
    BY ONLY <1>3, <2>1
<1>6. Decode(src, destlen) = head \o tail
  <2> DEFINE Result(full) ==
          IF \/ destlen < ((Len(src) + 3) \div 4) * 3
             \/ LastPart(src, full) = Failed
             \/ \E b \in 0..(full - 1) : Part(b) = Failed
          THEN Failed
          ELSE [n \in 1..(3 * full) |-> Part((n - 1) \div 3)[((n - 1) % 3) + 1]]
                   \o LastPart(src, full)
  <2>1. Decode(src, destlen) = Result(IF src = <<>> THEN 0 ELSE (Len(src) - 1) \div 4)
    BY Zenon DEF Decode, LastPart
  <2>2. (IF src = <<>> THEN 0 ELSE (Len(src) - 1) \div 4) = f
    BY <1>1, <1>2
  <2>3. ~(destlen < ((Len(src) + 3) \div 4) * 3)
    BY <1>2
  <2>4. Result(f) = head \o tail
    BY ONLY <1>4, <1>5, <2>3, Zenon
  <2> HIDE DEF Result, head, tail
  <2> QED
    BY ONLY <2>1, <2>2, <2>4, Zenon
<1>7. \A n \in 1..(3 * f) : head[n] = k[n]
  <2> SUFFICES ASSUME NEW n \in 1..(3 * f) PROVE head[n] = k[n]
    OBVIOUS
  <2>1. PICK b \in 0..(f - 1), p \in 0..2 : n = (3 * b) + (p + 1) /\ (n - 1) \div 3 = b /\ (n - 1) % 3 = p
    <3>1. (n - 1) \div 3 \in 0..(f - 1) /\ (n - 1) % 3 \in 0..2 /\ n = (3 * ((n - 1) \div 3)) + (((n - 1) % 3) + 1)
      OBVIOUS
    <3> QED
      BY <3>1
  <2>2. head[n] = Part(b)[p + 1]
    BY <2>1
  <2>3. Part(b)[p + 1] = k[(3 * b) + (p + 1)]
    <3>1. PICK q : q = <<k[(3 * b) + 1], k[(3 * b) + 2], k[(3 * b) + 3]>>
      OBVIOUS
    <3>2. q[1] = k[(3 * b) + 1] /\ q[2] = k[(3 * b) + 2] /\ q[3] = k[(3 * b) + 3]
      BY <3>1
    <3>3. p + 1 = 1 \/ p + 1 = 2 \/ p + 1 = 3
      OBVIOUS
    <3>4. q[p + 1] = k[(3 * b) + (p + 1)]
      BY ONLY <3>2, <3>3, Zenon
    <3> HIDE DEF Part
    <3>5. Part(b) = q
      BY <1>3, <3>1
    <3> QED
      BY ONLY <3>4, <3>5, Zenon
  <2> HIDE DEF Part, head
  <2> QED
    BY ONLY <2>1, <2>2, <2>3, Zenon
<1>9. head \in Seq(Octets) /\ Len(head) = 3 * f
  <2>1. head = [n \in 1..(3 * f) |-> head[n]] /\ 3 * f \in Nat
    OBVIOUS
  <2>2. \A n \in 1..(3 * f) : k[n] \in Octets
    BY <1>1
  <2> HIDE DEF head
  <2>3. head \in [1..(3 * f) -> Octets]
    BY ONLY <1>7, <2>1, <2>2
  <2> QED
    BY <2>1, <2>3
<1> HIDE DEF head, tail
<1>11. head \o tail = k
  <2>1. Len(head \o tail) = Len(k) /\ head \o tail \in Seq(Octets)
    BY <1>1, <1>4, <1>9
  <2>2. ASSUME NEW n \in 1..Len(k) PROVE (head \o tail)[n] = k[n]
    <3>1. CASE n <= 3 * f
      BY <1>7, <1>4, <1>9, <3>1
    <3>2. CASE n > 3 * f
      <4>1. PICK i \in 1..r : n = (3 * f) + i
        <5>1. n - (3 * f) \in 1..r /\ n = (3 * f) + (n - (3 * f))
          BY <1>1, <3>2
        <5> QED
          BY <5>1
      <4>2. (head \o tail)[n] = tail[i]
        BY <1>4, <1>9, <4>1
      <4> QED
        BY <1>4, <4>1, <4>2
    <3>3. n <= 3 * f \/ n > 3 * f
      OBVIOUS
    <3> QED
      BY ONLY <3>1, <3>2, <3>3
  <2> DEFINE both == head \o tail
  <2> HIDE DEF both
  <2>3. Len(both) = Len(k) /\ both \in Seq(Octets) /\ k \in Seq(Octets)
    BY <2>1 DEF both
  <2>4. \A n \in 1..Len(k) : both[n] = k[n]
    BY <2>2 DEF both
  <2>5. both = k
    BY ONLY <2>3, <2>4
  <2> QED
    BY <2>5 DEF both
<1> QED
  BY <1>6, <1>11

\* What Encode makes of a key, and what that is without the padding.
LEMMA Spelled ==
    ASSUME NEW k \in Seq(Octets), NEW f \in Nat, NEW r \in 1..3, Len(k) = (3 * f) + r
    PROVE  /\ Encode(k) \in Seq(Alphabet \cup {Pad}) /\ Spells(Encode(k), k, f, r, 4)
           /\ Unpadded(k) \in Seq(Alphabet \cup {Pad}) /\ Spells(Unpadded(k), k, f, r, r + 1)
<1> DEFINE Letters == Alphabet \cup {Pad}
           Block(i) == (i - 1) \div 4
           At(i)    == ((i - 1) % 4) + 1
           Letter(i) == IF (3 * Block(i)) + At(i) - 1 > Len(k) THEN Pad ELSE Group(k, Block(i))[At(i)]
           e == Encode(k)
<1>1. Len(k) \in Nat /\ (Len(k) + 2) \div 3 = f + 1
  <2>1. PICK j \in 0..2 : r = j + 1
    <3>1. r - 1 \in 0..2 /\ r = (r - 1) + 1
      OBVIOUS
    <3> QED
      BY <3>1
  <2>2. ((3 * (f + 1)) + j) \div 3 = f + 1
    OBVIOUS
  <2>3. Len(k) + 2 = (3 * (f + 1)) + j
    BY <2>1
  <2> QED
    BY <2>2, <2>3
<1>2. e = [i \in 1..(4 * (f + 1)) |-> Letter(i)]
  <2>1. e = [i \in 1..(4 * ((Len(k) + 2) \div 3)) |-> Letter(i)]
    BY Zenon DEF Encode, Group, Byte
  <2> HIDE DEF e, Letter
  <2> QED
    BY ONLY <1>1, <2>1, Zenon
<1>3. \A b \in Nat : \A p \in 1..4 : Group(k, b)[p] \in Alphabet
  <2> SUFFICES ASSUME NEW b \in Nat PROVE \A p \in 1..4 : Group(k, b)[p] \in Alphabet
    OBVIOUS
  <2>1. PICK x \in Octets, y \in Octets, z \in Octets : Group(k, b) = Triplet(x, y, z)
    BY ByteType DEF Group
  <2>2. \A p \in 1..4 : Triplet(x, y, z)[p] \in Alphabet
    BY GroupBack
  <2> QED
    BY ONLY <2>1, <2>2, Zenon
<1>4. ASSUME NEW b \in 0..f, NEW p \in 1..4
      PROVE  e[(4 * b) + p] = IF (3 * b) + p - 1 > Len(k) THEN Pad ELSE Group(k, b)[p]
  <2>1. PICK i \in 1..(4 * (f + 1)) : i = (4 * b) + p
    OBVIOUS
  <2>2. Block(i) = b /\ At(i) = p
    <3>1. PICK j \in 0..3 : p = j + 1
      <4>1. p - 1 \in 0..3 /\ p = (p - 1) + 1
        OBVIOUS
      <4> QED
        BY <4>1
    <3>2. ((4 * b) + j) \div 4 = b /\ ((4 * b) + j) % 4 = j
      OBVIOUS
    <3>3. i - 1 = (4 * b) + j
      BY <2>1, <3>1
    <3> QED
      BY <3>1, <3>2, <3>3
  <2>3. e[i] = Letter(i)
    <3> HIDE DEF e, Letter
    <3> QED
      BY <1>2
  <2>4. Letter(i) = IF (3 * b) + p - 1 > Len(k) THEN Pad ELSE Group(k, b)[p]
    <3> HIDE DEF Block, At
    <3> QED
      BY <2>2
  <2> HIDE DEF e, Letter
  <2> QED
    BY ONLY <2>1, <2>3, <2>4, Zenon
<1>5. e \in Seq(Letters) /\ Len(e) = (4 * f) + 4
  <2>1. ASSUME NEW i \in 1..(4 * (f + 1)) PROVE Letter(i) \in Letters
    <3>1. Block(i) \in Nat /\ At(i) \in 1..4
      OBVIOUS
    <3> HIDE DEF Block, At
    <3>2. Group(k, Block(i))[At(i)] \in Alphabet
      BY <1>3, <3>1
    <3> QED
      BY <3>2
  <2> HIDE DEF e, Letter, Letters
  <2>2. e \in [1..(4 * (f + 1)) -> Letters]
    BY ONLY <1>2, <2>1
  <2>3. 4 * (f + 1) \in Nat /\ 4 * (f + 1) = (4 * f) + 4
    OBVIOUS
  <2> QED
    BY ONLY <2>2, <2>3
<1> HIDE DEF e
<1>6. \A b \in 0..(f - 1) : \A p \in 1..4 : e[(4 * b) + p] = Group(k, b)[p]
  <2> SUFFICES ASSUME NEW b \in 0..(f - 1), NEW p \in 1..4 PROVE e[(4 * b) + p] = Group(k, b)[p]
    OBVIOUS
  <2>1. b \in 0..f /\ ~((3 * b) + p - 1 > Len(k))
    OBVIOUS
  <2> QED
    BY <1>4, <2>1
<1>7. \A p \in 1..(r + 1) : e[(4 * f) + p] = Group(k, f)[p]
  <2> SUFFICES ASSUME NEW p \in 1..(r + 1) PROVE e[(4 * f) + p] = Group(k, f)[p]
    OBVIOUS
  <2>1. f \in 0..f /\ p \in 1..4 /\ ~((3 * f) + p - 1 > Len(k))
    OBVIOUS
  <2> QED
    BY <1>4, <2>1
<1>8. \A p \in (r + 2)..4 : e[(4 * f) + p] = Pad
  <2> SUFFICES ASSUME NEW p \in (r + 2)..4 PROVE e[(4 * f) + p] = Pad
    OBVIOUS
  <2>1. f \in 0..f /\ p \in 1..4 /\ (3 * f) + p - 1 > Len(k)
    OBVIOUS
  <2> QED
    BY <1>4, <2>1
<1>9. Spells(e, k, f, r, 4)
  BY <1>5, <1>6, <1>7, <1>8 DEF Spells
<1>10. ((4 * Len(k)) + 2) \div 3 = (4 * f) + (r + 1)
  <2>1. PICK j \in 0..2 : r = j + 1
    <3>1. r - 1 \in 0..2 /\ r = (r - 1) + 1
      OBVIOUS
    <3> QED
      BY <3>1
  <2>2. ((3 * ((4 * f) + (j + 2))) + j) \div 3 = (4 * f) + (j + 2)
    OBVIOUS
  <2>3. (4 * Len(k)) + 2 = (3 * ((4 * f) + (j + 2))) + j /\ r + 1 = j + 2
    BY <2>1
  <2> QED
    BY <2>2, <2>3
<1> DEFINE u == SubSeq(e, 1, (4 * f) + (r + 1))
<1>11. Unpadded(k) = u
  BY <1>10 DEF Unpadded, e
<1>12. u \in Seq(Letters) /\ Len(u) = (4 * f) + (r + 1) /\ \A i \in 1..((4 * f) + (r + 1)) : u[i] = e[i]
  BY <1>5
<1> HIDE DEF u
<1>13. Spells(u, k, f, r, r + 1)
  <2>1. \A b \in 0..(f - 1) : \A p \in 1..4 : u[(4 * b) + p] = Group(k, b)[p]
    <3> SUFFICES ASSUME NEW b \in 0..(f - 1), NEW p \in 1..4 PROVE u[(4 * b) + p] = Group(k, b)[p]
      OBVIOUS
    <3>1. (4 * b) + p \in 1..((4 * f) + (r + 1))
      OBVIOUS
    <3> QED
      BY <1>6, <1>12, <3>1
  <2>2. \A p \in 1..(r + 1) : u[(4 * f) + p] = Group(k, f)[p]
    <3> SUFFICES ASSUME NEW p \in 1..(r + 1) PROVE u[(4 * f) + p] = Group(k, f)[p]
      OBVIOUS
    <3>1. (4 * f) + p \in 1..((4 * f) + (r + 1))
      OBVIOUS
    <3> QED
      BY <1>7, <1>12, <3>1
  <2>3. (r + 2)..(r + 1) = {}
    OBVIOUS
  <2> QED
    BY <1>12, <2>1, <2>2, <2>3 DEF Spells
<1> QED
  BY <1>5, <1>9, <1>11, <1>12, <1>13 DEF e

\* The empty key.
LEMMA NothingBack ==
    ASSUME NEW destlen \in Nat
    PROVE  Decode(<<>>, destlen) = <<>>
<1>1. PICK src : src = <<>>
  OBVIOUS
<1>2. Len(src) = 0 /\ SubSeq(src, (4 * 0) + 1, Len(src)) = <<>> /\ ((Len(src) + 3) \div 4) * 3 = 0
  <2>1. Len(src) = 0 /\ 3 \div 4 = 0
    BY <1>1
  <2>2. SubSeq(src, (4 * 0) + 1, Len(src)) = <<>>
    BY <1>1
  <2> QED
    BY <2>1, <2>2
<1>3. Tail4(src) = <<>>
  <2> DEFINE Kept(n) == /\ n > 0 => src[n] # Pad
                        /\ \A l \in (n + 1)..Len(src) : src[l] = Pad
             kept == CHOOSE n \in 0..Len(src) : Kept(n)
             three == Quartet([p \in 1..4 |-> IF p <= kept THEN src[p] ELSE 0])
  <2>1. Tail4(src) = IF kept = 0 THEN <<>>
                     ELSE IF kept = 1 \/ three = Failed THEN Failed
                     ELSE SubSeq(three, 1, kept - 1)
    BY Zenon DEF Tail4
  <2>2. kept = 0
    <3>1. 0 \in 0..Len(src) /\ Kept(0) /\ \A n \in 0..Len(src) : n = 0
      BY <1>2
    <3> HIDE DEF Kept
    <3> QED
      BY <3>1
  <2> HIDE DEF kept, three
  <2> QED
    BY <2>1, <2>2
<1> DEFINE Part(b) == Quartet(SubSeq(src, (4 * b) + 1, (4 * b) + 4))
           Full(full) == [n \in 1..(3 * full) |-> Part((n - 1) \div 3)[((n - 1) % 3) + 1]]
           Result(full) ==
               IF \/ destlen < ((Len(src) + 3) \div 4) * 3
                  \/ LastPart(src, full) = Failed
                  \/ \E b \in 0..(full - 1) : Part(b) = Failed
               THEN Failed
               ELSE Full(full) \o LastPart(src, full)
<1>4. Decode(src, destlen) = Result(IF src = <<>> THEN 0 ELSE (Len(src) - 1) \div 4)
  BY Zenon DEF Decode, LastPart
<1>5. LastPart(src, 0) = <<>>
  BY <1>1, <1>2, <1>3 DEF LastPart
<1>6. Result(0) = <<>>
  <2>1. Full(0) = <<>>
    <3>1. 1..(3 * 0) = {}
      OBVIOUS
    <3> QED
      BY <3>1
  <2>2. <<>> # Failed
    <3>1. Len(<<>>) = 0 /\ Len(Failed) = 1
      BY DEF Failed
    <3> QED
      BY <3>1
  <2>3. 0..(0 - 1) = {} /\ ~(destlen < ((Len(src) + 3) \div 4) * 3)
    BY <1>2
  <2>4. Result(0) = Full(0) \o LastPart(src, 0)
    <3> HIDE DEF Full, Part
    <3> QED
      BY <1>5, <2>2, <2>3
  <2>5. <<>> \o <<>> = <<>>
    OBVIOUS
  <2> HIDE DEF Result, Full
  <2> QED
    BY ONLY <1>5, <2>1, <2>4, <2>5, Zenon
<1> HIDE DEF Result
<1> QED
  BY ONLY <1>1, <1>4, <1>6, Zenon

LEMMA KeyBack ==
    ASSUME NEW k \in KeyBytes, NEW src, src \in {Encode(k), Unpadded(k)}
    PROVE  Decode(src, KeySpace) = k
<1>1. k \in Seq(Octets) /\ ((Len(k) + 2) \div 3) * 3 <= KeySpace /\ KeySpace \in Nat /\ Len(k) \in Nat
  BY KeysAssumption, SizesAssumption DEF Octets
<1>2. CASE Len(k) = 0
  <2>1. k = <<>>
    BY <1>1, <1>2
  <2>2. src = <<>>
    <3>1. Encode(k) = <<>>
      <4>1. (Len(k) + 2) \div 3 = 0 /\ 1..(4 * 0) = {}
        BY <1>2
      <4>2. 4 * ((Len(k) + 2) \div 3) = 4 * 0
        BY <4>1
      <4> QED
        BY <4>1 DEF Encode
    <3>2. Unpadded(k) = <<>>
      BY <1>2, <3>1 DEF Unpadded
    <3> QED
      BY <3>1, <3>2
  <2>3. Decode(<<>>, KeySpace) = <<>>
    BY <1>1, NothingBack
  <2> QED
    BY <2>1, <2>2, <2>3
<1>3. CASE Len(k) > 0
  <2>1. PICK f \in Nat, r \in 1..3 : Len(k) = (3 * f) + r /\ (3 * f) + 3 <= KeySpace
    <3>1. PICK f \in Nat, r \in 0..2 : Len(k) - 1 = (3 * f) + r
      <4>1. (Len(k) - 1) \div 3 \in Nat /\ (Len(k) - 1) % 3 \in 0..2
            /\ Len(k) - 1 = (3 * ((Len(k) - 1) \div 3)) + ((Len(k) - 1) % 3)
        BY <1>1, <1>3
      <4> QED
        BY <4>1
    <3>2. Len(k) = (3 * f) + (r + 1) /\ r + 1 \in 1..3
      BY <1>1, <3>1
    <3>3. Len(k) + 2 = (3 * (f + 1)) + r
      BY <1>1, <3>1
    <3>4. ((3 * (f + 1)) + r) \div 3 = f + 1
      OBVIOUS
    <3>5. (3 * f) + 3 <= KeySpace
      BY <1>1, <3>3, <3>4
    <3> QED
      BY <3>2, <3>5
  <2>2. /\ Encode(k) \in Seq(Alphabet \cup {Pad}) /\ Spells(Encode(k), k, f, r, 4)
        /\ Unpadded(k) \in Seq(Alphabet \cup {Pad}) /\ Spells(Unpadded(k), k, f, r, r + 1)
    BY <1>1, <2>1, Spelled
  <2>3. 4 \in (r + 1)..4 /\ r + 1 \in (r + 1)..4
    OBVIOUS
  <2>4. Decode(Encode(k), KeySpace) = k
    BY <1>1, <2>1, <2>2, <2>3, DecodeBack
  <2>5. Decode(Unpadded(k), KeySpace) = k
    BY <1>1, <2>1, <2>2, <2>3, DecodeBack
  <2> QED
    BY <2>4, <2>5
<1> QED
  BY <1>1, <1>2, <1>3

-----------------------------------------------------------------------------
\* The key at hand is what the letters of the line read last say.
KeyInv == /\ file \in Files /\ next \in 1..(Len(file) + 1)
          /\ next > 1 /\ Terminated /\ WellFormed(file[next - 1]) =>
                key = Decode(KeyOf(file[next - 1]), KeySpace)

LEMMA KRead == ASSUME KeyInv, ReadLine PROVE KeyInv'
<1>1. /\ file \in Files /\ file' = file /\ next \in 1..Len(file) /\ next' = next + 1 /\ Len(file) \in Nat
      /\ next' - 1 = next
  BY Sizes DEF KeyInv, ReadLine
<1>2. next' \in 1..(Len(file') + 1)
  BY <1>1
<1> DEFINE l == file[next]
           b == Filled(buffer, l)
<1> SUFFICES ASSUME Terminated', WellFormed(l) PROVE key' = Decode(KeyOf(l), KeySpace)
  BY <1>1, <1>2 DEF KeyInv
<1>3. Ended(l)
  BY <1>1, LineEnded
<1>4. WellFormed(b) /\ KeyOf(b) = KeyOf(l)
  BY <1>3, SameLine
<1>5. key' = Decode(KeyOf(b), KeySpace)
  BY <1>4 DEF ReadLine
<1> HIDE DEF b, l
<1> QED
  BY ONLY <1>4, <1>5, Zenon

\* What decodeKey makes of the base64 of any key, of any length, with its
\* padding or without: the same bytes, whatever the buffer of the line held
\* before.
THEOREM RoundTrip == MainSpec => []KeysDecoded
<1>1. MainInit => KeyInv
  <2> SUFFICES ASSUME MainInit PROVE KeyInv
    OBVIOUS
  <2>1. file \in Files /\ next = 1
    BY DEF MainInit
  <2>2. next \in 1..(Len(file) + 1) /\ ~(next > 1)
    BY <2>1, Sizes
  <2> QED
    BY <2>1, <2>2 DEF KeyInv
<1>2. KeyInv /\ [MainNext]_mainVars => KeyInv'
  <2> SUFFICES ASSUME KeyInv, [MainNext]_mainVars PROVE KeyInv'
    OBVIOUS
  <2>1. CASE ReadLine
    BY <2>1, KRead
  <2>2. CASE CountSegment
    <3>1. UNCHANGED <<file, next, key>>
      BY <2>2 DEF CountSegment
    <3> QED
      BY <3>1 DEF KeyInv, Terminated
  <2>3. CASE UNCHANGED mainVars
    <3>1. UNCHANGED <<file, next, key>>
      BY <2>3 DEF mainVars
    <3> QED
      BY <3>1 DEF KeyInv, Terminated
  <2> QED
    BY <2>1, <2>2, <2>3 DEF MainNext
<1>3. KeyInv => KeysDecoded
  <2> SUFFICES ASSUME KeyInv, next > 1, Terminated, WellFormed(file[next - 1]),
                      NEW k \in KeyBytes, KeyOf(file[next - 1]) \in {Encode(k), Unpadded(k)}
               PROVE  key = k
    BY DEF KeysDecoded
  <2>1. key = Decode(KeyOf(file[next - 1]), KeySpace)
    BY DEF KeyInv
  <2>2. Decode(KeyOf(file[next - 1]), KeySpace) = k
    BY KeyBack
  <2> QED
    BY ONLY <2>1, <2>2, Zenon
<1> QED
  BY <1>1, <1>2, <1>3, PTL DEF MainSpec
=============================================================================
