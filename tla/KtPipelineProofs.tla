--------------------------- MODULE KtPipelineProofs ---------------------------
(***************************************************************************)
(* kt_pipeline for every number of workers, steps and data: no two workers *)
(* do one step at a time, and when it returns all the data it read have    *)
(* been through all the steps, but for those that were rejected.           *)
(*                                                                         *)
(* The argument: a datum that is read has been through a step, or is       *)
(* rejected, or one worker holds it and has the step before it.  The data  *)
(* workers hold are different and not rejected, so every rejection is of   *)
(* another datum; while there are data left to read, a worker is lost only *)
(* to a rejection.                                                         *)
(***************************************************************************)
EXTENDS KtPipeline, FiniteSetTheorems, TLAPS

Through(i) == {done[i][a] : a \in DOMAIN done[i]}

\* Worker w has a datum in hand: not the one it has finished in its last round.
Holding(w) == data[w] # 0 /\ (pc[w] = "update" \/ step[w] > 0)

\* Step i is still before the datum of w.
Pending(w, i) == Holding(w) /\ IF pc[w] = "update" THEN step[w] < i ELSE step[w] <= i

Lost == {w \in Workers : step[w] = n_steps \/ (pc[w] = "update" /\ data[w] = 0)}

DoneType == done \in [Steps -> Seq(1..Items)]

\* Where a worker is, and whom the caller has created and joined.
Places ==
    /\ \A w \in Workers :
           /\ pc[w] \in {"work", "update"} => step[w] < n_steps
           /\ pc[w] = "exit" => step[w] = n_steps
           /\ pc[w] # "update" /\ step[w] \in 1..(n_steps - 1) => data[w] # 0
           /\ pc[w] # "update" /\ step[w] = n_steps => data[w] = 0
           /\ w >= caller.created => pc[w] = "none" /\ step[w] = 0
           /\ w < caller.joined => pc[w] = "exit"

OwnData ==
    /\ rejected \subseteq 1..given
    /\ \A w \in Workers : Holding(w) => data[w] \in (1..given) \ rejected
    /\ \A v, w \in Workers : v # w /\ Holding(v) /\ Holding(w) => data[v] # data[w]

Accounted ==
    \A d \in 1..given : \A i \in Steps :
        d \in Through(i) \cup rejected \/ \E w \in Workers : data[w] = d /\ Pending(w, i)

FewLost == given < Items => Cardinality(Lost) <= Cardinality(rejected)

IInv == TypeOK /\ DoneType /\ Places /\ StepExclusive /\ OwnData /\ Accounted /\ FewLost

-----------------------------------------------------------------------------
LEMMA Numbers ==
    /\ n_threads \in Nat \ {0} /\ n_steps \in Nat \ {0} /\ Items \in Nat
    /\ \A w \in Workers : w \in Nat /\ w < n_threads
    /\ \A i \in Steps : i \in Nat /\ i < n_steps
    /\ 0 \in Steps
  BY ThreadsAssumption, StepsAssumption, ItemsAssumption DEF Workers, Steps

LEMMA FiniteSets ==
    /\ IsFiniteSet(Workers) /\ Cardinality(Workers) = n_threads
    /\ \A S : S \subseteq Workers => IsFiniteSet(S) /\ Cardinality(S) \in Nat
    /\ \A S : S \subseteq 1..Items => IsFiniteSet(S) /\ Cardinality(S) \in Nat
<1>1. IsFiniteSet(Workers) /\ Cardinality(Workers) = n_threads
  <2>1. 0 \in Int /\ n_threads - 1 \in Int /\ ~(0 > n_threads - 1)
    BY Numbers
  <2>2. /\ IsFiniteSet(0..(n_threads - 1))
        /\ Cardinality(0..(n_threads - 1)) = (n_threads - 1) - 0 + 1
    BY <2>1, FS_Interval
  <2>3. (n_threads - 1) - 0 + 1 = n_threads
    BY Numbers
  <2> QED
    BY <2>2, <2>3 DEF Workers
<1>2. IsFiniteSet(1..Items)
  BY Numbers, FS_Interval
<1> QED
  BY <1>1, <1>2, FS_Subset, FS_CardinalityType

LEMMA InitInv == Init => IInv
<1> SUFFICES ASSUME Init PROVE IInv
  OBVIOUS
<1>1. TypeOK
  BY Numbers DEF Init, TypeOK
<1>2. DoneType /\ StepExclusive
  BY DEF Init, DoneType, StepExclusive
<1>3. Places
  BY Numbers DEF Init, Places
<1>4. OwnData /\ Accounted
  BY Numbers DEF Init, OwnData, Accounted, Holding
<1>5. FewLost
  <2>1. Lost = {} /\ rejected = {}
    BY Numbers DEF Init, Lost
  <2> QED
    BY <2>1, FS_EmptySet DEF FewLost
<1> QED
  BY <1>1, <1>2, <1>3, <1>4, <1>5 DEF IInv

\* What a step keeps that moves no worker past a step and reads no datum.
LEMMA DataFrame ==
    ASSUME IInv, UNCHANGED <<step, data, given, done, rejected>>,
           \A w \in Workers : (pc'[w] = "update") <=> (pc[w] = "update")
    PROVE  OwnData' /\ Accounted' /\ FewLost' /\ DoneType'
<1>1. \A w \in Workers : Holding(w)' <=> Holding(w)
  BY DEF Holding
<1>2. \A w \in Workers : \A i \in Steps : Pending(w, i)' <=> Pending(w, i)
  BY <1>1 DEF Pending
<1>3. Lost' = Lost
  BY DEF Lost
<1>4. \A i \in Steps : Through(i)' = Through(i)
  BY DEF Through
<1> QED
  BY <1>1, <1>2, <1>3, <1>4 DEF IInv, OwnData, Accounted, FewLost, DoneType

LEMMA CreateInv == IInv /\ Create => IInv'
<1> SUFFICES ASSUME IInv, Create PROVE IInv'
  OBVIOUS
<1> DEFINE c == caller.created
<1>1. /\ c \in Nat /\ c < n_threads /\ c \in Workers /\ caller.joined \in 0..n_threads
      /\ caller \in [created : 0..n_threads, joined : 0..n_threads]
      /\ pc[c] = "none" /\ step[c] = 0 /\ ~running[c]
  BY Numbers DEF IInv, TypeOK, Places, Create, Workers
<1>2. /\ pc' = [pc EXCEPT ![c] = "loop"]
      /\ caller' = [caller EXCEPT !.created = c + 1]
      /\ UNCHANGED <<step, running, data, given, done, rejected>>
  BY DEF Create
<1> HIDE DEF c
<1>3. /\ caller' \in [created : 0..n_threads, joined : 0..n_threads]
      /\ caller'.created = c + 1 /\ caller'.joined = caller.joined
  BY <1>1, <1>2, Numbers
<1>4. TypeOK'
  BY <1>1, <1>2, <1>3 DEF IInv, TypeOK
<1>5. Places'
  <2> SUFFICES ASSUME NEW w \in Workers
               PROVE  /\ pc'[w] \in {"work", "update"} => step[w] < n_steps
                      /\ pc'[w] = "exit" => step[w] = n_steps
                      /\ pc'[w] # "update" /\ step[w] \in 1..(n_steps - 1) => data[w] # 0
                      /\ pc'[w] # "update" /\ step[w] = n_steps => data[w] = 0
                      /\ w >= c + 1 => pc'[w] = "none" /\ step[w] = 0
                      /\ w < caller.joined => pc'[w] = "exit"
    BY <1>2, <1>3 DEF Places
  <2>1. CASE w = c
    BY <1>1, <1>2, <2>1, Numbers DEF IInv, TypeOK, Places
  <2>2. CASE w # c
    <3>1. pc'[w] = pc[w] /\ (w >= c + 1 => w >= c)
      BY <1>1, <1>2, <2>2, Numbers DEF IInv, TypeOK
    <3> QED
      BY <3>1 DEF IInv, Places, c
  <2> QED
    BY <2>1, <2>2
<1>6. \A w \in Workers : (pc'[w] = "update") <=> (pc[w] = "update")
  BY <1>1, <1>2 DEF IInv, TypeOK
<1>7. OwnData' /\ Accounted' /\ FewLost' /\ DoneType'
  BY <1>2, <1>6, DataFrame
<1>8. StepExclusive'
  BY <1>2 DEF IInv, StepExclusive
<1> QED
  BY <1>4, <1>5, <1>7, <1>8 DEF IInv

LEMMA JoinInv == IInv /\ Join => IInv'
<1> SUFFICES ASSUME IInv, Join PROVE IInv'
  OBVIOUS
<1> DEFINE j == caller.joined
<1>1. /\ j \in Nat /\ j < n_threads /\ j \in Workers /\ pc[j] = "exit"
      /\ caller \in [created : 0..n_threads, joined : 0..n_threads]
  BY Numbers DEF IInv, TypeOK, Join, Workers
<1>2. /\ caller' = [caller EXCEPT !.joined = j + 1]
      /\ UNCHANGED <<step, running, data, pc, given, done, rejected>>
  BY DEF Join
<1> HIDE DEF j
<1>3. /\ caller' \in [created : 0..n_threads, joined : 0..n_threads]
      /\ caller'.created = caller.created /\ caller'.joined = j + 1
  BY <1>1, <1>2, Numbers
<1>4. TypeOK'
  BY <1>2, <1>3 DEF IInv, TypeOK
<1>5. \A w \in Workers : w < j + 1 => w < j \/ w = j
  BY <1>1, Numbers
<1>6. Places'
  BY <1>1, <1>2, <1>3, <1>5 DEF IInv, Places, j
<1>7. OwnData' /\ Accounted' /\ FewLost' /\ DoneType'
  BY <1>2, DataFrame
<1>8. StepExclusive'
  BY <1>2 DEF IInv, StepExclusive
<1> QED
  BY <1>4, <1>6, <1>7, <1>8 DEF IInv

\* A worker that is created and not joined moves on.
LEMMA PlacesMove ==
    ASSUME IInv, NEW w \in Workers, pc[w] \notin {"none", "exit"}
    PROVE  ~(w >= caller.created) /\ ~(w < caller.joined)
  BY DEF IInv, Places

LEMMA EnterInv == ASSUME IInv, NEW w \in Workers, Enter(w) PROVE IInv'
<1>1. /\ pc[w] \in {"loop", "woken"} /\ step[w] < n_steps
      /\ UNCHANGED <<step, data, caller, given, done, rejected>>
      /\ \/ pc' = [pc EXCEPT ![w] = "wait"] /\ UNCHANGED running
         \/ /\ ~Occupied(w) /\ pc' = [pc EXCEPT ![w] = "work"]
            /\ running' = [running EXCEPT ![w] = TRUE]
  BY DEF Enter
<1>2. ~(w >= caller.created) /\ ~(w < caller.joined)
  BY <1>1, PlacesMove
<1>3. Places'
  BY <1>1, <1>2 DEF IInv, TypeOK, Places
<1>4. TypeOK'
  <2>1. pc[w] = "loop" \/ pc[w] = "woken"
    BY <1>1
  <2>2. step[w] > 0 => data[w] # 0
    BY <1>1, Numbers DEF IInv, TypeOK, Places
  <2> QED
    BY <1>1, <2>1, <2>2 DEF IInv, TypeOK
<1>5. \A v \in Workers : (pc'[v] = "update") <=> (pc[v] = "update")
  BY <1>1 DEF IInv, TypeOK
<1>6. OwnData' /\ Accounted' /\ FewLost' /\ DoneType'
  BY <1>1, <1>5, DataFrame
<1>7. StepExclusive'
  BY <1>1 DEF IInv, TypeOK, StepExclusive, Occupied
<1> QED
  BY <1>3, <1>4, <1>6, <1>7 DEF IInv

LEMMA WakeInv == ASSUME IInv, NEW w \in Workers, WakeSpuriously(w) PROVE IInv'
<1>1. /\ pc[w] = "wait" /\ pc' = [pc EXCEPT ![w] = "woken"]
      /\ UNCHANGED <<step, running, data, caller, given, done, rejected>>
  BY DEF WakeSpuriously
<1>2. ~(w >= caller.created) /\ ~(w < caller.joined)
  BY <1>1, PlacesMove
<1>3. Places'
  BY <1>1, <1>2 DEF IInv, TypeOK, Places
<1>4. TypeOK'
  BY <1>1 DEF IInv, TypeOK
<1>5. \A v \in Workers : (pc'[v] = "update") <=> (pc[v] = "update")
  BY <1>1 DEF IInv, TypeOK
<1>6. OwnData' /\ Accounted' /\ FewLost' /\ DoneType'
  BY <1>1, <1>5, DataFrame
<1>7. StepExclusive'
  BY <1>1 DEF IInv, StepExclusive
<1> QED
  BY <1>3, <1>4, <1>6, <1>7 DEF IInv

LEMMA ExitInv == ASSUME IInv, NEW w \in Workers, Exit(w) PROVE IInv'
<1>1. /\ pc[w] = "loop" /\ step[w] = n_steps /\ pc' = [pc EXCEPT ![w] = "exit"]
      /\ UNCHANGED <<step, running, data, caller, given, done, rejected>>
  BY DEF Exit
<1>2. ~(w >= caller.created) /\ ~(w < caller.joined)
  BY <1>1, PlacesMove
<1>3. Places'
  BY <1>1, <1>2 DEF IInv, TypeOK, Places
<1>4. TypeOK'
  BY <1>1 DEF IInv, TypeOK
<1>5. \A v \in Workers : (pc'[v] = "update") <=> (pc[v] = "update")
  BY <1>1 DEF IInv, TypeOK
<1>6. OwnData' /\ Accounted' /\ FewLost' /\ DoneType'
  BY <1>1, <1>5, DataFrame
<1>7. StepExclusive'
  BY <1>1 DEF IInv, StepExclusive
<1> QED
  BY <1>3, <1>4, <1>6, <1>7 DEF IInv

LEMMA NextSteps ==
    ASSUME IInv, NEW w \in Workers, pc[w] = "update"
    PROVE  /\ step[w] \in Steps
           /\ step[w] = n_steps - 1 => NextStep(w) = 0
           /\ step[w] # n_steps - 1 /\ data[w] # 0 => NextStep(w) = step[w] + 1
           /\ step[w] # n_steps - 1 /\ data[w] = 0 => NextStep(w) = n_steps
<1>1. step[w] \in Nat /\ step[w] < n_steps
  BY Numbers DEF IInv, TypeOK, Places
<1>2. \A k \in Nat : k < n_steps => k % n_steps = k
  BY Numbers
<1>3. n_steps % n_steps = 0
  <2>1. /\ n_steps \div n_steps \in Int /\ n_steps % n_steps \in 0..(n_steps - 1)
        /\ n_steps = (n_steps \div n_steps) * n_steps + (n_steps % n_steps)
    BY Numbers
  <2> DEFINE q == n_steps \div n_steps  r == n_steps % n_steps
  <2> HIDE DEF q, r
  <2>2. q \in Int /\ r \in 0..(n_steps - 1) /\ (1 - q) * n_steps = r
    BY <2>1, Numbers DEF q, r
  <2>3. CASE q = 1
    BY <2>2, <2>3, Numbers DEF r
  <2>4. CASE q < 1
    <3>1. (1 - q) * n_steps >= n_steps
      BY <2>2, <2>4, Numbers
    <3> QED
      BY <2>2, <3>1, Numbers
  <2>5. CASE q > 1
    <3>1. (1 - q) * n_steps <= -n_steps
      BY <2>2, <2>5, Numbers
    <3> QED
      BY <2>2, <3>1, Numbers
  <2> QED
    BY <2>2, <2>3, <2>4, <2>5
<1> QED
  BY <1>1, <1>2, <1>3, Numbers DEF NextStep, Steps

LEMMA UpdateInv == ASSUME IInv, NEW w \in Workers, Update(w) PROVE IInv'
<1> DEFINE n == NextStep(w)
<1>1. /\ pc[w] = "update" /\ step' = [step EXCEPT ![w] = n]
      /\ running' = [running EXCEPT ![w] = FALSE]
      /\ pc' = Broadcast([pc EXCEPT ![w] = "loop"])
      /\ UNCHANGED <<data, caller, given, done, rejected>>
  BY DEF Update
<1>2. /\ step[w] \in Steps /\ n \in 0..n_steps
      /\ step[w] = n_steps - 1 => n = 0
      /\ step[w] # n_steps - 1 /\ data[w] # 0 => n = step[w] + 1
      /\ step[w] # n_steps - 1 /\ data[w] = 0 => n = n_steps
  BY <1>1, NextSteps, Numbers
<1>3. ~(w >= caller.created) /\ ~(w < caller.joined)
  BY <1>1, PlacesMove
<1> HIDE DEF n
<1>4. /\ step' \in [Workers -> 0..n_steps] /\ running' \in [Workers -> BOOLEAN]
      /\ pc' \in [Workers -> {"none", "loop", "wait", "woken", "work", "update", "exit"}]
      /\ step'[w] = n /\ pc'[w] = "loop" /\ ~running'[w]
  BY <1>1, <1>2 DEF IInv, TypeOK, Broadcast
<1>5. \A v \in Workers \ {w} :
          /\ step'[v] = step[v] /\ running'[v] = running[v]
          /\ pc'[v] = pc[v] \/ (pc[v] = "wait" /\ pc'[v] = "woken")
  BY <1>1 DEF IInv, TypeOK, Broadcast
<1>6. \A v \in Workers \ {w} : \A p \in {"none", "work", "update", "exit"} :
          (pc'[v] = p) <=> (pc[v] = p)
  BY <1>5
<1>7. TypeOK'
  BY <1>1, <1>4, <1>5, <1>6 DEF IInv, TypeOK
<1>8. Places'
  <2> SUFFICES ASSUME NEW v \in Workers
               PROVE  /\ pc'[v] \in {"work", "update"} => step'[v] < n_steps
                      /\ pc'[v] = "exit" => step'[v] = n_steps
                      /\ pc'[v] # "update" /\ step'[v] \in 1..(n_steps - 1) => data[v] # 0
                      /\ pc'[v] # "update" /\ step'[v] = n_steps => data[v] = 0
                      /\ v >= caller.created => pc'[v] = "none" /\ step'[v] = 0
                      /\ v < caller.joined => pc'[v] = "exit"
    BY <1>1 DEF Places
  <2>1. CASE v = w
    BY <1>2, <1>3, <1>4, <2>1, Numbers
  <2>2. CASE v # w
    BY <1>5, <1>6, <2>2 DEF IInv, Places
  <2> QED
    BY <2>1, <2>2
<1>9. StepExclusive'
  BY <1>4, <1>5 DEF IInv, StepExclusive
<1>10. \A v \in Workers : Holding(v)' => Holding(v)
  BY <1>1, <1>4, <1>5, <1>6 DEF Holding
<1>11. OwnData'
  BY <1>1, <1>10 DEF IInv, OwnData
<1>12. ASSUME NEW v \in Workers, NEW i \in Steps, Pending(v, i) PROVE Pending(v, i)'
  <2>1. CASE v = w
    <3>1. data[w] # 0 /\ step[w] < i /\ i \in Nat /\ i < n_steps /\ step[w] \in Nat
      BY <1>1, <1>2, <1>12, <2>1, Numbers DEF Pending, Holding
    <3>2. n = step[w] + 1
      BY <1>2, <3>1, Numbers
    <3> QED
      BY <1>1, <1>4, <2>1, <3>1, <3>2 DEF Pending, Holding
  <2>2. CASE v # w
    BY <1>1, <1>5, <1>6, <1>12, <2>2 DEF Pending, Holding
  <2> QED
    BY <2>1, <2>2
<1>13. Accounted'
  <2>1. \A i \in Steps : Through(i)' = Through(i)
    BY <1>1 DEF Through
  <2> QED
    BY <1>1, <1>12, <2>1 DEF IInv, Accounted
<1>14. FewLost'
  <2>1. Lost' \subseteq Lost
    <3> SUFFICES ASSUME NEW v \in Workers, v \in Lost' PROVE v \in Lost
      BY DEF Lost
    <3>1. CASE v = w
      BY <1>1, <1>2, <1>4, <3>1, Numbers DEF Lost
    <3>2. CASE v # w
      BY <1>1, <1>5, <1>6, <3>2 DEF Lost
    <3> QED
      BY <3>1, <3>2
  <2>2. /\ IsFiniteSet(Lost) /\ Lost' \in SUBSET Lost
        /\ Cardinality(Lost) \in Nat /\ Cardinality(Lost') \in Nat
        /\ Cardinality(rejected) \in Nat
    <3>1. Lost \subseteq Workers /\ Lost' \subseteq Workers /\ rejected \subseteq 1..Items
      BY DEF Lost, IInv, TypeOK
    <3> QED
      BY <2>1, <3>1, FiniteSets
  <2>3. Cardinality(Lost') <= Cardinality(Lost)
    BY <2>2, FS_Subset
  <2> QED
    BY <1>1, <2>2, <2>3 DEF IInv, FewLost
<1>15. DoneType'
  BY <1>1 DEF IInv, DoneType
<1> QED
  BY <1>7, <1>8, <1>9, <1>11, <1>13, <1>14, <1>15 DEF IInv

\* What Work leaves as it is, whatever func answers.
LEMMA WorkMoves ==
    ASSUME IInv, NEW w \in Workers, Work(w)
    PROVE  /\ pc[w] = "work" /\ step[w] \in Steps /\ given \in Nat
           /\ ~(w >= caller.created) /\ ~(w < caller.joined)
           /\ data' \in [Workers -> 0..Items]
           /\ \A v \in Workers \ {w} : data'[v] = data[v] /\ pc'[v] = pc[v]
           /\ data'[w] \in Answers(w) /\ pc'[w] = "update"
           /\ pc' \in [Workers -> {"none", "loop", "wait", "woken", "work", "update", "exit"}]
           /\ UNCHANGED <<step, running, caller>>
           /\ step[w] > 0 => data[w] # 0
           /\ Places' /\ StepExclusive'
<1>1. /\ pc[w] = "work" /\ pc' = [pc EXCEPT ![w] = "update"]
      /\ UNCHANGED <<step, running, caller>>
      /\ \E a \in Answers(w) : data' = [data EXCEPT ![w] = a]
  BY DEF Work
<1>2. /\ step[w] \in Steps /\ given \in 0..Items /\ given \in Nat /\ data \in [Workers -> 0..Items]
      /\ step[w] > 0 => data[w] # 0
  BY <1>1, Numbers DEF IInv, TypeOK, Places, Steps
<1>3. Answers(w) \subseteq 0..Items
  BY <1>2, Numbers DEF Answers
<1>4. /\ data' \in [Workers -> 0..Items] /\ data'[w] \in Answers(w)
      /\ \A v \in Workers \ {w} : data'[v] = data[v]
  BY <1>1, <1>2, <1>3
<1>5. /\ pc'[w] = "update" /\ \A v \in Workers \ {w} : pc'[v] = pc[v]
      /\ pc' \in [Workers -> {"none", "loop", "wait", "woken", "work", "update", "exit"}]
  BY <1>1 DEF IInv, TypeOK
<1>6. ~(w >= caller.created) /\ ~(w < caller.joined)
  BY <1>1, PlacesMove
<1>7. Places'
  BY <1>1, <1>2, <1>4, <1>5, <1>6, Numbers DEF IInv, Places
<1>8. StepExclusive'
  BY <1>1 DEF IInv, StepExclusive
<1> QED
  BY <1>1, <1>2, <1>4, <1>5, <1>6, <1>7, <1>8

\* The first step hands out the next datum.
LEMMA ReadInv ==
    ASSUME IInv, NEW w \in Workers, Work(w), step[w] = 0, given < Items
    PROVE  IInv'
<1> DEFINE d == given + 1
<1>1. /\ pc[w] = "work" /\ given \in Nat /\ d \in 1..Items /\ data'[w] = d /\ pc'[w] = "update"
      /\ \A v \in Workers \ {w} : data'[v] = data[v] /\ pc'[v] = pc[v]
      /\ UNCHANGED <<step, running, caller>>
      /\ Places' /\ StepExclusive'
  <2>1. Answers(w) = {d}
    BY DEF Answers
  <2>2. given \in Nat /\ d \in 1..Items
    BY Numbers DEF IInv, TypeOK
  <2> HIDE DEF d
  <2> QED
    BY <2>1, <2>2, WorkMoves
<1>2. /\ given' = d /\ done' = [done EXCEPT ![0] = Append(@, d)]
      /\ UNCHANGED rejected
  BY <1>1, Numbers DEF Work, IInv, TypeOK
<1>3. TypeOK'
  <2>1. data' \in [Workers -> 0..Items] /\ given' \in 0..Items
    BY <1>1, <1>2, WorkMoves, Numbers
  <2>2. pc' \in [Workers -> {"none", "loop", "wait", "woken", "work", "update", "exit"}]
    BY WorkMoves
  <2>3. \A v \in Workers : running'[v] <=> pc'[v] \in {"work", "update"}
    BY <1>1 DEF IInv, TypeOK
  <2>4. \A v \in Workers : pc'[v] = "work" /\ step'[v] > 0 => data'[v] # 0
    BY <1>1 DEF IInv, TypeOK
  <2> QED
    BY <1>1, <1>2, <2>1, <2>2, <2>3, <2>4 DEF IInv, TypeOK
<1>4. /\ done \in [Steps -> Seq(1..Items)] /\ 0 \in Steps
  BY Numbers DEF IInv, DoneType
<1>5. DoneType'
  BY <1>1, <1>2, <1>4 DEF DoneType
<1>6. ~Holding(w) /\ Holding(w)' /\ \A v \in Workers \ {w} : Holding(v)' <=> Holding(v)
  BY <1>1, Numbers DEF Holding
<1>7. OwnData'
  <2>1. rejected' \subseteq 1..given'
    BY <1>1, <1>2 DEF IInv, OwnData
  <2>2. ASSUME NEW v \in Workers, Holding(v)' PROVE data'[v] \in (1..given') \ rejected'
    BY <1>1, <1>2, <1>6, <2>2 DEF IInv, OwnData
  <2>3. ASSUME NEW u \in Workers, NEW v \in Workers, u # v, Holding(u)', Holding(v)'
        PROVE  data'[u] # data'[v]
    <3>1. \A x \in Workers : Holding(x) => data[x] # d
      BY <1>1 DEF IInv, OwnData
    <3> QED
      BY <1>1, <1>6, <2>3, <3>1 DEF IInv, OwnData
  <2> QED
    BY <2>1, <2>2, <2>3 DEF OwnData
<1>8. \A i \in Steps : Through(i) \subseteq Through(i)'
  <2> SUFFICES ASSUME NEW i \in Steps, NEW a \in DOMAIN done[i]
               PROVE  a \in DOMAIN done'[i] /\ done'[i][a] = done[i][a]
    BY DEF Through
  <2> QED
    BY <1>1, <1>2, <1>4
<1>9. d \in Through(0)'
  <2>1. /\ done'[0] = Append(done[0], d) /\ done[0] \in Seq(1..Items)
    BY <1>2, <1>4
  <2>2. Len(done[0]) + 1 \in DOMAIN done'[0] /\ done'[0][Len(done[0]) + 1] = d
    BY <1>1, <2>1
  <2> QED
    BY <2>2 DEF Through
<1>10. Accounted'
  <2> SUFFICES ASSUME NEW x \in 1..given', NEW i \in Steps, x \notin Through(i)' \cup rejected'
               PROVE  \E v \in Workers : data'[v] = x /\ Pending(v, i)'
    BY DEF Accounted
  <2>1. CASE x = d
    <3>1. i # 0
      BY <1>9, <2>1
    <3>2. Pending(w, i)'
      BY <1>1, <1>6, <3>1, Numbers DEF Pending
    <3> QED
      BY <1>1, <2>1, <3>2
  <2>2. CASE x # d
    <3>1. x \in 1..given
      BY <1>1, <1>2, <2>2
    <3>2. PICK v \in Workers : data[v] = x /\ Pending(v, i)
      BY <1>2, <1>8, <3>1 DEF IInv, Accounted
    <3>3. v # w
      BY <1>6, <3>2 DEF Pending
    <3> QED
      BY <1>1, <1>6, <3>2, <3>3 DEF Pending
  <2> QED
    BY <2>1, <2>2
<1>11. FewLost'
  <2>1. Lost' = Lost
    BY <1>1, Numbers DEF Lost
  <2> QED
    BY <1>1, <1>2, <2>1, Numbers DEF IInv, FewLost
<1> QED
  BY <1>1, <1>3, <1>5, <1>7, <1>10, <1>11 DEF IInv

\* The first step finds the data read.
LEMMA ReadNothingInv ==
    ASSUME IInv, NEW w \in Workers, Work(w), step[w] = 0, ~(given < Items)
    PROVE  IInv'
<1>1. given = Items
  BY Numbers DEF IInv, TypeOK
<1>2. /\ pc[w] = "work" /\ data'[w] = 0 /\ pc'[w] = "update"
      /\ \A v \in Workers \ {w} : data'[v] = data[v] /\ pc'[v] = pc[v]
      /\ UNCHANGED <<step, running, caller>>
      /\ Places' /\ StepExclusive'
  BY <1>1, WorkMoves, Numbers DEF Answers
<1>3. UNCHANGED <<given, done, rejected>>
  BY <1>1 DEF Work
<1>4. TypeOK' /\ DoneType'
  <2>1. /\ data' \in [Workers -> 0..Items] /\ Places' /\ StepExclusive'
        /\ pc' \in [Workers -> {"none", "loop", "wait", "woken", "work", "update", "exit"}]
    BY WorkMoves
  <2>2. \A v \in Workers : pc'[v] \in {"work", "update"} <=> pc[v] \in {"work", "update"}
    BY <1>2
  <2>3. \A v \in Workers : pc'[v] = "work" => pc[v] = "work" /\ data'[v] = data[v]
    BY <1>2
  <2>4. TypeOK
    BY DEF IInv
  <2>5. (\A v \in Workers : running[v] <=> pc[v] \in {"work", "update"})'
    BY ONLY <1>2, <2>2, <2>4, Zenon DEF TypeOK
  <2> QED
    BY <1>2, <1>3, <2>1, <2>3, <2>4, <2>5 DEF IInv, TypeOK, DoneType
<1>5. ~Holding(w) /\ ~Holding(w)' /\ \A v \in Workers \ {w} : Holding(v)' <=> Holding(v)
  BY <1>2, Numbers DEF Holding
<1>6. OwnData'
  BY <1>2, <1>3, <1>5 DEF IInv, OwnData
<1>7. Accounted'
  <2>1. \A i \in Steps : Through(i)' = Through(i)
    BY <1>3 DEF Through
  <2>2. \A v \in Workers : \A i \in Steps : Pending(v, i) => v # w /\ Pending(v, i)'
    BY <1>2, <1>5 DEF Pending
  <2> QED
    BY <1>2, <1>3, <2>1, <2>2 DEF IInv, Accounted
<1>8. FewLost'
  BY <1>1, <1>3, Numbers DEF FewLost
<1> QED
  BY <1>2, <1>4, <1>6, <1>7, <1>8 DEF IInv

\* A later step has its datum in hand, and passes it on or rejects it.
LEMMA LaterInv ==
    ASSUME IInv, NEW w \in Workers, Work(w), step[w] # 0
    PROVE  IInv'
<1> DEFINE s == step[w]  d == data[w]
<1>1. /\ pc[w] = "work" /\ pc'[w] = "update" /\ d # 0 /\ s \in Steps /\ s > 0
      /\ \A v \in Workers \ {w} : data'[v] = data[v] /\ pc'[v] = pc[v]
      /\ UNCHANGED <<step, running, caller>>
      /\ Places' /\ StepExclusive'
  BY WorkMoves, Numbers
<1>2. data'[w] = d \/ data'[w] = 0
  BY WorkMoves DEF Answers
<1>3. Holding(w) /\ d \in (1..given) \ rejected
  BY <1>1 DEF Holding, IInv, OwnData
<1>4. /\ given' = given /\ given \in 0..Items
      /\ done' = [done EXCEPT ![s] = Append(@, d)]
      /\ rejected' = IF data'[w] = 0 THEN rejected \cup {d} ELSE rejected
      /\ rejected \subseteq 1..Items /\ d \in 1..Items
  BY <1>1, <1>3, Numbers DEF Work, IInv, TypeOK
<1>5. done \in [Steps -> Seq(1..Items)]
  BY DEF IInv, DoneType
<1>6. data' \in [Workers -> 0..Items]
  BY WorkMoves
<1> HIDE DEF s, d
<1>7. TypeOK'
  <2>1. pc' \in [Workers -> {"none", "loop", "wait", "woken", "work", "update", "exit"}]
    BY WorkMoves
  <2>2. \A v \in Workers : running'[v] <=> pc'[v] \in {"work", "update"}
    BY <1>1 DEF IInv, TypeOK
  <2>3. \A v \in Workers : pc'[v] = "work" /\ step'[v] > 0 => data'[v] # 0
    BY <1>1 DEF IInv, TypeOK
  <2>4. rejected' \subseteq 1..Items
    BY <1>4
  <2> QED
    BY <1>1, <1>4, <1>6, <2>1, <2>2, <2>3, <2>4 DEF IInv, TypeOK
<1>8. DoneType'
  BY <1>1, <1>4, <1>5 DEF DoneType
<1>9. \A v \in Workers \ {w} : Holding(v)' <=> Holding(v)
  BY <1>1 DEF Holding
<1>10. \A v \in Workers : Holding(v)' => Holding(v) /\ data'[v] = data[v]
  BY <1>1, <1>2, <1>3, <1>9 DEF Holding, d
<1>11. OwnData'
  <2>1. rejected' \subseteq 1..given'
    BY <1>3, <1>4 DEF IInv, OwnData
  <2>2. ASSUME NEW v \in Workers, Holding(v)' PROVE data'[v] \in (1..given') \ rejected'
    <3>1. data'[v] \in (1..given) \ rejected /\ data'[v] = data[v]
      BY <1>10, <2>2 DEF IInv, OwnData
    <3>2. data'[w] = 0 => v # w
      BY <2>2 DEF Holding
    <3>3. data'[w] = 0 => data[v] # d
      BY <1>3, <1>10, <2>2, <3>2 DEF IInv, OwnData, d
    <3> QED
      BY <1>4, <3>1, <3>3
  <2>3. ASSUME NEW u \in Workers, NEW v \in Workers, u # v, Holding(u)', Holding(v)'
        PROVE  data'[u] # data'[v]
    BY <1>10, <2>3 DEF IInv, OwnData
  <2> QED
    BY <2>1, <2>2, <2>3 DEF OwnData
<1>12. \A i \in Steps : Through(i) \subseteq Through(i)'
  <2> SUFFICES ASSUME NEW i \in Steps, NEW a \in DOMAIN done[i]
               PROVE  a \in DOMAIN done'[i] /\ done'[i][a] = done[i][a]
    BY DEF Through
  <2> QED
    BY <1>1, <1>4, <1>5
<1>13. \E a \in DOMAIN done'[s] : d = done'[s][a]
  <2>1. /\ done'[s] = Append(done[s], d) /\ done[s] \in Seq(1..Items)
    BY <1>1, <1>4, <1>5 DEF s
  <2>2. Len(done[s]) + 1 \in DOMAIN done'[s] /\ done'[s][Len(done[s]) + 1] = d
    BY <1>4, <2>1
  <2> QED
    BY <2>2
<1>14. Accounted'
  <2> SUFFICES ASSUME NEW x \in 1..given, NEW i \in Steps, x \notin Through(i)' \cup rejected'
               PROVE  \E v \in Workers : data'[v] = x /\ Pending(v, i)'
    BY <1>4 DEF Accounted
  <2>1. PICK v \in Workers : data[v] = x /\ Pending(v, i)
    BY <1>4, <1>12 DEF IInv, Accounted
  <2>2. CASE v = w
    <3>1. x = d /\ data'[w] # 0 /\ i # s
      BY <1>4, <1>13, <2>1, <2>2 DEF d, Through
    <3>2. s <= i /\ s < i /\ s = step[w]
      BY <1>1, <2>1, <2>2, <3>1, Numbers DEF Pending, s
    <3>3. data'[w] = x
      BY <1>2, <3>1
    <3>4. Pending(w, i)'
      BY <1>1, <3>1, <3>2 DEF Pending, Holding
    <3> QED
      BY <3>3, <3>4
  <2>3. CASE v # w
    BY <1>1, <1>9, <2>1, <2>3 DEF Pending
  <2> QED
    BY <2>2, <2>3
<1>15. FewLost'
  <2>1. w \notin Lost
    BY <1>1, Numbers DEF Lost, s
  <2>2. CASE data'[w] = d
    <3>1. Lost' = Lost /\ rejected' = rejected
      BY <1>1, <1>4, <2>2 DEF Lost, s
    <3> QED
      BY <1>4, <3>1 DEF IInv, FewLost
  <2>3. CASE data'[w] = 0
    <3>1. Lost' = Lost \cup {w} /\ rejected' = rejected \cup {d}
      BY <1>1, <1>4, <2>3 DEF Lost
    <3>2. IsFiniteSet(Lost) /\ Cardinality(Lost) \in Nat
      <4>1. Lost \subseteq Workers
        BY DEF Lost
      <4> QED
        BY <4>1, FiniteSets
    <3>3. IsFiniteSet(rejected) /\ Cardinality(rejected) \in Nat
      BY <1>4, FiniteSets
    <3>4. Cardinality(Lost') = Cardinality(Lost) + 1
      BY <2>1, <3>1, <3>2, FS_AddElement
    <3>5. Cardinality(rejected') = Cardinality(rejected) + 1
      BY <1>3, <3>1, <3>3, FS_AddElement
    <3> QED
      BY <1>4, <3>2, <3>3, <3>4, <3>5 DEF IInv, FewLost
  <2> QED
    BY <1>2, <2>2, <2>3
<1> QED
  BY <1>1, <1>7, <1>8, <1>11, <1>14, <1>15 DEF IInv

LEMMA NextInv == IInv /\ [Next]_vars => IInv'
<1> SUFFICES ASSUME IInv, [Next]_vars PROVE IInv'
  OBVIOUS
<1>1. CASE Create
  BY <1>1, CreateInv
<1>2. CASE Join
  BY <1>2, JoinInv
<1>3. ASSUME NEW w \in Workers, Work(w) PROVE IInv'
  BY <1>3, ReadInv, ReadNothingInv, LaterInv
<1>4. ASSUME NEW w \in Workers, Worker(w) \/ WakeSpuriously(w) PROVE IInv'
  BY <1>3, <1>4, EnterInv, UpdateInv, ExitInv, WakeInv DEF Worker
<1>5. CASE UNCHANGED vars
  <2>1. UNCHANGED <<step, running, data, pc, caller, given, done, rejected>>
    BY <1>5 DEF vars
  <2>2. OwnData' /\ Accounted' /\ FewLost' /\ DoneType'
    BY <2>1, DataFrame
  <2>3. TypeOK' /\ Places' /\ StepExclusive'
    BY <2>1 DEF IInv, TypeOK, Places, StepExclusive
  <2> QED
    BY <2>2, <2>3 DEF IInv
<1> QED
  BY <1>1, <1>2, <1>4, <1>5 DEF Next, Done

-----------------------------------------------------------------------------
\* The account of the data and the workers is kept (ktp_worker).
THEOREM Invariance == Spec => []IInv
  BY InitInv, NextInv, PTL DEF Spec

\* A worker runs exactly while it has a step, and has a datum for every step but the
\* first (ktp_worker).
THEOREM TypeCorrect == Spec => []TypeOK
<1>1. IInv => TypeOK
  BY DEF IInv
<1> QED
  BY <1>1, Invariance, PTL

\* No two workers do the same step at a time, for every number of workers and steps
\* (ktp_worker).
THEOREM Exclusive == Spec => []StepExclusive
<1>1. IInv => StepExclusive
  BY DEF IInv
<1> QED
  BY <1>1, Invariance, PTL

LEMMA AllExited ==
    ASSUME IInv, Returned
    PROVE  \A w \in Workers : pc[w] = "exit" /\ step[w] = n_steps
  BY Numbers DEF IInv, Places, Returned

\* Fewer rejections than workers, and all the data are read (ktp_worker, kt_pipeline).
THEOREM Reads == Spec => []ReadAll
<1>1. IInv => ReadAll
  <2> SUFFICES ASSUME IInv, Returned, Cardinality(rejected) < n_threads, given # Items
               PROVE  FALSE
    BY DEF ReadAll
  <2>1. given < Items
    BY Numbers DEF IInv, TypeOK
  <2>2. Lost = Workers
    BY AllExited DEF Lost
  <2>3. Cardinality(rejected) \in Nat
    BY FiniteSets DEF IInv, TypeOK
  <2>4. n_threads <= Cardinality(rejected)
    BY <2>1, <2>2, FiniteSets DEF IInv, FewLost
  <2> QED
    BY <2>3, <2>4, Numbers
<1> QED
  BY <1>1, Invariance, PTL

\* Without a rejection every datum has been through every step when kt_pipeline
\* returns (ktp_worker, kt_pipeline).
THEOREM Passes == Spec => []AllThrough
<1>1. IInv => AllThrough
  <2> SUFFICES ASSUME IInv, Returned, rejected = {}, NEW i \in Steps, NEW d \in 1..Items
               PROVE  \E a \in DOMAIN done[i] : done[i][a] = d
    BY DEF AllThrough
  <2>1. given = Items
    <3>1. Cardinality(rejected) = 0
      BY FS_EmptySet
    <3>2. CASE given < Items
      <4>1. Lost = Workers
        BY AllExited DEF Lost
      <4> QED
        BY <3>1, <3>2, <4>1, FiniteSets, Numbers DEF IInv, FewLost
    <3> QED
      BY <3>2, Numbers DEF IInv, TypeOK
  <2>2. \A w \in Workers : ~Pending(w, i)
    BY AllExited, Numbers DEF Pending
  <2>3. d \in Through(i)
    BY <2>1, <2>2 DEF IInv, Accounted
  <2> QED
    BY <2>3 DEF Through
<1> QED
  BY <1>1, Invariance, PTL
=============================================================================
