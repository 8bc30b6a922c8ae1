---------------------------- MODULE KtForProofs ----------------------------
(***************************************************************************)
(* kt_for makes every call once, for every number of workers and calls.    *)
(*                                                                         *)
(* The argument: index i belongs to worker i % n_threads and is given out  *)
(* when that worker's counter passes it.  The counter stays in its class   *)
(* and moves by n_threads, so each fetch, by the worker or by a thief,     *)
(* gives out exactly the index it returns.  An index that is given out is  *)
(* in the hands of one worker or called, never both.                       *)
(***************************************************************************)
EXTENDS KtFor, TLAPS

Calling(t) == pc[t] \in {"call_own", "call_stolen"}

\* The counter of the worker index i belongs to has passed it.
GivenOut(i) == i < w[i % n_threads]

Holds(t, i) == Calling(t) /\ job[t] = i

\* An index is called at most once, only after it is given out, and is in the
\* hands of at most one worker, and then not called yet.
Accounted ==
    \A i \in Jobs :
        /\ calls[i] \in {0, 1}
        /\ calls[i] = 1 => GivenOut(i)
        /\ GivenOut(i) /\ calls[i] = 0 => \E t \in Workers : Holds(t, i)
        /\ \A t \in Workers : Holds(t, i) => GivenOut(i) /\ calls[i] = 0
        /\ \A t, u \in Workers : Holds(t, i) /\ Holds(u, i) => t = u

\* A worker that steals or is done has no index of its own left.
OwnFirst ==
    \A t \in Workers : pc[t] \in {"scan", "call_stolen", "done"} => w[t] >= n

JoinedDone == \A t \in Workers : t < caller.joined => pc[t] = "done"

CreatedAll == \A t \in Workers : t >= caller.created => pc[t] = "none"

IInv == TypeOK /\ Accounted /\ OwnFirst /\ JoinedDone /\ CreatedAll

-----------------------------------------------------------------------------
LEMMA DivMod ==
    ASSUME NEW N \in Nat \ {0}, NEW a \in Nat
    PROVE  a \div N \in Nat /\ a % N \in 0..(N - 1) /\ a = (a \div N) * N + (a % N)
  OBVIOUS

\* A number has one quotient and one remainder.
LEMMA Multiple ==
    ASSUME NEW N \in Nat \ {0}, NEW q \in Int, NEW k \in Int,
           NEW r \in 0..(N - 1), NEW s \in 0..(N - 1), q * N + r = k * N + s
    PROVE  q = k /\ r = s
<1>1. (q - k) * N = s - r
  OBVIOUS
<1>2. CASE q - k >= 1
  <2>1. (q - k) * N >= N
    BY <1>2
  <2> QED
    BY <1>1, <2>1
<1>3. CASE q - k <= -1
  <2>1. (q - k) * N <= -N
    BY <1>3
  <2> QED
    BY <1>1, <2>1
<1> QED
  BY <1>1, <1>2, <1>3

LEMMA ModIs ==
    ASSUME NEW N \in Nat \ {0}, NEW b \in Nat
    PROVE  \A q \in Int : \A r \in 0..(N - 1) : q * N + r = b => b % N = r
<1> DEFINE k == b \div N  s == b % N
<1>1. k \in Int /\ s \in 0..(N - 1) /\ b = k * N + s
  BY DivMod
<1> HIDE DEF k, s
<1>2. \A q \in Int : \A r \in 0..(N - 1) : q * N + r = b => s = r
  BY <1>1, Multiple
<1> QED
  BY <1>2 DEF s

LEMMA ModSmall ==
    ASSUME NEW N \in Nat \ {0}, NEW t \in 0..(N - 1)
    PROVE  t % N = t
<1>1. t \in Nat /\ 0 * N + t = t
  OBVIOUS
<1> QED
  BY <1>1, ModIs

\* The next index of a share belongs to the same worker.
LEMMA ModNext ==
    ASSUME NEW N \in Nat \ {0}, NEW a \in Nat
    PROVE  (a + N) % N = a % N
<1> DEFINE q == a \div N  r == a % N
<1>1. q \in Int /\ r \in 0..(N - 1) /\ a = q * N + r
  BY DivMod
<1> HIDE DEF q, r
<1>2. q + 1 \in Int /\ a + N \in Nat /\ (q + 1) * N + r = a + N
  BY <1>1
<1>3. (a + N) % N = r
  BY <1>1, <1>2, ModIs
<1> QED
  BY <1>3 DEF r

\* Between an index of a share and the next one there is none of that share.
LEMMA ModSame ==
    ASSUME NEW N \in Nat \ {0}, NEW a \in Nat, NEW b \in Nat,
           a % N = b % N, a <= b, b < a + N
    PROVE  a = b
<1> DEFINE q == a \div N  k == b \div N  r == a % N
<1>1. q \in Int /\ r \in 0..(N - 1) /\ a = q * N + r
  BY DivMod
<1>2. k \in Int /\ b = k * N + r
  <2>1. k \in Int /\ b = k * N + (b % N)
    BY DivMod
  <2> QED
    BY <2>1
<1> HIDE DEF q, k, r
<1>3. k * N + 0 = q * N + (b - a)
  BY <1>1, <1>2
<1>4. b - a \in 0..(N - 1) /\ 0 \in 0..(N - 1)
  OBVIOUS
<1>5. 0 = b - a
  BY <1>1, <1>2, <1>3, <1>4, Multiple
<1> QED
  BY <1>5

-----------------------------------------------------------------------------
LEMMA OwnerIsWorker ==
    ASSUME NEW i \in Jobs
    PROVE  i \in Nat /\ i % n_threads \in Workers
  BY ThreadsAssumption, CallsAssumption, DivMod DEF Jobs, Workers

LEMMA InitInv == Init => IInv
<1> SUFFICES ASSUME Init PROVE IInv
  OBVIOUS
<1> USE ThreadsAssumption, CallsAssumption
<1>1. TypeOK
  <2>1. OwnClass
    BY ModSmall DEF Init, OwnClass, Workers
  <2>2. w \in [Workers -> Nat]
    BY DEF Init, Workers
  <2>3. 0 \in Workers
    BY DEF Workers
  <2> QED
    BY <2>1, <2>2, <2>3 DEF Init, TypeOK, PCs, NoMin
<1>2. \A i \in Jobs : calls[i] = 0 /\ ~GivenOut(i)
  <2> SUFFICES ASSUME NEW i \in Jobs PROVE ~(i < i % n_threads)
    BY OwnerIsWorker DEF Init, GivenOut
  <2> DEFINE q == i \div n_threads  r == i % n_threads
  <2>2. i \in Nat
    BY OwnerIsWorker
  <2>1. q \in Nat /\ r \in 0..(n_threads - 1) /\ i = q * n_threads + r
    BY <2>2, DivMod
  <2> HIDE DEF q, r
  <2>3. q * n_threads >= 0
    BY <2>1
  <2>4. ~(i < r)
    BY <2>1, <2>2, <2>3
  <2> QED
    BY <2>4 DEF r
<1>3. \A t \in Workers : pc[t] = "none"
  BY DEF Init
<1> QED
  BY <1>1, <1>2, <1>3 DEF IInv, Accounted, Holds, Calling, OwnFirst, JoinedDone,
     CreatedAll, Init, Workers

\* A fetch from the counter of worker v gives out the index it returns and no other.
LEMMA Fetch ==
    ASSUME TypeOK, NEW v \in Workers, w' = [w EXCEPT ![v] = @ + n_threads]
    PROVE  /\ w' \in [Workers -> Nat]
           /\ OwnClass'
           /\ \A t \in Workers : w'[t] >= w[t]
           /\ \A i \in Jobs : GivenOut(i)' <=> GivenOut(i) \/ i = w[v]
           /\ ~(w[v] \in Jobs /\ GivenOut(w[v]))
<1> USE ThreadsAssumption, CallsAssumption
<1>1. /\ w \in [Workers -> Nat]
      /\ \A t \in Workers : w[t] % n_threads = t
  BY DEF TypeOK, OwnClass
<1>2. w' \in [Workers -> Nat]
  BY <1>1
<1>3. OwnClass'
  <2>1. w'[v] = w[v] + n_threads /\ w[v] \in Nat /\ w'[v] \in Nat
    BY <1>1, <1>2
  <2>2. w'[v] % n_threads = w[v] % n_threads
    BY <2>1, ModNext
  <2>3. \A t \in Workers \ {v} : w'[t] = w[t]
    BY <1>1
  <2> QED
    BY <1>1, <2>2, <2>3 DEF OwnClass
<1>4. \A t \in Workers : w'[t] >= w[t]
  BY <1>1
<1>5. ASSUME NEW i \in Jobs
      PROVE  GivenOut(i)' <=> GivenOut(i) \/ i = w[v]
  <2> DEFINE o == i % n_threads
  <2>1. i \in Nat /\ o \in Workers
    BY OwnerIsWorker
  <2>2. CASE o # v
    <3>1. w'[o] = w[o]
      BY <1>1, <2>1, <2>2
    <3>2. i # w[v]
      BY <1>1, <2>2
    <3> QED
      BY <3>1, <3>2 DEF GivenOut
  <2>3. CASE o = v
    <3>1. w'[v] = w[v] + n_threads /\ w[v] \in Nat
      BY <1>1
    <3>2. i % n_threads = w[v] % n_threads
      BY <1>1, <2>3
    <3>3. w[v] <= i /\ i < w[v] + n_threads => w[v] = i
      BY <2>1, <3>1, <3>2, ModSame
    <3>4. GivenOut(i)' <=> i < w[v] + n_threads
      BY <2>3, <3>1 DEF GivenOut
    <3>5. GivenOut(i) <=> i < w[v]
      BY <2>3 DEF GivenOut
    <3> HIDE DEF o
    <3> QED
      BY <2>1, <3>1, <3>3, <3>4, <3>5
  <2> QED
    BY <2>2, <2>3
<1>6. ~(w[v] \in Jobs /\ GivenOut(w[v]))
  BY <1>1 DEF GivenOut
<1> QED
  BY <1>2, <1>3, <1>4, <1>5, <1>6

\* A worker that fetches from the counter of worker v holds the index it gets, if
\* there is one, and nothing else changes hands.
LEMMA GiveOut ==
    ASSUME TypeOK, Accounted, NEW t \in Workers, NEW v \in Workers, ~Calling(t),
           w' = [w EXCEPT ![v] = @ + n_threads],
           job' = [job EXCEPT ![t] = w[v]],
           NEW x, pc' = [pc EXCEPT ![t] = x],
           x \in {"call_own", "call_stolen"} <=> w[v] < n,
           calls' = calls
    PROVE  Accounted'
<1>1. SUFFICES ASSUME NEW i \in Jobs
      PROVE  /\ calls[i] \in {0, 1}
             /\ calls[i] = 1 => GivenOut(i)'
             /\ GivenOut(i)' /\ calls[i] = 0 => \E u \in Workers : Holds(u, i)'
             /\ \A u \in Workers : Holds(u, i)' => GivenOut(i)' /\ calls[i] = 0
             /\ \A u, y \in Workers : Holds(u, i)' /\ Holds(y, i)' => u = y
  BY DEF Accounted
<1>2. /\ GivenOut(i)' <=> GivenOut(i) \/ i = w[v]
      /\ i = w[v] => ~GivenOut(i)
  BY Fetch
<1>3. /\ calls[i] \in {0, 1}
      /\ calls[i] = 1 => GivenOut(i)
      /\ GivenOut(i) /\ calls[i] = 0 => \E u \in Workers : Holds(u, i)
      /\ \A u \in Workers : Holds(u, i) => GivenOut(i) /\ calls[i] = 0
      /\ \A u, y \in Workers : Holds(u, i) /\ Holds(y, i) => u = y
  BY DEF Accounted
<1>4. \A u \in Workers \ {t} : Holds(u, i)' <=> Holds(u, i)
  BY DEF TypeOK, Holds, Calling
<1>5. Holds(t, i)' <=> i = w[v]
  <2>1. pc'[t] = x /\ job'[t] = w[v]
    BY DEF TypeOK
  <2>2. i = w[v] => w[v] < n
    BY CallsAssumption DEF Jobs
  <2> QED
    BY <2>1, <2>2 DEF Holds, Calling
<1>6. ~Holds(t, i)
  BY DEF Holds
<1> HIDE DEF Holds, GivenOut
<1>7. CASE i = w[v]
  BY <1>2, <1>3, <1>4, <1>5, <1>7
<1>8. CASE i # w[v]
  BY <1>2, <1>3, <1>4, <1>5, <1>6, <1>8
<1> QED
  BY <1>7, <1>8

LEMMA TakeOwnInv ==
    ASSUME IInv, NEW t \in Workers, TakeOwn(t)
    PROVE  IInv'
<1> USE ThreadsAssumption, CallsAssumption
<1>1. /\ TypeOK /\ Accounted /\ OwnFirst /\ JoinedDone /\ CreatedAll
      /\ pc[t] = "own"
  BY DEF IInv, TakeOwn
<1> DEFINE x == IF w[t] >= n THEN "scan" ELSE "call_own"
<1>2. /\ w' = [w EXCEPT ![t] = @ + n_threads]
      /\ job' = [job EXCEPT ![t] = w[t]]
      /\ pc' = [pc EXCEPT ![t] = x]
      /\ UNCHANGED <<scan, min, caller, calls>>
  BY DEF TakeOwn
<1>3. /\ w' \in [Workers -> Nat]
      /\ OwnClass'
      /\ \A u \in Workers : w'[u] >= w[u]
  BY <1>1, <1>2, Fetch
<1>4. w[t] \in Nat /\ w'[t] = w[t] + n_threads /\ pc'[t] = x /\ job'[t] = w[t]
  BY <1>1, <1>2 DEF TypeOK
<1>5. TypeOK'
  <2>1. \A u \in Workers : pc'[u] \in {"call_own", "call_stolen"} => job'[u] \in Jobs
    <3>1. x = "call_own" => w[t] \in Jobs
      BY <1>4 DEF Jobs
    <3>2. \A u \in Workers \ {t} : pc'[u] = pc[u] /\ job'[u] = job[u]
      BY <1>1, <1>2 DEF TypeOK
    <3>3. x \notin {"call_stolen"}
      OBVIOUS
    <3> HIDE DEF x
    <3> QED
      BY <1>1, <1>4, <3>1, <3>2, <3>3 DEF TypeOK
  <2> QED
    BY <1>1, <1>2, <1>3, <1>4, <2>1 DEF TypeOK, PCs
<1>6. Accounted'
  <2>1. ~Calling(t)
    BY <1>1 DEF Calling
  <2>2. x \in {"call_own", "call_stolen"} <=> w[t] < n
    BY <1>4
  <2> HIDE DEF x
  <2> QED
    BY <1>1, <1>2, <2>1, <2>2, GiveOut
<1>7. OwnFirst'
  <2>1. \A u \in Workers \ {t} : pc'[u] = pc[u]
    BY <1>1, <1>2 DEF TypeOK
  <2>2. x = "scan" => w'[t] >= n
    BY <1>4
  <2>3. x \notin {"call_stolen", "done"}
    OBVIOUS
  <2>4. \A u \in Workers : w[u] \in Nat /\ w'[u] \in Nat
    BY <1>1, <1>3 DEF TypeOK
  <2> HIDE DEF x
  <2> QED
    BY <1>1, <1>3, <1>4, <2>1, <2>2, <2>3, <2>4 DEF OwnFirst
<1>8. JoinedDone' /\ CreatedAll'
  BY <1>1, <1>2 DEF JoinedDone, CreatedAll, TypeOK
<1> QED
  BY <1>5, <1>6, <1>7, <1>8 DEF IInv

LEMMA StealInv ==
    ASSUME IInv, NEW t \in Workers, Steal(t)
    PROVE  IInv'
<1> USE ThreadsAssumption, CallsAssumption
<1> DEFINE v == min[t].worker
           x == IF w[v] >= n THEN "done" ELSE "call_stolen"
<1>1. /\ TypeOK /\ Accounted /\ OwnFirst /\ JoinedDone /\ CreatedAll
      /\ pc[t] = "scan"
      /\ v \in Workers
  BY DEF IInv, Steal, TypeOK
<1>2. /\ w' = [w EXCEPT ![v] = @ + n_threads]
      /\ job' = [job EXCEPT ![t] = w[v]]
      /\ pc' = [pc EXCEPT ![t] = x]
      /\ scan' = [scan EXCEPT ![t] = 0]
      /\ min' = [min EXCEPT ![t] = NoMin]
      /\ UNCHANGED <<caller, calls>>
  BY DEF Steal
<1> HIDE DEF v
<1>3. /\ w' \in [Workers -> Nat]
      /\ OwnClass'
      /\ \A u \in Workers : w'[u] >= w[u]
  BY <1>1, <1>2, Fetch
<1>4. w[v] \in Nat /\ pc'[t] = x /\ job'[t] = w[v]
  BY <1>1, <1>2 DEF TypeOK
<1>5. TypeOK'
  <2>1. \A u \in Workers : pc'[u] \in {"call_own", "call_stolen"} => job'[u] \in Jobs
    <3>1. x = "call_stolen" => w[v] \in Jobs
      BY <1>4 DEF Jobs
    <3>2. \A u \in Workers \ {t} : pc'[u] = pc[u] /\ job'[u] = job[u]
      BY <1>1, <1>2 DEF TypeOK
    <3>3. x \notin {"call_own"}
      OBVIOUS
    <3> HIDE DEF x
    <3> QED
      BY <1>1, <1>4, <3>1, <3>2, <3>3 DEF TypeOK
  <2>2. /\ scan' \in [Workers -> 0..n_threads]
        /\ min' \in [Workers -> [seen : BOOLEAN, value : Nat, worker : Workers]]
        /\ \A u \in Workers : min'[u].seen <=> scan'[u] > 0
    <3>1. NoMin \in [seen : BOOLEAN, value : Nat, worker : Workers] /\ ~NoMin.seen
      BY DEF NoMin, Workers
    <3>2. /\ scan \in [Workers -> 0..n_threads]
          /\ min \in [Workers -> [seen : BOOLEAN, value : Nat, worker : Workers]]
          /\ \A u \in Workers : min[u].seen <=> scan[u] > 0
      BY <1>1 DEF TypeOK
    <3>3. 0 \in 0..n_threads
      OBVIOUS
    <3> QED
      BY <1>2, <3>1, <3>2, <3>3
  <2>3. pc' \in [Workers -> PCs] /\ job' \in [Workers -> Nat]
    BY <1>1, <1>2, <1>4 DEF TypeOK, PCs
  <2> QED
    BY <1>1, <1>2, <1>3, <2>1, <2>2, <2>3 DEF TypeOK
<1>6. Accounted'
  <2>1. ~Calling(t)
    BY <1>1 DEF Calling
  <2>2. x \in {"call_own", "call_stolen"} <=> w[v] < n
    BY <1>4
  <2> HIDE DEF x
  <2> QED
    BY <1>1, <1>2, <2>1, <2>2, GiveOut
<1>7. OwnFirst'
  <2>1. \A u \in Workers \ {t} : pc'[u] = pc[u]
    BY <1>1, <1>2 DEF TypeOK
  <2>2. \A u \in Workers : w[u] \in Nat /\ w'[u] \in Nat
    BY <1>1, <1>3 DEF TypeOK
  <2> QED
    BY <1>1, <1>3, <2>1, <2>2 DEF OwnFirst
<1>8. JoinedDone' /\ CreatedAll'
  BY <1>1, <1>2 DEF JoinedDone, CreatedAll, TypeOK
<1> QED
  BY <1>5, <1>6, <1>7, <1>8 DEF IInv

LEMMA CallInv ==
    ASSUME IInv, NEW t \in Workers, Call(t)
    PROVE  IInv'
<1> USE ThreadsAssumption, CallsAssumption
<1> DEFINE j == job[t]
<1>1. /\ TypeOK /\ Accounted /\ OwnFirst /\ JoinedDone /\ CreatedAll
      /\ Calling(t) /\ j \in Jobs
  BY DEF IInv, Call, Calling, TypeOK
<1>2. /\ calls' = [calls EXCEPT ![j] = @ + 1]
      /\ pc' = [pc EXCEPT ![t] = IF @ = "call_own" THEN "own" ELSE "scan"]
      /\ UNCHANGED <<w, job, scan, min, caller>>
  BY DEF Call
<1>3. /\ \A u \in Workers \ {t} : pc'[u] = pc[u]
      /\ pc'[t] \in {"own", "scan"}
      /\ pc'[t] = "scan" => pc[t] = "call_stolen"
  BY <1>1, <1>2 DEF TypeOK, Calling
<1>4. Holds(t, j)
  BY DEF Holds, Calling, Call
<1>5. calls[j] = 0 /\ GivenOut(j)
  BY <1>1, <1>4 DEF Accounted
<1>6. calls'[j] = 1 /\ \A i \in Jobs \ {j} : calls'[i] = calls[i]
  BY <1>1, <1>2, <1>5 DEF TypeOK
<1>7. TypeOK'
  <2>1. calls' \in [Jobs -> Nat]
    BY <1>1, <1>2 DEF TypeOK
  <2>2. pc' \in [Workers -> PCs]
    BY <1>1, <1>2 DEF TypeOK, PCs
  <2>3. \A u \in Workers : pc'[u] \in {"call_own", "call_stolen"} => job'[u] \in Jobs
    BY <1>1, <1>2, <1>3 DEF TypeOK
  <2> QED
    BY <1>1, <1>2, <2>1, <2>2, <2>3 DEF TypeOK, OwnClass
<1>8. Accounted'
  <2>1. SUFFICES ASSUME NEW i \in Jobs
        PROVE  /\ calls'[i] \in {0, 1}
               /\ calls'[i] = 1 => GivenOut(i)
               /\ GivenOut(i) /\ calls'[i] = 0 => \E u \in Workers : Holds(u, i)'
               /\ \A u \in Workers : Holds(u, i)' => GivenOut(i) /\ calls'[i] = 0
               /\ \A u, y \in Workers : Holds(u, i)' /\ Holds(y, i)' => u = y
    <3>1. \A i \in Jobs : GivenOut(i)' <=> GivenOut(i)
      BY <1>2 DEF GivenOut
    <3> QED
      BY <2>1, <3>1 DEF Accounted
  <2>2. /\ \A u \in Workers \ {t} : Holds(u, i)' <=> Holds(u, i)
        /\ ~Holds(t, i)'
        /\ Holds(t, i) => i = j
    BY <1>2, <1>3 DEF Holds, Calling
  <2>3. /\ calls[i] \in {0, 1}
        /\ calls[i] = 1 => GivenOut(i)
        /\ GivenOut(i) /\ calls[i] = 0 => \E u \in Workers : Holds(u, i)
        /\ \A u \in Workers : Holds(u, i) => GivenOut(i) /\ calls[i] = 0
        /\ \A u, y \in Workers : Holds(u, i) /\ Holds(y, i) => u = y
    BY <1>1 DEF Accounted
  <2> HIDE DEF Holds, GivenOut, j
  <2>4. CASE i = j
    BY <1>4, <1>5, <1>6, <2>2, <2>3, <2>4
  <2>5. CASE i # j
    BY <1>6, <2>2, <2>3, <2>5
  <2> QED
    BY <2>4, <2>5
<1>9. OwnFirst'
  BY <1>1, <1>2, <1>3 DEF OwnFirst
<1>10. JoinedDone' /\ CreatedAll'
  BY <1>1, <1>2, <1>3 DEF JoinedDone, CreatedAll, Calling
<1> QED
  BY <1>7, <1>8, <1>9, <1>10 DEF IInv

\* A step that moves no counter, no call and no job, and no worker into or out of a
\* call, leaves the account alone.
LEMMA AccountKept ==
    ASSUME Accounted, UNCHANGED <<w, job, calls>>,
           \A t \in Workers : Calling(t)' <=> Calling(t)
    PROVE  Accounted'
<1>1. \A i \in Jobs : GivenOut(i)' <=> GivenOut(i)
  BY DEF GivenOut
<1>2. \A t \in Workers, i \in Jobs : Holds(t, i)' <=> Holds(t, i)
  BY DEF Holds
<1> HIDE DEF Holds, GivenOut
<1> QED
  BY <1>1, <1>2 DEF Accounted

LEMMA ScanInv ==
    ASSUME IInv, NEW t \in Workers, Scan(t)
    PROVE  IInv'
<1> USE ThreadsAssumption, CallsAssumption
<1>1. /\ TypeOK /\ Accounted /\ OwnFirst /\ JoinedDone /\ CreatedAll
  BY DEF IInv
<1>2. /\ UNCHANGED <<w, pc, job, caller, calls>>
      /\ scan' = [scan EXCEPT ![t] = @ + 1]
      /\ scan[t] < n_threads
  BY DEF Scan
<1>3. TypeOK'
  <2>1. scan[t] \in Workers
    <3>1. scan[t] \in 0..n_threads
      BY <1>1 DEF TypeOK
    <3> QED
      BY <1>2, <3>1 DEF Workers
  <2>2. \/ /\ min[t].seen
           /\ UNCHANGED min
        \/ min' = [min EXCEPT ![t] = [seen |-> TRUE, value |-> w[scan[t]],
                                      worker |-> scan[t]]]
    BY DEF Scan
  <2>3. [seen |-> TRUE, value |-> w[scan[t]], worker |-> scan[t]]
          \in [seen : BOOLEAN, value : Nat, worker : Workers]
    BY <1>1, <2>1 DEF TypeOK
  <2>4. min' \in [Workers -> [seen : BOOLEAN, value : Nat, worker : Workers]]
    BY <1>1, <2>2, <2>3 DEF TypeOK
  <2>5. min'[t].seen = TRUE /\ \A u \in Workers \ {t} : min'[u] = min[u]
    BY <1>1, <2>2 DEF TypeOK
  <2>6. /\ scan' \in [Workers -> 0..n_threads]
        /\ scan'[t] > 0
        /\ \A u \in Workers \ {t} : scan'[u] = scan[u]
    BY <1>1, <1>2 DEF TypeOK
  <2>7. \A u \in Workers : min'[u].seen <=> scan'[u] > 0
    BY <1>1, <2>5, <2>6 DEF TypeOK
  <2> QED
    BY <1>1, <1>2, <2>4, <2>6, <2>7 DEF TypeOK, OwnClass
<1>4. Accounted'
  BY <1>1, <1>2, AccountKept DEF Calling
<1> QED
  BY <1>1, <1>2, <1>3, <1>4 DEF IInv, OwnFirst, JoinedDone, CreatedAll

LEMMA CallerInv ==
    ASSUME IInv, Create \/ Join
    PROVE  IInv'
<1> USE ThreadsAssumption, CallsAssumption
<1>1. /\ TypeOK /\ Accounted /\ OwnFirst /\ JoinedDone /\ CreatedAll
      /\ UNCHANGED <<w, job, scan, min, calls>>
      /\ caller \in [created : 0..n_threads, joined : 0..n_threads]
  BY DEF IInv, Create, Join, TypeOK
<1>2. CASE Create
  <2> DEFINE c == caller.created
  <2>1. /\ c \in Workers
        /\ pc' = [pc EXCEPT ![c] = "own"]
        /\ caller' = [caller EXCEPT !.created = c + 1]
    BY <1>1, <1>2 DEF Create, Workers
  <2>2. /\ pc[c] = "none"
        /\ pc'[c] = "own"
        /\ \A u \in Workers \ {c} : pc'[u] = pc[u]
    BY <1>1, <2>1 DEF TypeOK, CreatedAll, Workers
  <2>3. caller'.created = c + 1 /\ caller'.joined = caller.joined
    BY <1>1, <2>1
  <2>4. TypeOK'
    <3>1. caller' \in [created : 0..n_threads, joined : 0..n_threads]
      BY <1>1, <2>1 DEF Workers
    <3>2. pc' \in [Workers -> PCs]
      BY <1>1, <2>1 DEF TypeOK, PCs
    <3>3. \A u \in Workers : pc'[u] \in {"call_own", "call_stolen"} => job'[u] \in Jobs
      BY <1>1, <2>2 DEF TypeOK
    <3> QED
      BY <1>1, <3>1, <3>2, <3>3 DEF TypeOK, OwnClass
  <2>5. Accounted'
    <3>1. \A u \in Workers : Calling(u)' <=> Calling(u)
      BY <2>2 DEF Calling
    <3> QED
      BY <1>1, <3>1, AccountKept
  <2>6. OwnFirst' /\ JoinedDone'
    BY <1>1, <2>2, <2>3 DEF OwnFirst, JoinedDone
  <2>7. CreatedAll'
    BY <1>1, <2>1, <2>2, <2>3 DEF CreatedAll, Workers
  <2> QED
    BY <2>4, <2>5, <2>6, <2>7 DEF IInv
<1>3. CASE Join
  <2>1. /\ pc' = pc
        /\ caller' = [caller EXCEPT !.joined = @ + 1]
        /\ caller.joined < n_threads
        /\ pc[caller.joined] = "done"
    BY <1>3 DEF Join
  <2>2. /\ caller' \in [created : 0..n_threads, joined : 0..n_threads]
        /\ caller'.created = caller.created
        /\ caller'.joined = caller.joined + 1
    BY <1>1, <2>1
  <2>3. TypeOK'
    BY <1>1, <2>1, <2>2 DEF TypeOK, OwnClass
  <2>4. Accounted'
    BY <1>1, <2>1, AccountKept DEF Calling
  <2>5. JoinedDone'
    BY <1>1, <2>1, <2>2 DEF JoinedDone, Workers
  <2> QED
    BY <1>1, <2>1, <2>2, <2>3, <2>4, <2>5 DEF IInv, OwnFirst, CreatedAll
<1> QED
  BY <1>2, <1>3

LEMMA NextInv == IInv /\ [Next]_vars => IInv'
<1> SUFFICES ASSUME IInv, [Next]_vars PROVE IInv'
  OBVIOUS
<1>1. CASE Create \/ Join
  BY <1>1, CallerInv
<1>2. ASSUME NEW t \in Workers, Worker(t) PROVE IInv'
  BY <1>2, TakeOwnInv, CallInv, ScanInv, StealInv DEF Worker
<1>3. CASE UNCHANGED vars
  BY <1>3 DEF IInv, TypeOK, OwnClass, Accounted, OwnFirst, JoinedDone, CreatedAll, Holds,
     Calling, GivenOut, vars
<1> QED
  BY <1>1, <1>2, <1>3 DEF Next, Done

-----------------------------------------------------------------------------
\* The account of the indexes is kept, for every number of workers and calls
\* (ktf_worker, steal_work).
THEOREM Invariance == Spec => []IInv
  BY InitInv, NextInv, PTL DEF Spec

\* The counters stay in their workers' classes (ktf_worker).
THEOREM TypeCorrect == Spec => []TypeOK
<1>1. IInv => TypeOK
  BY DEF IInv
<1> QED
  BY <1>1, Invariance, PTL

\* No index is given out twice (steal_work, ktf_worker).
THEOREM Once == Spec => []AtMostOnce
<1>1. IInv => AtMostOnce
  BY DEF IInv, TypeOK, Accounted, AtMostOnce, Holds, Calling
<1> QED
  BY <1>1, Invariance, PTL

\* When kt_for returns, every call has been made (kt_for).
THEOREM Complete == Spec => []AllCalled
<1>1. IInv => AllCalled
  <2> SUFFICES ASSUME IInv, Returned, NEW i \in Jobs PROVE calls[i] = 1
    BY DEF AllCalled
  <2> DEFINE o == i % n_threads
  <2>1. i \in Nat /\ i < n /\ o \in Workers
    BY OwnerIsWorker, CallsAssumption DEF Jobs
  <2> HIDE DEF o
  <2>2. \A t \in Workers : pc[t] = "done"
    BY ThreadsAssumption DEF Returned, IInv, JoinedDone, Workers
  <2>3. w[o] >= n /\ w[o] \in Nat
    BY <2>1, <2>2 DEF IInv, OwnFirst, TypeOK
  <2>4. GivenOut(i)
    <3>1. i < w[o]
      BY <2>1, <2>3, CallsAssumption
    <3> QED
      BY <3>1 DEF GivenOut, o
  <2>5. \A t \in Workers : ~Holds(t, i)
    BY <2>2 DEF Holds, Calling
  <2> QED
    BY <2>4, <2>5 DEF IInv, Accounted
<1> QED
  BY <1>1, Invariance, PTL
=============================================================================
