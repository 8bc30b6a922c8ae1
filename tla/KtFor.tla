------------------------------- MODULE KtFor --------------------------------
(***************************************************************************)
(* kt_for of kthread.c: n calls of a function shared by n_threads worker   *)
(* threads.  Worker t starts with the indexes t, t + n_threads, ...; when  *)
(* it has no more of its own it steals from the worker that seems to be    *)
(* furthest behind.  Every access to a worker's counter w[t].i is a step;  *)
(* the scan of steal_work reads the counters one by one while the others   *)
(* move them.                                                              *)
(***************************************************************************)
EXTENDS Integers

CONSTANTS n_threads,   \* number of workers
          n            \* number of calls

ASSUME ThreadsAssumption == n_threads \in Nat \ {0}
ASSUME CallsAssumption == n \in Nat

VARIABLES w,       \* w[t]: the next index of worker t's share (w[t].i)
          pc,      \* where each worker is; "none" before pthread_create
          job,     \* the local i of ktf_worker: the index it works on
          scan,    \* the local i of steal_work: how many counters it has read
          min,     \* the locals min and min_i of steal_work, as a record
          caller,  \* the progress of kt_for: workers created, then joined
          calls    \* history: how often func was called for each index

vars == <<w, pc, job, scan, min, caller, calls>>

Workers == 0..(n_threads - 1)
Jobs == 0..(n - 1)

\* No worker seen yet: min = LONG_MAX and min_i = -1.
NoMin == [seen |-> FALSE, value |-> 0, worker |-> 0]

Init == /\ w = [t \in Workers |-> t]
        /\ pc = [t \in Workers |-> "none"]
        /\ job = [t \in Workers |-> 0]
        /\ scan = [t \in Workers |-> 0]
        /\ min = [t \in Workers |-> NoMin]
        /\ caller = [created |-> 0, joined |-> 0]
        /\ calls = [i \in Jobs |-> 0]

\* kt_for: pthread_create of the next worker.
Create ==
    /\ caller.created < n_threads
    /\ pc' = [pc EXCEPT ![caller.created] = "own"]
    /\ caller' = [caller EXCEPT !.created = @ + 1]
    /\ UNCHANGED <<w, job, scan, min, calls>>

\* Mutant: the caller does not wait for the last worker.
JoinUnwaited ==
    /\ caller.created = n_threads
    /\ caller.joined < n_threads
    /\ caller.joined < n_threads - 1 => pc[caller.joined] = "done"
    /\ caller' = [caller EXCEPT !.joined = @ + 1]
    /\ UNCHANGED <<w, pc, job, scan, min, calls>>

\* kt_for: pthread_join of the next worker, once all are created.
Join ==
    /\ caller.created = n_threads
    /\ caller.joined < n_threads
    /\ pc[caller.joined] = "done"
    /\ caller' = [caller EXCEPT !.joined = @ + 1]
    /\ UNCHANGED <<w, pc, job, scan, min, calls>>

\* ktf_worker: fetch and advance the worker's own counter.
TakeOwn(t) ==
    /\ pc[t] = "own"
    /\ w' = [w EXCEPT ![t] = @ + n_threads]
    /\ job' = [job EXCEPT ![t] = w[t]]
    /\ pc' = [pc EXCEPT ![t] = IF w[t] >= n THEN "scan" ELSE "call_own"]
    /\ UNCHANGED <<scan, min, caller, calls>>

\* func(data, i, tid) for the worker's own or a stolen index.
Call(t) ==
    /\ pc[t] \in {"call_own", "call_stolen"}
    /\ calls' = [calls EXCEPT ![job[t]] = @ + 1]
    /\ pc' = [pc EXCEPT ![t] = IF @ = "call_own" THEN "own" ELSE "scan"]
    /\ UNCHANGED <<w, job, scan, min, caller>>

\* steal_work: read the next counter and remember the smallest.
Scan(t) ==
    /\ pc[t] = "scan"
    /\ scan[t] < n_threads
    /\ min' = IF ~min[t].seen \/ min[t].value > w[scan[t]]
                THEN [min EXCEPT ![t] = [seen |-> TRUE, value |-> w[scan[t]],
                                         worker |-> scan[t]]]
                ELSE min
    /\ scan' = [scan EXCEPT ![t] = @ + 1]
    /\ UNCHANGED <<w, pc, job, caller, calls>>

\* Mutant: the index seen by the scan is taken, not the one fetched.
StealSeen(t) ==
    /\ pc[t] = "scan"
    /\ scan[t] = n_threads
    /\ w' = [w EXCEPT ![min[t].worker] = @ + n_threads]
    /\ job' = [job EXCEPT ![t] = min[t].value]
    /\ pc' = [pc EXCEPT ![t] = IF min[t].value >= n THEN "done" ELSE "call_stolen"]
    /\ scan' = [scan EXCEPT ![t] = 0]
    /\ min' = [min EXCEPT ![t] = NoMin]
    /\ UNCHANGED <<caller, calls>>

\* Mutant: a thief that finds nothing looks again instead of giving up.
StealAgain(t) ==
    /\ pc[t] = "scan"
    /\ scan[t] = n_threads
    /\ IF w[min[t].worker] >= n
         THEN UNCHANGED <<w, job, pc>>
         ELSE /\ w' = [w EXCEPT ![min[t].worker] = @ + n_threads]
              /\ job' = [job EXCEPT ![t] = w[min[t].worker]]
              /\ pc' = [pc EXCEPT ![t] = "call_stolen"]
    /\ scan' = [scan EXCEPT ![t] = 0]
    /\ min' = [min EXCEPT ![t] = NoMin]
    /\ UNCHANGED <<caller, calls>>

\* steal_work: fetch and advance the counter chosen by the scan, which may have
\* moved since; the worker ends when nothing was left there.
Steal(t) ==
    /\ pc[t] = "scan"
    /\ scan[t] = n_threads
    /\ w' = [w EXCEPT ![min[t].worker] = @ + n_threads]
    /\ job' = [job EXCEPT ![t] = w[min[t].worker]]
    /\ pc' = [pc EXCEPT ![t] =
                  IF w[min[t].worker] >= n THEN "done" ELSE "call_stolen"]
    /\ scan' = [scan EXCEPT ![t] = 0]
    /\ min' = [min EXCEPT ![t] = NoMin]
    /\ UNCHANGED <<caller, calls>>

Worker(t) == TakeOwn(t) \/ Call(t) \/ Scan(t) \/ Steal(t)

\* kt_for has returned.
Returned == caller.joined = n_threads

Done == Returned /\ UNCHANGED vars

Next == Create \/ Join \/ (\E t \in Workers : Worker(t)) \/ Done

\* The operating system runs every thread that can run.
Fairness == /\ WF_vars(Create \/ Join)
            /\ \A t \in Workers : WF_vars(Worker(t))

Spec == Init /\ [][Next]_vars /\ Fairness

-----------------------------------------------------------------------------
PCs == {"none", "own", "call_own", "scan", "call_stolen", "done"}

\* A worker's counter stays in its residue class.
OwnClass == \A t \in Workers : w[t] % n_threads = t

\* The counters stay in their workers' residue classes, a job that is called is
\* a valid index, and a completed scan has chosen a worker.
TypeOK ==
    /\ w \in [Workers -> Nat]
    /\ OwnClass
    /\ pc \in [Workers -> PCs]
    /\ job \in [Workers -> Nat]
    /\ \A t \in Workers : pc[t] \in {"call_own", "call_stolen"} => job[t] \in Jobs
    /\ scan \in [Workers -> 0..n_threads]
    /\ min \in [Workers -> [seen : BOOLEAN, value : Nat, worker : Workers]]
    /\ \A t \in Workers : min[t].seen <=> scan[t] > 0
    /\ caller \in [created : 0..n_threads, joined : 0..n_threads]
    /\ calls \in [Jobs -> Nat]

\* No index is given out twice, however fetches and scans interleave: func never
\* runs for one index in two workers at the same time, nor again when it has been
\* called (steal_work, ktf_worker).
AtMostOnce ==
    \A t \in Workers : pc[t] \in {"call_own", "call_stolen"} =>
        /\ calls[job[t]] = 0
        /\ \A u \in Workers \ {t} :
               pc[u] \in {"call_own", "call_stolen"} => job[u] # job[t]

\* When kt_for returns, func has been called for every index, although a thief
\* may give up while another worker still has indexes left (steal_work).
AllCalled == Returned => \A i \in Jobs : calls[i] = 1

\* kt_for returns: stealing never runs in circles.
Terminates == <>Returned
=============================================================================
