----------------------------- MODULE KtPipeline -----------------------------
(***************************************************************************)
(* kt_pipeline of kthread.c: worker threads carry data through the steps   *)
(* of a pipeline; each worker takes its datum from step to step, and two   *)
(* workers never do the same step at the same time.  The fields step and   *)
(* running are read and written under the mutex, so that what happens      *)
(* between lock and unlock, or lock and wait, is one step here.            *)
(*                                                                         *)
(* func is the caller's: its step 0 hands out the numbers 1, 2, ... Items  *)
(* and then NULL; a middle step may answer NULL too, which ends the worker. *)
(***************************************************************************)
EXTENDS Integers, Sequences, FiniteSets

CONSTANTS n_threads,   \* number of workers (at least 1, see kt_pipeline)
          n_steps,     \* number of steps
          Items        \* number of data the first step hands out

ASSUME ThreadsAssumption == n_threads \in Nat \ {0}
ASSUME StepsAssumption == n_steps \in Nat \ {0}
ASSUME ItemsAssumption == Items \in Nat

VARIABLES step, running, data,  \* the fields of each worker; data 0 is NULL
          pc,                   \* where each worker is
          caller,               \* kt_pipeline: workers created, then joined
          given,                \* func: how many data step 0 has handed out
          done,                 \* history: the data each step has worked on, in order
          rejected              \* history: the data a middle step answered NULL for

vars == <<step, running, data, pc, caller, given, done, rejected>>

Workers == 0..(n_threads - 1)
Steps == 0..(n_steps - 1)

Init == /\ step = [w \in Workers |-> 0]
        /\ running = [w \in Workers |-> FALSE]
        /\ data = [w \in Workers |-> 0]
        /\ pc = [w \in Workers |-> "none"]
        /\ caller = [created |-> 0, joined |-> 0]
        /\ given = 0
        /\ done = [i \in Steps |-> <<>>]
        /\ rejected = {}

\* kt_pipeline: pthread_create of the next worker.
Create == /\ caller.created < n_threads
          /\ pc' = [pc EXCEPT ![caller.created] = "loop"]
          /\ caller' = [caller EXCEPT !.created = @ + 1]
          /\ UNCHANGED <<step, running, data, given, done, rejected>>

\* Mutant: the last worker is not waited for.
JoinUnwaited ==
    /\ caller.created = n_threads
    /\ caller.joined < n_threads
    /\ caller.joined < n_threads - 1 => pc[caller.joined] = "exit"
    /\ caller' = [caller EXCEPT !.joined = @ + 1]
    /\ UNCHANGED <<step, running, data, pc, given, done, rejected>>

\* kt_pipeline: pthread_join of the next worker.
Join == /\ caller.created = n_threads
        /\ caller.joined < n_threads
        /\ pc[caller.joined] = "exit"
        /\ caller' = [caller EXCEPT !.joined = @ + 1]
        /\ UNCHANGED <<step, running, data, pc, given, done, rejected>>

\* Another worker does the step w is at.
Occupied(w) == \E v \in Workers \ {w} : running[v] /\ step[v] = step[w]

\* Mutant: a worker that has been woken does not test again.
EnterOnce(w) ==
    /\ pc[w] \in {"loop", "woken"}
    /\ step[w] < n_steps
    /\ IF pc[w] = "loop" /\ Occupied(w)
         THEN pc' = [pc EXCEPT ![w] = "wait"] /\ UNCHANGED running
         ELSE /\ pc' = [pc EXCEPT ![w] = "work"]
              /\ running' = [running EXCEPT ![w] = TRUE]
    /\ UNCHANGED <<step, data, caller, given, done, rejected>>

\* ktp_worker: claim the step under the mutex, or wait on the condition variable.
Enter(w) ==
    /\ pc[w] \in {"loop", "woken"}
    /\ step[w] < n_steps
    /\ IF Occupied(w)
         THEN pc' = [pc EXCEPT ![w] = "wait"] /\ UNCHANGED running
         ELSE /\ pc' = [pc EXCEPT ![w] = "work"]
              /\ running' = [running EXCEPT ![w] = TRUE]
    /\ UNCHANGED <<step, data, caller, given, done, rejected>>

\* pthread_cond_wait may return without a signal.
WakeSpuriously(w) ==
    /\ pc[w] = "wait"
    /\ pc' = [pc EXCEPT ![w] = "woken"]
    /\ UNCHANGED <<step, running, data, caller, given, done, rejected>>

\* What func may answer for a step: the first one hands out the data, a middle one
\* may reject its datum.
Answers(w) == IF step[w] = 0 THEN {IF given < Items THEN given + 1 ELSE 0}
              ELSE IF step[w] < n_steps - 1 THEN {data[w], 0}
              ELSE {data[w]}

\* p->func works on the step; it needs no lock, the step is the worker's own.
Work(w) ==
    /\ pc[w] = "work"
    /\ data' \in {[data EXCEPT ![w] = a] : a \in Answers(w)}
    /\ given' = IF step[w] = 0 /\ given < Items THEN given + 1 ELSE given
    /\ done' = IF step[w] = 0 /\ given = Items THEN done
               ELSE [done EXCEPT ![step[w]] =
                        Append(@, IF step[w] = 0 THEN data'[w] ELSE data[w])]
    /\ rejected' = IF step[w] > 0 /\ data'[w] = 0 THEN rejected \cup {data[w]}
                   ELSE rejected
    /\ pc' = [pc EXCEPT ![w] = "update"]
    /\ UNCHANGED <<step, running, caller>>

\* Mutant: a worker ends when its datum is through.
NextStepOnce(w) == IF data[w] # 0 THEN step[w] + 1 ELSE n_steps

\* The step after this one: around from the last one to the first, or the end when
\* func has answered NULL.
NextStep(w) == IF step[w] = n_steps - 1 \/ data[w] # 0
                 THEN (step[w] + 1) % n_steps
                 ELSE n_steps

\* The waiting workers that pthread_cond_broadcast wakes.
Broadcast(now) == [v \in Workers |-> IF now[v] = "wait" THEN "woken" ELSE now[v]]

\* Mutant: the others are told of the last step only.
UpdateQuiet(w) ==
    /\ pc[w] = "update"
    /\ step' = [step EXCEPT ![w] = NextStep(w)]
    /\ running' = [running EXCEPT ![w] = FALSE]
    /\ pc' = IF step[w] = n_steps - 1 THEN Broadcast([pc EXCEPT ![w] = "loop"])
             ELSE [pc EXCEPT ![w] = "loop"]
    /\ UNCHANGED <<data, caller, given, done, rejected>>

\* ktp_worker: go on to the next step and wake the workers that wait.
Update(w) ==
    /\ pc[w] = "update"
    /\ step' = [step EXCEPT ![w] = NextStep(w)]
    /\ running' = [running EXCEPT ![w] = FALSE]
    /\ pc' = Broadcast([pc EXCEPT ![w] = "loop"])
    /\ UNCHANGED <<data, caller, given, done, rejected>>

Exit(w) == /\ pc[w] = "loop"
           /\ step[w] = n_steps
           /\ pc' = [pc EXCEPT ![w] = "exit"]
           /\ UNCHANGED <<step, running, data, caller, given, done, rejected>>

Worker(w) == Enter(w) \/ Work(w) \/ Update(w) \/ Exit(w)

\* kt_pipeline has returned.
Returned == caller.joined = n_threads
Done == Returned /\ UNCHANGED vars

Next == Create \/ Join \/ Done \/ \E w \in Workers : Worker(w) \/ WakeSpuriously(w)

\* Threads that can run do run, and func returns; nothing is owed to a worker that
\* waits for a signal.
Spec == /\ Init /\ [][Next]_vars
        /\ WF_vars(Create \/ Join)
        /\ \A w \in Workers : WF_vars(Worker(w))

-----------------------------------------------------------------------------
\* A worker runs exactly while it works on a step, and every step but the first has
\* a datum to work on.
TypeOK ==
    /\ step \in [Workers -> 0..n_steps]
    /\ running \in [Workers -> BOOLEAN]
    /\ data \in [Workers -> 0..Items]
    /\ pc \in [Workers -> {"none", "loop", "wait", "woken", "work", "update", "exit"}]
    /\ caller \in [created : 0..n_threads, joined : 0..n_threads]
    /\ given \in 0..Items
    /\ rejected \subseteq 1..Items
    /\ \A w \in Workers : running[w] <=> pc[w] \in {"work", "update"}
    /\ \A w \in Workers : pc[w] = "work" /\ step[w] > 0 => data[w] # 0

\* No two workers do the same step at the same time (ktp_worker: "test whether
\* another worker is doing the same step"): func needs no lock of its own for the
\* data of one step.
StepExclusive ==
    \A v, w \in Workers : v # w /\ running[v] /\ running[w] => step[v] # step[w]

\* When kt_pipeline returns and no datum was rejected, every datum has been through
\* every step (kt_pipeline).
AllThrough ==
    Returned /\ rejected = {} =>
        \A i \in Steps : \A d \in 1..Items : \E a \in DOMAIN done[i] : done[i][a] = d

\* A rejected datum costs a worker, but while one is left all the data are read
\* (ktp_worker).
ReadAll == Returned /\ Cardinality(rejected) < n_threads => given = Items

\* kt_pipeline returns: no wake-up is lost, and nobody waits for a step that nobody
\* does (ktp_worker).
Terminates == <>Returned
=============================================================================
