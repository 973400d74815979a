----------------------------- MODULE ThreadPool -----------------------------
(***************************************************************************)
(* The enclave's worker pool (Enclave/ThreadPool.cpp).                     *)
(*                                                                         *)
(* Thread 0 is the thread that entered the enclave; worker w is the thread *)
(* whose g_thread_id is w.  Everything between pthread_mutex_lock and the  *)
(* matching unlock, or the pthread_cond_wait that releases the mutex, is   *)
(* one action: all it touches is guarded by that worker's mutex.  A thread *)
(* blocked in pthread_cond_wait has a control point ending in "_wait"; a   *)
(* signal, or a spurious wake-up, moves it back to the control point that  *)
(* takes the mutex again and evaluates the loop's condition.               *)
(***************************************************************************)
EXTENDS Naturals, FiniteSets

CONSTANTS
  N,          \* the largest number of threads ever requested
  Jobs,       \* what a dispatched function and argument amount to
  Throwing,   \* the jobs whose function throws
  NoJob       \* the null function and argument of a new worker

ASSUME NAssumption == N \in Nat \ {0}
ASSUME JobsAssumption == Throwing \subseteq Jobs /\ NoJob \notin Jobs

Thread == 0 .. N - 1
Worker == 1 .. N - 1

VARIABLES
  count,      \* the global count; 0 when there is no pool
  state,      \* Worker::state
  launched,   \* Worker::launched
  sync,       \* how many of mutex, work, done are constructed, in that order
  job,        \* Worker::function and ::argument
  error,      \* Worker::error
  switches,   \* Worker::switches
  oswap,      \* the thread-local OSWAP_COUNTER of every thread
  thrown,     \* an exception is propagating in the thread
  pc,         \* the control point of every thread
  target      \* the worker that a thread's current pool call is about

poolVars == <<count, state, launched, sync, job, error, switches>>
vars == <<poolVars, oswap, thrown, pc, target>>

State == {"Starting", "Idle", "Pending", "Working", "Stopping"}

\* A blocked thread's control points, and the one at which it re-evaluates the
\* condition of its wait loop.
Waiting == {"await_wait", "join_wait", "stop_wait", "work_wait"}

Recheck(l) == CASE l = "await_wait" -> "await"
                [] l = "join_wait" -> "join"
                [] l = "stop_wait" -> "stop"
                [] l = "work_wait" -> "work"

Label == Waiting \cup {"await", "join", "stop", "work", "closed", "create",
                       "run", "reap", "free", "none", "started", "exited"}

\* Outside the life of the workers array its fields have their initializers.
Init ==
  /\ count = 0
  /\ state = [w \in Worker |-> "Starting"]
  /\ launched = [w \in Worker |-> FALSE]
  /\ sync = [w \in Worker |-> 0]
  /\ job = [w \in Worker |-> NoJob]
  /\ error = [w \in Worker |-> FALSE]
  /\ switches = [w \in Worker |-> 0]
  /\ oswap = [t \in Thread |-> 0]
  /\ thrown = [t \in Thread |-> FALSE]
  /\ pc = [t \in Thread |-> IF t = 0 THEN "closed" ELSE "none"]
  /\ target = [t \in Thread |-> 0]

-----------------------------------------------------------------------------
(* Condition variables.                                                     *)

Busy(w) == state[w] \in {"Pending", "Working"}

\* Threads blocked on the condition variable `done' of worker w.
DoneWaiters(w) ==
  {t \in Thread : pc[t] \in {"await_wait", "join_wait", "stop_wait"}
                    /\ target[t] = w}

\* Mutant: the worker does not signal `done'.
SignalDoneOmitted(w, p) == {p}

\* The control points after pthread_cond_signal(&w.done) wakes at most one
\* waiter, p being the control points the signalling step leads to otherwise.
SignalDone(w, p) ==
  IF DoneWaiters(w) = {} THEN {p}
  ELSE {[p EXCEPT ![t] = Recheck(pc[t])] : t \in DoneWaiters(w)}

\* Mutant: `work' is not signalled.
SignalWorkOmitted(w, p) == p

\* The same for `work', on which only the worker itself ever waits.
SignalWork(w, p) ==
  IF pc[w] = "work_wait" THEN [p EXCEPT ![w] = "work"] ELSE p

SpuriousWakeup(t) ==
  /\ pc[t] \in Waiting
  /\ pc' = [pc EXCEPT ![t] = Recheck(@)]
  /\ UNCHANGED <<poolVars, oswap, thrown, target>>

-----------------------------------------------------------------------------
(* threadpool_init: the caller is thread 0.                                 *)

\* The array is allocated and its synchronization objects are initialized
\* before any thread exists; `made' says how many of each worker's objects
\* could be.  A pool of one thread has no workers.
Allocate(n, made) ==
  /\ pc[0] = "closed"
  /\ count = 0
  /\ count' = n
  /\ sync' = made
  /\ target' = [target EXCEPT ![0] = IF n = 1 THEN 0 ELSE 1]
  /\ pc' = [pc EXCEPT ![0] = IF n = 1 THEN "run"
                             ELSE IF \A w \in Worker : w < n => made[w] = 3
                                  THEN "create" ELSE "stop"]
  /\ UNCHANGED <<state, launched, job, error, switches, oswap, thrown>>

\* Initialization stops at the first object that fails.
Made(n, i, k) == [w \in Worker |-> IF w >= n THEN 0
                                   ELSE IF w < i THEN 3
                                   ELSE IF w = i THEN k ELSE 0]

AllocateOK == \E n \in 1 .. N : Allocate(n, Made(n, n, 0))
AllocateFails ==
  \E n \in 2 .. N : \E i \in 1 .. n - 1, k \in 0 .. 2 : Allocate(n, Made(n, i, k))

CreateOK ==
  /\ pc[0] = "create"
  /\ launched' = [launched EXCEPT ![target[0]] = TRUE]
  /\ pc' = [pc EXCEPT ![0] = "await", ![target[0]] = "started"]
  /\ UNCHANGED <<count, state, sync, job, error, switches, oswap, thrown, target>>

\* pthread_create fails: the workers made so far are shut down.
CreateFails ==
  /\ pc[0] = "create"
  /\ pc' = [pc EXCEPT ![0] = "stop"]
  /\ target' = [target EXCEPT ![0] = 1]
  /\ UNCHANGED <<poolVars, oswap, thrown>>

AwaitStart ==
  LET i == target[0] IN
  /\ pc[0] = "await"
  /\ IF state[i] = "Starting"
     THEN pc' = [pc EXCEPT ![0] = "await_wait"] /\ UNCHANGED target
     ELSE /\ pc' = [pc EXCEPT ![0] = IF i + 1 < count THEN "create" ELSE "run"]
          /\ target' = [target EXCEPT ![0] = IF i + 1 < count THEN i + 1 ELSE 0]
  /\ UNCHANGED <<poolVars, oswap, thrown>>

-----------------------------------------------------------------------------
(* Loop: the body of a worker thread.                                       *)

\* The first critical section ends in the wait for work.
Start(w) ==
  /\ pc[w] = "started"
  /\ state' = [state EXCEPT ![w] = "Idle"]
  /\ pc' \in SignalDone(w, [pc EXCEPT ![w] = "work_wait"])
  /\ UNCHANGED <<count, launched, sync, job, error, switches, oswap, thrown, target>>

\* Woken: wait again, leave the loop, or take the job.
TakeWork(w) ==
  /\ pc[w] = "work"
  /\ \/ /\ state[w] = "Idle"
        /\ pc' = [pc EXCEPT ![w] = "work_wait"]
        /\ UNCHANGED <<state, oswap>>
     \/ /\ state[w] = "Stopping"
        /\ pc' = [pc EXCEPT ![w] = "exited"]
        /\ UNCHANGED <<state, oswap>>
     \/ /\ state[w] \notin {"Idle", "Stopping"}
        /\ state' = [state EXCEPT ![w] = "Working"]
        /\ oswap' = [oswap EXCEPT ![w] = 0]
        /\ pc' = [pc EXCEPT ![w] = "run"]
  /\ UNCHANGED <<count, launched, sync, job, error, switches, thrown, target>>

\* The job has returned, or thrown and been caught; its outcome is published
\* and the worker goes back to waiting.
Finish(w, failed) ==
  /\ pc[w] = "run"
  /\ state' = [state EXCEPT ![w] = "Idle"]
  /\ error' = [error EXCEPT ![w] = failed]
  /\ switches' = [switches EXCEPT ![w] = oswap[w]]
  /\ oswap' = [oswap EXCEPT ![w] = 0]
  /\ thrown' = [thrown EXCEPT ![w] = FALSE]
  /\ pc' \in SignalDone(w, [pc EXCEPT ![w] = "work_wait"])
  /\ UNCHANGED <<count, launched, sync, job, target>>

-----------------------------------------------------------------------------
(* threadpool_dispatch and threadpool_join, called by a running thread t.   *)

\* Mutant: a busy worker is not rejected.
DispatchToBusy(t, w, j) ==
  /\ pc[t] = "run"
  /\ w \in Worker /\ w < count
  /\ job' = [job EXCEPT ![w] = j]
  /\ error' = [error EXCEPT ![w] = FALSE]
  /\ state' = [state EXCEPT ![w] = "Pending"]
  /\ pc' = SignalWork(w, pc)
  /\ UNCHANGED <<count, launched, sync, switches, oswap, target>>

\* Get rejects 0 and anything that is not in the pool; a busy worker is
\* rejected too.  Both leave the pool as it was.  What becomes of an exception
\* that is propagating in t is the caller's business, here and in JoinCall.
Dispatch(t, w, j) ==
  /\ pc[t] = "run"
  /\ w \in Worker /\ w < count
  /\ state[w] = "Idle"
  /\ job' = [job EXCEPT ![w] = j]
  /\ error' = [error EXCEPT ![w] = FALSE]
  /\ state' = [state EXCEPT ![w] = "Pending"]
  /\ pc' = SignalWork(w, pc)
  /\ UNCHANGED <<count, launched, sync, switches, oswap, target>>

JoinCall(t, w) ==
  /\ pc[t] = "run"
  /\ w \in Worker /\ w < count
  /\ pc' = [pc EXCEPT ![t] = "join"]
  /\ target' = [target EXCEPT ![t] = w]
  /\ UNCHANGED <<poolVars, oswap>>

JoinWait(t) ==
  /\ pc[t] = "join"
  /\ Busy(target[t])
  /\ pc' = [pc EXCEPT ![t] = "join_wait"]
  /\ UNCHANGED <<poolVars, oswap, thrown, target>>

\* Mutant: a join that throws skips the merge of the switch counter.
JoinReturnThrowsFirst(t) ==
  LET w == target[t] IN
  /\ pc[t] = "join"
  /\ ~ Busy(w)
  /\ error' = [error EXCEPT ![w] = FALSE]
  /\ thrown' = [thrown EXCEPT ![t] = @ \/ error[w]]
  /\ oswap' = [oswap EXCEPT ![t] = IF error[w] THEN @ ELSE @ + switches[w]]
  /\ switches' = [switches EXCEPT ![w] = 0]
  /\ pc' = [pc EXCEPT ![t] = "run"]
  /\ target' = [target EXCEPT ![t] = 0]
  /\ UNCHANGED <<count, state, launched, sync, job>>

\* The join returns, or throws when error[target[t]]; an exception that t is
\* already unwinding for outlives the one of the join.
JoinReturn(t) ==
  LET w == target[t] IN
  /\ pc[t] = "join"
  /\ ~ Busy(w)
  /\ error' = [error EXCEPT ![w] = FALSE]
  /\ thrown' = [thrown EXCEPT ![t] = @ \/ error[w]]
  /\ oswap' = [oswap EXCEPT ![t] = @ + switches[w]]
  /\ switches' = [switches EXCEPT ![w] = 0]
  /\ pc' = [pc EXCEPT ![t] = "run"]
  /\ target' = [target EXCEPT ![t] = 0]
  /\ UNCHANGED <<count, state, launched, sync, job>>

-----------------------------------------------------------------------------
(* threadpool_shutdown: the caller is thread 0.                             *)

\* After worker i, the next one, or the release of the array.
NextStop(p) ==
  LET i == target[0] IN
  /\ pc' = [p EXCEPT ![0] = IF i + 1 < count THEN "stop" ELSE "free"]
  /\ target' = [target EXCEPT ![0] = IF i + 1 < count THEN i + 1 ELSE 0]

CloseCall ==
  /\ pc[0] = "run"
  /\ pc' = [pc EXCEPT ![0] = IF count > 1 THEN "stop" ELSE "free"]
  /\ target' = [target EXCEPT ![0] = IF count > 1 THEN 1 ELSE 0]
  /\ UNCHANGED <<poolVars, oswap, thrown>>

\* A worker that was never launched only loses its synchronization objects.
StopUnlaunched ==
  /\ pc[0] = "stop"
  /\ ~ launched[target[0]]
  /\ sync' = [sync EXCEPT ![target[0]] = 0]
  /\ NextStop(pc)
  /\ UNCHANGED <<count, state, launched, job, error, switches, oswap, thrown>>

StopWait ==
  /\ pc[0] = "stop"
  /\ launched[target[0]]
  /\ state[target[0]] = "Starting" \/ Busy(target[0])
  /\ pc' = [pc EXCEPT ![0] = "stop_wait"]
  /\ UNCHANGED <<poolVars, oswap, thrown, target>>

Stop ==
  LET i == target[0] IN
  /\ pc[0] = "stop"
  /\ launched[i]
  /\ state[i] # "Starting" /\ ~ Busy(i)
  /\ state' = [state EXCEPT ![i] = "Stopping"]
  /\ pc' = SignalWork(i, [pc EXCEPT ![0] = "reap"])
  /\ UNCHANGED <<count, launched, sync, job, error, switches, oswap, thrown, target>>

\* Mutant: the worker is not joined before its objects are destroyed.
ReapDetached ==
  LET i == target[0] IN
  /\ pc[0] = "reap"
  /\ sync' = [sync EXCEPT ![i] = 0]
  /\ NextStop(pc)
  /\ UNCHANGED <<count, state, launched, job, error, switches, oswap, thrown>>

\* pthread_join, then the synchronization objects are destroyed.
Reap ==
  LET i == target[0] IN
  /\ pc[0] = "reap"
  /\ pc[i] = "exited"
  /\ sync' = [sync EXCEPT ![i] = 0]
  /\ NextStop([pc EXCEPT ![i] = "none"])
  /\ UNCHANGED <<count, state, launched, job, error, switches, oswap, thrown>>

Free ==
  /\ pc[0] = "free"
  /\ pc' = [pc EXCEPT ![0] = "closed"]
  /\ count' = 0
  /\ state' = [w \in Worker |-> "Starting"]
  /\ launched' = [w \in Worker |-> FALSE]
  /\ sync' = [w \in Worker |-> 0]
  /\ job' = [w \in Worker |-> NoJob]
  /\ error' = [w \in Worker |-> FALSE]
  /\ switches' = [w \in Worker |-> 0]
  /\ UNCHANGED <<oswap, thrown, target>>

-----------------------------------------------------------------------------
(* The pool with thread 0 as its only client, which dispatches and joins    *)
(* any worker in any order, catches what a join throws, and closes the pool *)
(* whenever it runs.                                                        *)

InitSteps == AllocateOK \/ AllocateFails \/ CreateOK \/ CreateFails \/ AwaitStart
ShutdownSteps == StopUnlaunched \/ StopWait \/ Stop \/ Reap \/ Free
Loop(w) == Start(w) \/ TakeWork(w)
RunJob(w) ==
  \/ job[w] \in Throwing /\ Finish(w, TRUE)
  \/ job[w] \notin Throwing /\ Finish(w, FALSE)
Caught == thrown' = [thrown EXCEPT ![0] = FALSE]

ClientCall ==
  \/ \E w \in Worker : JoinCall(0, w) /\ Caught
  \/ \E w \in Worker, j \in Jobs : Dispatch(0, w, j) /\ Caught
  \/ CloseCall

JoinSteps(t) == JoinWait(t) \/ JoinReturn(t)

Next ==
  \/ InitSteps
  \/ ClientCall
  \/ JoinSteps(0)
  \/ ShutdownSteps
  \/ \E w \in Worker : Loop(w) \/ RunJob(w)
  \/ \E t \in Thread : SpuriousWakeup(t)

\* Every thread that can run eventually does: the threads are preemptively
\* scheduled and a job is a terminating computation.  What the client asks for
\* next is its own choice, and nobody owes a spurious wake-up.
Fairness ==
  /\ WF_vars(CreateOK \/ CreateFails \/ AwaitStart)
  /\ WF_vars(ShutdownSteps)
  /\ WF_vars(JoinSteps(0))
  /\ \A w \in Worker : WF_vars(Loop(w)) /\ WF_vars(RunJob(w))

Spec == Init /\ [][Next]_vars /\ Fairness

-----------------------------------------------------------------------------
(* Properties.                                                              *)

\* Type invariant of the pool and of its threads' control points.
TypeOK ==
  /\ count \in Nat /\ count <= N
  /\ state \in [Worker -> State]
  /\ launched \in [Worker -> BOOLEAN]
  /\ sync \in [Worker -> 0 .. 3]
  /\ job \in [Worker -> Jobs \cup {NoJob}]
  /\ error \in [Worker -> BOOLEAN]
  /\ switches \in [Worker -> Nat]
  /\ oswap \in [Thread -> Nat]
  /\ thrown \in [Thread -> BOOLEAN]
  /\ pc \in [Thread -> Label]
  /\ target \in [Thread -> Thread]

\* No lost wake-up: a thread blocked on a condition variable is one whose
\* wait condition still holds, so the signal that ends it is yet to come.
NoLostWakeup ==
  /\ \A w \in Worker : pc[w] = "work_wait" => state[w] = "Idle"
  /\ \A t \in Thread :
       /\ pc[t] = "join_wait" => Busy(target[t])
       /\ pc[t] = "await_wait" => state[target[t]] = "Starting"
       /\ pc[t] = "stop_wait" => state[target[t]] = "Starting" \/ Busy(target[t])

\* A thread that exists may lock its mutex and use its condition variables at
\* any moment, so they outlive it; so do those of a worker some thread is
\* calling the pool about, and the array outlives all of them.
NoUseAfterDestroy ==
  /\ \A w \in Worker : pc[w] # "none" => w < count /\ sync[w] = 3
  /\ \A t \in Thread :
       pc[t] \in {"await", "await_wait", "join", "join_wait", "stop_wait", "reap"}
         => target[t] \in Worker /\ target[t] < count /\ sync[target[t]] = 3

\* A call of the pool by thread 0 ends: the pool is made or given up, a join
\* returns, and the shutdown finishes, whatever the workers are doing.
CallsEnd ==
  /\ pc[0] = "create" ~> pc[0] \in {"run", "closed"}
  /\ pc[0] = "join" ~> pc[0] = "run"
  /\ pc[0] = "stop" ~> pc[0] = "closed"

\* The pool as its client sees it: see WorkerPool.
Promise == INSTANCE WorkerPool WITH
  open <- pc[0] \in {"run", "join", "join_wait"},
  slot <- [w \in Worker |-> IF Busy(w) THEN "queued"
                            ELSE IF error[w] THEN "failed" ELSE "idle"],
  caught <- thrown[0]

\* The pool keeps its promise to a single client: a dispatched job runs once,
\* its join waits for it and throws exactly when the job threw, and closing
\* the pool lets every dispatched job finish.
KeepsPromise == Promise!Spec

=============================================================================
