------------------------------ MODULE ForkTree ------------------------------
(***************************************************************************)
(* Recursive fork and join over the worker pool: supple_parallel::Fork and *)
(* Pool of Enclave/ThreadPool.cpp, driven the way RunPlanGroups and        *)
(* DecWithBackend (SubSample_v2/FFOS_FR) drive them.                       *)
(*                                                                         *)
(* A thread t owns a range t .. end[t] - 1 of threads, its budget.  Fork   *)
(* splits the range at c: the thread goes on with t .. c - 1 and worker c  *)
(* is given c .. end[t] - 1, which its job, the upper end, stands for.     *)
(* When the left branch ends, normally or by an exception, the thread      *)
(* joins c and has the whole range again.  What a body computes is left    *)
(* out but for the oblivious switches it counts and whether it throws.     *)
(***************************************************************************)
EXTENDS ThreadPool, FiniteSetsExt

CONSTANTS
  MaxForks,   \* bound: the forks of a behaviour
  MaxSwaps    \* bound: the oblivious switches of a behaviour

ASSUME RangeAssumption == Jobs = 1 .. N /\ Throwing = {}
ASSUME BoundAssumption == MaxForks \in Nat /\ MaxSwaps \in Nat

VARIABLES
  end,        \* the end of the range a thread owns; 0 when it owns none
  threw,      \* a body has thrown since the pool was opened
  forks,      \* forks so far
  swaps       \* oblivious switches so far, of all threads

treeVars == <<end, threw, forks, swaps>>
tvars == <<vars, treeVars>>

TreeInit ==
  /\ Init
  /\ end = [t \in Thread |-> 0]
  /\ threw = FALSE
  /\ forks = 0
  /\ swaps = 0

-----------------------------------------------------------------------------

\* The end of the range that t's whole body was given.
Limit(t) == IF t = 0 THEN count ELSE job[t]

\* t is running its body and no exception is propagating in it.
InBody(t) == pc[t] = "run" /\ ~ thrown[t]

\* Pool's constructor; thread 0's range is the whole pool.
OpenPool ==
  /\ AllocateOK \/ AllocateFails
  /\ end' = [end EXCEPT ![0] = count']
  /\ threw' = FALSE
  /\ UNCHANGED <<forks, swaps>>

\* What the constructor throws is handled by the caller, which starts anew.
PoolSteps ==
  /\ CreateOK \/ CreateFails \/ AwaitStart \/ ShutdownSteps
  /\ end' = [end EXCEPT ![0] = IF count' = 0 THEN 0 ELSE @]
  /\ UNCHANGED <<threw, forks, swaps>>

\* Mutant: the right branch is given the whole rest of the thread's range
\* instead of the rest of the range in force.
ForkWithWholeRest(t, c) ==
  /\ InBody(t)
  /\ forks < MaxForks
  /\ c \in t + 1 .. end[t] - 1
  /\ Dispatch(t, c, Limit(t))
  /\ end' = [end EXCEPT ![t] = c, ![c] = Limit(t)]
  /\ forks' = forks + 1
  /\ UNCHANGED <<thrown, threw, swaps>>

\* Fork: the right branch goes to worker c.  ThreadShare leaves each side at
\* least one thread.
Fork(t, c) ==
  /\ InBody(t)
  /\ forks < MaxForks
  /\ c \in t + 1 .. end[t] - 1
  /\ Dispatch(t, c, end[t])
  /\ end' = [end EXCEPT ![t] = c, ![c] = end[t]]
  /\ forks' = forks + 1
  /\ UNCHANGED <<thrown, threw, swaps>>

\* Mutant: the child is not joined when the left branch throws.
LeftEndsUnjoined(t) ==
  /\ end[t] # Limit(t)
  /\ IF thrown[t]
     THEN /\ pc[t] = "run"
          /\ end' = [end EXCEPT ![t] = Limit(t)]
          /\ UNCHANGED <<vars, threw, forks, swaps>>
     ELSE JoinCall(t, end[t]) /\ UNCHANGED <<thrown, treeVars>>

\* The left branch has ended, or is being unwound: join the child.
LeftEnds(t) ==
  /\ end[t] # Limit(t)
  /\ JoinCall(t, end[t])
  /\ UNCHANGED <<thrown, treeVars>>

Join(t) ==
  \/ JoinWait(t) /\ UNCHANGED treeVars
  \/ /\ JoinReturn(t)
     /\ end' = [end EXCEPT ![t] = job[target[t]], ![target[t]] = 0]
     /\ UNCHANGED <<threw, forks, swaps>>

\* An oblivious switch.
Swap(t) ==
  /\ InBody(t)
  /\ swaps < MaxSwaps
  /\ swaps' = swaps + 1
  /\ oswap' = [oswap EXCEPT ![t] = @ + 1]
  /\ UNCHANGED <<poolVars, thrown, pc, target, end, threw, forks>>

Throw(t) ==
  /\ InBody(t)
  /\ thrown' = [thrown EXCEPT ![t] = TRUE]
  /\ threw' = TRUE
  /\ UNCHANGED <<poolVars, oswap, pc, target, end, forks, swaps>>

\* Mutant: an exception in a worker is caught and forgotten.
BodyEndsQuietly(w) ==
  /\ end[w] = Limit(w)
  /\ Finish(w, FALSE)
  /\ UNCHANGED treeVars

\* A worker's body returns, or its exception reaches Loop.
BodyEnds(w) ==
  /\ end[w] = Limit(w)
  /\ Finish(w, thrown[w])
  /\ UNCHANGED treeVars

\* Thread 0 leaves the pool's scope, normally or by an exception.
LeaveScope ==
  /\ end[0] = count
  /\ CloseCall
  /\ UNCHANGED treeVars

\* The exception that Pool's destructor ran for is caught by DecWithBackend.
Catch ==
  /\ pc[0] = "closed"
  /\ thrown[0]
  /\ thrown' = [thrown EXCEPT ![0] = FALSE]
  /\ UNCHANGED <<poolVars, oswap, pc, target, treeVars>>

-----------------------------------------------------------------------------

Branch(t) == LeftEnds(t) \/ Join(t) \/ Swap(t) \/ Throw(t)
               \/ (\E c \in Worker : Fork(t, c))

TreeNext ==
  \/ ~ thrown[0] /\ OpenPool
  \/ PoolSteps
  \/ LeaveScope
  \/ Catch
  \/ \E t \in Thread : Branch(t)
  \/ \E w \in Worker : BodyEnds(w) \/ (Loop(w) /\ UNCHANGED treeVars)
  \/ \E t \in Thread : SpuriousWakeup(t) /\ UNCHANGED treeVars

\* Bodies terminate and threads are scheduled.
TreeFairness ==
  /\ WF_tvars(PoolSteps)
  /\ WF_tvars(LeaveScope \/ Branch(0))
  /\ \A w \in Worker : /\ WF_tvars(Loop(w) /\ UNCHANGED treeVars)
                       /\ WF_tvars(Branch(w) \/ BodyEnds(w))

TreeSpec == TreeInit /\ [][TreeNext]_tvars /\ TreeFairness

-----------------------------------------------------------------------------
(* Properties.                                                              *)

\* Type invariant.
TreeTypeOK ==
  /\ TypeOK
  /\ end \in [Thread -> 0 .. N]
  /\ threw \in BOOLEAN
  /\ forks \in 0 .. MaxForks
  /\ swaps \in 0 .. MaxSwaps

\* Thread ranges belong exclusively to their parent until join
\* (ThreadPool.hpp:15): the ranges of the threads that own one are disjoint
\* and lie in the pool.
RangesExclusive ==
  \A t \in Thread : end[t] # 0 =>
    /\ t < end[t] /\ end[t] <= count
    /\ \A u \in Thread : u \in t + 1 .. end[t] - 1 => end[u] = 0

\* A thread in its body finds every other worker of its range idle: no Fork
\* is ever refused with "Thread pool worker is busy".
NeverBusy ==
  \A t \in Thread : pc[t] = "run" =>
    \A c \in t + 1 .. end[t] - 1 : c < count /\ state[c] = "Idle"

\* A synchronous fork always joins its child, including when either branch
\* throws (ThreadPool.hpp:14): when the pool is being closed no worker runs
\* a body or is about to, so what the forks' lambdas refer to is still alive.
ChildrenJoined ==
  pc[0] \in {"stop", "stop_wait", "reap", "free"} =>
    \A w \in Worker : end[w] = 0 /\ ~ Busy(w) /\ pc[w] # "run"

\* A failure anywhere in the tree is never dropped: until thread 0 leaves the
\* pool's scope some thread is unwinding for it or some unjoined worker holds
\* it, and thread 0 leaves the scope by an exception.
FailureSurfaces ==
  threw =>
    /\ pc[0] \in {"run", "join", "join_wait"} =>
         \/ \E t \in Thread : thrown[t]
         \/ \E w \in Worker : end[w] # 0 /\ error[w]
    /\ pc[0] \in {"stop", "stop_wait", "reap", "free"} => thrown[0]

\* Every oblivious switch is counted once in some thread's counter or in a
\* worker's unjoined result, and at the end all of them in thread 0's.
SwapsConserved ==
  /\ MapThenSumSet(LAMBDA t : oswap[t], Thread)
       + MapThenSumSet(LAMBDA w : switches[w], Worker) = swaps
  /\ pc[0] \in {"stop", "free", "closed"} => oswap[0] = swaps

\* Every pool that is opened is closed again: nested waits never form a cycle.
PoolCloses == pc[0] \in {"run", "create"} ~> pc[0] = "closed"

=============================================================================
