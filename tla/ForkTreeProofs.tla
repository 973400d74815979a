--------------------------- MODULE ForkTreeProofs ---------------------------
(***************************************************************************)
(* Proofs about ThreadPool and ForkTree, for every number of threads.      *)
(* The pool loses no wake-up, touches no object that has been destroyed,   *)
(* and takes no step that WorkerPool does not promise.  On it, the ranges  *)
(* of a fork tree are exclusive, no fork meets a busy worker, every child  *)
(* is joined before its pool is closed, every failure reaches thread 0 and *)
(* every switch is counted once.                                           *)
(***************************************************************************)
EXTENDS ForkTree, SumProofs

Running == {"run", "join", "join_wait"}
Stopping0 == {"stop", "stop_wait", "reap"}

\* What a worker's control point says of its record: its thread exists only
\* while its record and its synchronization objects do, and its state is the
\* one its position in Loop implies.
WorkerInv(w) ==
  /\ pc[w] \in {"none", "started", "work", "work_wait", "exited"} \cup Running
  /\ pc[w] # "none" => w < count /\ launched[w] /\ sync[w] = 3
  /\ pc[w] = "none" => state[w] \in {"Starting", "Stopping"}
  /\ pc[w] = "started" => state[w] = "Starting"
  /\ pc[w] = "work_wait" => state[w] = "Idle"
  /\ pc[w] = "work" => state[w] \in {"Idle", "Pending", "Stopping"}
  /\ pc[w] \in Running => state[w] = "Working"
  /\ pc[w] = "exited" => state[w] = "Stopping"
  /\ ~ launched[w] => pc[w] = "none" /\ state[w] = "Starting"

\* What thread 0's control point says of the pool: how far its creation or
\* its shutdown has come.
MainInv ==
  /\ pc[0] \in {"closed", "create", "await", "await_wait", "free"}
                 \cup Running \cup Stopping0
  /\ pc[0] = "closed" <=> count = 0
  /\ pc[0] = "closed" =>
       \A w \in Worker : ~ launched[w] /\ state[w] = "Starting"
  /\ pc[0] \in {"create", "await", "await_wait"} \cup Stopping0 =>
       target[0] \in Worker /\ target[0] < count
  /\ pc[0] = "create" =>
       \A w \in Worker : /\ w < count => sync[w] = 3
                         /\ launched[w] => w < target[0]
                         /\ w < target[0] => launched[w] /\ pc[w] # "none"
                                               /\ state[w] = "Idle"
  /\ pc[0] \in {"await", "await_wait"} =>
       \A w \in Worker : /\ w < count => sync[w] = 3
                         /\ launched[w] => w <= target[0]
                         /\ w <= target[0] => launched[w] /\ pc[w] # "none"
                         /\ w < target[0] => state[w] = "Idle"
                         /\ w = target[0] => state[w] \in {"Starting", "Idle"}
  /\ pc[0] \in Running =>
       \A w \in Worker : w < count => /\ pc[w] # "none"
                                      /\ state[w] \notin {"Starting", "Stopping"}
  /\ pc[0] \in Stopping0 =>
       \A w \in Worker : w >= target[0] /\ launched[w] /\ w < count => pc[w] # "none"
  /\ pc[0] \in {"stop", "stop_wait"} =>
       \A w \in Worker : w >= target[0] /\ w < count => state[w] # "Stopping"
  /\ pc[0] = "reap" =>
       /\ launched[target[0]] /\ state[target[0]] = "Stopping"
       /\ \A w \in Worker : w > target[0] /\ w < count => state[w] # "Stopping"
  /\ pc[0] = "stop_wait" => launched[target[0]]
  /\ pc[0] \in Stopping0 =>
       \A w \in Worker : w < target[0] => pc[w] = "none"
  /\ pc[0] = "free" => \A w \in Worker : pc[w] = "none"
  /\ pc[0] \in {"join", "join_wait"} => target[0] \in Worker /\ target[0] < count

PoolInv == TypeOK /\ MainInv /\ \A w \in Worker : WorkerInv(w)

\* With thread 0 as the only client, workers never join.
SoleClient == \A w \in Worker : pc[w] \notin {"join", "join_wait"}

\* A blocked thread's wait condition holds.
WaitInv(t) ==
  /\ pc[t] = "join_wait" => Busy(target[t])
  /\ pc[t] = "await_wait" => state[target[t]] = "Starting"
  /\ pc[t] = "stop_wait" => state[target[t]] = "Starting" \/ Busy(target[t])

IInv == PoolInv /\ SoleClient /\ \A t \in Thread : WaitInv(t)

-----------------------------------------------------------------------------
(* Single steps preserve PoolInv.                                           *)

USE DEF Running, Stopping0

LEMMA Threads ==
  /\ N \in Nat
  /\ 0 \in Thread /\ 0 \notin Worker
  /\ \A t : t \in Thread <=> t \in Nat /\ t < N
  /\ \A w : w \in Worker <=> w \in Nat /\ 1 <= w /\ w < N
  /\ \A w \in Worker : w \in Thread
BY NAssumption DEF Thread, Worker

LEMMA InitPool == Init => PoolInv
<1> SUFFICES ASSUME Init PROVE PoolInv
  OBVIOUS
<1>1. TypeOK
  BY Threads, JobsAssumption DEF Init, TypeOK, State, Label
<1>2. /\ count = 0 /\ pc[0] = "closed"
      /\ \A w \in Worker : pc[w] = "none" /\ state[w] = "Starting" /\ ~ launched[w]
  BY Threads DEF Init
<1>3. MainInv
  BY <1>2 DEF MainInv
<1>4. \A w \in Worker : WorkerInv(w)
  BY <1>2 DEF WorkerInv
<1>5. QED BY <1>1, <1>3, <1>4 DEF PoolInv

LEMMA AllocatePool ==
  ASSUME PoolInv, AllocateOK \/ AllocateFails PROVE PoolInv'
<1>1. PICK n \in 1 .. N, i \in 1 .. N, k \in 0 .. 2 :
        /\ Allocate(n, Made(n, i, k))
        /\ i = n \/ (i < n /\ n >= 2)
  <2>1. CASE AllocateOK
    <3>1. PICK n \in 1 .. N : Allocate(n, Made(n, n, 0))
      BY <2>1 DEF AllocateOK
    <3>2. QED BY <3>1
  <2>2. CASE AllocateFails
    <3>1. PICK n \in 2 .. N : \E i \in 1 .. n - 1, k \in 0 .. 2 : Allocate(n, Made(n, i, k))
      BY <2>2 DEF AllocateFails
    <3>2. PICK i \in 1 .. n - 1, k \in 0 .. 2 : Allocate(n, Made(n, i, k))
      BY <3>1
    <3>3. n \in 1 .. N /\ i \in 1 .. N /\ i < n /\ n >= 2
      BY Threads
    <3>4. QED BY <3>2, <3>3
  <2>3. QED BY <2>1, <2>2
<1> DEFINE made == Made(n, i, k)
<1>2. /\ n \in Nat /\ n >= 1 /\ n <= N
      /\ made \in [Worker -> 0 .. 3]
      /\ (\A w \in Worker : w < n => made[w] = 3) <=> i = n
  <2>1. made \in [Worker -> 0 .. 3]
    BY DEF Made
  <2>2. ASSUME i = n, NEW w \in Worker, w < n PROVE made[w] = 3
    BY <2>2, Threads DEF Made
  <2>3. i # n => i \in Worker /\ i < n /\ made[i] # 3
    BY <1>1, Threads DEF Made
  <2>4. QED BY <2>1, <2>2, <2>3, Threads
<1> HIDE DEF made
<1>3. /\ pc[0] = "closed" /\ count' = n /\ sync' = made
      /\ target' = [target EXCEPT ![0] = IF n = 1 THEN 0 ELSE 1]
      /\ pc' = [pc EXCEPT ![0] = IF n = 1 THEN "run"
                                 ELSE IF i = n THEN "create" ELSE "stop"]
      /\ UNCHANGED <<state, launched, job, error, switches, oswap, thrown>>
  BY <1>1, <1>2 DEF Allocate, made
<1>4. TypeOK'
  BY <1>2, <1>3, Threads DEF PoolInv, TypeOK, Label
<1>5. /\ pc'[0] = IF n = 1 THEN "run" ELSE IF i = n THEN "create" ELSE "stop"
      /\ target'[0] = IF n = 1 THEN 0 ELSE 1
      /\ \A w \in Worker : pc'[w] = pc[w] /\ pc[w] = "none" /\ ~ launched[w]
                             /\ state[w] = "Starting"
  BY <1>3, Threads DEF PoolInv, TypeOK, MainInv, WorkerInv
<1>6. MainInv'
  BY <1>1, <1>2, <1>3, <1>5, Threads DEF MainInv
<1>7. \A w \in Worker : WorkerInv(w)'
  BY <1>3, <1>5 DEF WorkerInv
<1>8. QED BY <1>4, <1>6, <1>7 DEF PoolInv

LEMMA CreateOKPool ==
  ASSUME PoolInv, CreateOK PROVE PoolInv'
<1>1. /\ pc[0] = "create" /\ pc'[0] = "await"
      /\ target[0] \in Worker /\ target[0] < count /\ count \in Nat
      /\ target' = target
      /\ launched'[target[0]] /\ pc'[target[0]] = "started"
      /\ \A w \in Worker : w # target[0] => pc'[w] = pc[w] /\ launched'[w] = launched[w]
      /\ UNCHANGED <<count, state, sync>>
  BY Threads DEF PoolInv, MainInv, WorkerInv, TypeOK, CreateOK
<1>2. TypeOK'
  BY <1>1, Threads DEF PoolInv, TypeOK, CreateOK, Label
<1>3. MainInv'
  BY <1>1, Threads DEF PoolInv, MainInv, WorkerInv, Busy
<1>4. \A w \in Worker : WorkerInv(w)'
  BY <1>1, Threads DEF PoolInv, MainInv, WorkerInv
<1>5. QED BY <1>2, <1>3, <1>4 DEF PoolInv

LEMMA CreateFailsPool ==
  ASSUME PoolInv, CreateFails PROVE PoolInv'
<1>1. /\ pc[0] = "create" /\ pc'[0] = "stop"
      /\ target[0] \in Worker /\ target[0] < count /\ count \in Nat
      /\ target'[0] = 1 /\ 1 \in Worker
      /\ \A w \in Worker : pc'[w] = pc[w]
      /\ UNCHANGED <<count, state, launched, sync>>
  BY Threads DEF PoolInv, MainInv, WorkerInv, TypeOK, CreateFails, poolVars
<1>2. TypeOK'
  BY <1>1, Threads DEF PoolInv, TypeOK, CreateFails, poolVars, Label
<1>3. MainInv'
  BY <1>1, Threads DEF PoolInv, MainInv, WorkerInv, Busy
<1>4. \A w \in Worker : WorkerInv(w)'
  BY <1>1, Threads DEF PoolInv, MainInv, WorkerInv
<1>5. QED BY <1>2, <1>3, <1>4 DEF PoolInv

LEMMA AwaitStartPool ==
  ASSUME PoolInv, AwaitStart PROVE PoolInv'
<1>1. /\ pc[0] = "await" /\ count \in Nat /\ count <= N
      /\ target[0] \in Worker /\ target[0] < count
      /\ \/ /\ state[target[0]] = "Starting" /\ pc'[0] = "await_wait"
            /\ target' = target
         \/ /\ state[target[0]] # "Starting" /\ target[0] + 1 < count
            /\ pc'[0] = "create" /\ target'[0] = target[0] + 1
            /\ target[0] + 1 \in Worker
         \/ /\ state[target[0]] # "Starting" /\ ~ (target[0] + 1 < count)
            /\ pc'[0] = "run" /\ target'[0] = 0
      /\ \A w \in Worker : pc'[w] = pc[w]
      /\ UNCHANGED <<count, state, launched, sync>>
  <2>1. /\ pc[0] = "await" /\ count \in Nat /\ count <= N
        /\ target[0] \in Worker /\ target[0] < count
    BY DEF PoolInv, MainInv, TypeOK, AwaitStart
  <2>2. target[0] + 1 < count => target[0] + 1 \in Worker
    BY <2>1, Threads
  <2>3. QED BY <2>1, <2>2, Threads DEF PoolInv, TypeOK, AwaitStart, poolVars
<1>2. TypeOK'
  BY <1>1, Threads DEF PoolInv, TypeOK, AwaitStart, poolVars, Label, Waiting
<1>3. MainInv'
  <2>1. CASE pc'[0] = "await_wait"
    BY <1>1, <2>1, Threads DEF PoolInv, MainInv
  <2>2. CASE pc'[0] = "create"
    BY <1>1, <2>2, Threads DEF PoolInv, MainInv, WorkerInv
  <2>3. CASE pc'[0] = "run"
    BY <1>1, <2>3, Threads DEF PoolInv, MainInv, WorkerInv
  <2>4. QED BY <1>1, <2>1, <2>2, <2>3
<1>4. \A w \in Worker : WorkerInv(w)'
  BY <1>1, Threads DEF PoolInv, MainInv, WorkerInv
<1>5. QED BY <1>2, <1>3, <1>4 DEF PoolInv

-----------------------------------------------------------------------------
(* Signals.                                                                 *)

DoneWait == {"await_wait", "join_wait", "stop_wait"}

\* What a signal on worker w's `done' does to the other threads: they stay where
\* they are, except that a thread blocked on it may be woken.
DoneSignalled(w) ==
  \A t \in Thread : t # w =>
    \/ pc'[t] = pc[t]
    \/ /\ target[t] = w
       /\ \/ pc[t] = "await_wait" /\ pc'[t] = "await"
          \/ pc[t] = "join_wait" /\ pc'[t] = "join"
          \/ pc[t] = "stop_wait" /\ pc'[t] = "stop"

\* A worker that publishes a result goes to wait for work; every other thread
\* stays where it is, except that one of those waiting for it, if any, is
\* woken.
LEMMA SignalDoneStep ==
  ASSUME TypeOK, NEW w \in Worker, pc[w] \notin DoneWait,
         pc' \in SignalDone(w, [pc EXCEPT ![w] = "work_wait"])
  PROVE  /\ pc' \in [Thread -> Label]
         /\ pc'[w] = "work_wait"
         /\ DoneSignalled(w)
         /\ \A t \in Thread : pc[t] \in DoneWait /\ target[t] = w =>
              \E u \in Thread : /\ pc[u] \in DoneWait /\ target[u] = w
                                /\ pc'[u] \notin DoneWait
<1> DEFINE p == [pc EXCEPT ![w] = "work_wait"]
<1>1. /\ p \in [Thread -> Label] /\ p[w] = "work_wait"
      /\ \A t \in Thread : t # w => p[t] = pc[t]
  BY Threads DEF TypeOK, Label, Waiting
<1>2. CASE DoneWaiters(w) = {}
  <2>1. pc' = p
    BY <1>2 DEF SignalDone
  <2>2. \A t \in Thread : ~ (pc[t] \in DoneWait /\ target[t] = w)
    BY <1>2 DEF DoneWaiters, DoneWait
  <2>3. QED BY <1>1, <2>1, <2>2 DEF DoneSignalled
<1>3. CASE DoneWaiters(w) # {}
  <2>1. PICK t \in DoneWaiters(w) : pc' = [p EXCEPT ![t] = Recheck(pc[t])]
    BY <1>3 DEF SignalDone
  <2>2. t \in Thread /\ t # w /\ pc[t] \in DoneWait /\ target[t] = w
    BY <2>1 DEF DoneWaiters, DoneWait
  <2>3. \/ pc[t] = "await_wait" /\ Recheck(pc[t]) = "await"
        \/ pc[t] = "join_wait" /\ Recheck(pc[t]) = "join"
        \/ pc[t] = "stop_wait" /\ Recheck(pc[t]) = "stop"
    BY <2>2 DEF Recheck, DoneWait
  <2>4. Recheck(pc[t]) \in Label /\ Recheck(pc[t]) \notin DoneWait
    BY <2>3 DEF Label, DoneWait
  <2> HIDE DEF p
  <2>5. /\ pc' \in [Thread -> Label] /\ pc'[t] = Recheck(pc[t])
        /\ \A u \in Thread : u # t => pc'[u] = p[u]
    BY <1>1, <2>1, <2>2, <2>4
  <2>6. QED BY <1>1, <2>2, <2>3, <2>4, <2>5, Threads DEF DoneSignalled
<1>4. QED BY <1>2, <1>3

LEMMA SignalWorkStep ==
  ASSUME NEW p \in [Thread -> Label], NEW w \in Worker, p[w] = pc[w],
         pc' = SignalWork(w, p)
  PROVE  /\ pc' \in [Thread -> Label]
         /\ pc'[w] = IF pc[w] = "work_wait" THEN "work" ELSE pc[w]
         /\ \A t \in Thread : t # w => pc'[t] = p[t]
BY Threads DEF SignalWork, Label

-----------------------------------------------------------------------------
(* The worker's own steps.                                                  *)

LEMMA StartPool ==
  ASSUME PoolInv, NEW w \in Worker, Start(w) PROVE PoolInv'
<1>1. /\ TypeOK /\ pc[w] = "started" /\ pc[w] \notin DoneWait
      /\ pc' \in SignalDone(w, [pc EXCEPT ![w] = "work_wait"])
  BY DEF PoolInv, Start, DoneWait
<1>2. /\ pc' \in [Thread -> Label] /\ pc'[w] = "work_wait"
      /\ DoneSignalled(w)
  BY <1>1, SignalDoneStep
<1>3. /\ state'[w] = "Idle"
      /\ \A u \in Worker : u # w => state'[u] = state[u]
      /\ UNCHANGED <<count, launched, sync, target>>
  BY DEF PoolInv, TypeOK, Start
<1>4. TypeOK'
  BY <1>2, Threads DEF PoolInv, TypeOK, Start, State
<1>5. MainInv'
  <2>1. CASE pc'[0] = pc[0]
    BY <1>1, <1>2, <1>3, <2>1, Threads DEF PoolInv, MainInv, WorkerInv, Busy, DoneSignalled
  <2>2. CASE pc[0] \in DoneWait /\ pc'[0] \in {"await", "join", "stop"}
    BY <1>1, <1>2, <1>3, <2>2, Threads DEF PoolInv, MainInv, WorkerInv, DoneWait, DoneSignalled
  <2>3. QED BY <1>2, <2>1, <2>2, Threads DEF DoneSignalled, DoneWait
<1>6. \A u \in Worker : WorkerInv(u)'
  BY <1>1, <1>2, <1>3, Threads DEF PoolInv, WorkerInv, DoneSignalled
<1>7. QED BY <1>4, <1>5, <1>6 DEF PoolInv

LEMMA FinishPool ==
  ASSUME PoolInv, NEW w \in Worker, NEW failed \in BOOLEAN, Finish(w, failed)
  PROVE PoolInv'
<1>1. /\ TypeOK /\ pc[w] = "run" /\ pc[w] \notin DoneWait
      /\ pc' \in SignalDone(w, [pc EXCEPT ![w] = "work_wait"])
  BY DEF PoolInv, Finish, DoneWait
<1>2. /\ pc' \in [Thread -> Label] /\ pc'[w] = "work_wait"
      /\ DoneSignalled(w)
  BY <1>1, SignalDoneStep
<1>3. /\ state'[w] = "Idle"
      /\ \A u \in Worker : u # w => state'[u] = state[u]
      /\ UNCHANGED <<count, launched, sync, target>>
  BY DEF PoolInv, TypeOK, Finish
<1>4. TypeOK'
  BY <1>2, Threads DEF PoolInv, TypeOK, Finish, State
<1>5. MainInv'
  <2>1. CASE pc'[0] = pc[0]
    BY <1>1, <1>2, <1>3, <2>1, Threads DEF PoolInv, MainInv, WorkerInv, Busy, DoneSignalled
  <2>2. CASE pc[0] \in DoneWait /\ pc'[0] \in {"await", "join", "stop"}
    BY <1>1, <1>2, <1>3, <2>2, Threads DEF PoolInv, MainInv, WorkerInv, DoneWait, DoneSignalled
  <2>3. QED BY <1>2, <2>1, <2>2, Threads DEF DoneSignalled, DoneWait
<1>6. \A u \in Worker : WorkerInv(u)'
  BY <1>1, <1>2, <1>3, Threads DEF PoolInv, WorkerInv, DoneSignalled
<1>7. QED BY <1>4, <1>5, <1>6 DEF PoolInv

LEMMA TakeWorkPool ==
  ASSUME PoolInv, NEW w \in Worker, TakeWork(w) PROVE PoolInv'
<1>1. /\ pc[w] = "work"
      /\ \/ state[w] = "Idle" /\ pc'[w] = "work_wait" /\ state' = state
         \/ state[w] = "Stopping" /\ pc'[w] = "exited" /\ state' = state
         \/ state[w] = "Pending" /\ pc'[w] = "run" /\ state'[w] = "Working"
      /\ \A u \in Worker : u # w => state'[u] = state[u]
      /\ \A t \in Thread : t # w => pc'[t] = pc[t]
      /\ UNCHANGED <<count, launched, sync, target>>
  BY Threads DEF PoolInv, WorkerInv, TypeOK, TakeWork
<1>2. TypeOK'
  BY Threads DEF PoolInv, TypeOK, TakeWork, Label, Waiting, State
<1>3. MainInv'
  BY <1>1, Threads DEF PoolInv, MainInv, WorkerInv, Busy
<1>4. \A u \in Worker : WorkerInv(u)'
  BY <1>1, Threads DEF PoolInv, WorkerInv
<1>5. QED BY <1>2, <1>3, <1>4 DEF PoolInv

-----------------------------------------------------------------------------
(* Calls by a running thread.                                               *)

LEMMA DispatchPool ==
  ASSUME PoolInv, NEW t \in Thread, NEW w \in Worker, NEW j \in Jobs,
         Dispatch(t, w, j), thrown' \in [Thread -> BOOLEAN]
  PROVE PoolInv'
<1>1. /\ pc \in [Thread -> Label] /\ pc' = SignalWork(w, pc)
      /\ state[w] = "Idle" /\ state'[w] = "Pending"
      /\ \A u \in Worker : u # w => state'[u] = state[u]
      /\ UNCHANGED <<count, launched, sync, target>>
  BY DEF PoolInv, TypeOK, Dispatch
<1>2. /\ pc' \in [Thread -> Label]
      /\ pc'[w] = IF pc[w] = "work_wait" THEN "work" ELSE pc[w]
      /\ \A u \in Thread : u # w => pc'[u] = pc[u]
  BY <1>1, SignalWorkStep
<1>3. TypeOK'
  <2>1. job' \in [Worker -> Jobs \cup {NoJob}] /\ error' \in [Worker -> BOOLEAN]
    BY DEF PoolInv, TypeOK, Dispatch
  <2>2. state' \in [Worker -> State]
    BY DEF PoolInv, TypeOK, Dispatch, State
  <2>3. /\ UNCHANGED <<count, launched, sync, switches, oswap, target>>
        /\ thrown' \in [Thread -> BOOLEAN]
    BY DEF Dispatch
  <2>4. QED BY <1>2, <2>1, <2>2, <2>3 DEF PoolInv, TypeOK
<1>4. MainInv'
  <2>1. pc'[0] = pc[0] /\ target'[0] = target[0]
    BY <1>1, <1>2, Threads
  <2>2. pc[t] = "run" /\ w < count /\ pc[w] # "none" /\ launched[w]
    BY <1>1 DEF PoolInv, WorkerInv, Dispatch
  <2>3. pc[0] \in Running \cup Stopping0
    BY <1>1, <2>2, Threads DEF PoolInv, MainInv, WorkerInv
  <2>4. QED BY <1>1, <1>2, <2>1, <2>2, <2>3, Threads DEF PoolInv, MainInv, WorkerInv
<1>5. \A u \in Worker : WorkerInv(u)'
  BY <1>1, <1>2, Threads DEF PoolInv, WorkerInv
<1>6. QED BY <1>3, <1>4, <1>5 DEF PoolInv

LEMMA JoinCallPool ==
  ASSUME PoolInv, NEW t \in Thread, NEW w \in Worker,
         JoinCall(t, w), thrown' \in [Thread -> BOOLEAN]
  PROVE PoolInv'
<1>1. /\ pc[t] = "run" /\ pc'[t] = "join" /\ target'[t] = w /\ w < count
      /\ \A u \in Thread : u # t => pc'[u] = pc[u] /\ target'[u] = target[u]
      /\ UNCHANGED <<count, launched, sync, state>>
  BY Threads DEF PoolInv, TypeOK, JoinCall, poolVars
<1>2. TypeOK'
  BY Threads DEF PoolInv, TypeOK, JoinCall, poolVars, Label
<1>3. MainInv'
  BY <1>1, Threads DEF PoolInv, MainInv
<1>4. \A u \in Worker : WorkerInv(u)'
  BY <1>1, Threads DEF PoolInv, WorkerInv
<1>5. QED BY <1>2, <1>3, <1>4 DEF PoolInv

LEMMA JoinWaitPool ==
  ASSUME PoolInv, NEW t \in Thread, JoinWait(t) PROVE PoolInv'
<1>1. /\ pc[t] = "join" /\ pc'[t] = "join_wait"
      /\ \A u \in Thread : u # t => pc'[u] = pc[u]
      /\ UNCHANGED <<count, launched, sync, state, target>>
  BY DEF PoolInv, TypeOK, JoinWait, poolVars
<1>2. TypeOK'
  BY DEF PoolInv, TypeOK, JoinWait, poolVars, Label, Waiting
<1>3. MainInv'
  BY <1>1, Threads DEF PoolInv, MainInv
<1>4. \A u \in Worker : WorkerInv(u)'
  BY <1>1, Threads DEF PoolInv, WorkerInv
<1>5. QED BY <1>2, <1>3, <1>4 DEF PoolInv

LEMMA JoinReturnPool ==
  ASSUME PoolInv, NEW t \in Thread, target[t] \in Worker, JoinReturn(t)
  PROVE PoolInv'
<1>1. /\ pc[t] = "join" /\ pc'[t] = "run"
      /\ \A u \in Thread : u # t => pc'[u] = pc[u] /\ target'[u] = target[u]
      /\ UNCHANGED <<count, launched, sync, state>>
  BY DEF PoolInv, TypeOK, JoinReturn
<1>2. TypeOK'
  BY Threads DEF PoolInv, TypeOK, JoinReturn, Label
<1>3. MainInv'
  BY <1>1, Threads DEF PoolInv, MainInv
<1>4. \A u \in Worker : WorkerInv(u)'
  BY <1>1, Threads DEF PoolInv, WorkerInv
<1>5. QED BY <1>2, <1>3, <1>4 DEF PoolInv

LEMMA SpuriousPool ==
  ASSUME PoolInv, NEW t \in Thread, SpuriousWakeup(t) PROVE PoolInv'
<1>1. /\ \/ pc[t] = "await_wait" /\ pc'[t] = "await"
         \/ pc[t] = "join_wait" /\ pc'[t] = "join"
         \/ pc[t] = "stop_wait" /\ pc'[t] = "stop"
         \/ pc[t] = "work_wait" /\ pc'[t] = "work"
      /\ \A u \in Thread : u # t => pc'[u] = pc[u]
      /\ UNCHANGED <<count, launched, sync, state, target>>
  BY DEF PoolInv, TypeOK, SpuriousWakeup, poolVars, Waiting, Recheck
<1>2. TypeOK'
  BY <1>1 DEF PoolInv, TypeOK, SpuriousWakeup, poolVars, Label
<1>3. MainInv'
  BY <1>1, Threads DEF PoolInv, MainInv
<1>4. \A u \in Worker : WorkerInv(u)'
  BY <1>1, Threads DEF PoolInv, WorkerInv
<1>5. QED BY <1>2, <1>3, <1>4 DEF PoolInv

-----------------------------------------------------------------------------
(* The shutdown.                                                            *)

LEMMA CloseCallPool == ASSUME PoolInv, CloseCall PROVE PoolInv'
<1>1. /\ pc[0] = "run" /\ count \in Nat /\ count # 0
      /\ IF count > 1 THEN pc'[0] = "stop" /\ target'[0] = 1 /\ 1 \in Worker
                      ELSE pc'[0] = "free"
      /\ \A w \in Worker : pc'[w] = pc[w]
      /\ UNCHANGED <<count, state, launched, sync>>
  BY Threads DEF PoolInv, MainInv, TypeOK, CloseCall, poolVars
<1>2. TypeOK'
  BY <1>1, Threads DEF PoolInv, TypeOK, CloseCall, poolVars, Label
<1>3. MainInv'
  BY <1>1, Threads DEF PoolInv, MainInv, WorkerInv
<1>4. \A w \in Worker : WorkerInv(w)'
  BY <1>1 DEF PoolInv, WorkerInv
<1>5. QED BY <1>2, <1>3, <1>4 DEF PoolInv

\* The steps that leave a worker behind differ only in that worker's fate.
LEMMA NextStopStep ==
  ASSUME TypeOK, NEW p \in [Thread -> Label], NextStop(p),
         target[0] \in Worker, target[0] < count
  PROVE  /\ pc' \in [Thread -> Label] /\ target' \in [Thread -> Thread]
         /\ \A w \in Worker : pc'[w] = p[w]
         /\ \/ /\ target[0] + 1 < count /\ pc'[0] = "stop"
               /\ target'[0] = target[0] + 1 /\ target[0] + 1 \in Worker
            \/ ~ (target[0] + 1 < count) /\ pc'[0] = "free"
<1>1. count \in Nat /\ count <= N /\ target \in [Thread -> Thread]
  BY DEF TypeOK
<1>2. CASE target[0] + 1 < count
  <2>1. target[0] + 1 \in Worker
    BY <1>1, <1>2, Threads
  <2>2. QED BY <1>1, <1>2, <2>1, Threads DEF NextStop, Label
<1>3. CASE ~ (target[0] + 1 < count)
  BY <1>1, <1>3, Threads DEF NextStop, Label
<1>4. QED BY <1>2, <1>3

LEMMA StopUnlaunchedPool == ASSUME PoolInv, StopUnlaunched PROVE PoolInv'
<1>1. /\ TypeOK /\ pc \in [Thread -> Label] /\ NextStop(pc) /\ pc[0] = "stop"
      /\ target[0] \in Worker /\ target[0] < count /\ count \in Nat
      /\ ~ launched[target[0]] /\ pc[target[0]] = "none"
      /\ \A w \in Worker : w # target[0] => sync'[w] = sync[w]
      /\ UNCHANGED <<count, state, launched>>
  BY DEF PoolInv, MainInv, WorkerInv, TypeOK, StopUnlaunched
<1>2. /\ pc' \in [Thread -> Label] /\ target' \in [Thread -> Thread]
      /\ \A w \in Worker : pc'[w] = pc[w]
      /\ \/ /\ target[0] + 1 < count /\ pc'[0] = "stop"
            /\ target'[0] = target[0] + 1 /\ target[0] + 1 \in Worker
         \/ ~ (target[0] + 1 < count) /\ pc'[0] = "free"
  BY <1>1, NextStopStep
<1>3. TypeOK'
  BY <1>1, <1>2 DEF PoolInv, TypeOK, StopUnlaunched
<1>4. MainInv'
  BY <1>1, <1>2, Threads DEF PoolInv, MainInv, WorkerInv
<1>5. \A w \in Worker : WorkerInv(w)'
  BY <1>1, <1>2, Threads DEF PoolInv, WorkerInv
<1>6. QED BY <1>3, <1>4, <1>5 DEF PoolInv

LEMMA StopWaitPool == ASSUME PoolInv, StopWait PROVE PoolInv'
<1>1. /\ pc[0] = "stop" /\ pc'[0] = "stop_wait" /\ launched[target[0]]
      /\ \A w \in Worker : pc'[w] = pc[w]
      /\ UNCHANGED <<count, state, launched, sync, target>>
  BY Threads DEF PoolInv, TypeOK, StopWait, poolVars
<1>2. TypeOK'
  BY DEF PoolInv, TypeOK, StopWait, poolVars, Label, Waiting
<1>3. MainInv'
  BY <1>1, Threads DEF PoolInv, MainInv, WorkerInv
<1>4. \A w \in Worker : WorkerInv(w)'
  BY <1>1 DEF PoolInv, WorkerInv
<1>5. QED BY <1>2, <1>3, <1>4 DEF PoolInv

LEMMA StopPool == ASSUME PoolInv, Stop PROVE PoolInv'
<1> DEFINE i == target[0]
           p == [pc EXCEPT ![0] = "reap"]
<1>1. /\ pc[0] = "stop" /\ i \in Worker /\ i < count /\ launched[i]
      /\ state[i] \notin {"Starting", "Pending", "Working", "Stopping"}
      /\ state'[i] = "Stopping"
      /\ \A w \in Worker : w # i => state'[w] = state[w]
      /\ p \in [Thread -> Label] /\ p[0] = "reap"
      /\ \A w \in Worker : p[w] = pc[w]
      /\ pc' = SignalWork(i, p)
      /\ UNCHANGED <<count, launched, sync, target>>
  BY Threads DEF PoolInv, MainInv, TypeOK, Stop, Busy, Label
<1> HIDE DEF p
<1>2. /\ pc' \in [Thread -> Label]
      /\ pc'[i] = IF pc[i] = "work_wait" THEN "work" ELSE pc[i]
      /\ \A t \in Thread : t # i => pc'[t] = p[t]
  BY <1>1, SignalWorkStep
<1>3. TypeOK'
  BY <1>2 DEF PoolInv, TypeOK, Stop, State
<1>4. MainInv'
  BY <1>1, <1>2, Threads DEF PoolInv, MainInv, WorkerInv
<1>5. \A w \in Worker : WorkerInv(w)'
  BY <1>1, <1>2, Threads DEF PoolInv, WorkerInv
<1>6. QED BY <1>3, <1>4, <1>5 DEF PoolInv

LEMMA ReapPool == ASSUME PoolInv, Reap PROVE PoolInv'
<1> DEFINE i == target[0]
           p == [pc EXCEPT ![i] = "none"]
<1>1. /\ TypeOK /\ NextStop(p) /\ pc[0] = "reap" /\ pc[i] = "exited"
      /\ i \in Worker /\ i < count /\ count \in Nat
      /\ p \in [Thread -> Label] /\ p[i] = "none"
      /\ \A w \in Worker : w # i => p[w] = pc[w]
      /\ \A w \in Worker : w # i => sync'[w] = sync[w]
      /\ UNCHANGED <<count, state, launched>>
  BY Threads DEF PoolInv, MainInv, TypeOK, Reap, Label
<1> HIDE DEF p
<1>2. /\ pc' \in [Thread -> Label] /\ target' \in [Thread -> Thread]
      /\ \A w \in Worker : pc'[w] = p[w]
      /\ \/ /\ i + 1 < count /\ pc'[0] = "stop"
            /\ target'[0] = i + 1 /\ i + 1 \in Worker
         \/ ~ (i + 1 < count) /\ pc'[0] = "free"
  BY <1>1, NextStopStep
<1>3. TypeOK'
  BY <1>1, <1>2 DEF PoolInv, TypeOK, Reap
<1>4. MainInv'
  BY <1>1, <1>2, Threads DEF PoolInv, MainInv, WorkerInv
<1>5. \A w \in Worker : WorkerInv(w)'
  BY <1>1, <1>2, Threads DEF PoolInv, WorkerInv
<1>6. QED BY <1>3, <1>4, <1>5 DEF PoolInv

LEMMA FreePool == ASSUME PoolInv, Free PROVE PoolInv'
<1>1. /\ pc[0] = "free" /\ pc'[0] = "closed" /\ count' = 0
      /\ \A w \in Worker : pc'[w] = "none" /\ ~ launched'[w] /\ state'[w] = "Starting"
  BY Threads DEF PoolInv, MainInv, TypeOK, Free
<1>2. TypeOK'
  BY Threads DEF PoolInv, TypeOK, Free, Label, State
<1>3. MainInv'
  BY <1>1 DEF MainInv
<1>4. \A w \in Worker : WorkerInv(w)'
  BY <1>1 DEF WorkerInv
<1>5. QED BY <1>2, <1>3, <1>4 DEF PoolInv

-----------------------------------------------------------------------------
(* No lost wake-ups.  When at most one thread waits for a worker, the one    *)
(* signal that ends its wait cannot go to another.                          *)

AllWait == \A t \in Thread : WaitInv(t)

\* What the callers of the pool see to: they wait for workers, and never two
\* of them for the same one.
OneWaiter ==
  /\ \A t \in Thread : pc[t] \in DoneWait => target[t] \in Worker
  /\ \A t, u \in Thread :
       pc[t] \in DoneWait /\ pc[u] \in DoneWait /\ target[t] = target[u] => t = u

\* Steps that signal `done' after making the worker idle.
LEMMA PublishWaits ==
  ASSUME PoolInv, AllWait, OneWaiter, NEW w \in Worker,
         pc[w] \notin DoneWait, UNCHANGED target,
         \A u \in Worker : u # w => state'[u] = state[u],
         pc' \in SignalDone(w, [pc EXCEPT ![w] = "work_wait"])
  PROVE  AllWait'
<1>1. TypeOK
  BY DEF PoolInv
<1>2. /\ pc'[w] = "work_wait" /\ DoneSignalled(w)
      /\ \A t \in Thread : pc[t] \in DoneWait /\ target[t] = w =>
           \E u \in Thread : /\ pc[u] \in DoneWait /\ target[u] = w
                             /\ pc'[u] \notin DoneWait
  BY <1>1, SignalDoneStep
<1>3. SUFFICES ASSUME NEW t \in Thread, pc'[t] \in DoneWait PROVE WaitInv(t)'
  BY DEF AllWait, WaitInv, DoneWait
<1>4. t # w /\ pc'[t] = pc[t] /\ pc[t] \in DoneWait
  BY <1>2, <1>3 DEF DoneSignalled, DoneWait
<1>5. target[t] # w
  <2>1. SUFFICES ASSUME target[t] = w PROVE FALSE
    OBVIOUS
  <2>2. PICK u \in Thread : /\ pc[u] \in DoneWait /\ target[u] = w
                            /\ pc'[u] \notin DoneWait
    BY <1>2, <1>4, <2>1
  <2>3. u = t
    BY <1>4, <2>1, <2>2 DEF OneWaiter
  <2>4. QED BY <1>3, <2>2, <2>3
<1>6. WaitInv(t)
  BY DEF AllWait
<1>7. t \in Thread /\ (target[t] \in Worker => state'[target[t]] = state[target[t]])
  BY <1>5
<1>8. target[t] \in Worker
  BY <1>4 DEF OneWaiter
<1>9. QED BY <1>4, <1>6, <1>7, <1>8 DEF WaitInv, Busy

\* Steps that change neither the control point nor the target of a blocked
\* thread, nor end what it waits for.
LEMMA QuietWaits ==
  ASSUME AllWait,
         \A t \in Thread : pc'[t] \in DoneWait =>
           \/ /\ pc[t] = pc'[t] /\ target'[t] = target[t]
              /\ \/ state'[target[t]] = state[target[t]]
                 \/ Busy(target[t]) /\ Busy(target[t])'
           \/ WaitInv(t)'
  PROVE  AllWait'
<1> SUFFICES ASSUME NEW t \in Thread PROVE WaitInv(t)'
  BY DEF AllWait
<1>1. CASE pc'[t] \notin DoneWait
  BY <1>1 DEF WaitInv, DoneWait
<1>2. CASE /\ pc[t] = pc'[t] /\ target'[t] = target[t]
           /\ \/ state'[target[t]] = state[target[t]]
              \/ Busy(target[t]) /\ Busy(target[t])'
  BY <1>2 DEF AllWait, WaitInv, Busy
<1>3. QED BY <1>1, <1>2

LEMMA TakeWorkWaits ==
  ASSUME PoolInv, AllWait, OneWaiter, NEW w \in Worker, TakeWork(w) PROVE AllWait'
<1>1. /\ pc[w] = "work" /\ pc'[w] \notin DoneWait
      /\ \A t \in Thread : t # w => pc'[t] = pc[t]
      /\ UNCHANGED target
      /\ \/ state' = state
         \/ /\ state[w] = "Pending" /\ state'[w] = "Working"
            /\ \A u \in Worker : u # w => state'[u] = state[u]
  BY DEF PoolInv, TypeOK, WorkerInv, TakeWork, DoneWait
<1>2. \A t \in Thread : pc'[t] \in DoneWait => pc[t] = pc'[t] /\ target[t] \in Worker
  BY <1>1 DEF OneWaiter
<1>3. QED BY <1>1, <1>2, QuietWaits DEF Busy

LEMMA CreationWaits ==
  ASSUME PoolInv, AllWait,
         AllocateOK \/ AllocateFails \/ CreateOK \/ CreateFails \/ AwaitStart
  PROVE  AllWait'
<1>1. state' = state
  BY DEF AllocateOK, AllocateFails, Allocate, CreateOK, CreateFails, AwaitStart, poolVars
<1>2. \A t \in Thread : pc'[t] \in DoneWait /\ t # 0 =>
        pc[t] = pc'[t] /\ target'[t] = target[t]
  BY Threads DEF PoolInv, TypeOK, MainInv, AllocateOK, AllocateFails, Allocate,
                 CreateOK, CreateFails, AwaitStart, DoneWait
<1>3. pc'[0] \in DoneWait => WaitInv(0)'
  BY Threads DEF PoolInv, TypeOK, AllocateOK, AllocateFails, Allocate,
                 CreateOK, CreateFails, AwaitStart, DoneWait, WaitInv, poolVars
<1>4. QED BY <1>1, <1>2, <1>3, QuietWaits

LEMMA CallWaits ==
  ASSUME PoolInv, AllWait, NEW t \in Thread, NEW w \in Worker,
         JoinCall(t, w) \/ JoinWait(t) \/ JoinReturn(t) \/ SpuriousWakeup(t)
  PROVE  AllWait'
<1>1. state' = state
  BY DEF JoinCall, JoinWait, JoinReturn, SpuriousWakeup, poolVars
<1>2. \A u \in Thread : u # t => pc[u] = pc'[u] /\ target'[u] = target[u]
  BY DEF PoolInv, TypeOK, JoinCall, JoinWait, JoinReturn, SpuriousWakeup
<1>3. pc'[t] \in DoneWait => WaitInv(t)'
  BY DEF PoolInv, TypeOK, JoinCall, JoinWait, JoinReturn, SpuriousWakeup,
         Waiting, Recheck, DoneWait, WaitInv, Busy, poolVars
<1>4. QED BY <1>1, <1>2, <1>3, QuietWaits

LEMMA DispatchWaits ==
  ASSUME PoolInv, AllWait, OneWaiter, NEW t \in Thread, NEW w \in Worker, NEW j \in Jobs,
         Dispatch(t, w, j)
  PROVE  AllWait'
<1>1. /\ pc \in [Thread -> Label] /\ pc' = SignalWork(w, pc) /\ UNCHANGED target
      /\ state[w] = "Idle" /\ \A u \in Worker : u # w => state'[u] = state[u]
  BY DEF PoolInv, TypeOK, Dispatch
<1>2. /\ pc'[w] = IF pc[w] = "work_wait" THEN "work" ELSE pc[w]
      /\ \A u \in Thread : u # w => pc'[u] = pc[u]
  BY <1>1, SignalWorkStep
<1>3. \A u \in Thread : pc'[u] \in DoneWait =>
        pc[u] = pc'[u] /\ target[u] \in Worker /\ target[u] # w
  BY <1>1, <1>2 DEF AllWait, WaitInv, OneWaiter, DoneWait, Busy
<1>4. QED BY <1>1, <1>3, QuietWaits

LEMMA ShutdownWaits ==
  ASSUME PoolInv, AllWait, OneWaiter,
         CloseCall \/ StopUnlaunched \/ StopWait \/ Stop \/ Reap \/ Free
  PROVE  AllWait'
<1>1. CASE CloseCall
  <2>1. /\ state' = state /\ pc'[0] \notin DoneWait
        /\ \A u \in Thread : u # 0 => pc[u] = pc'[u] /\ target'[u] = target[u]
    BY <1>1, Threads DEF PoolInv, TypeOK, CloseCall, DoneWait, poolVars
  <2>2. QED BY <2>1, QuietWaits
<1>2. CASE StopUnlaunched
  <2>1. /\ state' = state /\ pc'[0] \notin DoneWait
        /\ \A u \in Thread : u # 0 => pc[u] = pc'[u] /\ target'[u] = target[u]
    BY <1>2, Threads DEF PoolInv, TypeOK, StopUnlaunched, NextStop, DoneWait
  <2>2. QED BY <2>1, QuietWaits
<1>3. CASE StopWait
  <2>1. /\ state' = state /\ WaitInv(0)'
        /\ \A u \in Thread : u # 0 => pc[u] = pc'[u] /\ target'[u] = target[u]
    BY <1>3, Threads DEF PoolInv, TypeOK, StopWait, DoneWait, WaitInv, Busy, poolVars
  <2>2. QED BY <2>1, QuietWaits
<1>4. CASE Stop
  <2> DEFINE i == target[0]
             p == [pc EXCEPT ![0] = "reap"]
  <2>1. /\ i \in Worker /\ state[i] # "Starting" /\ ~ Busy(i)
        /\ \A u \in Worker : u # i => state'[u] = state[u]
        /\ p \in [Thread -> Label] /\ p[0] = "reap" /\ p[i] = pc[i]
        /\ \A u \in Thread : u # 0 => p[u] = pc[u]
        /\ pc' = SignalWork(i, p) /\ UNCHANGED target
    BY <1>4, Threads DEF PoolInv, MainInv, TypeOK, Stop, Label
  <2> HIDE DEF p
  <2>2. /\ pc'[i] = IF pc[i] = "work_wait" THEN "work" ELSE pc[i]
        /\ \A u \in Thread : u # i => pc'[u] = p[u]
    BY <2>1, SignalWorkStep
  <2>3. \A u \in Thread : pc'[u] \in DoneWait =>
          pc[u] = pc'[u] /\ target[u] \in Worker /\ target[u] # i
    BY <2>1, <2>2, Threads DEF AllWait, WaitInv, OneWaiter, DoneWait
  <2>4. QED BY <2>1, <2>3, QuietWaits
<1>5. CASE Reap
  <2>1. /\ state' = state /\ pc'[0] \notin DoneWait
        /\ \A u \in Thread : u # 0 => target'[u] = target[u]
                                     /\ (pc[u] = pc'[u] \/ pc'[u] = "none")
    BY <1>5, Threads DEF PoolInv, MainInv, TypeOK, Reap, NextStop, DoneWait
  <2>2. QED BY <2>1, QuietWaits DEF DoneWait
<1>6. CASE Free
  <2>1. \A u \in Thread : pc'[u] \notin DoneWait
    BY <1>6, Threads DEF PoolInv, MainInv, TypeOK, Free, DoneWait
  <2>2. QED BY <2>1, QuietWaits
<1>7. QED BY <1>1, <1>2, <1>3, <1>4, <1>5, <1>6

-----------------------------------------------------------------------------
(* The theorems, for thread 0 as the only client.                           *)

\* Every reachable state of the pool satisfies the inductive invariant: its
\* types, the worker's and thread 0's progress, and no lost wake-up.
THEOREM PoolInvariant == Spec => []IInv
<1>1. Init => IInv
  BY InitPool, Threads DEF IInv, SoleClient, WaitInv, Init, PoolInv, WorkerInv
<1>2. ASSUME IInv, [Next]_vars PROVE IInv'
  <2>1. PoolInv /\ AllWait /\ OneWaiter
    BY <1>2, Threads DEF IInv, SoleClient, AllWait, OneWaiter, DoneWait, PoolInv, MainInv, WorkerInv
  <2>2. CASE InitSteps
    <3>1. PoolInv' /\ AllWait'
      BY <2>1, <2>2, AllocatePool, CreateOKPool, CreateFailsPool, AwaitStartPool,
         CreationWaits DEF InitSteps
    <3>2. SoleClient'
      BY <1>2, <2>2, Threads DEF IInv, PoolInv, TypeOK, MainInv, SoleClient, InitSteps,
         AllocateOK, AllocateFails, Allocate, CreateOK, CreateFails, AwaitStart
    <3>3. QED BY <3>1, <3>2 DEF IInv, AllWait
  <2>3. CASE ClientCall
    <3>1. CASE CloseCall
      <4>1. SoleClient'
        BY <1>2, <3>1, Threads DEF IInv, PoolInv, TypeOK, SoleClient, CloseCall
      <4>2. QED BY <2>1, <3>1, <4>1, CloseCallPool, ShutdownWaits DEF IInv, AllWait
    <3>2. ASSUME NEW w \in Worker, JoinCall(0, w), Caught PROVE IInv'
      <4>1. SoleClient' /\ thrown' \in [Thread -> BOOLEAN]
        BY <1>2, <3>2, Threads DEF IInv, PoolInv, TypeOK, SoleClient, JoinCall, Caught
      <4>2. QED BY <2>1, <3>2, <4>1, Threads, JoinCallPool, CallWaits DEF IInv, AllWait
    <3>3. ASSUME NEW w \in Worker, NEW j \in Jobs, Dispatch(0, w, j), Caught PROVE IInv'
      <4>1. SoleClient' /\ thrown' \in [Thread -> BOOLEAN]
        BY <1>2, <3>3, Threads
        DEF IInv, PoolInv, TypeOK, SoleClient, Dispatch, SignalWork, Caught
      <4>2. QED BY <2>1, <3>3, <4>1, Threads, DispatchPool, DispatchWaits DEF IInv, AllWait
    <3>4. QED BY <2>3, <3>1, <3>2, <3>3 DEF ClientCall
  <2>4. CASE JoinSteps(0)
    <3>1. CASE JoinWait(0)
      <4>1. SoleClient'
        BY <1>2, <3>1, Threads DEF IInv, PoolInv, TypeOK, SoleClient, JoinWait
      <4>2. PoolInv'
        BY <2>1, <3>1, Threads, JoinWaitPool
      <4>3. AllWait'
        BY <2>1, <3>1, <4>1, Threads, QuietWaits
        DEF PoolInv, TypeOK, JoinWait, WaitInv, DoneWait, Busy, poolVars
      <4>4. QED BY <4>1, <4>2, <4>3 DEF IInv, AllWait
    <3>2. CASE JoinReturn(0)
      <4>1. SoleClient'
        BY <1>2, <3>2, Threads DEF IInv, PoolInv, TypeOK, SoleClient, JoinReturn
      <4>2. target[0] \in Worker
        BY <2>1, <3>2 DEF PoolInv, MainInv, JoinReturn
      <4>3. QED BY <2>1, <3>2, <4>1, <4>2, Threads, JoinReturnPool, CallWaits DEF IInv, AllWait
    <3>3. QED BY <2>4, <3>1, <3>2 DEF JoinSteps
  <2>5. CASE ShutdownSteps
    <3>1. PoolInv' /\ AllWait'
      BY <2>1, <2>5, StopUnlaunchedPool, StopWaitPool, StopPool, ReapPool, FreePool,
         ShutdownWaits DEF ShutdownSteps
    <3>2. SoleClient'
      BY <1>2, <2>5, Threads DEF IInv, PoolInv, TypeOK, MainInv, SoleClient, ShutdownSteps,
         StopUnlaunched, StopWait, Stop, Reap, Free, NextStop, SignalWork
    <3>3. QED BY <3>1, <3>2 DEF IInv, AllWait
  <2>6. ASSUME NEW w \in Worker, Start(w) PROVE IInv'
    <3>1. pc[w] \notin DoneWait
      BY <2>6 DEF Start, DoneWait
    <3>2. PoolInv' /\ AllWait'
      BY <2>1, <2>6, <3>1, StartPool, PublishWaits DEF Start, PoolInv, TypeOK
    <3>3. SoleClient'
      BY <1>2, <2>1, <2>6, <3>1, Threads, SignalDoneStep
      DEF Start, SoleClient, IInv, PoolInv, DoneSignalled
    <3>4. QED BY <3>2, <3>3 DEF IInv, AllWait
  <2>7. ASSUME NEW w \in Worker, TakeWork(w) PROVE IInv'
    <3>1. SoleClient'
      BY <1>2, <2>7, Threads DEF TakeWork, SoleClient, IInv, PoolInv, TypeOK
    <3>2. QED BY <2>1, <2>7, <3>1, TakeWorkPool, TakeWorkWaits DEF IInv, AllWait
  <2>8. ASSUME NEW w \in Worker, RunJob(w) PROVE IInv'
    <3>1. PICK failed \in BOOLEAN : Finish(w, failed)
      BY <2>8 DEF RunJob
    <3>2. pc[w] \notin DoneWait /\ PoolInv'
      BY <2>1, <3>1, FinishPool DEF Finish, DoneWait
    <3>3. /\ UNCHANGED target
          /\ \A u \in Worker : u # w => state'[u] = state[u]
          /\ pc' \in SignalDone(w, [pc EXCEPT ![w] = "work_wait"])
      BY <2>1, <3>1 DEF Finish, PoolInv, TypeOK
    <3>4. AllWait'
      BY <2>1, <3>2, <3>3, PublishWaits
    <3>5. SoleClient'
      BY <1>2, <2>1, <3>2, <3>3, Threads, SignalDoneStep
      DEF SoleClient, IInv, PoolInv, DoneSignalled
    <3>6. QED BY <3>2, <3>4, <3>5 DEF IInv, AllWait
  <2>9. ASSUME NEW t \in Thread, SpuriousWakeup(t) PROVE IInv'
    <3>1. SoleClient'
      BY <1>2, <2>9, Threads
      DEF SpuriousWakeup, SoleClient, IInv, PoolInv, TypeOK, WorkerInv, Waiting, Recheck
    <3>2. \A u \in Thread : pc'[u] \in DoneWait => pc[u] = pc'[u]
      BY <2>1, <2>9 DEF SpuriousWakeup, PoolInv, TypeOK, Waiting, Recheck, DoneWait
    <3>3. AllWait'
      BY <2>1, <2>9, <3>2, QuietWaits DEF SpuriousWakeup, poolVars
    <3>4. QED BY <2>1, <2>9, <3>1, <3>3, SpuriousPool DEF IInv, AllWait
  <2>10. CASE UNCHANGED vars
    BY <1>2, <2>10 DEF vars, poolVars, IInv, PoolInv, TypeOK, MainInv, WorkerInv,
       SoleClient, WaitInv, Busy
  <2>11. QED
    BY <1>2, <2>2, <2>3, <2>4, <2>5, <2>6, <2>7, <2>8, <2>9, <2>10 DEF Next, Loop
<1>3. QED BY <1>1, <1>2, PTL DEF Spec

\* No lost wake-up, whatever the number of workers: see NoLostWakeup.
THEOREM NoLostWakeupHolds == Spec => []NoLostWakeup
<1>1. IInv => NoLostWakeup
  BY Threads DEF IInv, PoolInv, WorkerInv, WaitInv, NoLostWakeup
<1>2. QED BY <1>1, PoolInvariant, PTL

\* A worker's mutex and condition variables outlive everyone who may still use
\* them: see NoUseAfterDestroy.
THEOREM NoUseAfterDestroyHolds == Spec => []NoUseAfterDestroy
<1>1. ASSUME IInv PROVE NoUseAfterDestroy
  <2>1. ASSUME NEW w \in Worker, pc[w] # "none" PROVE w < count /\ sync[w] = 3
    BY <1>1, <2>1 DEF IInv, PoolInv, WorkerInv
  <2>2. ASSUME NEW t \in Thread,
               pc[t] \in {"await", "await_wait", "join", "join_wait", "stop_wait", "reap"}
        PROVE  target[t] \in Worker /\ target[t] < count /\ sync[target[t]] = 3
    <3>1. t = 0
      BY <1>1, <2>2, Threads DEF IInv, PoolInv, WorkerInv, SoleClient
    <3>2. target[0] \in Worker /\ target[0] < count
      BY <1>1, <2>2, <3>1 DEF IInv, PoolInv, MainInv
    <3>3. pc[target[0]] # "none"
      BY <1>1, <2>2, <3>1, <3>2, Threads DEF IInv, PoolInv, MainInv
    <3>4. QED BY <1>1, <3>1, <3>2, <3>3 DEF IInv, PoolInv, WorkerInv
  <2>3. QED BY <2>1, <2>2 DEF NoUseAfterDestroy
<1>2. QED BY <1>1, PoolInvariant, PTL

-----------------------------------------------------------------------------
(* The pool implements what WorkerPool promises: every step of the pool is a *)
(* step of the promise or none of it.                                        *)

Opened == pc[0] \in {"run", "join", "join_wait"}

SlotOf(w) == IF Busy(w) THEN "queued" ELSE IF error[w] THEN "failed" ELSE "idle"
Slots == [w \in Worker |-> SlotOf(w)]

\* A client that joins has handled the last failure; before there are workers, none
\* has failed.
PromiseInv ==
  /\ pc[0] \in {"join", "join_wait"} => ~ thrown[0]
  /\ pc[0] \in {"closed", "create", "await", "await_wait"} => \A w \in Worker : ~ error[w]

\* Steps that the promise does not see.
Unseen ==
  /\ Opened' = Opened /\ thrown'[0] = thrown[0] /\ job' = job
  /\ \A w \in Worker : SlotOf(w)' = SlotOf(w)

LEMMA UnseenPromise ==
  ASSUME Unseen
  PROVE  UNCHANGED Promise!pvars
<1>1. Slots' = Slots
  BY DEF Unseen, Slots
<1>2. QED BY <1>1 DEF Unseen, Opened, Slots, SlotOf, Promise!pvars

LEMMA InitPromise ==
  ASSUME Init
  PROVE  Promise!PInit /\ PromiseInv
<1>1. ~ Opened /\ ~ thrown[0] /\ \A w \in Worker : SlotOf(w) = "idle"
  BY Threads DEF Init, Opened, SlotOf, Busy
<1>2. Slots = [w \in Worker |-> "idle"]
  BY <1>1 DEF Slots
<1>3. Promise!PInit
  BY <1>1, <1>2 DEF Promise!PInit, Opened, Slots, SlotOf
<1>4. QED BY <1>1, <1>3 DEF PromiseInv, Init

LEMMA CreationPromise ==
  ASSUME IInv, PromiseInv, InitSteps
  PROVE  /\ PromiseInv'
         /\ Unseen \/ Promise!Open
<1>1. /\ thrown' = thrown /\ job' = job /\ error' = error /\ state' = state
      /\ pc[0] \in {"closed", "create", "await"}
      /\ pc'[0] \in {"create", "await", "await_wait", "stop", "run"}
  BY Threads DEF IInv, PoolInv, TypeOK, InitSteps, AllocateOK, AllocateFails, Allocate,
     CreateOK, CreateFails, AwaitStart, poolVars
<1>2. \A w \in Worker : SlotOf(w)' = SlotOf(w)
  BY <1>1 DEF SlotOf, Busy
<1>3. PromiseInv'
  BY <1>1 DEF PromiseInv
<1>4. CASE pc'[0] # "run"
  <2>1. ~ Opened /\ ~ Opened'
    BY <1>1, <1>4 DEF Opened
  <2>2. Opened' = Opened
    BY <2>1 DEF Opened
  <2>3. Unseen
    BY <1>1, <1>2, <2>2 DEF Unseen
  <2>4. QED BY <1>3, <2>3
<1>5. CASE pc'[0] = "run"
  <2>1. \A w \in Worker : ~ Busy(w)
    <3>1. CASE pc[0] = "closed"
      BY <3>1 DEF IInv, PoolInv, MainInv, Busy
    <3>2. CASE pc[0] = "create"
      BY <1>5, <3>2, Threads DEF IInv, PoolInv, TypeOK, InitSteps, AllocateOK, AllocateFails,
         Allocate, CreateOK, CreateFails, AwaitStart
    <3>3. CASE pc[0] = "await"
      <4>1. ASSUME NEW w \in Worker PROVE state[w] \in {"Starting", "Idle"}
        <5>1. w <= target[0] => state[w] \in {"Starting", "Idle"}
          BY <3>3, Threads DEF IInv, PoolInv, TypeOK, MainInv
        <5>2. ~ (w <= target[0]) => ~ launched[w]
          BY <3>3, Threads DEF IInv, PoolInv, TypeOK, MainInv
        <5>3. QED BY <5>1, <5>2 DEF IInv, PoolInv, WorkerInv
      <4>2. QED BY <4>1 DEF Busy
    <3>4. QED BY <1>1, <3>1, <3>2, <3>3
  <2>2. \A w \in Worker : SlotOf(w) = "idle"
    BY <1>1, <2>1 DEF SlotOf, PromiseInv
  <2>3. Slots' = Slots
    BY <1>2 DEF Slots
  <2>4. Promise!Open
    <3>1. ~ Opened /\ Opened' /\ \A w \in Worker : Slots[w] = "idle"
      BY <1>1, <1>5, <2>2 DEF Opened, Slots
    <3>2. QED BY <1>1, <2>3, <3>1 DEF Promise!Open, Opened, Slots, SlotOf
  <2>5. QED BY <1>3, <2>4
<1>6. QED BY <1>3, <1>4, <1>5

LEMMA DispatchPromise ==
  ASSUME IInv, PromiseInv, NEW w \in Worker, NEW j \in Jobs, Dispatch(0, w, j), Caught
  PROVE  PromiseInv' /\ Promise!Submit(w, j)
<1>1. /\ pc[0] = "run" /\ pc'[0] = "run" /\ ~ thrown'[0]
      /\ state[w] = "Idle" /\ state' = [state EXCEPT ![w] = "Pending"]
      /\ error' = [error EXCEPT ![w] = FALSE] /\ job' = [job EXCEPT ![w] = j]
  BY Threads DEF IInv, PoolInv, TypeOK, Dispatch, Caught, SignalWork
<1>2. ~ Busy(w) /\ SlotOf(w)' = "queued" /\ \A u \in Worker : u # w => SlotOf(u)' = SlotOf(u)
  BY <1>1 DEF SlotOf, Busy, IInv, PoolInv, TypeOK
<1>3. Slots' = [Slots EXCEPT ![w] = "queued"] /\ Slots[w] # "queued"
  BY <1>2 DEF Slots, SlotOf
<1>4. Opened /\ Opened'
  BY <1>1 DEF Opened
<1>5. Promise!Submit(w, j)
  BY <1>1, <1>3, <1>4 DEF Promise!Submit, Opened, Slots, SlotOf
<1>6. QED BY <1>1, <1>5 DEF PromiseInv

LEMMA JoinCallPromise ==
  ASSUME IInv, PromiseInv, NEW w \in Worker, JoinCall(0, w), Caught
  PROVE  PromiseInv' /\ (Unseen \/ Promise!Handle)
<1>1. /\ pc[0] = "run" /\ pc'[0] = "join" /\ ~ thrown'[0]
      /\ state' = state /\ error' = error /\ job' = job
  BY Threads DEF IInv, PoolInv, TypeOK, JoinCall, Caught, poolVars
<1>2. \A u \in Worker : SlotOf(u)' = SlotOf(u)
  BY <1>1 DEF SlotOf, Busy
<1>3. Opened /\ Opened'
  BY <1>1 DEF Opened
<1>4. Slots' = Slots
  BY <1>2 DEF Slots
<1>5. CASE thrown[0]
  BY <1>1, <1>3, <1>4, <1>5 DEF PromiseInv, Promise!Handle, Opened, Slots, SlotOf
<1>6. CASE ~ thrown[0]
  <2>1. thrown[0] = FALSE /\ thrown'[0] = FALSE
    BY <1>6, Threads DEF IInv, PoolInv, TypeOK, Caught
  <2>2. QED BY <1>1, <1>2, <1>3, <2>1 DEF PromiseInv, Unseen
<1>7. QED BY <1>5, <1>6

LEMMA JoinPromise ==
  ASSUME IInv, PromiseInv, JoinSteps(0)
  PROVE  PromiseInv' /\ (Unseen \/ \E w \in Worker : Promise!Collect(w))
<1>1. CASE JoinWait(0)
  <2>1. /\ pc[0] = "join" /\ pc'[0] = "join_wait" /\ thrown' = thrown
        /\ state' = state /\ error' = error /\ job' = job
    BY <1>1, Threads DEF IInv, PoolInv, TypeOK, JoinWait, poolVars
  <2>2. QED BY <2>1 DEF PromiseInv, Unseen, Opened, SlotOf, Busy
<1>2. CASE JoinReturn(0)
  <2>1. PICK w \in Worker : w = target[0]
    BY <1>2 DEF IInv, PoolInv, MainInv, JoinReturn
  <2>2. /\ pc[0] = "join" /\ pc'[0] = "run" /\ ~ Busy(w) /\ ~ thrown[0]
        /\ thrown'[0] = error[w] /\ error' = [error EXCEPT ![w] = FALSE]
        /\ state' = state /\ job' = job
    BY <1>2, <2>1, Threads DEF IInv, PoolInv, TypeOK, PromiseInv, JoinReturn
  <2>3. /\ SlotOf(w) # "queued" /\ SlotOf(w)' = "idle"
        /\ (SlotOf(w) = "failed") = error[w]
        /\ \A u \in Worker : u # w => SlotOf(u)' = SlotOf(u)
    BY <2>2 DEF SlotOf, Busy, IInv, PoolInv, TypeOK
  <2>4. Slots' = [Slots EXCEPT ![w] = "idle"] /\ Slots[w] = SlotOf(w)
    BY <2>3 DEF Slots
  <2>5. Opened /\ Opened'
    BY <2>2 DEF Opened
  <2>6. Promise!Collect(w)
    BY <2>2, <2>3, <2>4, <2>5 DEF Promise!Collect, Opened, Slots, SlotOf
  <2>7. QED BY <2>2, <2>6 DEF PromiseInv
<1>3. QED BY <1>1, <1>2 DEF JoinSteps

LEMMA ClosePromise ==
  ASSUME IInv, PromiseInv, CloseCall
  PROVE  PromiseInv' /\ Promise!Close
<1>1. /\ pc[0] = "run" /\ pc'[0] \in {"stop", "free"} /\ thrown' = thrown
      /\ state' = state /\ error' = error /\ job' = job
  BY Threads DEF IInv, PoolInv, TypeOK, CloseCall, poolVars
<1>2. Slots' = Slots
  BY <1>1 DEF Slots, SlotOf, Busy
<1>3. Opened /\ ~ Opened'
  BY <1>1 DEF Opened
<1>4. Promise!Close
  BY <1>1, <1>2, <1>3 DEF Promise!Close, Opened, Slots, SlotOf
<1>5. QED BY <1>1, <1>4 DEF PromiseInv

LEMMA ShutdownPromise ==
  ASSUME IInv, PromiseInv, ShutdownSteps
  PROVE  PromiseInv' /\ (Unseen \/ Promise!Discard)
<1>1. CASE Free
  <2>1. /\ pc[0] = "free" /\ pc'[0] = "closed" /\ thrown' = thrown
        /\ \A w \in Worker : state'[w] = "Starting" /\ error'[w] = FALSE
    BY <1>1, Threads DEF IInv, PoolInv, TypeOK, Free
  <2>2. \A w \in Worker : ~ Busy(w)
    BY <2>1 DEF IInv, PoolInv, MainInv, WorkerInv, Busy
  <2>3. \A w \in Worker : SlotOf(w) # "queued" /\ SlotOf(w)' = "idle"
    BY <2>1, <2>2 DEF SlotOf, Busy
  <2>4. Slots' = [w \in Worker |-> "idle"] /\ \A w \in Worker : Slots[w] # "queued"
    BY <2>3 DEF Slots
  <2>5. ~ Opened /\ ~ Opened'
    BY <2>1 DEF Opened
  <2>6. Promise!Discard
    BY <2>1, <2>4, <2>5 DEF Promise!Discard, Opened, Slots, SlotOf
  <2>7. QED BY <2>1, <2>6 DEF PromiseInv
<1>2. CASE StopUnlaunched \/ StopWait \/ Stop \/ Reap
  <2>1. /\ pc[0] \in {"stop", "reap"} /\ pc'[0] \in {"stop", "stop_wait", "reap", "free"}
        /\ thrown' = thrown /\ error' = error /\ job' = job
    BY <1>2, Threads DEF IInv, PoolInv, TypeOK, MainInv, StopUnlaunched, StopWait, Stop, Reap,
       NextStop, SignalWork, poolVars
  <2>2. \A w \in Worker : Busy(w)' = Busy(w)
    BY <1>2 DEF IInv, PoolInv, TypeOK, StopUnlaunched, StopWait, Stop, Reap, poolVars, Busy
  <2>3. \A w \in Worker : SlotOf(w)' = SlotOf(w)
    BY <2>1, <2>2 DEF SlotOf
  <2>4. QED BY <2>1, <2>3 DEF PromiseInv, Unseen, Opened
<1>3. QED BY <1>1, <1>2 DEF ShutdownSteps

\* A worker's step moves thread 0 at most from a wait to the check that ends it.
LEMMA WorkerStays ==
  ASSUME IInv, NEW w \in Worker, pc[w] \notin DoneWait,
         pc' \in SignalDone(w, [pc EXCEPT ![w] = "work_wait"])
  PROVE  /\ Opened' = Opened
         /\ pc'[0] \in {"join", "join_wait"} => pc[0] \in {"join", "join_wait"}
         /\ pc'[0] \in {"closed", "create", "await", "await_wait"} =>
              pc[0] \in {"closed", "create", "await", "await_wait"}
<1>1. DoneSignalled(w) /\ 0 # w
  BY SignalDoneStep, Threads DEF IInv, PoolInv
<1>2. QED BY <1>1, Threads DEF DoneSignalled, Opened

LEMMA LoopPromise ==
  ASSUME IInv, PromiseInv, NEW w \in Worker, Loop(w)
  PROVE  PromiseInv' /\ Unseen
<1>1. CASE Start(w)
  <2>1. /\ pc[w] \notin DoneWait /\ pc' \in SignalDone(w, [pc EXCEPT ![w] = "work_wait"])
        /\ state[w] = "Starting" /\ state' = [state EXCEPT ![w] = "Idle"]
        /\ thrown' = thrown /\ error' = error /\ job' = job
    BY <1>1 DEF IInv, PoolInv, WorkerInv, Start, DoneWait
  <2>2. \A u \in Worker : SlotOf(u)' = SlotOf(u)
    BY <2>1 DEF SlotOf, Busy, IInv, PoolInv, TypeOK
  <2>3. /\ Opened' = Opened
        /\ pc'[0] \in {"join", "join_wait"} => pc[0] \in {"join", "join_wait"}
        /\ pc'[0] \in {"closed", "create", "await", "await_wait"} =>
             pc[0] \in {"closed", "create", "await", "await_wait"}
    BY <2>1, WorkerStays
  <2>4. QED BY <2>1, <2>2, <2>3 DEF PromiseInv, Unseen
<1>2. CASE TakeWork(w)
  <2>1. /\ pc'[0] = pc[0] /\ thrown' = thrown /\ error' = error /\ job' = job
        /\ \/ state' = state
           \/ state[w] = "Pending" /\ state' = [state EXCEPT ![w] = "Working"]
    BY <1>2, Threads DEF IInv, PoolInv, TypeOK, WorkerInv, TakeWork
  <2>2. \A u \in Worker : SlotOf(u)' = SlotOf(u)
    BY <2>1 DEF SlotOf, Busy, IInv, PoolInv, TypeOK
  <2>3. QED BY <2>1, <2>2 DEF PromiseInv, Unseen, Opened
<1>3. QED BY <1>1, <1>2 DEF Loop

LEMMA RunPromise ==
  ASSUME IInv, PromiseInv, NEW w \in Worker, RunJob(w)
  PROVE  PromiseInv' /\ Promise!Execute(w)
<1>1. PICK fails \in BOOLEAN : (fails <=> job[w] \in Throwing) /\ Finish(w, fails)
  <2>1. CASE job[w] \in Throwing
    BY <2>1 DEF RunJob
  <2>2. CASE job[w] \notin Throwing
    BY <2>2 DEF RunJob
  <2>3. QED BY <2>1, <2>2
<1>2. /\ pc[w] = "run" /\ pc[w] \notin DoneWait
      /\ pc' \in SignalDone(w, [pc EXCEPT ![w] = "work_wait"])
      /\ state[w] = "Working" /\ state' = [state EXCEPT ![w] = "Idle"]
      /\ error' = [error EXCEPT ![w] = fails] /\ thrown'[0] = thrown[0] /\ job' = job
  BY <1>1, Threads DEF IInv, PoolInv, TypeOK, WorkerInv, Finish, DoneWait
<1>3. /\ SlotOf(w) = "queued"
      /\ SlotOf(w)' = IF job[w] \in Throwing THEN "failed" ELSE "idle"
      /\ \A u \in Worker : u # w => SlotOf(u)' = SlotOf(u)
  BY <1>1, <1>2 DEF SlotOf, Busy, IInv, PoolInv, TypeOK
<1>4. /\ Slots' = [Slots EXCEPT ![w] = IF job[w] \in Throwing THEN "failed" ELSE "idle"]
      /\ Slots[w] = "queued"
  BY <1>3 DEF Slots
<1>5. /\ Opened' = Opened
      /\ pc'[0] \in {"join", "join_wait"} => pc[0] \in {"join", "join_wait"}
      /\ pc'[0] \in {"closed", "create", "await", "await_wait"} =>
           pc[0] \in {"closed", "create", "await", "await_wait"}
  BY <1>2, WorkerStays
<1>6. Promise!Execute(w)
  BY <1>2, <1>4, <1>5 DEF Promise!Execute, Opened, Slots, SlotOf
<1>7. PromiseInv'
  <2>1. pc[0] \in {"closed", "create", "await", "await_wait"} => state[w] \in {"Starting", "Idle"}
    BY Threads DEF IInv, PoolInv, TypeOK, MainInv, WorkerInv
  <2>2. QED BY <1>2, <1>5, <2>1 DEF PromiseInv
<1>8. QED BY <1>6, <1>7

LEMMA NextPromise ==
  ASSUME IInv, PromiseInv, [Next]_vars
  PROVE  PromiseInv' /\ [Promise!PNext]_(Promise!pvars)
<1> USE DEF Promise!PNext
<1>1. CASE InitSteps
  BY <1>1, CreationPromise, UnseenPromise
<1>2. CASE ClientCall
  <2>1. ASSUME NEW w \in Worker, JoinCall(0, w), Caught
        PROVE  PromiseInv' /\ [Promise!PNext]_(Promise!pvars)
    BY <2>1, JoinCallPromise, UnseenPromise
  <2>2. ASSUME NEW w \in Worker, NEW j \in Jobs, Dispatch(0, w, j), Caught
        PROVE  PromiseInv' /\ [Promise!PNext]_(Promise!pvars)
    BY <2>2, DispatchPromise
  <2>3. QED BY <1>2, <2>1, <2>2, ClosePromise DEF ClientCall
<1>3. CASE JoinSteps(0)
  BY <1>3, JoinPromise, UnseenPromise
<1>4. CASE ShutdownSteps
  BY <1>4, ShutdownPromise, UnseenPromise
<1>5. ASSUME NEW w \in Worker, Loop(w) \/ RunJob(w)
      PROVE  PromiseInv' /\ [Promise!PNext]_(Promise!pvars)
  BY <1>5, LoopPromise, RunPromise, UnseenPromise
<1>6. ASSUME NEW t \in Thread, SpuriousWakeup(t)
      PROVE  PromiseInv' /\ [Promise!PNext]_(Promise!pvars)
  <2>1. /\ pc'[0] = pc[0] \/ <<pc[0], pc'[0]>> \in {<<"await_wait", "await">>,
             <<"join_wait", "join">>, <<"stop_wait", "stop">>, <<"work_wait", "work">>}
        /\ thrown' = thrown /\ state' = state /\ error' = error /\ job' = job
    BY <1>6, Threads DEF IInv, PoolInv, TypeOK, SpuriousWakeup, Recheck, Waiting, poolVars
  <2>2. Unseen
    BY <2>1 DEF Unseen, Opened, SlotOf, Busy
  <2>3. PromiseInv'
    BY <2>1 DEF PromiseInv
  <2>4. QED BY <2>2, <2>3, UnseenPromise
<1>7. CASE UNCHANGED vars
  BY <1>7, UnseenPromise DEF vars, poolVars, Unseen, Opened, SlotOf, Busy, PromiseInv
<1>8. QED BY <1>1, <1>2, <1>3, <1>4, <1>5, <1>6, <1>7 DEF Next

\* The pool keeps the promise's safety part (see KeepsPromise): a job that is
\* dispatched is executed once, by a worker, also after the client has closed the
\* pool; a join ends no sooner than the job it is about, and reports a failure once;
\* and the pool is discarded only when no job is outstanding (ThreadPool.cpp).
THEOREM KeepsPromiseSafely == Spec => Promise!PInit /\ [][Promise!PNext]_(Promise!pvars)
<1>1. Init => Promise!PInit /\ PromiseInv
  BY InitPromise
<1>2. IInv /\ PromiseInv /\ [Next]_vars => PromiseInv' /\ [Promise!PNext]_(Promise!pvars)
  BY NextPromise
<1>3. QED BY <1>1, <1>2, PoolInvariant, PTL DEF Spec


\* When thread 0 is not in the pool's scope no worker owns a range.
ScopeInv ==
  /\ pc[0] = "closed" => end[0] = 0
  /\ pc[0] \notin Running => \A w \in Worker : end[w] = 0
  /\ pc[0] # "closed" /\ pc[0] \notin Running => end[0] = count
  /\ pc[0] \in Running => end[0] # 0
  /\ pc[0] \in {"create", "await", "await_wait"} => ~ threw

\* A range ends at the next thread that owns one, or at the end of the pool,
\* and so does the whole range that its owner was given.
RangeInv(t) == end[t] # 0 =>
  /\ t < end[t] /\ end[t] <= Limit(t) /\ Limit(t) <= count
  /\ end[t] # count => end[t] \in Worker /\ end[end[t]] # 0
  /\ Limit(t) # count => Limit(t) \in Worker /\ end[Limit(t)] # 0
  /\ \A u \in Thread : t < u /\ u < end[t] => end[u] = 0

\* The ranges given to two threads are nested or disjoint.
Nested ==
  \A t, u \in Thread : end[t] # 0 /\ end[u] # 0 /\ t < u /\ u < Limit(t)
                         => Limit(u) <= Limit(t)

\* A worker with a job owns a range; while its body is not running that is the
\* whole range it was given.
ActivityInv(w) ==
  /\ Busy(w) => end[w] # 0 /\ ~ error[w]
  /\ end[w] # 0 => job[w] \in Jobs
  /\ end[w] # 0 /\ state[w] # "Working" => end[w] = job[w]
  /\ thrown[w] => state[w] = "Working"

\* A thread joins the worker at the end of its range, which it forked.
CallInv(t) == pc[t] \in {"join", "join_wait"} => target[t] = end[t] /\ end[t] # Limit(t)

TreeInv ==
  /\ PoolInv
  /\ TreeTypeOK
  /\ ScopeInv
  /\ \A t \in Thread : RangeInv(t)
  /\ Nested
  /\ \A w \in Worker : ActivityInv(w)
  /\ \A t \in Thread : CallInv(t)
  /\ AllWait
  /\ FailureSurfaces

-----------------------------------------------------------------------------

USE DEF Running, Stopping0

\* The types, spelled out for the provers.
LEMMA TreeTypes ==
  ASSUME TreeInv
  PROVE  /\ count \in Nat /\ count <= N
         /\ pc \in [Thread -> Label] /\ target \in [Thread -> Thread]
         /\ end \in [Thread -> 0 .. N] /\ \A t \in Thread : end[t] \in Nat
         /\ state \in [Worker -> State] /\ job \in [Worker -> Jobs \cup {NoJob}]
         /\ error \in [Worker -> BOOLEAN] /\ thrown \in [Thread -> BOOLEAN]
         /\ \A j \in Jobs : j \in Nat /\ j <= N
         /\ \A j \in 0 .. N : j # 0 => j \in Jobs
BY Threads, RangeAssumption DEF TreeInv, TreeTypeOK, TypeOK

\* A thread in its body, or in a join, owns a range, and thread 0 is in the
\* pool's scope.
LEMMA RunningOwns ==
  ASSUME TreeInv, NEW t \in Thread, pc[t] \in Running
  PROVE  /\ end[t] # 0 /\ pc[0] \in Running
         /\ t < end[t] /\ end[t] <= Limit(t) /\ Limit(t) <= count
         /\ Limit(t) \in Nat
<1>1. end[t] # 0 /\ pc[0] \in Running
  <2>1. CASE t = 0
    BY <2>1 DEF TreeInv, ScopeInv
  <2>2. CASE t # 0
    <3>1. t \in Worker
      BY <2>2, Threads
    <3>2. end[t] # 0
      BY <3>1 DEF TreeInv, PoolInv, WorkerInv, ActivityInv, Busy
    <3>3. QED BY <3>1, <3>2 DEF TreeInv, ScopeInv
  <2>3. QED BY <2>1, <2>2
<1>2. t < end[t] /\ end[t] <= Limit(t) /\ Limit(t) <= count
  BY <1>1 DEF TreeInv, RangeInv
<1>3. Limit(t) \in Nat
  BY <1>1, TreeTypes, Threads DEF TreeInv, ActivityInv, Limit
<1>4. QED BY <1>1, <1>2, <1>3

\* A worker that owns a range is in the pool, and thread 0 is in its scope.
LEMMA OwnerInPool ==
  ASSUME TreeInv, NEW w \in Worker, end[w] # 0
  PROVE  /\ w < count /\ pc[0] \in Running /\ job[w] \in Nat
         /\ state[w] \in {"Idle", "Pending", "Working"}
<1>1. pc[0] \in Running
  BY DEF TreeInv, ScopeInv
<1>2. job[w] \in Nat /\ Limit(w) = job[w]
  BY TreeTypes, Threads DEF TreeInv, ActivityInv, Limit
<1>3. w < count
  BY <1>2, TreeTypes, Threads DEF TreeInv, RangeInv
<1>4. state[w] \notin {"Starting", "Stopping"} /\ state[w] \in State
  BY <1>1, <1>3, TreeTypes DEF TreeInv, PoolInv, MainInv
<1>5. QED BY <1>1, <1>2, <1>3, <1>4 DEF State

\* What a joining thread joins: a worker that owns a range.
LEMMA JoinTarget ==
  ASSUME TreeInv, NEW t \in Thread, pc[t] \in {"join", "join_wait"}
  PROVE  /\ target[t] = end[t] /\ end[t] # Limit(t) /\ end[t] # count
         /\ target[t] \in Worker /\ end[target[t]] # 0
<1>1. target[t] = end[t] /\ end[t] # Limit(t)
  BY DEF TreeInv, CallInv
<1>2. end[t] # count
  BY <1>1, RunningOwns, TreeTypes
<1>3. QED BY <1>1, <1>2, RunningOwns DEF TreeInv, RangeInv

LEMMA TreeOneWaiter == ASSUME TreeInv PROVE OneWaiter
<1>1. ASSUME NEW t \in Thread, pc[t] \in DoneWait PROVE target[t] \in Worker
  <2>1. CASE pc[t] = "join_wait"
    BY <2>1, JoinTarget
  <2>2. CASE pc[t] # "join_wait"
    BY <1>1, <2>2, Threads DEF TreeInv, PoolInv, MainInv, WorkerInv, DoneWait
  <2>3. QED BY <2>1, <2>2
<1>2. ASSUME NEW t \in Thread, NEW u \in Thread, pc[t] \in DoneWait, pc[u] \in DoneWait,
             target[t] = target[u], t < u
      PROVE  FALSE
  <2>1. u \in Worker /\ pc[u] = "join_wait"
    BY <1>2, Threads DEF TreeInv, PoolInv, WorkerInv, DoneWait
  <2>2. pc[t] = "join_wait"
    BY <1>2, <2>1, RunningOwns, Threads DEF TreeInv, PoolInv, WorkerInv, DoneWait
  <2>3. end[t] = end[u] /\ end[t] # 0 /\ end[u] # 0 /\ u < end[u]
    BY <1>2, <2>1, <2>2, JoinTarget, RunningOwns
  <2>4. QED BY <1>2, <2>3 DEF TreeInv, RangeInv
<1>3. \A t, u \in Thread :
        pc[t] \in DoneWait /\ pc[u] \in DoneWait /\ target[t] = target[u] => t = u
  BY <1>2, Threads
<1>4. QED BY <1>1, <1>3 DEF OneWaiter

\* Steps that change neither ranges nor what they were given.
LEMMA SameRanges ==
  ASSUME TreeInv, UNCHANGED <<end, count, job>>
  PROVE  /\ \A t \in Thread : RangeInv(t)'
         /\ Nested'
BY DEF TreeInv, RangeInv, Nested, Limit

-----------------------------------------------------------------------------
(* Single steps preserve TreeInv.                                           *)

LEMMA InitTree == TreeInit => TreeInv
<1> SUFFICES ASSUME TreeInit PROVE TreeInv
  OBVIOUS
<1>1. PoolInv
  BY InitPool DEF TreeInit
<1>2. /\ \A t \in Thread : end[t] = 0 /\ ~ thrown[t] /\ pc[t] \in {"closed", "none"}
      /\ pc[0] = "closed" /\ ~ threw
      /\ \A w \in Worker : ~ Busy(w)
  BY Threads DEF TreeInit, Init, Busy
<1>3. TreeTypeOK
  <2>1. TypeOK
    BY <1>1 DEF PoolInv
  <2>2. end \in [Thread -> 0 .. N] /\ forks \in 0 .. MaxForks /\ swaps \in 0 .. MaxSwaps
    BY Threads, BoundAssumption DEF TreeInit
  <2>3. QED BY <2>1, <2>2 DEF TreeInit, TreeTypeOK
<1>4. ScopeInv /\ AllWait /\ FailureSurfaces
  BY <1>2, Threads DEF ScopeInv, AllWait, WaitInv, FailureSurfaces
<1>5. Nested /\ \A t \in Thread : RangeInv(t) /\ CallInv(t)
  BY <1>2 DEF Nested, RangeInv, CallInv
<1>6. \A w \in Worker : ActivityInv(w)
  BY <1>2, Threads DEF ActivityInv
<1>7. QED BY <1>1, <1>3, <1>4, <1>5, <1>6 DEF TreeInv

\* While the pool is being made or taken down no worker has a job.
LEMMA OutsideScope ==
  ASSUME TreeInv, pc[0] \notin Running
  PROVE  \A w \in Worker : end[w] = 0 /\ ~ Busy(w) /\ pc[w] \notin Running /\ ~ thrown[w]
<1>1. \A w \in Worker : end[w] = 0
  BY DEF TreeInv, ScopeInv
<1>2. \A w \in Worker : ~ Busy(w)
  BY <1>1 DEF TreeInv, ActivityInv
<1>3. QED BY <1>1, <1>2 DEF TreeInv, PoolInv, WorkerInv, ActivityInv, Busy

LEMMA OpenPoolTree ==
  ASSUME TreeInv, OpenPool PROVE TreeInv'
<1>1. PoolInv' /\ AllWait'
  BY AllocatePool, CreationWaits DEF TreeInv, OpenPool
<1>2. /\ pc[0] = "closed" /\ count' \in 1 .. N
      /\ pc'[0] \in {"run", "create", "stop"}
      /\ pc'[0] = "run" <=> count' = 1
      /\ \A w \in Worker : pc'[w] = pc[w]
      /\ UNCHANGED <<state, job, error, thrown>>
  BY Threads DEF TreeInv, PoolInv, TypeOK, OpenPool, AllocateOK, AllocateFails, Allocate
<1>3. \A w \in Worker : end[w] = 0 /\ ~ Busy(w) /\ pc[w] \notin Running /\ ~ thrown[w]
  BY <1>2, OutsideScope
<1>4. /\ end' \in [Thread -> 0 .. N] /\ end'[0] = count'
      /\ \A w \in Worker : end'[w] = 0
      /\ ~ threw' /\ UNCHANGED <<forks, swaps>>
  BY <1>2, <1>3, Threads DEF TreeInv, TreeTypeOK, OpenPool
<1>5. TreeTypeOK'
  BY <1>1, <1>4 DEF TreeInv, TreeTypeOK, PoolInv, OpenPool
<1>6. ScopeInv' /\ FailureSurfaces'
  BY <1>2, <1>4, Threads DEF ScopeInv, FailureSurfaces
<1>7. \A t \in Thread : t = 0 \/ t \in Worker
  BY Threads
<1>8. \A t \in Thread : RangeInv(t)'
  BY <1>2, <1>4, <1>7, Threads DEF RangeInv, Limit
<1>9. Nested' /\ \A w \in Worker : ActivityInv(w)'
  BY <1>2, <1>3, <1>4, <1>7, Threads DEF Nested, ActivityInv, Busy
<1>10. \A t \in Thread : CallInv(t)'
  BY <1>2, <1>3, <1>7 DEF CallInv
<1>11. QED BY <1>1, <1>5, <1>6, <1>8, <1>9, <1>10 DEF TreeInv

LEMMA PoolStepsTree ==
  ASSUME TreeInv, PoolSteps PROVE TreeInv'
<1>1. PoolInv /\ AllWait /\ OneWaiter
  BY TreeOneWaiter DEF TreeInv
<1>2. PoolInv' /\ AllWait'
  BY <1>1, CreateOKPool, CreateFailsPool, AwaitStartPool, CreationWaits, StopUnlaunchedPool,
     StopWaitPool, StopPool, ReapPool, FreePool, ShutdownWaits DEF PoolSteps, ShutdownSteps
<1>3. pc[0] \notin Running /\ pc[0] # "closed" /\ count # 0
  BY <1>1 DEF PoolSteps, ShutdownSteps, CreateOK, CreateFails, AwaitStart, StopUnlaunched,
     StopWait, Stop, Reap, Free, PoolInv, MainInv
<1>4. \A w \in Worker : end[w] = 0 /\ ~ Busy(w) /\ pc[w] \notin Running /\ ~ thrown[w]
  BY <1>3, OutsideScope
<1>5. end \in [Thread -> 0 .. N] /\ end[0] = count /\ count \in 1 .. N
  BY <1>3 DEF TreeInv, TreeTypeOK, TypeOK, ScopeInv
<1>6. \A t \in Thread : t = 0 \/ t \in Worker
  BY Threads
<1>7. CASE Free
  <2>1. /\ pc[0] = "free" /\ pc'[0] = "closed" /\ count' = 0
        /\ \A w \in Worker : pc'[w] = pc[w] /\ state'[w] = "Starting"
        /\ UNCHANGED thrown
    BY <1>7, Threads DEF TreeInv, PoolInv, TypeOK, Free
  <2>2. end' \in [Thread -> 0 .. N] /\ \A t \in Thread : end'[t] = 0
    BY <1>4, <1>5, <1>6, <2>1, Threads DEF PoolSteps
  <2>3. UNCHANGED <<threw, forks, swaps>>
    BY DEF PoolSteps
  <2>4. TreeTypeOK' /\ ScopeInv' /\ Nested' /\ FailureSurfaces'
    BY <1>2, <2>1, <2>2, <2>3, Threads
    DEF TreeInv, TreeTypeOK, PoolInv, ScopeInv, Nested, FailureSurfaces
  <2>5. \A t \in Thread : RangeInv(t)' /\ CallInv(t)'
    BY <1>4, <1>6, <2>1, <2>2 DEF RangeInv, CallInv
  <2>6. \A w \in Worker : ActivityInv(w)'
    BY <1>4, <2>1, <2>2, Threads DEF ActivityInv, Busy
  <2>7. QED BY <1>2, <2>4, <2>5, <2>6 DEF TreeInv
<1>8. CASE ~ Free
  <2>1. UNCHANGED <<count, job, error, thrown>>
    BY <1>8 DEF PoolSteps, ShutdownSteps, CreateOK, CreateFails, AwaitStart, StopUnlaunched,
       StopWait, Stop, Reap, poolVars
  <2>2. UNCHANGED <<end, threw, forks, swaps>>
    <3>1. end' = [end EXCEPT ![0] = @]
      BY <1>3, <2>1 DEF PoolSteps
    <3>2. QED BY <1>5, <3>1 DEF PoolSteps
  <2>3. \A w \in Worker : ~ Busy(w)'
    BY <1>1, <1>4, <1>8 DEF PoolSteps, ShutdownSteps, CreateOK, CreateFails, AwaitStart,
       StopUnlaunched, StopWait, Stop, Reap, poolVars, Busy, PoolInv, TypeOK
  <2>4. \A w \in Worker : pc'[w] \notin Running
    BY <1>2, <2>3 DEF PoolInv, WorkerInv, Busy
  <2>5. /\ pc'[0] \in Label /\ pc'[0] \notin {"closed", "join", "join_wait"}
        /\ pc'[0] \in {"run", "create", "await", "await_wait"}
             => pc[0] \in {"create", "await"}
    <3>1. CASE CreateOK \/ CreateFails \/ AwaitStart
      BY <1>1, <3>1, Threads DEF CreateOK, CreateFails, AwaitStart, PoolInv, TypeOK, MainInv,
         Label, Waiting
    <3>2. CASE StopUnlaunched \/ StopWait \/ Stop \/ Reap
      BY <1>1, <3>2, Threads DEF StopUnlaunched, StopWait, Stop, Reap, NextStop, SignalWork,
         PoolInv, TypeOK, MainInv, Label, Waiting
    <3>3. QED BY <1>8, <3>1, <3>2 DEF PoolSteps, ShutdownSteps
  <2>6. TreeTypeOK' /\ ScopeInv'
    BY <1>2, <1>3, <1>4, <1>5, <2>1, <2>2, <2>5, Threads
    DEF TreeInv, TreeTypeOK, PoolInv, ScopeInv
  <2>7. (\A t \in Thread : RangeInv(t)') /\ Nested'
    BY <2>1, <2>2, SameRanges
  <2>8. \A t \in Thread : CallInv(t)'
    BY <1>6, <2>4, <2>5 DEF CallInv
  <2>9. \A w \in Worker : ActivityInv(w)'
    BY <1>4, <2>1, <2>2, <2>3, Threads DEF ActivityInv
  <2>10. FailureSurfaces'
    BY <1>1, <1>3, <2>1, <2>2, <2>5 DEF TreeInv, ScopeInv, FailureSurfaces, PoolInv, MainInv
  <2>11. QED BY <1>2, <2>6, <2>7, <2>8, <2>9, <2>10 DEF TreeInv
<1>9. QED BY <1>7, <1>8

\* When thread 0 has the whole pool again no worker has a range, and a failure
\* that has not been handled is one that thread 0 is unwinding for.
LEMMA WholePool ==
  ASSUME TreeInv, pc[0] = "run", end[0] = count
  PROVE  \A w \in Worker : end[w] = 0 /\ ~ thrown[w]
<1>1. ASSUME NEW w \in Worker, end[w] # 0 PROVE FALSE
  <2>1. w < count /\ w \in Thread /\ 0 < w
    BY <1>1, OwnerInPool, Threads
  <2>2. end[0] # 0
    BY RunningOwns, Threads
  <2>3. QED BY <1>1, <2>1, <2>2, Threads DEF TreeInv, RangeInv
<1>2. QED BY <1>1 DEF TreeInv, ActivityInv, Busy

LEMMA LeaveScopeTree ==
  ASSUME TreeInv, LeaveScope PROVE TreeInv'
<1>1. PoolInv' /\ AllWait'
  BY TreeOneWaiter, CloseCallPool, ShutdownWaits DEF TreeInv, LeaveScope
<1>2. /\ pc[0] = "run" /\ end[0] = count /\ pc'[0] \in {"stop", "free"}
      /\ \A w \in Worker : pc'[w] = pc[w]
      /\ UNCHANGED <<count, state, job, error, thrown, end, threw, forks, swaps>>
  BY Threads DEF TreeInv, PoolInv, TypeOK, LeaveScope, CloseCall, poolVars, treeVars
<1>3. \A w \in Worker : end[w] = 0 /\ ~ thrown[w]
  BY <1>2, WholePool
<1>4. TreeTypeOK' /\ ScopeInv'
  BY <1>1, <1>2, <1>3 DEF TreeInv, TreeTypeOK, PoolInv, ScopeInv
<1>5. (\A t \in Thread : RangeInv(t)') /\ Nested'
  BY <1>2, SameRanges
<1>6. \A w \in Worker : ActivityInv(w)'
  BY <1>2 DEF TreeInv, ActivityInv, Busy
<1>7. \A w \in Worker : pc[w] \notin Running
  BY <1>3 DEF TreeInv, PoolInv, WorkerInv, ActivityInv, Busy
<1>8. \A t \in Thread : CallInv(t)'
  BY <1>2, <1>7, Threads DEF CallInv
<1>9. FailureSurfaces'
  BY <1>2, <1>3, Threads DEF TreeInv, FailureSurfaces
<1>10. QED BY <1>1, <1>4, <1>5, <1>6, <1>8, <1>9 DEF TreeInv

LEMMA CatchTree ==
  ASSUME TreeInv, Catch PROVE TreeInv'
<1>1. /\ pc[0] = "closed" /\ thrown' = [thrown EXCEPT ![0] = FALSE]
      /\ UNCHANGED <<count, state, launched, sync, job, error, switches, oswap, pc, target,
                     end, threw, forks, swaps>>
  BY DEF Catch, poolVars, treeVars
<1>2. PoolInv' /\ AllWait' /\ TreeTypeOK'
  BY <1>1, Threads DEF TreeInv, TreeTypeOK, PoolInv, TypeOK, MainInv, WorkerInv, AllWait,
     WaitInv, Busy
<1>3. ScopeInv' /\ FailureSurfaces' /\ \A t \in Thread : CallInv(t)'
  BY <1>1 DEF TreeInv, ScopeInv, FailureSurfaces, CallInv, Limit
<1>4. (\A t \in Thread : RangeInv(t)') /\ Nested'
  BY <1>1, SameRanges
<1>5. \A w \in Worker : ActivityInv(w)'
  BY <1>1, Threads DEF TreeInv, TreeTypeOK, TypeOK, ActivityInv, Busy
<1>6. QED BY <1>2, <1>3, <1>4, <1>5 DEF TreeInv

LEMMA SwapTree ==
  ASSUME TreeInv, NEW t \in Thread, Swap(t) PROVE TreeInv'
<1>1. /\ oswap' = [oswap EXCEPT ![t] = @ + 1] /\ swaps < MaxSwaps /\ swaps' = swaps + 1
      /\ UNCHANGED <<count, state, launched, sync, job, error, switches, thrown, pc, target,
                     end, threw, forks>>
  BY DEF Swap, poolVars
<1>2. PoolInv' /\ AllWait'
  BY <1>1, Threads DEF TreeInv, PoolInv, TypeOK, MainInv, WorkerInv, AllWait, WaitInv, Busy
<1>3. TreeTypeOK'
  BY <1>1, <1>2, BoundAssumption DEF TreeInv, TreeTypeOK, PoolInv
<1>4. ScopeInv' /\ FailureSurfaces' /\ \A u \in Thread : CallInv(u)'
  BY <1>1 DEF TreeInv, ScopeInv, FailureSurfaces, CallInv, Limit
<1>5. (\A u \in Thread : RangeInv(u)') /\ Nested'
  BY <1>1, SameRanges
<1>6. \A w \in Worker : ActivityInv(w)'
  BY <1>1 DEF TreeInv, ActivityInv, Busy
<1>7. QED BY <1>2, <1>3, <1>4, <1>5, <1>6 DEF TreeInv

LEMMA ThrowTree ==
  ASSUME TreeInv, NEW t \in Thread, Throw(t) PROVE TreeInv'
<1>1. /\ pc[t] = "run" /\ thrown' = [thrown EXCEPT ![t] = TRUE] /\ threw' = TRUE
      /\ UNCHANGED <<count, state, launched, sync, job, error, switches, oswap, pc, target,
                     end, forks, swaps>>
  BY DEF Throw, InBody, poolVars
<1>2. PoolInv' /\ AllWait'
  BY <1>1, Threads DEF TreeInv, PoolInv, TypeOK, MainInv, WorkerInv, AllWait, WaitInv, Busy
<1>3. TreeTypeOK'
  BY <1>1, <1>2 DEF TreeInv, TreeTypeOK, PoolInv
<1>4. pc[0] \in Running
  BY <1>1, RunningOwns
<1>5. thrown'[t]
  BY <1>1 DEF TreeInv, TreeTypeOK, TypeOK
<1>6. ScopeInv' /\ FailureSurfaces' /\ \A u \in Thread : CallInv(u)'
  BY <1>1, <1>4, <1>5 DEF TreeInv, ScopeInv, FailureSurfaces, CallInv, Limit
<1>7. (\A u \in Thread : RangeInv(u)') /\ Nested'
  BY <1>1, SameRanges
<1>8. \A w \in Worker : ActivityInv(w)'
  BY <1>1 DEF TreeInv, TreeTypeOK, TypeOK, PoolInv, WorkerInv, ActivityInv, Busy
<1>9. QED BY <1>2, <1>3, <1>6, <1>7, <1>8 DEF TreeInv

LEMMA SpuriousTree ==
  ASSUME TreeInv, NEW t \in Thread, SpuriousWakeup(t), UNCHANGED treeVars PROVE TreeInv'
<1>1. /\ pc[t] \in Waiting /\ pc' = [pc EXCEPT ![t] = Recheck(pc[t])]
      /\ UNCHANGED <<count, state, launched, sync, job, error, switches, oswap, thrown, target,
                     end, threw, forks, swaps>>
  BY DEF SpuriousWakeup, poolVars, treeVars
<1>2. /\ pc'[t] = Recheck(pc[t]) /\ \A u \in Thread : u # t => pc'[u] = pc[u]
  BY <1>1 DEF TreeInv, PoolInv, TypeOK
<1>3. PoolInv'
  BY SpuriousPool DEF TreeInv
<1>4. AllWait'
  <2>1. \A u \in Thread : pc'[u] \in DoneWait => pc[u] = pc'[u]
    BY <1>1, <1>2 DEF Waiting, Recheck, DoneWait
  <2>2. AllWait
    BY DEF TreeInv
  <2>3. QED BY <1>1, <2>1, <2>2, QuietWaits
<1>5. TreeTypeOK'
  BY <1>1, <1>3 DEF TreeInv, TreeTypeOK, PoolInv
<1>6. \/ pc[t] = "await_wait" /\ pc'[t] = "await"
      \/ pc[t] = "join_wait" /\ pc'[t] = "join"
      \/ pc[t] = "stop_wait" /\ pc'[t] = "stop"
      \/ pc[t] = "work_wait" /\ pc'[t] = "work"
  BY <1>1, <1>2 DEF Waiting, Recheck
<1>7. pc[0] # pc'[0] => \/ pc[0] = "await_wait" /\ pc'[0] = "await"
                        \/ pc[0] = "join_wait" /\ pc'[0] = "join"
                        \/ pc[0] = "stop_wait" /\ pc'[0] = "stop"
  BY <1>2, <1>6, Threads DEF TreeInv, PoolInv, MainInv
<1>8. ScopeInv' /\ FailureSurfaces'
  BY <1>1, <1>7 DEF TreeInv, ScopeInv, FailureSurfaces
<1>9. \A u \in Thread : CallInv(u)'
  BY <1>1, <1>2, <1>6 DEF TreeInv, CallInv, Limit
<1>10. (\A u \in Thread : RangeInv(u)') /\ Nested'
  BY <1>1, SameRanges
<1>11. \A w \in Worker : ActivityInv(w)'
  BY <1>1 DEF TreeInv, ActivityInv, Busy
<1>12. QED BY <1>3, <1>4, <1>5, <1>8, <1>9, <1>10, <1>11 DEF TreeInv

LEMMA LeftEndsTree ==
  ASSUME TreeInv, NEW t \in Thread, LeftEnds(t) PROVE TreeInv'
<1>1. /\ pc[t] = "run" /\ end[t] # Limit(t) /\ end[t] \in Worker
      /\ pc' = [pc EXCEPT ![t] = "join"] /\ target' = [target EXCEPT ![t] = end[t]]
      /\ UNCHANGED <<count, state, launched, sync, job, error, switches, oswap, thrown,
                     end, threw, forks, swaps>>
  BY DEF LeftEnds, JoinCall, poolVars, treeVars
<1>2. /\ pc'[t] = "join" /\ target'[t] = end[t]
      /\ \A u \in Thread : u # t => pc'[u] = pc[u] /\ target'[u] = target[u]
  BY <1>1 DEF TreeInv, PoolInv, TypeOK
<1>3. PoolInv' /\ AllWait'
  <2>1. JoinCall(t, end[t]) /\ thrown' \in [Thread -> BOOLEAN]
    BY <1>1 DEF LeftEnds, TreeInv, PoolInv, TypeOK
  <2>2. QED BY <1>1, <2>1, JoinCallPool, CallWaits DEF TreeInv
<1>4. TreeTypeOK'
  BY <1>1, <1>3 DEF TreeInv, TreeTypeOK, PoolInv
<1>5. ScopeInv' /\ FailureSurfaces'
  BY <1>1, <1>2 DEF TreeInv, ScopeInv, FailureSurfaces
<1>6. \A u \in Thread : CallInv(u)'
  BY <1>1, <1>2 DEF TreeInv, CallInv, Limit
<1>7. (\A u \in Thread : RangeInv(u)') /\ Nested'
  BY <1>1, SameRanges
<1>8. \A w \in Worker : ActivityInv(w)'
  BY <1>1 DEF TreeInv, ActivityInv, Busy
<1>9. QED BY <1>3, <1>4, <1>5, <1>6, <1>7, <1>8 DEF TreeInv

LEMMA JoinWaitTree ==
  ASSUME TreeInv, NEW t \in Thread, JoinWait(t), UNCHANGED treeVars PROVE TreeInv'
<1>1. /\ pc[t] = "join" /\ Busy(target[t]) /\ pc' = [pc EXCEPT ![t] = "join_wait"]
      /\ UNCHANGED <<count, state, launched, sync, job, error, switches, oswap, thrown, target,
                     end, threw, forks, swaps>>
  BY DEF JoinWait, poolVars, treeVars
<1>2. pc'[t] = "join_wait" /\ \A u \in Thread : u # t => pc'[u] = pc[u]
  BY <1>1 DEF TreeInv, PoolInv, TypeOK
<1>3. PoolInv' /\ AllWait'
  <2>1. target[t] \in Worker
    BY <1>1, JoinTarget
  <2>2. QED BY <2>1, JoinWaitPool, CallWaits DEF TreeInv
<1>4. TreeTypeOK'
  BY <1>1, <1>3 DEF TreeInv, TreeTypeOK, PoolInv
<1>5. ScopeInv' /\ FailureSurfaces'
  BY <1>1, <1>2 DEF TreeInv, ScopeInv, FailureSurfaces
<1>6. \A u \in Thread : CallInv(u)'
  BY <1>1, <1>2 DEF TreeInv, CallInv, Limit
<1>7. (\A u \in Thread : RangeInv(u)') /\ Nested'
  BY <1>1, SameRanges
<1>8. \A w \in Worker : ActivityInv(w)'
  BY <1>1 DEF TreeInv, ActivityInv, Busy
<1>9. QED BY <1>3, <1>4, <1>5, <1>6, <1>7, <1>8 DEF TreeInv

LEMMA TakeWorkTree ==
  ASSUME TreeInv, NEW w \in Worker, TakeWork(w), UNCHANGED treeVars PROVE TreeInv'
<1>1. PoolInv' /\ AllWait'
  BY TreeOneWaiter, TakeWorkPool, TakeWorkWaits DEF TreeInv
<1>2. /\ pc[w] = "work" /\ pc'[w] \in {"work_wait", "exited", "run"}
      /\ \A u \in Thread : u # w => pc'[u] = pc[u]
      /\ UNCHANGED <<count, job, error, thrown, target, end, threw, forks, swaps>>
      /\ \/ state' = state
         \/ /\ state[w] = "Pending" /\ state'[w] = "Working"
            /\ \A u \in Worker : u # w => state'[u] = state[u]
  <2>1. TypeOK /\ WorkerInv(w)
    BY DEF TreeInv, PoolInv
  <2>2. pc[w] = "work" /\ state[w] \in {"Idle", "Pending", "Stopping"}
    BY <2>1 DEF WorkerInv, TakeWork
  <2>3. QED BY <2>1, <2>2, Threads DEF TypeOK, TakeWork, treeVars
<1>3. pc'[0] = pc[0]
  BY <1>2, Threads
<1>4. TreeTypeOK'
  BY <1>1, <1>2 DEF TreeInv, TreeTypeOK, PoolInv
<1>5. ScopeInv' /\ FailureSurfaces'
  BY <1>2, <1>3 DEF TreeInv, ScopeInv, FailureSurfaces
<1>6. \A u \in Thread : CallInv(u)'
  BY <1>2 DEF TreeInv, CallInv, Limit
<1>7. (\A u \in Thread : RangeInv(u)') /\ Nested'
  BY <1>2, SameRanges
<1>8. \A u \in Worker : ActivityInv(u)'
  BY <1>2 DEF TreeInv, ActivityInv, Busy
<1>9. QED BY <1>1, <1>4, <1>5, <1>6, <1>7, <1>8 DEF TreeInv

\* What a worker that signals `done' leaves of the other threads' calls.
LEMMA SignalledCalls ==
  ASSUME TreeInv, NEW w \in Worker, DoneSignalled(w), pc'[w] = "work_wait",
         UNCHANGED <<count, job, target, end, threw>>
  PROVE  ScopeInv' /\ \A t \in Thread : CallInv(t)'
<1>1. ASSUME NEW t \in Thread, t # w
      PROVE  \/ pc'[t] = pc[t]
             \/ pc[t] = "await_wait" /\ pc'[t] = "await"
             \/ pc[t] = "join_wait" /\ pc'[t] = "join"
             \/ pc[t] = "stop_wait" /\ pc'[t] = "stop"
  BY <1>1 DEF DoneSignalled
<1>2. ScopeInv'
  BY <1>1, Threads DEF TreeInv, ScopeInv
<1>3. \A t \in Thread : CallInv(t)'
  BY <1>1 DEF TreeInv, CallInv, Limit
<1>4. QED BY <1>2, <1>3

LEMMA StartTree ==
  ASSUME TreeInv, NEW w \in Worker, Start(w), UNCHANGED treeVars PROVE TreeInv'
<1>1. /\ pc[w] = "started" /\ pc[w] \notin DoneWait
      /\ pc' \in SignalDone(w, [pc EXCEPT ![w] = "work_wait"])
      /\ state'[w] = "Idle" /\ \A u \in Worker : u # w => state'[u] = state[u]
      /\ UNCHANGED <<count, job, error, thrown, target, end, threw, forks, swaps>>
  BY DEF TreeInv, PoolInv, TypeOK, Start, DoneWait, treeVars
<1>2. PoolInv' /\ AllWait' /\ TypeOK
  BY <1>1, TreeOneWaiter, StartPool, PublishWaits DEF TreeInv, PoolInv
<1>3. pc'[w] = "work_wait" /\ DoneSignalled(w)
  BY <1>1, <1>2, SignalDoneStep
<1>4. TreeTypeOK'
  BY <1>1, <1>2 DEF TreeInv, TreeTypeOK, PoolInv
<1>5. ScopeInv' /\ \A t \in Thread : CallInv(t)'
  BY <1>1, <1>3, SignalledCalls
<1>6. FailureSurfaces'
  BY <1>1, <1>3, Threads DEF TreeInv, FailureSurfaces, DoneSignalled
<1>7. (\A u \in Thread : RangeInv(u)') /\ Nested'
  BY <1>1, SameRanges
<1>8. state[w] = "Starting"
  BY <1>1 DEF TreeInv, PoolInv, WorkerInv
<1>9. \A u \in Worker : ActivityInv(u)'
  BY <1>1, <1>8 DEF TreeInv, ActivityInv, Busy
<1>10. QED BY <1>2, <1>4, <1>5, <1>6, <1>7, <1>9 DEF TreeInv

LEMMA BodyEndsTree ==
  ASSUME TreeInv, NEW w \in Worker, BodyEnds(w) PROVE TreeInv'
<1>1. /\ pc[w] = "run" /\ pc[w] \notin DoneWait /\ end[w] = Limit(w)
      /\ pc' \in SignalDone(w, [pc EXCEPT ![w] = "work_wait"])
      /\ state'[w] = "Idle" /\ \A u \in Worker : u # w => state'[u] = state[u]
      /\ error'[w] = thrown[w] /\ \A u \in Worker : u # w => error'[u] = error[u]
      /\ ~ thrown'[w] /\ \A t \in Thread : t # w => thrown'[t] = thrown[t]
      /\ UNCHANGED <<count, job, target, end, threw, forks, swaps>>
  BY Threads DEF TreeInv, PoolInv, TypeOK, BodyEnds, Finish, DoneWait, treeVars
<1>2. TypeOK /\ thrown[w] \in BOOLEAN /\ Finish(w, thrown[w])
  BY Threads DEF TreeInv, PoolInv, TypeOK, BodyEnds
<1>3. PoolInv' /\ AllWait'
  BY <1>1, <1>2, TreeOneWaiter, FinishPool, PublishWaits DEF TreeInv
<1>4. pc'[w] = "work_wait" /\ DoneSignalled(w)
  BY <1>1, <1>2, SignalDoneStep
<1>5. TreeTypeOK'
  BY <1>1, <1>3 DEF TreeInv, TreeTypeOK, PoolInv
<1>6. ScopeInv' /\ \A t \in Thread : CallInv(t)'
  BY <1>1, <1>4, SignalledCalls
<1>7. end[w] # 0 /\ pc[0] \in Running /\ w \in Thread /\ 0 # w /\ 0 \in Thread
  BY <1>1, RunningOwns, Threads
<1>8. pc'[0] \in Running
  BY <1>4, <1>7 DEF DoneSignalled
<1>9. FailureSurfaces'
  <2>1. SUFFICES ASSUME threw
                 PROVE  \/ \E t \in Thread : thrown'[t]
                        \/ \E u \in Worker : end[u] # 0 /\ error'[u]
    BY <1>1, <1>8 DEF FailureSurfaces
  <2>2. \/ \E t \in Thread : thrown[t]
        \/ \E u \in Worker : end[u] # 0 /\ error[u]
    BY <1>7, <2>1 DEF TreeInv, FailureSurfaces
  <2>3. CASE thrown[w]
    BY <1>1, <1>7, <2>3
  <2>4. ~ error[w]
    BY <1>1 DEF TreeInv, PoolInv, WorkerInv, ActivityInv, Busy
  <2>5. QED BY <1>1, <2>2, <2>3, <2>4
<1>10. (\A u \in Thread : RangeInv(u)') /\ Nested'
  BY <1>1, SameRanges
<1>11. \A u \in Worker : ActivityInv(u)'
  BY <1>1, <1>7, Threads DEF TreeInv, ActivityInv, Busy, Limit
<1>12. QED BY <1>3, <1>5, <1>6, <1>9, <1>10, <1>11 DEF TreeInv

-----------------------------------------------------------------------------
(* Fork and join, the steps that move ranges.                               *)

\* A thread in its body finds every other worker of its range idle.
LEMMA RangeIdle ==
  ASSUME TreeInv, NEW t \in Thread, pc[t] = "run", NEW c \in t + 1 .. end[t] - 1
  PROVE  /\ c \in Worker /\ c < count /\ end[c] = 0 /\ state[c] = "Idle"
         /\ t < c /\ c < end[t]
<1>1. /\ t < end[t] /\ end[t] <= count /\ pc[0] \in Running
      /\ t \in Nat /\ end[t] \in Nat /\ count \in Nat /\ count <= N
  BY RunningOwns, TreeTypes, Threads
<1>2. t < c /\ c < end[t] /\ c < count /\ c \in Worker /\ c \in Thread
  BY <1>1, Threads
<1>3. end[c] = 0
  BY <1>1, <1>2 DEF TreeInv, RangeInv
<1>4. ~ Busy(c) /\ state[c] \notin {"Starting", "Stopping"}
  BY <1>1, <1>2, <1>3 DEF TreeInv, ActivityInv, PoolInv, MainInv
<1>5. state[c] = "Idle"
  BY <1>2, <1>4, TreeTypes DEF Busy, State
<1>6. QED BY <1>2, <1>3, <1>5

LEMMA ForkRanges ==
  ASSUME TreeInv, NEW t \in Thread, NEW c \in Worker, pc[t] = "run",
         t < c, c < end[t], end[c] = 0, UNCHANGED count,
         end' = [end EXCEPT ![t] = c, ![c] = end[t]],
         job' = [job EXCEPT ![c] = end[t]]
  PROVE  (\A u \in Thread : RangeInv(u)') /\ Nested'
<1>1. /\ t < end[t] /\ end[t] <= Limit(t) /\ Limit(t) <= count /\ Limit(t) \in Nat
      /\ t \in Nat /\ end[t] \in Nat /\ c \in Nat /\ c # 0 /\ count \in Nat
      /\ c \in Thread /\ end[t] # 0
  BY RunningOwns, TreeTypes, Threads
<1>2. /\ end'[t] = c /\ end'[c] = end[t]
      /\ \A u \in Thread : u # t /\ u # c => end'[u] = end[u]
  BY <1>1, TreeTypes
<1>3. /\ Limit(c)' = end[t]
      /\ \A u \in Thread : u # c => Limit(u)' = Limit(u)
  BY <1>1, TreeTypes, Threads DEF Limit
<1>4. \A u \in Thread : u \in Nat /\ end[u] \in Nat
  BY TreeTypes, Threads
<1>5. \A u \in Thread : t < u /\ u < end[t] => end[u] = 0
  BY <1>1 DEF TreeInv, RangeInv
<1>6. \A u \in Worker : end[u] # 0 => end'[u] # 0
  BY <1>1, <1>2, Threads
<1>7. RangeInv(t)'
  <2>1. /\ t < end'[t] /\ end'[t] <= Limit(t)' /\ Limit(t)' <= count'
        /\ end'[t] \in Worker /\ end'[end'[t]] # 0
    BY <1>1, <1>2, <1>3
  <2>2. Limit(t)' # count' => Limit(t)' \in Worker /\ end'[Limit(t)'] # 0
    BY <1>1, <1>3, <1>6 DEF TreeInv, RangeInv
  <2>3. ASSUME NEW u \in Thread, t < u, u < end'[t] PROVE end'[u] = 0
    <3>1. u # t /\ u # c /\ u < end[t]
      BY <1>1, <1>2, <1>4, <2>3
    <3>2. QED BY <1>2, <1>5, <2>3, <3>1
  <2>4. QED BY <2>1, <2>2, <2>3 DEF RangeInv
<1>8. RangeInv(c)'
  <2>1. /\ c < end'[c] /\ end'[c] <= Limit(c)' /\ Limit(c)' <= count'
    BY <1>1, <1>2, <1>3
  <2>2. end[t] # count => end[t] \in Worker /\ end'[end[t]] # 0
    BY <1>1, <1>6 DEF TreeInv, RangeInv
  <2>3. ASSUME NEW u \in Thread, c < u, u < end'[c] PROVE end'[u] = 0
    <3>1. u # t /\ u # c /\ t < u /\ u < end[t]
      BY <1>1, <1>2, <1>4, <2>3
    <3>2. QED BY <1>2, <1>5, <2>3, <3>1
  <2>4. QED BY <1>2, <1>3, <2>1, <2>2, <2>3 DEF RangeInv
<1>9. ASSUME NEW u \in Thread, u # t, u # c, end[u] # 0 PROVE RangeInv(u)'
  <2>1. /\ u < end[u] /\ end[u] <= Limit(u) /\ Limit(u) <= count
        /\ end[u] # count => end[u] \in Worker /\ end'[end[u]] # 0
        /\ Limit(u) # count => Limit(u) \in Worker /\ end'[Limit(u)] # 0
        /\ \A v \in Thread : u < v /\ v < end[u] => end[v] = 0
    BY <1>6, <1>9 DEF TreeInv, RangeInv
  <2>2. ~ (u < c /\ c < end[u])
    BY <1>1, <1>4, <1>5, <1>9, <2>1
  <2>3. ~ (u < t /\ t < end[u])
    BY <1>1, <2>1
  <2>4. \A v \in Thread : u < v /\ v < end[u] => end'[v] = 0
    BY <1>2, <2>1, <2>2, <2>3
  <2>5. QED BY <1>2, <1>3, <1>9, <2>1, <2>4 DEF RangeInv
<1>10. \A u \in Thread : RangeInv(u)'
  <2>1. ASSUME NEW u \in Thread, u # t, u # c, end[u] = 0 PROVE RangeInv(u)'
    BY <1>2, <2>1 DEF RangeInv
  <2>2. QED BY <1>7, <1>8, <1>9, <2>1
<1>11. Nested'
  <2>1. SUFFICES ASSUME NEW u \in Thread, NEW v \in Thread, end'[u] # 0, end'[v] # 0,
                        u < v, v < Limit(u)'
                 PROVE  Limit(v)' <= Limit(u)'
    BY DEF Nested
  <2>2. \A x \in Thread : end[x] # 0 => Limit(x) \in Nat
    BY TreeTypes, Threads DEF TreeInv, ActivityInv, Limit
  <2>3. CASE u = c
    BY <1>1, <1>2, <1>3, <1>4, <1>5, <2>1, <2>3
  <2>4. CASE u # c /\ v # c
    BY <1>1, <1>2, <1>3, <2>1, <2>4 DEF TreeInv, Nested
  <2>5. CASE u = t /\ v = c
    BY <1>1, <1>3, <2>5
  <2>6. CASE u # t /\ u # c /\ v = c
    <3>1. end[u] # 0 /\ u < c /\ c < Limit(u) /\ Limit(u) \in Nat
      BY <1>2, <1>3, <2>1, <2>2, <2>6
    <3>2. u < t
      BY <1>1, <1>4, <1>5, <2>6, <3>1
    <3>3. Limit(t) <= Limit(u)
      BY <1>1, <1>4, <3>1, <3>2 DEF TreeInv, Nested
    <3>4. QED BY <1>1, <1>3, <2>6, <3>1, <3>3
  <2>7. QED BY <2>3, <2>4, <2>5, <2>6
<1>12. QED BY <1>10, <1>11

LEMMA ForkTreeStep ==
  ASSUME TreeInv, NEW t \in Thread, NEW c \in Worker, Fork(t, c) PROVE TreeInv'
<1>1. /\ pc[t] = "run" /\ ~ thrown[t] /\ c \in t + 1 .. end[t] - 1
      /\ forks < MaxForks /\ forks' = forks + 1
      /\ Dispatch(t, c, end[t])
      /\ end' = [end EXCEPT ![t] = c, ![c] = end[t]]
      /\ UNCHANGED <<thrown, threw, swaps>>
  BY DEF Fork, InBody
<1>2. c < count /\ end[c] = 0 /\ state[c] = "Idle" /\ t < c /\ c < end[t]
  BY <1>1, RangeIdle
<1>3. /\ end[t] # 0 /\ pc[0] \in Running /\ end[t] \in Jobs /\ end[t] \in 0 .. N
  BY <1>1, RunningOwns, TreeTypes
<1>4. PoolInv' /\ AllWait'
  BY <1>1, <1>3, TreeOneWaiter, DispatchPool, DispatchWaits, TreeTypes DEF TreeInv
<1>5. /\ state'[c] = "Pending" /\ \A w \in Worker : w # c => state'[w] = state[w]
      /\ ~ error'[c] /\ \A w \in Worker : w # c => error'[w] = error[w]
      /\ job' = [job EXCEPT ![c] = end[t]]
      /\ pc' = SignalWork(c, pc)
      /\ UNCHANGED <<count, target>>
  BY <1>1, TreeTypes DEF Dispatch
<1>6. /\ pc'[c] = IF pc[c] = "work_wait" THEN "work" ELSE pc[c]
      /\ \A u \in Thread : u # c => pc'[u] = pc[u]
  BY <1>5, SignalWorkStep, TreeTypes
<1>7. c \in Thread /\ c # t /\ c # 0 /\ t \in Nat /\ c \in 0 .. N
  BY <1>2, Threads
<1>8. /\ end'[t] = c /\ end'[c] = end[t]
      /\ \A u \in Thread : u # t /\ u # c => end'[u] = end[u]
      /\ end' \in [Thread -> 0 .. N]
  BY <1>1, <1>3, <1>7, TreeTypes
<1>9. TreeTypeOK'
  BY <1>1, <1>4, <1>8, BoundAssumption DEF TreeInv, TreeTypeOK, PoolInv
<1>10. pc'[0] = pc[0]
  BY <1>6, <1>7, Threads
<1>11. ScopeInv'
  BY <1>1, <1>3, <1>5, <1>7, <1>8, <1>10, Threads DEF TreeInv, ScopeInv
<1>12. (\A u \in Thread : RangeInv(u)') /\ Nested'
  BY <1>1, <1>2, <1>5, ForkRanges
<1>13. \A w \in Worker : ActivityInv(w)'
  <2>1. ActivityInv(c)'
    <3>1. thrown[c] = FALSE
      BY <1>2, <1>7, TreeTypes DEF TreeInv, ActivityInv
    <3>2. job'[c] = end[t]
      BY <1>5, TreeTypes
    <3>3. QED BY <1>1, <1>3, <1>5, <1>8, <3>1, <3>2 DEF ActivityInv
  <2>2. ASSUME NEW w \in Worker, w # c PROVE ActivityInv(w)'
    <3>1. ActivityInv(w) /\ job'[w] = job[w] /\ state'[w] = state[w] /\ error'[w] = error[w]
          /\ thrown'[w] = thrown[w]
      BY <1>1, <1>5, <2>2, TreeTypes DEF TreeInv
    <3>2. CASE w = t
      <4>1. state[w] = "Working"
        BY <1>1, <2>2, <3>2 DEF TreeInv, PoolInv, WorkerInv
      <4>2. QED BY <1>3, <1>7, <1>8, <3>1, <3>2, <4>1 DEF ActivityInv, Busy
    <3>3. CASE w # t
      BY <1>8, <2>2, <3>1, <3>3, Threads DEF ActivityInv, Busy
    <3>4. QED BY <3>2, <3>3
  <2>3. QED BY <2>1, <2>2
<1>14. \A u \in Thread : CallInv(u)'
  <2>1. SUFFICES ASSUME NEW u \in Thread, pc'[u] \in {"join", "join_wait"}
                 PROVE  target'[u] = end'[u] /\ end'[u] # Limit(u)'
    BY DEF CallInv
  <2>2. u # c
    BY <1>2, <1>6, <1>7, <2>1 DEF TreeInv, PoolInv, WorkerInv
  <2>3. u # t /\ pc[u] \in {"join", "join_wait"}
    BY <1>1, <1>6, <2>1, <2>2
  <2>4. Limit(u)' = Limit(u)
    BY <1>5, <2>2, TreeTypes, Threads DEF Limit
  <2>5. QED BY <1>5, <1>8, <2>2, <2>3, <2>4 DEF TreeInv, CallInv
<1>15. FailureSurfaces'
  <2>1. SUFFICES ASSUME threw
                 PROVE  \/ \E u \in Thread : thrown[u]
                        \/ \E w \in Worker : end'[w] # 0 /\ error'[w]
    BY <1>1, <1>3, <1>10 DEF FailureSurfaces
  <2>2. \/ \E u \in Thread : thrown[u]
        \/ \E w \in Worker : end[w] # 0 /\ error[w]
    BY <1>3, <2>1 DEF TreeInv, FailureSurfaces
  <2>3. ASSUME NEW w \in Worker, end[w] # 0, error[w] PROVE end'[w] # 0 /\ error'[w]
    BY <1>2, <1>5, <1>7, <1>8, <2>3, Threads
  <2>4. QED BY <2>2, <2>3
<1>16. QED BY <1>4, <1>9, <1>11, <1>12, <1>13, <1>14, <1>15 DEF TreeInv

\* A thread joins a worker that has its whole range again.
LEMMA JoinedRange ==
  ASSUME TreeInv, NEW t \in Thread, pc[t] = "join", ~ Busy(target[t])
  PROVE  /\ target[t] \in Worker /\ target[t] = end[t] /\ end[t] # Limit(t)
         /\ state[target[t]] = "Idle" /\ pc[target[t]] \notin Running
         /\ end[target[t]] # 0 /\ end[target[t]] = job[target[t]]
         /\ ~ thrown[target[t]]
<1>1. /\ target[t] \in Worker /\ end[target[t]] # 0
      /\ target[t] = end[t] /\ end[t] # Limit(t)
  BY JoinTarget
<1>2. state[target[t]] = "Idle"
  BY <1>1, OwnerInPool DEF Busy
<1>3. QED BY <1>1, <1>2 DEF TreeInv, ActivityInv, PoolInv, WorkerInv

LEMMA JoinRanges ==
  ASSUME TreeInv, NEW t \in Thread, NEW w \in Worker, pc[t] = "join",
         w = end[t], end[t] # Limit(t), end[w] # 0, end[w] = job[w],
         end' = [end EXCEPT ![t] = job[w], ![w] = 0], UNCHANGED <<count, job>>
  PROVE  (\A u \in Thread : RangeInv(u)') /\ Nested'
<1>1. /\ t < w /\ w < Limit(t) /\ Limit(t) <= count /\ Limit(t) \in Nat
      /\ t \in Nat /\ w \in Nat /\ count \in Nat /\ w \in Thread /\ end[t] # 0
      /\ w < end[w] /\ end[w] \in Nat /\ end[w] = Limit(w)
  <2>1. t < w /\ end[t] # 0 /\ w <= Limit(t) /\ Limit(t) <= count /\ Limit(t) \in Nat
    BY RunningOwns
  <2>2. w < end[w] /\ end[w] = Limit(w)
    BY Threads DEF TreeInv, RangeInv, Limit
  <2>3. QED BY <2>1, <2>2, TreeTypes, Threads
<1>2. end[w] <= Limit(t)
  BY <1>1 DEF TreeInv, Nested
<1>3. /\ end'[t] = end[w] /\ end'[w] = 0
      /\ \A u \in Thread : u # t /\ u # w => end'[u] = end[u]
  BY <1>1, TreeTypes
<1>4. \A u \in Thread : Limit(u)' = Limit(u)
  BY DEF Limit
<1>5. \A u \in Thread : u \in Nat /\ end[u] \in Nat
  BY TreeTypes, Threads
<1>6. \A u \in Thread : t < u /\ u < w => end[u] = 0
  BY <1>1 DEF TreeInv, RangeInv
<1>7. \A u \in Thread : u # w /\ end[u] # 0 => end'[u] # 0
  BY <1>1, <1>3
<1>8. RangeInv(t)'
  <2>1. t < end'[t] /\ end'[t] <= Limit(t)' /\ Limit(t)' <= count'
    BY <1>1, <1>2, <1>3, <1>4
  <2>2. end[w] # count => end[w] \in Worker /\ end'[end[w]] # 0
    BY <1>1, <1>7, Threads DEF TreeInv, RangeInv
  <2>3. Limit(t) # count => Limit(t) \in Worker /\ end'[Limit(t)] # 0
    BY <1>1, <1>7, Threads DEF TreeInv, RangeInv
  <2>4. ASSUME NEW u \in Thread, t < u, u < end[w] PROVE end'[u] = 0
    <3>1. CASE u < w
      BY <1>3, <1>5, <1>6, <2>4, <3>1, <1>1
    <3>2. CASE w < u
      BY <1>1, <1>3, <2>4, <3>2 DEF TreeInv, RangeInv
    <3>3. QED BY <1>1, <1>3, <1>5, <3>1, <3>2
  <2>5. QED BY <1>3, <1>4, <2>1, <2>2, <2>3, <2>4 DEF RangeInv
<1>9. ASSUME NEW u \in Thread, u # t, u # w, end[u] # 0 PROVE RangeInv(u)'
  <2>1. /\ u < end[u] /\ end[u] <= Limit(u) /\ Limit(u) <= count
        /\ end[u] # count => end[u] \in Worker /\ end[end[u]] # 0
        /\ Limit(u) # count => Limit(u) \in Worker /\ end[Limit(u)] # 0
        /\ \A v \in Thread : u < v /\ v < end[u] => end[v] = 0
    BY <1>9 DEF TreeInv, RangeInv
  <2>2. ~ (u < t /\ t < end[u])
    BY <1>1, <2>1
  <2>3. end[u] # w
    BY <1>1, <1>5, <1>6, <1>9, <2>1, <2>2
  <2>4. Limit(u) # w
    <3>1. SUFFICES ASSUME Limit(u) = w PROVE FALSE
      OBVIOUS
    <3>2. u < w
      BY <1>1, <1>5, <2>1, <3>1
    <3>3. u < t
      BY <1>1, <1>5, <1>6, <1>9, <3>2
    <3>4. Limit(t) <= w
      BY <1>1, <1>9, <3>1, <3>3 DEF TreeInv, Nested
    <3>5. QED BY <1>1, <3>4
  <2>5. \A v \in Thread : u < v /\ v < end[u] => end'[v] = 0
    BY <1>3, <2>1, <2>2
  <2>6. QED BY <1>3, <1>4, <1>7, <1>9, <2>1, <2>3, <2>4, <2>5, Threads DEF RangeInv
<1>10. \A u \in Thread : RangeInv(u)'
  <2>1. RangeInv(w)'
    BY <1>3 DEF RangeInv
  <2>2. ASSUME NEW u \in Thread, u # t, u # w, end[u] = 0 PROVE RangeInv(u)'
    BY <1>3, <2>2 DEF RangeInv
  <2>3. QED BY <1>8, <1>9, <2>1, <2>2
<1>11. Nested'
  BY <1>1, <1>3, <1>4 DEF TreeInv, Nested
<1>12. QED BY <1>10, <1>11

LEMMA JoinReturnTree ==
  ASSUME TreeInv, NEW t \in Thread, JoinReturn(t),
         end' = [end EXCEPT ![t] = job[target[t]], ![target[t]] = 0],
         UNCHANGED <<threw, forks, swaps>>
  PROVE  TreeInv'
<1>0. PICK w \in Worker : w = target[t]
  BY JoinTarget DEF JoinReturn
<1>1. /\ pc[t] = "join" /\ ~ Busy(w)
      /\ pc' = [pc EXCEPT ![t] = "run"] /\ target' = [target EXCEPT ![t] = 0]
      /\ error' = [error EXCEPT ![w] = FALSE]
      /\ thrown' = [thrown EXCEPT ![t] = thrown[t] \/ error[w]]
      /\ UNCHANGED <<count, state, launched, sync, job>>
  BY <1>0 DEF JoinReturn
<1>2. /\ w \in Worker /\ w = end[t] /\ end[t] # Limit(t)
      /\ state[w] = "Idle" /\ pc[w] \notin Running
      /\ end[w] # 0 /\ end[w] = job[w] /\ ~ thrown[w]
  BY <1>0, <1>1, JoinedRange
<1>3. /\ w \in Thread /\ t # w /\ pc[0] \in Running /\ end[t] # 0
  BY <1>1, <1>2, RunningOwns, Threads
<1>4. PoolInv' /\ AllWait'
  BY <1>0, JoinReturnPool, CallWaits DEF TreeInv
<1>5. /\ end'[t] = end[w] /\ end'[w] = 0
      /\ \A u \in Thread : u # t /\ u # w => end'[u] = end[u]
      /\ end' \in [Thread -> 0 .. N]
  <2>1. end' = [end EXCEPT ![t] = end[w], ![w] = 0]
    BY <1>0, <1>2
  <2>2. end[w] \in 0 .. N /\ 0 \in 0 .. N
    BY <1>3, TreeTypes, Threads
  <2>3. QED BY <1>3, <2>1, <2>2, TreeTypes
<1>6. /\ pc'[t] = "run" /\ \A u \in Thread : u # t => pc'[u] = pc[u] /\ target'[u] = target[u]
      /\ ~ error'[w] /\ \A u \in Worker : u # w => error'[u] = error[u]
      /\ (thrown'[t] <=> thrown[t] \/ error[w])
      /\ \A u \in Thread : u # t => thrown'[u] = thrown[u]
  BY <1>1, <1>2, TreeTypes
<1>7. TreeTypeOK'
  BY <1>4, <1>5 DEF TreeInv, TreeTypeOK, PoolInv
<1>8. pc'[0] \in Running
  BY <1>3, <1>6, Threads
<1>9. ScopeInv'
  BY <1>2, <1>3, <1>5, <1>8, Threads DEF TreeInv, ScopeInv
<1>10. (\A u \in Thread : RangeInv(u)') /\ Nested'
  BY <1>0, <1>1, <1>2, JoinRanges
<1>11. \A u \in Worker : ActivityInv(u)'
  <2>1. ActivityInv(w)'
    BY <1>1, <1>2, <1>3, <1>5, <1>6 DEF ActivityInv, Busy
  <2>2. ASSUME NEW u \in Worker, u # w PROVE ActivityInv(u)'
    <3>1. ActivityInv(u) /\ job'[u] = job[u] /\ state'[u] = state[u] /\ error'[u] = error[u]
      BY <1>1, <1>6, <2>2 DEF TreeInv
    <3>2. CASE u = t
      <4>1. state[u] = "Working"
        BY <1>1, <3>2 DEF TreeInv, PoolInv, WorkerInv
      <4>2. QED BY <1>2, <1>3, <1>5, <3>1, <3>2, <4>1 DEF ActivityInv, Busy
    <3>3. CASE u # t
      BY <1>5, <1>6, <2>2, <3>1, <3>3, Threads DEF ActivityInv, Busy
    <3>4. QED BY <3>2, <3>3
  <2>3. QED BY <2>1, <2>2
<1>12. \A u \in Thread : CallInv(u)'
  <2>1. SUFFICES ASSUME NEW u \in Thread, pc'[u] \in {"join", "join_wait"}
                 PROVE  target'[u] = end'[u] /\ end'[u] # Limit(u)'
    BY DEF CallInv
  <2>2. u # t /\ pc[u] \in {"join", "join_wait"}
    BY <1>6, <2>1
  <2>3. u # w
    BY <1>2, <2>2
  <2>4. QED BY <1>1, <1>5, <1>6, <2>2, <2>3 DEF TreeInv, CallInv, Limit
<1>13. FailureSurfaces'
  <2>1. SUFFICES ASSUME threw
                 PROVE  \/ \E u \in Thread : thrown'[u]
                        \/ \E u \in Worker : end'[u] # 0 /\ error'[u]
    BY <1>8 DEF FailureSurfaces
  <2>2. \/ \E u \in Thread : thrown[u]
        \/ \E u \in Worker : end[u] # 0 /\ error[u]
    BY <1>3, <2>1 DEF TreeInv, FailureSurfaces
  <2>3. ASSUME NEW u \in Thread, thrown[u] PROVE thrown'[u]
    BY <1>6, <2>3
  <2>4. ASSUME NEW u \in Worker, end[u] # 0, error[u]
        PROVE  thrown'[t] \/ (end'[u] # 0 /\ error'[u])
    BY <1>2, <1>5, <1>6, <2>4, Threads
  <2>5. QED BY <2>2, <2>3, <2>4
<1>14. QED BY <1>4, <1>7, <1>9, <1>10, <1>11, <1>12, <1>13 DEF TreeInv

-----------------------------------------------------------------------------
(* The theorems.                                                            *)

\* Every reachable state of a fork tree satisfies the inductive invariant: the
\* ranges of the threads that own one partition what their owners were given, and
\* every thread's calls are about the workers of its own range.
THEOREM TreeInvariant == TreeSpec => []TreeInv
<1>1. ASSUME TreeInv, [TreeNext]_tvars PROVE TreeInv'
  <2>1. CASE OpenPool \/ PoolSteps \/ LeaveScope \/ Catch
    BY <1>1, <2>1, OpenPoolTree, PoolStepsTree, LeaveScopeTree, CatchTree
  <2>2. ASSUME NEW t \in Thread, Branch(t) PROVE TreeInv'
    <3>1. CASE LeftEnds(t) \/ Swap(t) \/ Throw(t)
      BY <1>1, <3>1, LeftEndsTree, SwapTree, ThrowTree
    <3>2. CASE Join(t)
      BY <1>1, <3>2, JoinWaitTree, JoinReturnTree DEF Join
    <3>3. ASSUME NEW c \in Worker, Fork(t, c) PROVE TreeInv'
      BY <1>1, <3>3, ForkTreeStep
    <3>4. QED BY <2>2, <3>1, <3>2, <3>3 DEF Branch
  <2>3. ASSUME NEW w \in Worker, BodyEnds(w) \/ (Loop(w) /\ UNCHANGED treeVars)
        PROVE  TreeInv'
    BY <1>1, <2>3, BodyEndsTree, StartTree, TakeWorkTree DEF Loop
  <2>4. ASSUME NEW t \in Thread, SpuriousWakeup(t), UNCHANGED treeVars PROVE TreeInv'
    BY <1>1, <2>4, SpuriousTree
  <2>5. CASE UNCHANGED tvars
    <3>1. UNCHANGED <<count, state, launched, sync, job, error, switches, oswap, thrown, pc,
                      target, end, threw, forks, swaps>>
      BY <2>5 DEF tvars, vars, poolVars, treeVars
    <3>2. PoolInv' /\ AllWait' /\ TreeTypeOK'
      BY <1>1, <3>1 DEF TreeInv, TreeTypeOK, PoolInv, TypeOK, MainInv, WorkerInv, AllWait,
         WaitInv, Busy
    <3>3. ScopeInv' /\ FailureSurfaces' /\ \A t \in Thread : CallInv(t)'
      BY <1>1, <3>1 DEF TreeInv, ScopeInv, FailureSurfaces, CallInv, Limit
    <3>4. (\A t \in Thread : RangeInv(t)') /\ Nested'
      BY <1>1, <3>1, SameRanges
    <3>5. \A w \in Worker : ActivityInv(w)'
      BY <1>1, <3>1 DEF TreeInv, ActivityInv, Busy
    <3>6. QED BY <3>2, <3>3, <3>4, <3>5 DEF TreeInv
  <2>6. QED BY <1>1, <2>1, <2>2, <2>3, <2>4, <2>5 DEF TreeNext
<1>2. QED BY <1>1, InitTree, PTL DEF TreeSpec

\* No fork of a tree finds its worker busy, however the branches interleave: see
\* NeverBusy.
THEOREM NeverBusyHolds == TreeSpec => []NeverBusy
<1>1. TreeInv => NeverBusy
  BY RangeIdle DEF NeverBusy
<1>2. QED BY <1>1, TreeInvariant, PTL

\* The ranges of different threads never overlap: see RangesExclusive.
THEOREM RangesExclusiveHolds == TreeSpec => []RangesExclusive
<1>1. ASSUME TreeInv, NEW t \in Thread, end[t] # 0
      PROVE  /\ t < end[t] /\ end[t] <= count
             /\ \A u \in Thread : u \in t + 1 .. end[t] - 1 => end[u] = 0
  <2>1. /\ t < end[t] /\ end[t] <= Limit(t) /\ Limit(t) <= count
        /\ \A u \in Thread : t < u /\ u < end[t] => end[u] = 0
    BY <1>1 DEF TreeInv, RangeInv
  <2>2. Limit(t) \in Nat
    BY <1>1, TreeTypes, Threads DEF TreeInv, ActivityInv, Limit
  <2>3. QED BY <1>1, <2>1, <2>2, TreeTypes, Threads
<1>2. TreeInv => RangesExclusive
  BY <1>1 DEF RangesExclusive
<1>3. QED BY <1>2, TreeInvariant, PTL

\* When the pool is being closed every child has been joined, whichever branches
\* have thrown: see ChildrenJoined.
THEOREM ChildrenJoinedHolds == TreeSpec => []ChildrenJoined
<1>1. TreeInv => ChildrenJoined
  BY OutsideScope DEF ChildrenJoined
<1>2. QED BY <1>1, TreeInvariant, PTL

\* A failure of any body of the tree reaches thread 0, past joins that fail
\* themselves and threads that are already unwinding: see FailureSurfaces.
THEOREM FailureSurfacesHolds == TreeSpec => []FailureSurfaces
<1>1. TreeInv => FailureSurfaces
  BY DEF TreeInv
<1>2. QED BY <1>1, TreeInvariant, PTL

\* No lost wake-up in a tree of forks, where workers join workers: see
\* NoLostWakeup.  The waits of two threads are for two workers.
THEOREM TreeWakeups == TreeSpec => []NoLostWakeup
<1>1. TreeInv => NoLostWakeup
  BY Threads DEF TreeInv, PoolInv, WorkerInv, AllWait, WaitInv, NoLostWakeup
<1>2. QED BY <1>1, TreeInvariant, PTL

\* The workers' mutexes and condition variables outlive the tree's calls too: see
\* NoUseAfterDestroy.
THEOREM TreeObjectsAlive == TreeSpec => []NoUseAfterDestroy
<1>1. ASSUME TreeInv PROVE NoUseAfterDestroy
  <2>1. ASSUME NEW w \in Worker, pc[w] # "none" PROVE w < count /\ sync[w] = 3
    BY <1>1, <2>1 DEF TreeInv, PoolInv, WorkerInv
  <2>2. ASSUME NEW t \in Thread,
               pc[t] \in {"await", "await_wait", "join", "join_wait", "stop_wait", "reap"}
        PROVE  target[t] \in Worker /\ target[t] < count /\ sync[target[t]] = 3
    <3>1. CASE pc[t] \in {"join", "join_wait"}
      <4>1. target[t] \in Worker /\ end[target[t]] # 0
        BY <1>1, <3>1, JoinTarget
      <4>2. target[t] < count /\ pc[0] \in Running
        BY <1>1, <4>1, OwnerInPool
      <4>3. pc[target[t]] # "none"
        BY <1>1, <4>1, <4>2, Threads DEF TreeInv, PoolInv, MainInv
      <4>4. QED BY <4>1, <4>3, <2>1
    <3>2. CASE pc[t] \notin {"join", "join_wait"}
      <4>1. t = 0
        BY <1>1, <2>2, <3>2, Threads DEF TreeInv, PoolInv, WorkerInv
      <4>2. target[0] \in Worker /\ target[0] < count
        BY <1>1, <2>2, <3>2, <4>1 DEF TreeInv, PoolInv, MainInv
      <4>3. pc[target[0]] # "none"
        BY <1>1, <2>2, <3>2, <4>1, <4>2, Threads DEF TreeInv, PoolInv, MainInv
      <4>4. QED BY <4>1, <4>2, <4>3, <2>1
    <3>3. QED BY <3>1, <3>2
  <2>3. QED BY <2>1, <2>2 DEF NoUseAfterDestroy
<1>2. QED BY <1>1, TreeInvariant, PTL

-----------------------------------------------------------------------------
(* The oblivious switches.                                                  *)

\* A worker counts switches only while it has a job, and its result is kept until
\* it is joined: no counter that is reset, and no result that is overwritten, holds
\* a switch that is not counted elsewhere.
SwapInv ==
  /\ \A w \in Worker : oswap[w] # 0 => state[w] = "Working"
  /\ \A w \in Worker : switches[w] # 0 => end[w] # 0 /\ ~ Busy(w)
  /\ Total(oswap, Thread) + Total(switches, Worker) = swaps

LEMMA Counters ==
  ASSUME TreeInv
  PROVE  /\ IsFiniteSet(Thread) /\ IsFiniteSet(Worker)
         /\ Worker \subseteq Thread /\ Thread \ {0} = Worker /\ 0 \in Thread
         /\ oswap \in [Thread -> Nat] /\ switches \in [Worker -> Nat] /\ swaps \in Nat
         /\ Total(oswap, Thread) \in Int /\ Total(switches, Worker) \in Int
<1>1. IsFiniteSet(Thread) /\ IsFiniteSet(Worker)
  BY NAssumption, FS_Interval DEF Thread, Worker
<1>2. Worker \subseteq Thread /\ Thread \ {0} = Worker /\ 0 \in Thread
  BY Threads
<1>3. oswap \in [Thread -> Nat] /\ switches \in [Worker -> Nat] /\ swaps \in Nat
  BY BoundAssumption DEF TreeInv, TreeTypeOK, TypeOK
<1>4. (\A t \in Thread : oswap[t] \in Int) /\ (\A w \in Worker : switches[w] \in Int)
  BY <1>3
<1>5. QED BY <1>1, <1>2, <1>3, <1>4, TotalType

LEMMA InitSwaps == TreeInit => SwapInv
<1>1. SUFFICES ASSUME TreeInit PROVE SwapInv
  OBVIOUS
<1>2. /\ \A t \in Thread : oswap[t] = 0
      /\ \A w \in Worker : oswap[w] = 0 /\ switches[w] = 0
      /\ swaps = 0
  BY <1>1, Threads DEF TreeInit, Init
<1>3. Total(oswap, Thread) = 0 /\ Total(switches, Worker) = 0
  BY <1>1, <1>2, InitTree, Counters, TotalZero
<1>4. QED BY <1>2, <1>3 DEF SwapInv

\* Steps that touch no counter and keep what a worker with a count is doing.
LEMMA SameCounters ==
  ASSUME TreeInv, SwapInv, oswap' = oswap, switches' = switches, swaps' = swaps,
         \A w \in Worker : state'[w] = state[w] \/ (~ Busy(w) /\ state'[w] \in {"Idle", "Stopping"}),
         \A w \in Worker : end'[w] = end[w]
  PROVE  SwapInv'
BY DEF SwapInv, Busy

\* Thread 0 closes the pool when no worker holds a switch.
LEMMA NoneLeft ==
  ASSUME TreeInv, SwapInv, pc[0] \notin Running
  PROVE  /\ \A w \in Worker : oswap[w] = 0 /\ switches[w] = 0
         /\ Total(switches, Worker) = 0 /\ oswap[0] = swaps
<1>1. \A w \in Worker : end[w] = 0 /\ ~ Busy(w)
  BY DEF TreeInv, ScopeInv, ActivityInv
<1>2. \A w \in Worker : oswap[w] = 0 /\ switches[w] = 0
  BY <1>1 DEF SwapInv, Busy
<1>3. Total(switches, Worker) = 0 /\ Total(oswap, Worker) = 0
  BY <1>2, Counters, TotalZero
<1>4. Total(oswap, Thread) = oswap[0] + Total(oswap, Worker)
  <2>1. \A t \in Thread : oswap[t] \in Int
    BY Counters
  <2>2. QED BY <2>1, Counters, TotalRemove
<1>5. QED BY <1>2, <1>3, <1>4, Counters DEF SwapInv

LEMMA PoolStepsSwaps ==
  ASSUME TreeInv, SwapInv, PoolSteps
  PROVE  SwapInv'
<1>1. oswap' = oswap /\ swaps' = swaps /\ \A w \in Worker : end'[w] = end[w]
  BY TreeTypes, Threads DEF PoolSteps, CreateOK, CreateFails, AwaitStart, ShutdownSteps,
     StopUnlaunched, StopWait, Stop, Reap, Free, poolVars
<1>2. CASE Free
  <2>1. pc[0] \notin Running
    BY <1>2 DEF Free
  <2>2. \A w \in Worker : oswap'[w] = 0 /\ switches[w] = 0 /\ switches'[w] = 0
    BY <1>1, <1>2, <2>1, NoneLeft DEF Free
  <2>3. Total(switches', Worker) = Total(switches, Worker)
    BY <2>2, Counters, TotalSame
  <2>4. Total(oswap, Thread)' = Total(oswap', Thread)
    OBVIOUS
  <2>5. QED BY <1>1, <2>2, <2>3 DEF SwapInv
<1>3. CASE ~ Free
  <2>1. switches' = switches
    BY <1>3 DEF PoolSteps, CreateOK, CreateFails, AwaitStart, ShutdownSteps,
       StopUnlaunched, StopWait, Stop, Reap, poolVars
  <2>2. state' = state \/ Stop
    BY <1>3 DEF PoolSteps, CreateOK, CreateFails, AwaitStart, ShutdownSteps,
       StopUnlaunched, StopWait, Reap, poolVars
  <2>3. ASSUME NEW w \in Worker
        PROVE  state'[w] = state[w] \/ (~ Busy(w) /\ state'[w] \in {"Idle", "Stopping"})
    BY <2>2, TreeTypes DEF Stop
  <2>4. QED BY <1>1, <2>1, <2>3, SameCounters
<1>4. QED BY <1>2, <1>3

LEMMA SwapSwaps ==
  ASSUME TreeInv, SwapInv, NEW t \in Thread, Swap(t)
  PROVE  SwapInv'
<1>1. /\ oswap' = [oswap EXCEPT ![t] = @ + 1] /\ swaps' = swaps + 1
      /\ switches' = switches /\ state' = state /\ end' = end /\ pc[t] = "run"
  BY DEF Swap, InBody, poolVars
<1>2. Total(oswap', Thread) = Total(oswap, Thread) + oswap'[t] - oswap[t]
  <2>1. OnlyAt(oswap, oswap', Thread, t)
    BY <1>1, Counters DEF OnlyAt
  <2>2. QED BY <2>1, Counters, TotalChange
<1>3. oswap'[t] = oswap[t] + 1 /\ oswap[t] \in Nat
  BY <1>1, Counters
<1>4. t \in Worker => state[t] = "Working"
  BY <1>1 DEF TreeInv, PoolInv, WorkerInv
<1>5. Total(oswap', Thread) + Total(switches', Worker) = swaps'
  BY <1>1, <1>2, <1>3, Counters DEF SwapInv
<1>6. \A w \in Worker : oswap'[w] # 0 => state'[w] = "Working"
  BY <1>1, <1>4, Counters DEF SwapInv
<1>7. QED BY <1>1, <1>5, <1>6 DEF SwapInv, Busy

LEMMA LoopSwaps ==
  ASSUME TreeInv, SwapInv, NEW w \in Worker, Loop(w), UNCHANGED treeVars
  PROVE  SwapInv'
<1>1. swaps' = swaps /\ end' = end /\ switches' = switches
  BY DEF Loop, Start, TakeWork, treeVars
<1>2. CASE Start(w)
  <2>1. state[w] = "Starting"
    BY <1>2 DEF Start, TreeInv, PoolInv, WorkerInv
  <2>2. state' = [state EXCEPT ![w] = "Idle"] /\ oswap' = oswap
    BY <1>2 DEF Start
  <2>3. QED BY <1>1, <2>1, <2>2, TreeTypes, SameCounters DEF Busy
<1>3. CASE TakeWork(w)
  <2>1. oswap' = oswap
    <3>1. state[w] # "Working"
      BY <1>3 DEF TakeWork, TreeInv, PoolInv, WorkerInv
    <3>2. oswap[w] = 0
      BY <3>1 DEF SwapInv
    <3>3. oswap' = oswap \/ oswap' = [oswap EXCEPT ![w] = 0]
      BY <1>3 DEF TakeWork
    <3>4. QED BY <3>2, <3>3, Counters
  <2>2. state' = state \/ (Busy(w) /\ state' = [state EXCEPT ![w] = "Working"])
    <3>1. state[w] # "Starting"
      BY <1>3 DEF TakeWork, TreeInv, PoolInv, WorkerInv
    <3>2. QED BY <1>3, <3>1, TreeTypes DEF TakeWork, Busy, State
  <2>3. ASSUME NEW u \in Worker
        PROVE  /\ oswap'[u] # 0 => state'[u] = "Working"
               /\ switches'[u] # 0 => end'[u] # 0 /\ ~ Busy(u)'
    BY <1>1, <2>1, <2>2, TreeTypes DEF SwapInv, Busy
  <2>4. QED BY <1>1, <2>1, <2>3 DEF SwapInv
<1>4. QED BY <1>2, <1>3 DEF Loop

LEMMA BodyEndsSwaps ==
  ASSUME TreeInv, SwapInv, NEW w \in Worker, BodyEnds(w)
  PROVE  SwapInv'
<1>1. /\ pc[w] = "run" /\ state' = [state EXCEPT ![w] = "Idle"]
      /\ switches' = [switches EXCEPT ![w] = oswap[w]]
      /\ oswap' = [oswap EXCEPT ![w] = 0] /\ end' = end /\ swaps' = swaps
  BY DEF BodyEnds, Finish, treeVars
<1>2. state[w] = "Working" /\ switches[w] = 0 /\ end[w] # 0
  <2>1. state[w] = "Working"
    BY <1>1 DEF TreeInv, PoolInv, WorkerInv
  <2>2. QED BY <2>1 DEF SwapInv, Busy, TreeInv, ActivityInv
<1>3. w \in Thread /\ oswap[w] \in Nat /\ oswap'[w] = 0 /\ switches'[w] = oswap[w]
  BY <1>1, Counters
<1>4. Total(oswap', Thread) = Total(oswap, Thread) + oswap'[w] - oswap[w]
  <2>1. OnlyAt(oswap, oswap', Thread, w)
    BY <1>1, Counters DEF OnlyAt
  <2>2. QED BY <1>3, <2>1, Counters, TotalChange
<1>5. Total(switches', Worker) = Total(switches, Worker) + switches'[w] - switches[w]
  <2>1. OnlyAt(switches, switches', Worker, w)
    BY <1>1, <1>3, Counters DEF OnlyAt
  <2>2. QED BY <2>1, Counters, TotalChange
<1>6. Total(oswap', Thread) + Total(switches', Worker) = swaps'
  BY <1>1, <1>2, <1>3, <1>4, <1>5, Counters DEF SwapInv
<1>7. ASSUME NEW u \in Worker
      PROVE  /\ oswap'[u] # 0 => state'[u] = "Working"
             /\ switches'[u] # 0 => end'[u] # 0 /\ ~ Busy(u)'
  BY <1>1, <1>2, <1>3, TreeTypes, Counters DEF SwapInv, Busy
<1>8. QED BY <1>6, <1>7 DEF SwapInv

LEMMA ForkSwaps ==
  ASSUME TreeInv, SwapInv, NEW t \in Thread, NEW c \in Worker, Fork(t, c)
  PROVE  SwapInv'
<1>1. /\ pc[t] = "run" /\ c \in t + 1 .. end[t] - 1 /\ state[c] = "Idle"
      /\ state' = [state EXCEPT ![c] = "Pending"]
      /\ end' = [end EXCEPT ![t] = c, ![c] = end[t]]
      /\ oswap' = oswap /\ switches' = switches /\ swaps' = swaps
  BY DEF Fork, InBody, Dispatch
<1>2. end[c] = 0 /\ c # t /\ c # 0
  <2>1. end[t] # 0 /\ t < c /\ c < end[t]
    BY <1>1, RunningOwns, TreeTypes, Threads
  <2>2. QED BY <2>1, Threads DEF TreeInv, RangeInv
<1>3. switches[c] = 0 /\ oswap[c] = 0
  BY <1>1, <1>2 DEF SwapInv
<1>4. ASSUME NEW u \in Worker
      PROVE  /\ oswap'[u] # 0 => state'[u] = "Working"
             /\ switches'[u] # 0 => end'[u] # 0 /\ ~ Busy(u)'
  BY <1>1, <1>2, <1>3, TreeTypes, Threads DEF SwapInv, Busy
<1>5. QED BY <1>1, <1>4 DEF SwapInv

LEMMA JoinReturnSwaps ==
  ASSUME TreeInv, SwapInv, NEW t \in Thread, JoinReturn(t),
         end' = [end EXCEPT ![t] = job[target[t]], ![target[t]] = 0],
         UNCHANGED <<threw, forks, swaps>>
  PROVE  SwapInv'
<1>1. PICK w \in Worker : w = target[t]
  BY JoinTarget DEF JoinReturn
<1>2. /\ pc[t] = "join" /\ ~ Busy(w) /\ state' = state /\ swaps' = swaps
      /\ oswap' = [oswap EXCEPT ![t] = @ + switches[w]]
      /\ switches' = [switches EXCEPT ![w] = 0]
      /\ end' = [end EXCEPT ![t] = job[w], ![w] = 0]
  BY <1>1 DEF JoinReturn
<1>3. /\ oswap[t] \in Nat /\ switches[w] \in Nat
      /\ oswap'[t] = oswap[t] + switches[w] /\ switches'[w] = 0
  BY <1>2, Counters
<1>4. Total(oswap', Thread) = Total(oswap, Thread) + oswap'[t] - oswap[t]
  <2>1. OnlyAt(oswap, oswap', Thread, t)
    BY <1>2, <1>3, Counters DEF OnlyAt
  <2>2. QED BY <2>1, Counters, TotalChange
<1>5. Total(switches', Worker) = Total(switches, Worker) + switches'[w] - switches[w]
  <2>1. OnlyAt(switches, switches', Worker, w)
    BY <1>2, <1>3, Counters DEF OnlyAt
  <2>2. QED BY <2>1, Counters, TotalChange
<1>6. Total(oswap', Thread) + Total(switches', Worker) = swaps'
  BY <1>2, <1>3, <1>4, <1>5, Counters DEF SwapInv
<1>7. t \in Worker => state[t] = "Working"
  BY <1>2 DEF TreeInv, PoolInv, WorkerInv
<1>8. ASSUME NEW u \in Worker
      PROVE  /\ oswap'[u] # 0 => state'[u] = "Working"
             /\ switches'[u] # 0 => end'[u] # 0 /\ ~ Busy(u)'
  <2>1. oswap'[u] # 0 => state'[u] = "Working"
    BY <1>2, <1>7, Counters DEF SwapInv
  <2>2. CASE u = t
    <3>1. switches[u] = 0
      BY <1>7, <2>2 DEF SwapInv, Busy
    <3>2. QED BY <1>2, <2>1, <3>1, Counters
  <2>3. CASE u # t
    BY <1>2, <2>1, <2>3, TreeTypes, Threads, Counters DEF SwapInv, Busy
  <2>4. QED BY <2>2, <2>3
<1>9. QED BY <1>6, <1>8 DEF SwapInv

\* Every oblivious switch is counted exactly once, in some thread's counter or in
\* the result of a worker that is not joined yet, and all of them in thread 0's
\* counter whenever no pool is in use: see SwapsConserved.
THEOREM SwapsConservedHolds == TreeSpec => []SwapsConserved
<1>1. ASSUME TreeInv, SwapInv, [TreeNext]_tvars PROVE SwapInv'
  <2>1. CASE OpenPool
    <3>1. /\ oswap' = oswap /\ switches' = switches /\ swaps' = swaps /\ state' = state
          /\ \A w \in Worker : end'[w] = end[w]
      BY <1>1, <2>1, TreeTypes, Threads DEF OpenPool, AllocateOK, AllocateFails, Allocate
    <3>2. QED BY <1>1, <3>1, SameCounters
  <2>2. CASE PoolSteps
    BY <1>1, <2>2, PoolStepsSwaps
  <2>3. CASE LeaveScope \/ Catch
    <3>1. /\ oswap' = oswap /\ switches' = switches /\ swaps' = swaps /\ state' = state
          /\ end' = end
      BY <2>3 DEF LeaveScope, CloseCall, Catch, poolVars, treeVars
    <3>2. QED BY <1>1, <3>1, SameCounters
  <2>4. ASSUME NEW t \in Thread, Branch(t) PROVE SwapInv'
    <3>1. CASE LeftEnds(t) \/ Throw(t) \/ (JoinWait(t) /\ UNCHANGED treeVars)
      <4>1. /\ oswap' = oswap /\ switches' = switches /\ swaps' = swaps /\ state' = state
            /\ end' = end
        BY <3>1 DEF LeftEnds, JoinCall, Throw, JoinWait, poolVars, treeVars
      <4>2. QED BY <1>1, <4>1, SameCounters
    <3>2. CASE Join(t) /\ ~ (JoinWait(t) /\ UNCHANGED treeVars)
      BY <1>1, <3>2, JoinReturnSwaps DEF Join
    <3>3. CASE Swap(t)
      BY <1>1, <3>3, SwapSwaps
    <3>4. ASSUME NEW c \in Worker, Fork(t, c) PROVE SwapInv'
      BY <1>1, <3>4, ForkSwaps
    <3>5. QED BY <2>4, <3>1, <3>2, <3>3, <3>4 DEF Branch
  <2>5. ASSUME NEW w \in Worker, BodyEnds(w) \/ (Loop(w) /\ UNCHANGED treeVars)
        PROVE  SwapInv'
    BY <1>1, <2>5, BodyEndsSwaps, LoopSwaps
  <2>6. CASE UNCHANGED tvars \/ \E t \in Thread : SpuriousWakeup(t) /\ UNCHANGED treeVars
    <3>1. /\ oswap' = oswap /\ switches' = switches /\ swaps' = swaps /\ state' = state
          /\ end' = end
      BY <2>6 DEF tvars, vars, poolVars, treeVars, SpuriousWakeup
    <3>2. QED BY <1>1, <3>1, SameCounters
  <2>7. QED BY <1>1, <2>1, <2>2, <2>3, <2>4, <2>5, <2>6 DEF TreeNext
<1>2. ASSUME TreeInv, SwapInv PROVE SwapsConserved
  <2>1. pc[0] \in {"stop", "free", "closed"} => oswap[0] = swaps
    BY <1>2, NoneLeft
  <2>2. QED BY <1>2, <2>1 DEF SwapsConserved, SwapInv, Total
<1>3. TreeSpec => []SwapInv
  BY <1>1, InitSwaps, TreeInvariant, PTL DEF TreeSpec
<1>4. QED BY <1>2, <1>3, TreeInvariant, PTL

=============================================================================
