----------------------------- MODULE WorkerPool -----------------------------
(***************************************************************************)
(* What the worker pool promises to a single client (the interface of      *)
(* Enclave/ThreadPool.hpp).  A slot holds at most one job.  A job that was *)
(* submitted is executed exactly once, also when the client closes the     *)
(* pool first.  Collecting a slot waits for its job and reports, once,     *)
(* that it failed.                                                         *)
(***************************************************************************)
CONSTANTS Worker, Jobs, Throwing

VARIABLES
  open,     \* the client may use the pool
  slot,     \* "idle", "queued": its job has not ended, or "failed"
  job,      \* the job submitted last
  caught    \* the client's last collect reported a failure

pvars == <<open, slot, job, caught>>

PInit ==
  /\ ~ open
  /\ slot = [w \in Worker |-> "idle"]
  /\ ~ caught

Open ==
  /\ ~ open /\ open'
  /\ \A w \in Worker : slot[w] = "idle"
  /\ UNCHANGED <<slot, job, caught>>

Submit(w, j) ==
  /\ open /\ UNCHANGED open
  /\ slot[w] # "queued"
  /\ slot' = [slot EXCEPT ![w] = "queued"]
  /\ job' = [job EXCEPT ![w] = j]
  /\ ~ caught'

Execute(w) ==
  /\ slot[w] = "queued"
  /\ slot' = [slot EXCEPT ![w] = IF job[w] \in Throwing THEN "failed" ELSE "idle"]
  /\ UNCHANGED <<open, job, caught>>

\* A failure reported by an earlier call has been handled before this one.
Handle ==
  /\ open /\ caught /\ ~ caught'
  /\ UNCHANGED <<open, slot, job>>

Collect(w) ==
  /\ open /\ ~ caught
  /\ slot[w] # "queued"
  /\ caught' = (slot[w] = "failed")
  /\ slot' = [slot EXCEPT ![w] = "idle"]
  /\ UNCHANGED <<open, job>>

Close ==
  /\ open /\ ~ open'
  /\ UNCHANGED <<slot, job, caught>>

\* A closed pool is discarded once no job is outstanding.
Discard ==
  /\ ~ open
  /\ \A w \in Worker : slot[w] # "queued"
  /\ slot' = [w \in Worker |-> "idle"]
  /\ UNCHANGED <<open, caught>>

PNext ==
  \/ Open \/ Close \/ Discard \/ Handle
  \/ \E w \in Worker : Execute(w) \/ Collect(w) \/ (\E j \in Jobs : Submit(w, j))

Spec == PInit /\ [][PNext]_pvars /\ \A w \in Worker : WF_pvars(Execute(w))

=============================================================================
