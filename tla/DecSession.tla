----------------------------- MODULE DecSession -----------------------------
(***************************************************************************)
(* The ECALLs that sample from an encrypted buffer: DecFFOS_C,             *)
(* DecFFOS_C_Opt, DecFFOS_FR and DecFFOS_FR_Par.  A session measures       *)
(* itself, decrypts, makes the controls (the offline phase), applies them  *)
(* (the online phase) and encrypts the samples; sessions follow one        *)
(* another in an enclave.                                                  *)
(*                                                                         *)
(* What the phases compute is modelled elsewhere (FfosRun, OFRNetwork,     *)
(* MemoryTracker, ThreadPool).  Here is what they leave behind: which      *)
(* resources are held, what the caller finds in ret and in its result      *)
(* buffer, and what state the profiler is in for the next session, when    *)
(* any step may fail.                                                      *)
(***************************************************************************)
EXTENDS Integers

CONSTANT MaxSessions   \* bound: the sessions of the enclave

Algorithms == {"C", "C_Opt", "FR", "FR_Par"}

VARIABLES
  sessions,   \* the sessions begun
  algorithm,  \* of the session
  pc,         \* its next step
  held,       \* how many decrypted buffers, plain results, PRB pools and thread pools
              \* are held, and how many buffers are lost
  tracker,    \* of the profiler: whether a scope is active, its phase, and broken
  completed,  \* of the session's Scope
  ret,        \* of the caller's enc_ret: parallel_status, whether it holds times, and
              \* the verdicts on the whole session and its phases
  output,     \* the caller's result buffer: "untouched", "partial", "whole", or "unshuffled"
              \* if all of it is there but not in the order it should be
  failed      \* ghost: a failure that has to spoil the ledger has happened

session_vars == <<sessions, algorithm, pc, held, tracker, completed, ret, output, failed>>

-----------------------------------------------------------------------------

Fresh == [parallel_status |-> 0, timed |-> FALSE, collect |-> FALSE,
          whole |-> "UNAVAILABLE", offline |-> "UNAVAILABLE", online |-> "UNAVAILABLE"]

Nothing == [decrypted |-> 0, result |-> 0, prb |-> 0, pool |-> 0, lost |-> 0]

\* memory_profile::Fail, or an allocation that fails.
Fails ==
  /\ tracker' = [tracker EXCEPT !.broken = @ \/ tracker.active]
  /\ failed' = (failed \/ tracker.active)

At(step) == pc = step
Goto(step) == pc' = step

\* Where an exception of the session's present step is caught.
Catches ==
  CASE algorithm = "C" -> FALSE
    [] algorithm = "C_Opt" -> pc \notin {"call", "decrypt", "check"}
    [] algorithm \in {"FR", "FR_Par"} -> pc \notin {"call", "decrypt", "check", "offline", "prb"}

Init ==
  /\ sessions = 0
  /\ algorithm \in Algorithms
  /\ pc = "idle"
  /\ held = Nothing
  /\ tracker = [active |-> FALSE, phase |-> "none", broken |-> FALSE]
  /\ completed = FALSE
  /\ ret = Fresh
  /\ output = "untouched"
  /\ failed = FALSE

\* Scope's constructor.
Asked(r) ==
  IF r.collect THEN [r EXCEPT !.whole = "INVALID", !.offline = "UNAVAILABLE",
                              !.online = "UNAVAILABLE"]
  ELSE r

\* A session begins.  The caller passes a new enc_ret or that of the session
\* before, if it was of the same algorithm, asks to be measured or not, and may pass arguments for which there is
\* nothing to do.
Call(a, collect, r) ==
  /\ r = Fresh \/ a = algorithm
  /\ At("idle") /\ sessions < MaxSessions
  /\ sessions' = sessions + 1
  /\ algorithm' = a
  /\ ret' = Asked([r EXCEPT !.collect = collect,
                            !.timed = IF a = "C_Opt" THEN FALSE ELSE @])
  /\ tracker' = [tracker EXCEPT !.active = collect]
  /\ completed' = FALSE
  /\ output' = "untouched"
  /\ \E step \in {"decrypt", "destroy"} : Goto(step)
  /\ UNCHANGED <<held, failed>>

-----------------------------------------------------------------------------
(* Decryption and the checks of the arguments.                              *)

ClearsTimes == IF algorithm = "C_Opt" THEN ret ELSE [ret EXCEPT !.timed = FALSE]

Decrypt ==
  /\ At("decrypt")
  /\ held' = [held EXCEPT !.decrypted = 1]
  /\ ret' = ClearsTimes
  /\ Goto("check")
  /\ UNCHANGED <<sessions, algorithm, tracker, completed, output, failed>>

\* Mutant: the buffer of a block that is not authentic is forgotten.
DecryptFailsLeaking ==
  /\ At("decrypt")
  /\ \E allocated \in {0, 1} : held' = [held EXCEPT !.decrypted = allocated]
  /\ Fails
  /\ ret' = ClearsTimes
  /\ Goto("destroy")
  /\ UNCHANGED <<sessions, algorithm, completed, output>>

\* The width is refused or malloc fails, and there is no buffer, or a block is not
\* authentic.
DecryptFails ==
  /\ At("decrypt")
  /\ \E allocated \in {0, 1} : held' = [held EXCEPT !.decrypted = allocated]
  /\ Fails
  /\ ret' = ClearsTimes
  /\ Goto("free")
  /\ UNCHANGED <<sessions, algorithm, completed, output>>

\* The dimensions are refused, for C_Opt by an exception.
Refuse ==
  /\ At("check")
  /\ Goto(IF algorithm = "C_Opt" THEN "catch" ELSE "free")
  /\ UNCHANGED <<sessions, algorithm, held, tracker, completed, ret, output, failed>>

Accept ==
  /\ At("check")
  /\ Goto("offline")
  /\ UNCHANGED <<sessions, algorithm, held, tracker, completed, ret, output, failed>>

-----------------------------------------------------------------------------
(* The phases.                                                              *)

\* BeginOffline and BeginOnline of Scope; a phase begun out of turn spoils the
\* ledger.
BeginPhase(phase) ==
  /\ tracker' = IF ~ tracker.active THEN tracker
                ELSE IF tracker.phase # "none" THEN [tracker EXCEPT !.broken = TRUE]
                ELSE [tracker EXCEPT !.phase = phase]
  /\ ret' = [ret EXCEPT ![phase] = IF tracker.active THEN "INVALID" ELSE @]

\* The time of a phase, then EndOffline and EndOnline.
EndPhase(phase) ==
  /\ tracker' = IF ~ tracker.active THEN tracker
                ELSE IF tracker.phase # phase THEN [tracker EXCEPT !.broken = TRUE]
                ELSE [tracker EXCEPT !.phase = "none"]
  /\ ret' = [ret EXCEPT !.timed = TRUE,
                        ![phase] = IF ~ tracker.active \/ tracker.phase # phase THEN @
                                   ELSE IF tracker.broken THEN "INVALID" ELSE "VALID"]

BeginOffline ==
  /\ At("offline")
  /\ BeginPhase("offline")
  /\ Goto("prb")
  /\ UNCHANGED <<sessions, algorithm, held, completed, output, failed>>

PRB_pool_init ==
  /\ At("prb")
  /\ held' = [held EXCEPT !.prb = @ + 1]
  /\ Goto(IF algorithm = "FR_Par" THEN "budget" ELSE "controls")
  /\ UNCHANGED <<sessions, algorithm, tracker, completed, ret, output, failed>>

\* ResolveParallelBudget: the budget may exceed the processors (1) or the
\* enclave's threads (2).
ResolveParallelBudget ==
  /\ At("budget")
  /\ \E status \in {0, 1, 2} :
       /\ ret' = [ret EXCEPT !.parallel_status = status]
       /\ Goto(IF status = 0 THEN "pool" ELSE "catch")
  /\ UNCHANGED <<sessions, algorithm, held, tracker, completed, output, failed>>

OpenPool ==
  /\ At("pool")
  /\ held' = [held EXCEPT !.pool = @ + 1]
  /\ Goto("controls")
  /\ UNCHANGED <<sessions, algorithm, tracker, completed, ret, output, failed>>

\* The marks, the frontier and the controls are made.
MakeControls ==
  /\ At("controls")
  /\ EndPhase("offline")
  /\ Goto("online")
  /\ UNCHANGED <<sessions, algorithm, held, completed, output, failed>>

BeginOnline ==
  /\ At("online")
  /\ BeginPhase("online")
  /\ Goto("apply")
  /\ UNCHANGED <<sessions, algorithm, held, completed, output, failed>>

\* The controls are applied, the pool is closed, and what was consumed is what
\* had been counted.
Apply ==
  /\ At("apply")
  /\ held' = [held EXCEPT !.pool = 0]
  /\ EndPhase("online")
  /\ Goto("encrypt")
  /\ UNCHANGED <<sessions, algorithm, completed, output, failed>>

\* It is not: for DecFFOS_C that only withholds the result.
Mismatch ==
  /\ At("apply") /\ algorithm = "C"
  /\ EndPhase("online")
  /\ Goto("shutdown")
  /\ UNCHANGED <<sessions, algorithm, held, completed, output, failed>>

\* An exception, of an allocation or not, in a step that allocates or checks.
Throw ==
  /\ pc \in {"prb", "pool", "controls", "apply"}
  /\ Fails \/ UNCHANGED <<tracker, failed>>
  /\ IF Catches THEN Goto("catch") /\ held' = [held EXCEPT !.pool = 0]
     ELSE Goto("aborted") /\ UNCHANGED held
  /\ UNCHANGED <<sessions, algorithm, completed, ret, output>>

\* The samples are encrypted; when that fails, a part of the result is written.
Encrypt ==
  /\ At("encrypt")
  /\ \/ output' = "whole" /\ completed' = TRUE /\ UNCHANGED <<tracker, failed>>
     \/ output' = "partial" /\ Fails /\ UNCHANGED completed
  /\ Goto("shutdown")
  /\ UNCHANGED <<sessions, algorithm, held, ret>>

\* Mutant: the times stay.
CatchKeepingTimes ==
  /\ At("catch")
  /\ ret' = [ret EXCEPT !.parallel_status =
                          IF algorithm = "FR_Par" /\ @ = 0 THEN 3 ELSE @]
  /\ Goto("shutdown")
  /\ UNCHANGED <<sessions, algorithm, held, tracker, completed, output, failed>>

\* catch (const std::exception &)
Catch ==
  /\ At("catch")
  /\ ret' = [ret EXCEPT !.timed = FALSE,
                        !.parallel_status =
                          IF algorithm = "FR_Par" /\ @ = 0 THEN 3 ELSE @]
  /\ Goto("shutdown")
  /\ UNCHANGED <<sessions, algorithm, held, tracker, completed, output, failed>>

\* PRB_pool_shutdown, which C_Opt calls only if it has come to have a pool.
PRB_pool_shutdown ==
  /\ At("shutdown")
  /\ held' = [held EXCEPT !.prb = IF algorithm = "C_Opt" /\ @ = 0 THEN 0 ELSE @ - 1]
  /\ Goto("free")
  /\ UNCHANGED <<sessions, algorithm, tracker, completed, ret, output, failed>>

\* free(decrypted), of a null pointer too.
Free ==
  /\ At("free")
  /\ held' = [held EXCEPT !.decrypted = 0]
  /\ Goto("destroy")
  /\ UNCHANGED <<sessions, algorithm, tracker, completed, ret, output, failed>>

Demoted(status) == IF status = "UNAVAILABLE" THEN status ELSE "INVALID"

\* Scope's destructor.
Finish ==
  /\ At("destroy")
  /\ LET valid == completed /\ ~ tracker.broken /\ tracker.phase = "none"
     IN ret' = IF ~ tracker.active THEN ret
               ELSE [ret EXCEPT !.whole = IF valid THEN "VALID" ELSE "INVALID",
                                !.offline = IF valid THEN @ ELSE Demoted(@),
                                !.online = IF valid THEN @ ELSE Demoted(@)]
  /\ tracker' = IF tracker.active THEN [tracker EXCEPT !.active = FALSE, !.phase = "none"]
                ELSE tracker
  /\ Goto("idle")
  /\ UNCHANGED <<sessions, algorithm, held, completed, output, failed>>

Steps ==
  \/ Decrypt \/ DecryptFails \/ Refuse \/ Accept
  \/ BeginOffline \/ PRB_pool_init \/ ResolveParallelBudget \/ OpenPool \/ MakeControls
  \/ BeginOnline \/ Apply \/ Mismatch \/ Throw \/ Encrypt \/ Catch
  \/ PRB_pool_shutdown \/ Free \/ Finish

Next ==
  \/ \E a \in Algorithms, collect \in BOOLEAN, r \in {Fresh, ret} : Call(a, collect, r)
  \/ Steps

Spec == Init /\ [][Next]_session_vars

-----------------------------------------------------------------------------
(* Properties.                                                              *)

Statuses == {"UNAVAILABLE", "INVALID", "VALID"}

\* Type invariant.
TypeOK ==
  /\ sessions \in 0 .. MaxSessions
  /\ algorithm \in Algorithms
  /\ held \in [decrypted : {0, 1}, result : {0, 1}, prb : {0, 1}, pool : {0, 1}, lost : {0}]
  /\ tracker \in [active : BOOLEAN, phase : {"none", "offline", "online"}, broken : BOOLEAN]
  /\ completed \in BOOLEAN
  /\ ret \in [parallel_status : 0 .. 3, timed : BOOLEAN, collect : BOOLEAN,
              whole : Statuses, offline : Statuses, online : Statuses]
  /\ output \in {"untouched", "partial", "whole"}
  /\ failed \in BOOLEAN

Ended == pc = "idle" /\ sessions > 0

\* However a session ends, it has given back what it had taken, once, unless the
\* exception took the enclave with it.  What decryptAndSubSampleMulti loses is
\* not among it (SubSample.cpp:283).
Released == Ended => [held EXCEPT !.lost = 0] = Nothing

\* An exception, in whatever phase, spoils the measurements of its own session
\* and no other: the profiler is marked broken, which nothing undoes, only after
\* a failure that the ledger may not survive (MemoryProfile.cpp:185).
BrokenOnlyByFailure == tracker.broken => failed

\* What ret says of a session's result is true: nothing measured is valid unless
\* every sample has been delivered, and a parallel session that reports an error
\* has left the result buffer alone and reports no times (FFOS_FR.cpp:1008-1015;
\* parallel_test.cpp:91).
ReportTrue ==
  Ended =>
    /\ ret.collect /\ "VALID" \in {ret.whole, ret.offline, ret.online} => output = "whole"
    /\ algorithm = "FR_Par" /\ ret.parallel_status # 0 => output = "untouched" /\ ~ ret.timed

=============================================================================
