---------------------------- MODULE OlderSession ----------------------------
(***************************************************************************)
(* The other ECALLs that take an encrypted buffer: those of the samplers   *)
(* before SubSample_v2, of the baselines and of the shuffle.  They share   *)
(* the enclave, its allocator and the profiler with those of DecSession    *)
(* and may come between them.  Only three of them measure themselves, none *)
(* in phases, only one catches exceptions, and three go on when nothing    *)
(* could be decrypted.                                                     *)
(***************************************************************************)
EXTENDS DecSession

\* decryptAndSubSample, decryptAndSubSampleMulti and ..._opt, DecCompactionBasedSWO,
\* DecShuffleBasedSWO, DecPSQF_single, DecPSQF_SWO, DecryptAndShuffleM1 and ...M2.
OlderAlgorithms == {"subSample", "subSampleMulti", "CompactionBased", "ShuffleBased",
                    "PSQF_single", "PSQF_SWO", "shuffle"}

\* Those that have a Scope.
Scoped == {"CompactionBased", "ShuffleBased", "PSQF_SWO"}

\* Those that do not look whether decryptBuffer has failed.
Heedless == {"subSample", "PSQF_single", "shuffle"}

Older(step, set) == At(step) /\ algorithm \in set

\* A session begins.
OlderCall(a, collect, r) ==
  /\ r = Fresh \/ a = algorithm
  /\ At("idle") /\ sessions < MaxSessions
  /\ sessions' = sessions + 1
  /\ algorithm' = a
  /\ LET asked == [r EXCEPT !.collect = collect,
                            !.timed = @ /\ a \notin {"CompactionBased", "ShuffleBased"}]
     IN ret' = (IF a \in Scoped THEN Asked(asked) ELSE asked)
  /\ tracker' = [tracker EXCEPT !.active = collect /\ a \in Scoped]
  /\ completed' = FALSE
  /\ output' = "untouched"
  /\ Goto("older_decrypt")
  /\ UNCHANGED <<held, failed>>

\* Arguments are refused before anything is decrypted; DecCompactionBasedSWO has
\* the profiler fail.
OlderRefuse ==
  /\ Older("older_decrypt", Scoped)
  /\ IF algorithm = "CompactionBased" THEN Fails ELSE UNCHANGED <<tracker, failed>>
  /\ Goto("destroy")
  /\ UNCHANGED <<sessions, algorithm, held, completed, ret, output>>

OlderDecrypt ==
  /\ At("older_decrypt")
  /\ held' = [held EXCEPT !.decrypted = 1]
  /\ Goto("dimensions")
  /\ UNCHANGED <<sessions, algorithm, tracker, completed, ret, output, failed>>

\* decryptBuffer has failed; decryptAndSubSampleMulti and ..._opt return without
\* freeing what it had allocated.
OlderDecryptFails ==
  /\ Older("older_decrypt", OlderAlgorithms \ Heedless)
  /\ Fails
  /\ \E allocated \in {0, 1} :
       held' = (IF algorithm = "subSampleMulti" THEN [held EXCEPT !.lost = @ + allocated]
                ELSE [held EXCEPT !.decrypted = allocated])
  /\ ret' = [ret EXCEPT !.timed = @ /\ algorithm # "subSampleMulti"]
  /\ Goto("older_free")
  /\ UNCHANGED <<sessions, algorithm, completed, output>>

\* The same, unheeded: the algorithm is run on no buffer or one that is decrypted in
\* part, with blocks of SIZE_MAX bytes, and may or may not survive it.
OlderHeedless ==
  /\ Older("older_decrypt", Heedless)
  /\ Fails
  /\ \E allocated \in {0, 1} : held' = [held EXCEPT !.decrypted = allocated]
  /\ \/ Goto("aborted") /\ UNCHANGED output
     \/ Goto("older_free") /\ output' \in {"untouched", "partial"}
  /\ UNCHANGED <<sessions, algorithm, completed, ret>>

\* There is nothing to sample.
OlderNothing ==
  /\ Older("dimensions", {"subSample", "subSampleMulti", "PSQF_single", "PSQF_SWO"})
  /\ ret' = [ret EXCEPT !.timed = FALSE]
  /\ Goto("older_free")
  /\ UNCHANGED <<sessions, algorithm, held, tracker, completed, output, failed>>

\* Those that encrypt at the end of the ECALL allocate the plain result.
Allocating == {"CompactionBased", "ShuffleBased", "PSQF_single"}

OlderAllocate ==
  /\ At("dimensions")
  /\ held' = [held EXCEPT !.result = IF algorithm \in Allocating THEN 1 ELSE 0]
  /\ Goto("older_prb")
  /\ UNCHANGED <<sessions, algorithm, tracker, completed, ret, output, failed>>

OlderAllocateFails ==
  /\ Older("dimensions", Allocating)
  /\ Fails
  /\ Goto("older_free")
  /\ UNCHANGED <<sessions, algorithm, held, completed, ret, output>>

OlderPool ==
  /\ At("older_prb")
  /\ held' = [held EXCEPT !.prb = @ + 1]
  /\ Goto("run")
  /\ UNCHANGED <<sessions, algorithm, tracker, completed, ret, output, failed>>

\* The algorithm succeeds.
OlderRun ==
  /\ At("run")
  /\ ret' = [ret EXCEPT !.timed = TRUE]
  /\ Goto("deliver")
  /\ UNCHANGED <<sessions, algorithm, held, tracker, completed, output, failed>>

\* An array that a shuffle needs is not there: it returns without a word, and the
\* records are delivered as they are.
OlderUnshuffled ==
  /\ Older("run", OlderAlgorithms \ {"subSampleMulti", "CompactionBased"})
  /\ Fails
  /\ ret' = [ret EXCEPT !.timed = TRUE]
  /\ Goto("deliver_unshuffled")
  /\ UNCHANGED <<sessions, algorithm, held, completed, output>>

\* An allocation for which the algorithm looks fails, and it returns; the one of
\* subSampleMulti_opt leaves the times of an earlier session.
OlderGivesUp ==
  /\ Older("run", {"subSample", "subSampleMulti", "PSQF_SWO"})
  /\ Fails
  /\ ret' = [ret EXCEPT !.timed = @ /\ algorithm = "subSampleMulti"]
  /\ Goto("older_shutdown")
  /\ UNCHANGED <<sessions, algorithm, held, completed, output>>

\* One for which it does not look.  DecCompactionBasedSWO catches the exception;
\* the destructors of its buffers and of its RandomPool run.
OlderThrow ==
  /\ pc \in {"older_prb", "run"}
  /\ Fails
  /\ IF algorithm = "CompactionBased"
     THEN /\ ret' = [ret EXCEPT !.timed = FALSE]
          /\ Goto(IF At("run") THEN "older_shutdown" ELSE "older_free")
     ELSE UNCHANGED ret /\ Goto("aborted")
  /\ UNCHANGED <<sessions, algorithm, held, completed, output>>

\* The result is encrypted, by PSQF_SWO copy by copy; a failure is heeded by those
\* that complete their Scope only after success.
OlderDeliver ==
  /\ pc \in {"deliver", "deliver_unshuffled"}
  /\ \/ /\ output' = (IF At("deliver") THEN "whole" ELSE "unshuffled")
        /\ completed' = (algorithm \in {"CompactionBased", "ShuffleBased"})
        /\ UNCHANGED <<tracker, failed>>
     \/ output' = "partial" /\ Fails /\ UNCHANGED completed
  /\ Goto("older_shutdown")
  /\ UNCHANGED <<sessions, algorithm, held, ret>>

\* PRB_pool_shutdown; DecPSQF_SWO completes its Scope whatever has happened.
OlderShutdown ==
  /\ At("older_shutdown")
  /\ held' = [held EXCEPT !.prb = @ - 1]
  /\ completed' = (completed \/ algorithm = "PSQF_SWO")
  /\ Goto("older_free")
  /\ UNCHANGED <<sessions, algorithm, tracker, ret, output, failed>>

\* The buffers are freed.  What has no Scope has ended then, which is what the
\* destructor of one does that is not active.
OlderFree ==
  /\ At("older_free")
  /\ held' = [held EXCEPT !.decrypted = 0, !.result = 0]
  /\ Goto("destroy")
  /\ UNCHANGED <<sessions, algorithm, tracker, completed, ret, output, failed>>

OlderSteps ==
  \/ OlderRefuse \/ OlderDecrypt \/ OlderDecryptFails \/ OlderHeedless
  \/ OlderNothing \/ OlderAllocate \/ OlderAllocateFails \/ OlderPool
  \/ OlderRun \/ OlderUnshuffled \/ OlderGivesUp \/ OlderThrow
  \/ OlderDeliver \/ OlderShutdown \/ OlderFree

OlderNext ==
  \/ Next
  \/ \E a \in OlderAlgorithms, collect \in BOOLEAN, r \in {Fresh, ret} : OlderCall(a, collect, r)
  \/ OlderSteps

OlderSpec == Init /\ [][OlderNext]_session_vars

=============================================================================
