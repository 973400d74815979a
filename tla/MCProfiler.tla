----------------------------- MODULE MCProfiler -----------------------------
(***************************************************************************)
(* The heap profiler, for TLC: by itself, or in the ECALLs that measure    *)
(* themselves with it.  By itself broken is never reset: once it is set,   *)
(* only what is under way is brought to its end (a bound).                 *)
(***************************************************************************)
EXTENDS MemoryTracker, TLC

CONSTANT MaxSessions

VARIABLES sessions, algorithm, pc, held, session_tracker, completed, session_ret, output, failed

session == <<sessions, algorithm, pc, held, session_tracker, completed, session_ret, output,
             failed>>

Sessions == INSTANCE OlderSession WITH tracker <- session_tracker, ret <- session_ret

Symmetry == Permutations(Thread) \cup Permutations(Address)

InSession == algorithm # ""

NoSession ==
  /\ sessions = 0 /\ algorithm = "" /\ pc = "" /\ held = << >> /\ session_tracker = << >>
  /\ completed = FALSE /\ session_ret = << >> /\ output = "" /\ failed = FALSE

ProfilerInit == Init /\ (NoSession \/ Sessions!Init)

ProfilerNext ==
  \/ ~ broken /\ (ScopeSteps \/ \E t \in Thread : Calls(t))
  \/ \E t \in Thread : Returns(t)
  \/ Open \/ EndOffline \/ EndOnline
  \/ \E completes \in BOOLEAN : Close(completes)

MCNext ==
  \/ ~ InSession /\ ProfilerNext /\ UNCHANGED session
  \/ InSession /\ Sessions!OlderNext /\ UNCHANGED vars
  \/ InSession /\ pc \in {"idle", "aborted"} /\ UNCHANGED <<vars, session>>

MCSpec == ProfilerInit /\ [][MCNext]_<<vars, session>>

\* A session gives back what it takes, and when it is left in the middle it spoils no
\* other one's measurements (FFOS_FR.cpp:956-1016 and the other ECALLs;
\* MemoryProfile.cpp:185).
NothingLeft == InSession => Sessions!Released /\ Sessions!BrokenOnlyByFailure

\* What a session reports as valid has been delivered, in the order it should have,
\* and no error comes with a result (FFOS_FR.cpp:1008-1015, MemoryProfile.cpp:175-180).
ReportTrue == InSession => Sessions!ReportTrue

=============================================================================
