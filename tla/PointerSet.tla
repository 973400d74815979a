----------------------------- MODULE PointerSet -----------------------------
(***************************************************************************)
(* What the profiler's table promises: it is the set of the live pointers. *)
(* A pointer is gone from the moment that Remove has found it; until       *)
(* Remove returns there is no other operation.                             *)
(***************************************************************************)
CONSTANT Pointer
VARIABLES
  live,      \* the pointers in the set
  removing   \* Remove has not returned

Init == live = {} /\ ~ removing

Add(p) == ~ removing /\ p \notin live /\ live' = live \cup {p} /\ UNCHANGED removing
Remove(p) == ~ removing /\ p \in live /\ live' = live \ {p} /\ removing' = TRUE
Removed == removing /\ removing' = FALSE /\ UNCHANGED live

Next == (\E p \in Pointer : Add(p) \/ Remove(p)) \/ Removed

Spec == Init /\ [][Next]_<<live, removing>>

=============================================================================
