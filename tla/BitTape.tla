------------------------------ MODULE BitTape ------------------------------
(***************************************************************************)
(* What a control tape promises its writers: every control they set is set *)
(* at once and for good, whoever else writes the tape, and nothing else    *)
(* ever changes a bit of it.                                               *)
(***************************************************************************)
CONSTANTS Position, Source

VARIABLES
  bits,       \* the bits of the tape
  written     \* the positions whose controls have been set

Init == bits = [b \in Position |-> 0] /\ written = {}

\* Some controls are set together.
Set ==
  /\ written \subseteq written' /\ written' \subseteq Position
  /\ bits' = [b \in Position |-> IF b \in written' \ written THEN Source[b] ELSE bits[b]]

Spec == Init /\ [][Set]_<<bits, written>>

=============================================================================
