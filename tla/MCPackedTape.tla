---------------------------- MODULE MCPackedTape ----------------------------
(* Instances of PackedTape for TLC. *)
EXTENDS PackedTape

\* Bits that differ from their neighbours and from the zeros of a fresh tape.
MCSource == [b \in 0 .. Length - 1 |-> IF b % 5 = 3 THEN 0 ELSE 1]

\* Bound: a writer fills its span from both ends inward.
FromEnds(w) ==
  \A b \in chunk'[w] : \/ cut[w - 1] .. b \subseteq written \cup chunk'[w]
                       \/ b .. cut[w] - 1 \subseteq written \cup chunk'[w]

MCSpec == Init /\ [][Next /\ \A w \in Writer : FromEnds(w)]_vars

=============================================================================
