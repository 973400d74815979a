-------------------------------- MODULE Mark --------------------------------
(***************************************************************************)
(* How the program draws m of n records without looking at them: it goes   *)
(* through the records and marks each with a coin of its own, whose odds   *)
(* depend on how many marks are still to be given to how many records.     *)
(* FFOS_CMark does this for every sample, by itself, as markGenMulti had   *)
(* done before; markGen does it for one sample with another comparison,    *)
(* which MarkHalf of the recursive shuffle uses for m = n \div 2.          *)
(*                                                                         *)
(* weight counts the sequences of coins that lead to a state, so that the  *)
(* odds of every outcome can be compared.                                  *)
(***************************************************************************)
EXTENDS Integers, FiniteSets, FiniteSetsExt

CONSTANTS
  Coins,   \* 2^32: a coin is a number below
  MaxN     \* bound: the records

ASSUME CoinsAssumption == Coins \in Nat \ {0}
ASSUME MaxNAssumption == MaxN \in Nat

VARIABLES
  n, m,    \* how many to draw from
  rule,    \* "below" for FFOS_CMark and markGenMulti, "scaled" for markGen and MarkHalf
  i,       \* the records that have had their coin
  left,    \* left_to_mark
  marked,  \* the records marked
  weight

vars == <<n, m, rule, i, left, marked, weight>>

Remaining == n - i

\* Mutant: the record in hand is counted twice.
MarksRarely(coin) == coin < (left * Coins) \div (Remaining + 1)

\* FFOS_CMark: random_coin < threshold, which is 2^32 when all that remain have
\* to be marked.
MarksBelow(coin) == coin < (left * Coins) \div Remaining

\* Mutant: the comparison is strict.
MarksAbove(coin) == (Remaining * coin) \div Coins > Remaining - left

\* MarkHalf and markGen: the coin, scaled to the records that remain, against the number of
\* them that stay unmarked.
MarksScaled(coin) == (Remaining * coin) \div Coins >= Remaining - left

Marks(coin) == IF rule = "below" THEN MarksBelow(coin) ELSE MarksScaled(coin)

\* More marks than there are records have been reduced to as many.
Init ==
  /\ n \in 0 .. MaxN
  /\ m \in 0 .. n
  /\ rule \in {"below", "scaled"}
  /\ i = 0
  /\ left = m
  /\ marked = {}
  /\ weight = 1

\* One record: the coins that mark it, or those that do not.
Draw(mark) ==
  /\ i < n
  /\ LET coins == {c \in 0 .. Coins - 1 : Marks(c) <=> mark}
     IN /\ coins # {}
        /\ weight' = weight * Cardinality(coins)
  /\ left' = IF mark THEN left - 1 ELSE left
  /\ marked' = IF mark THEN marked \cup {i} ELSE marked
  /\ i' = i + 1
  /\ UNCHANGED <<n, m, rule>>

FFOS_CMark == rule = "below" /\ \E mark \in BOOLEAN : Draw(mark)
markGen == rule = "scaled" /\ \E mark \in BOOLEAN : Draw(mark)

Next == FFOS_CMark \/ markGen

Spec == Init /\ [][Next]_vars

-----------------------------------------------------------------------------
(* Properties.                                                              *)

\* Type invariant.
TypeOK ==
  /\ n \in Nat /\ m \in 0 .. n /\ i \in 0 .. n /\ left \in 0 .. m
  /\ rule \in {"below", "scaled"}
  /\ marked \subseteq 0 .. i - 1
  /\ weight \in Nat

\* Exactly m records are marked: a mark is never given when none is left, nor
\* withheld when every record that remains needs one (FFOS_C.cpp:80-87,
\* SubSample.cpp:393-405 and RecursiveShuffle.cpp:69-78).
MarksExact ==
  /\ left = m - Cardinality(marked)
  /\ left <= n - i
  /\ i = n => Cardinality(marked) = m

\* When the coins can be divided evenly among the records, every set of m
\* records is drawn by the same number of coin sequences.
Unbiased ==
  i = n => weight * Cardinality(kSubset(m, 0 .. n - 1)) = Coins ^ n

=============================================================================
