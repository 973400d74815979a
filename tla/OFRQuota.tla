------------------------------ MODULE OFRQuota ------------------------------
(***************************************************************************)
(* The arithmetic of a layer of the fork-routing network: how the places   *)
(* of a node of n records are shared out between its two halves, and how   *)
(* many of the pairs that could go either way send their tag to the top    *)
(* half (SplitCapacities and OFRBalanceLayer of SubSample_v2/OFR/OFR.cpp). *)
(***************************************************************************)
EXTENDS Integers

Larger(a, b) == IF a > b THEN a ELSE b
Smaller(a, b) == IF a < b THEN a ELSE b

\* Half of a count, rounded up.
Ceil(a) == (a \div 2) + (a % 2)

\* SplitCapacities
SplitCapacities(n, left) ==
  [n_top |-> Ceil(n), n_bottom |-> n \div 2,
   top_left |-> Ceil(left), top_right |-> Ceil(n) - Ceil(left)]

\* The shape whose quotas need no clipping.
Balanced(n, left) == n % 4 = 0 /\ left = n \div 2

\* What a layer has: c.diagonal pairs of a left and a right tag, c.fixed_left
\* pairs whose tags both have left, and a last record without a pair whose
\* tag has left if c.last_left is 1.  The pairs of which one tag has left and
\* that are not diagonal:
VariableLeft(n, left, c) == left - c.last_left - 2 * c.fixed_left - c.diagonal
VariableRight(n, left, c) == n - left - c.last_right - 2 * c.fixed_right - c.diagonal

TargetLeft(n, left, c) == SplitCapacities(n, left).top_left - c.last_left
TargetRight(n, left, c) == SplitCapacities(n, left).top_right - c.last_right

\* Mutant: the diagonal quota is never clipped.
QuotaDiagonalUnclipped(n, left, c) == c.diagonal \div 2

\* How many diagonal pairs send their left tag to the top.
QuotaDiagonal(n, left, c) ==
  IF Balanced(n, left) THEN c.diagonal \div 2
  ELSE LET least == Larger(Larger(0, TargetLeft(n, left, c) - c.fixed_left
                                       - VariableLeft(n, left, c)),
                           c.fixed_right + c.diagonal - TargetRight(n, left, c))
           most == Smaller(Smaller(c.diagonal, TargetLeft(n, left, c) - c.fixed_left),
                           c.fixed_right + c.diagonal + VariableRight(n, left, c)
                             - TargetRight(n, left, c))
       IN Smaller(most, Larger(least, c.diagonal \div 2))

\* How many other pairs send their left, or right, to the top.
QuotaLeft(n, left, c) ==
  (IF Balanced(n, left) THEN n \div 4 ELSE TargetLeft(n, left, c))
    - c.fixed_left - QuotaDiagonal(n, left, c)
QuotaRight(n, left, c) ==
  (IF Balanced(n, left) THEN n \div 4 ELSE TargetRight(n, left, c))
    - c.fixed_right - c.diagonal + QuotaDiagonal(n, left, c)

\* The same quotas and comparison in the lanes of a vector, which hold modulus
\* values and compare them as signed: of a balanced node, and a diagonal quota
\* by an unsigned shift.
Signed(v, modulus) ==
  IF v % modulus < modulus \div 2 THEN v % modulus ELSE (v % modulus) - modulus

LaneQuotas(n, c, modulus) ==
  LET diagonal == (c.diagonal % modulus) \div 2
  IN [diagonal |-> diagonal,
      left |-> (n \div 4 - c.fixed_left - diagonal) % modulus,
      right |-> (n \div 4 - c.fixed_right - (c.diagonal - diagonal)) % modulus]

LaneWithin(rank, quota, modulus) == Signed(rank, modulus) < Signed(quota, modulus)

\* OFRControlCount: the gates of a network of m records.
ControlCount[m \in Nat] ==
  [left \in Nat |->
     IF left = 0 \/ left = m THEN 0
     ELSE IF m = 2 THEN 1
     ELSE LET s == SplitCapacities(m, left)
          IN m \div 2 + ControlCount[s.n_top][s.top_left]
                      + ControlCount[s.n_bottom][left - s.top_left]]

=============================================================================
