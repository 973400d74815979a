------------------------------- MODULE Feistel -------------------------------
(***************************************************************************)
(* The pseudorandom permutation of PSQF_SWO (SWO): a number below n is     *)
(* taken to a grid of a by b cells, the least square or nearly square one  *)
(* that has n of them, mixed in four rounds of a Feistel network whose     *)
(* halves have different sizes, and mixed again for as long as it comes    *)
(* out at n or above.                                                      *)
(*                                                                         *)
(* A key gives for every round what the cipher makes of the right half;    *)
(* only its remainder matters.                                             *)
(***************************************************************************)
EXTENDS Integers

\* Newton's method from above.
integer_sqrt(n) ==
  LET next(x) == (x + n \div x) \div 2
      root[x \in 1 .. n] == IF next(x) < x THEN root[next(x)] ELSE x
  IN IF n <= 1 THEN n ELSE root[n \div 2]

\* a_ and b_
GridA(n) == LET root == integer_sqrt(n) IN IF root * root < n THEN root + 1 ELSE root
GridB(n) == (n + GridA(n) - 1) \div GridA(n)

\* Round r replaces a half that is below a if r is even, below b if it is odd.
Modulus(r, a, b) == IF r % 2 = 0 THEN a ELSE b

\* One round of generalized_feistel, of the halves L and R.
Round(key, r, a, b, halves) ==
  [L |-> halves.R, R |-> (halves.L + key[r][halves.R]) % Modulus(r, a, b)]

generalized_feistel(key, a, b, x) ==
  LET start == [L |-> x \div b, R |-> x % b]
      mixed == Round(key, 3, a, b, Round(key, 2, a, b, Round(key, 1, a, b,
                 Round(key, 0, a, b, start))))
  IN mixed.L * b + mixed.R

\* Mutant: a number that comes out at n or above is brought below n by a remainder
\* instead of being mixed again.
prp_indexReduced(key, n, x) == generalized_feistel(key, GridA(n), GridB(n), x) % n

\* prp_index: the first below n of the numbers x is mixed to; n if there is none
\* and the loop does not end.
prp_index(key, n, x) ==
  LET a == GridA(n)
      b == GridB(n)
      walk[i \in 0 .. a * b] == IF i = 0 THEN x ELSE generalized_feistel(key, a, b, walk[i - 1])
      hits == {i \in 1 .. a * b : walk[i] < n}
  IN IF n <= 1 THEN 0
     ELSE IF hits = {} THEN n
     ELSE walk[CHOOSE i \in hits : \A h \in hits : i <= h]

=============================================================================
