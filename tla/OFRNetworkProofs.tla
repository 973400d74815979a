-------------------------- MODULE OFRNetworkProofs --------------------------
(***************************************************************************)
(* Proofs about the fork-routing network, for every number of records,     *)
(* every division of the outputs and every set of tags.  First the quotas  *)
(* of a layer, for every node and every mixture of pairs; then what one    *)
(* layer does to the tags and the rows of its node; then the network, from *)
(* the tags the caller gives to the delivered records.                     *)
(*                                                                         *)
(* A node whose tags ask for exactly its places has halves of which that   *)
(* is true as well, and a node of one record, or of one output, has its    *)
(* records where they belong.  A gate passes its pair on straight or       *)
(* across, side by side, and so moves who is responsible for a copy but    *)
(* not that exactly one place is.  The nodes still to do are disjoint.     *)
(* The tape that is being written can always be played back, from the      *)
(* records as they are given to the rows as they are.                      *)
(*                                                                         *)
(* At the end the tape itself.  For every tape and every way of cutting it *)
(* no two writers change the same byte of memory, the committed tape holds *)
(* every control, and seen through the boundaries it is one whose controls *)
(* are set atomically; and the packed array's bytes hold the controls that *)
(* were put in, and a cursor delivers them.                                *)
(***************************************************************************)
EXTENDS OFRNetwork, PackedTape, PackedControls, SumProofs

-----------------------------------------------------------------------------
(* The quotas of a layer.                                                   *)

\* What is true of a node whose tags ask for exactly its places: every pair is
\* of one class for each side, and only an odd node has a last record.
Layer(m, left, c) ==
  /\ m \in Nat /\ left \in Nat /\ left <= m
  /\ c.diagonal \in Nat /\ c.fixed_left \in Nat /\ c.fixed_right \in Nat
  /\ c.last_left \in Nat /\ c.last_left <= m % 2
  /\ c.last_right \in Nat /\ c.last_right <= m % 2
  /\ VariableLeft(m, left, c) >= 0
  /\ VariableRight(m, left, c) >= 0
  /\ c.diagonal + c.fixed_left + VariableLeft(m, left, c) <= m \div 2
  /\ c.diagonal + c.fixed_right + VariableRight(m, left, c) <= m \div 2

Feasible(m, left, c) ==
  /\ QuotaDiagonal(m, left, c) \in 0 .. c.diagonal
  /\ QuotaLeft(m, left, c) \in 0 .. VariableLeft(m, left, c)
  /\ QuotaRight(m, left, c) \in 0 .. VariableRight(m, left, c)

\* A balanced node needs no clipping (OFR.cpp:736).
LEMMA BalancedFeasible ==
  ASSUME NEW m, NEW left, NEW c, Layer(m, left, c), Balanced(m, left)
  PROVE  Feasible(m, left, c)
<1> DEFINE q == m \div 4
           h == c.diagonal \div 2
<1>1. /\ m \in Nat /\ m % 4 = 0 /\ left = m \div 2
      /\ c.diagonal \in Nat /\ c.fixed_left \in Nat /\ c.fixed_right \in Nat
      /\ c.last_left \in Nat /\ c.last_left <= m % 2
      /\ c.last_right \in Nat /\ c.last_right <= m % 2
      /\ VariableLeft(m, left, c) >= 0
      /\ VariableRight(m, left, c) >= 0
  BY DEF Layer, Balanced
<1>2. /\ q \in Nat /\ h \in Nat
      /\ m = 4 * q /\ m \div 2 = 2 * q /\ left = 2 * q
      /\ c.diagonal = 2 * h \/ c.diagonal = 2 * h + 1
      /\ c.last_left = 0 /\ c.last_right = 0
  <2>1. q \in Nat /\ m = 4 * q
    BY <1>1
  <2>2. m \div 2 = 2 * q /\ m % 2 = 0
    BY <2>1, <1>1
  <2>3. h \in Nat /\ (c.diagonal = 2 * h \/ c.diagonal = 2 * h + 1)
    BY <1>1
  <2>4. QED
    BY <1>1, <2>1, <2>2, <2>3
<1>3. /\ QuotaDiagonal(m, left, c) = h
      /\ QuotaLeft(m, left, c) = q - c.fixed_left - h
      /\ QuotaRight(m, left, c) = q - c.fixed_right - c.diagonal + h
      /\ VariableLeft(m, left, c) = 2 * q - 2 * c.fixed_left - c.diagonal
      /\ VariableRight(m, left, c) = 2 * q - 2 * c.fixed_right - c.diagonal
  <2>1. QuotaDiagonal(m, left, c) = h
    BY DEF QuotaDiagonal
  <2>2. /\ QuotaLeft(m, left, c) = q - c.fixed_left - h
        /\ QuotaRight(m, left, c) = q - c.fixed_right - c.diagonal + h
    BY <2>1 DEF QuotaLeft, QuotaRight
  <2>3. /\ VariableLeft(m, left, c) = 2 * q - 2 * c.fixed_left - c.diagonal
        /\ VariableRight(m, left, c) = 2 * q - 2 * c.fixed_right - c.diagonal
    <3> HIDE DEF q, h
    <3>1. QED BY <1>1, <1>2 DEF VariableLeft, VariableRight
  <2>4. QED
    BY <2>1, <2>2, <2>3
<1> HIDE DEF q, h
<1>4. /\ 2 * q - 2 * c.fixed_left - c.diagonal >= 0
      /\ 2 * q - 2 * c.fixed_right - c.diagonal >= 0
  BY <1>1, <1>3
<1>5. /\ h \in 0 .. c.diagonal
      /\ q - c.fixed_left - h \in 0 .. 2 * q - 2 * c.fixed_left - c.diagonal
      /\ q - c.fixed_right - c.diagonal + h \in 0 .. 2 * q - 2 * c.fixed_right - c.diagonal
  BY <1>1, <1>2, <1>4
<1>6. QED
  BY <1>3, <1>5 DEF Feasible

\* The bounds that the diagonal quota is clipped to leave it a value.
LEMMA ClippedFeasible ==
  ASSUME NEW m, NEW left, NEW c, Layer(m, left, c), ~ Balanced(m, left)
  PROVE  Feasible(m, left, c)
<1> DEFINE vl == VariableLeft(m, left, c)
           vr == VariableRight(m, left, c)
           tl == TargetLeft(m, left, c)
           tr == TargetRight(m, left, c)
           qd == QuotaDiagonal(m, left, c)
<1>1. /\ c.diagonal \in Nat /\ c.fixed_left \in Nat /\ c.fixed_right \in Nat
      /\ vl \in Nat /\ vr \in Nat /\ tl \in Int /\ tr \in Int
  BY DEF Layer, VariableLeft, VariableRight, TargetLeft, TargetRight, SplitCapacities, Ceil
<1>2. /\ 0 <= tl - c.fixed_left
      /\ tl - c.fixed_left - vl <= c.diagonal
      /\ c.fixed_right <= tr
      /\ 0 <= c.fixed_right + c.diagonal + vr - tr
  BY DEF Layer, VariableLeft, VariableRight, TargetLeft, TargetRight, SplitCapacities, Ceil
<1>3. /\ tl - c.fixed_left - vl <= c.fixed_right + c.diagonal + vr - tr
      /\ c.fixed_right + c.diagonal - tr <= tl - c.fixed_left
  BY DEF Layer, VariableLeft, VariableRight, TargetLeft, TargetRight, SplitCapacities, Ceil
<1> HIDE DEF vl, vr, tl, tr
<1>4. /\ qd \in Int
      /\ qd >= 0 /\ qd <= c.diagonal
      /\ qd >= tl - c.fixed_left - vl /\ qd <= tl - c.fixed_left
      /\ qd >= c.fixed_right + c.diagonal - tr
      /\ qd <= c.fixed_right + c.diagonal + vr - tr
  BY <1>1, <1>2, <1>3 DEF QuotaDiagonal, Larger, Smaller, vl, vr, tl, tr
<1> HIDE DEF qd
<1>5. QED
  BY <1>1, <1>4 DEF Feasible, QuotaLeft, QuotaRight, vl, vr, tl, tr, qd

\* The quotas of a layer lie between nothing and what there is, for every node
\* and whatever its tags are (OFRBalanceLayer of OFR.cpp).
THEOREM QuotasAreFeasible ==
  ASSUME NEW m, NEW left, NEW c, Layer(m, left, c)
  PROVE  Feasible(m, left, c)
BY BalancedFeasible, ClippedFeasible

\* With these quotas the top half is asked for exactly its places, and so is,
\* of what is left, the bottom half (SplitCapacities of OFR.cpp).
THEOREM TopHalfExact ==
  ASSUME NEW m, NEW left, NEW c, Layer(m, left, c)
  PROVE  LET top_left == c.fixed_left + QuotaDiagonal(m, left, c)
                           + QuotaLeft(m, left, c) + c.last_left
             top_right == c.fixed_right + c.diagonal - QuotaDiagonal(m, left, c)
                            + QuotaRight(m, left, c) + c.last_right
             s == SplitCapacities(m, left)
         IN /\ top_left = s.top_left /\ top_right = s.top_right
            /\ top_left + top_right = s.n_top
<1>1. Feasible(m, left, c)
  BY QuotasAreFeasible
<1>2. /\ QuotaDiagonal(m, left, c) \in Int
      /\ c.fixed_left \in Nat /\ c.fixed_right \in Nat /\ c.diagonal \in Nat
      /\ c.last_left \in Nat /\ c.last_right \in Nat /\ m \in Nat /\ left \in Nat
  BY <1>1 DEF Feasible, Layer
<1>3. CASE Balanced(m, left)
  <2>1. c.last_left = 0 /\ c.last_right = 0 /\ Ceil(left) = m \div 4
        /\ Ceil(m) - Ceil(left) = m \div 4
    BY <1>2, <1>3 DEF Balanced, Layer, Ceil
  <2>2. QED BY <1>2, <1>3, <2>1 DEF QuotaLeft, QuotaRight, SplitCapacities, Ceil
<1>4. CASE ~ Balanced(m, left)
  BY <1>2, <1>4 DEF QuotaLeft, QuotaRight, TargetLeft, TargetRight, SplitCapacities, Ceil
<1>5. QED BY <1>3, <1>4

-----------------------------------------------------------------------------
(* Counting in the lanes of a vector.                                       *)

\* A number that is less than half of what a lane holds is read as itself.
LEMMA SignedSmall ==
  ASSUME NEW W \in Nat, NEW v \in Nat, v < W
  PROVE  Signed(v, 2 * W) = v
<1>1. v % (2 * W) = v
  BY SMTT(30)
<1>2. (2 * W) \div 2 = W
  OBVIOUS
<1>3. QED
  BY <1>1, <1>2 DEF Signed

\* In a balanced node of no more records than a lane holds values, the quotas
\* computed in the lane are those computed in full, and comparing a gate's rank
\* with one in the lane, as signed numbers, gives what comparing them in full
\* gives (the conditions at OFR.cpp:1742 and 1755 that choose bytes or shorts).
THEOREM LanesSuffice ==
  ASSUME NEW m, NEW left, NEW c, Layer(m, left, c), Balanced(m, left),
         NEW W \in Nat, m <= 2 * W,
         NEW rank \in Nat, rank < m \div 2
  PROVE  LET q == LaneQuotas(m, c, 2 * W)
         IN /\ q.diagonal = QuotaDiagonal(m, left, c)
            /\ q.left = QuotaLeft(m, left, c)
            /\ q.right = QuotaRight(m, left, c)
            /\ LaneWithin(rank, q.diagonal, 2 * W) <=> rank < q.diagonal
            /\ LaneWithin(rank, q.left, 2 * W) <=> rank < q.left
            /\ LaneWithin(rank, q.right, 2 * W) <=> rank < q.right
<1> DEFINE q == m \div 4
           h == c.diagonal \div 2
           l == q - c.fixed_left - h
           r == q - c.fixed_right - (c.diagonal - h)
           lanes == LaneQuotas(m, c, 2 * W)
<1>1. /\ m \in Nat /\ m % 4 = 0 /\ left = m \div 2
      /\ c.diagonal \in Nat /\ c.fixed_left \in Nat /\ c.fixed_right \in Nat
      /\ c.diagonal <= m \div 2
  <2>1. /\ m \in Nat /\ m % 4 = 0 /\ left = m \div 2
        /\ c.diagonal \in Nat /\ c.fixed_left \in Nat /\ c.fixed_right \in Nat
        /\ c.last_left \in Nat
        /\ VariableLeft(m, left, c) >= 0
        /\ c.diagonal + c.fixed_left + VariableLeft(m, left, c) <= m \div 2
    BY DEF Layer, Balanced
  <2>2. m \div 2 \in Int
    BY <2>1
  <2>3. VariableLeft(m, left, c) \in Int
    BY <2>1, <2>2 DEF VariableLeft
  <2>4. QED
    BY <2>1, <2>2, <2>3
<1>2. q \in Nat /\ m = 4 * q /\ m \div 2 = 2 * q
  <2>1. q \in Nat /\ m = 4 * q
    BY <1>1
  <2>2. QED
    BY <2>1
<1>3. 2 * q <= W
  <2> HIDE DEF q
  <2>1. QED BY <1>2
<1>4. W > 0 /\ q > 0
  <2> HIDE DEF q
  <2>1. QED BY <1>2, <1>3
<1>5. /\ QuotaDiagonal(m, left, c) = h
      /\ QuotaLeft(m, left, c) = l
      /\ QuotaRight(m, left, c) = r
  <2>1. QuotaDiagonal(m, left, c) = h
    BY DEF QuotaDiagonal
  <2>2. QuotaLeft(m, left, c) = l
    BY <2>1 DEF QuotaLeft
  <2>3. h \in Nat
    BY <1>1
  <2>4. QuotaRight(m, left, c) = q - c.fixed_right - c.diagonal + h
    BY <2>1 DEF QuotaRight
  <2>5. q - c.fixed_right - c.diagonal + h = r
    <3> HIDE DEF q, h
    <3>1. QED BY <1>1, <1>2, <2>3
  <2>6. QED
    BY <2>1, <2>2, <2>4, <2>5
<1>6. /\ h \in Nat /\ l \in Nat /\ r \in Nat
      /\ h <= q /\ l <= q /\ r <= q
  <2>1. h \in Nat /\ h <= c.diagonal /\ 2 * h <= c.diagonal
    BY <1>1
  <2>2. l >= 0 /\ r >= 0
    <3>1. Feasible(m, left, c)
      BY BalancedFeasible
    <3>2. QuotaLeft(m, left, c) >= 0 /\ QuotaRight(m, left, c) >= 0
      <4>1. VariableLeft(m, left, c) \in Int /\ VariableRight(m, left, c) \in Int
        BY <1>1 DEF Layer, VariableLeft, VariableRight
      <4>2. QED
        BY <3>1, <4>1 DEF Feasible
    <3>3. QED
      BY <3>2, <1>5
  <2> HIDE DEF q, h
  <2>3. QED
    BY <1>1, <1>2, <2>1, <2>2
<1>7. /\ lanes.diagonal = h /\ lanes.left = l /\ lanes.right = r
  <2>1. (c.diagonal % (2 * W)) = c.diagonal
    <3>1. c.diagonal < 2 * W
      <4> HIDE DEF q
      <4>1. QED BY <1>1, <1>2, <1>3, <1>4
    <3>2. QED
      BY <3>1, <1>1, SMTT(30)
  <2>2. l % (2 * W) = l /\ r % (2 * W) = r
    <3> HIDE DEF l, r, q
    <3>1. l < 2 * W /\ r < 2 * W
      BY <1>2, <1>3, <1>4, <1>6
    <3>2. QED
      BY <3>1, <1>6, SMTT(30)
  <2>3. QED
    BY <2>1, <2>2 DEF LaneQuotas
<1>8. /\ Signed(rank, 2 * W) = rank
      /\ Signed(h, 2 * W) = h /\ Signed(l, 2 * W) = l /\ Signed(r, 2 * W) = r
  <2> HIDE DEF q, h, l, r
  <2>1. rank < W /\ h < W /\ l < W /\ r < W
    BY <1>2, <1>3, <1>4, <1>6
  <2>2. QED
    BY <2>1, <1>6, SignedSmall
<1>9. QED
  <2> HIDE DEF q, h, l, r
  <2>1. QED BY <1>5, <1>7, <1>8 DEF LaneWithin
-----------------------------------------------------------------------------
(* Places, and counting them.                                               *)

At(nd, j) == nd.base + j * nd.stride

Node == [base : Nat, stride : Nat \ {0}, n : Nat \ {0}, left : Nat]

LEMMA Cancel ==
  ASSUME NEW a \in Nat, NEW b \in Nat, NEW s \in Nat, s # 0, a * s = b * s
  PROVE  a = b
OBVIOUS

LEMMA Quotient ==
  ASSUME NEW a \in Nat, NEW s \in Nat, s # 0
  PROVE  (a * s) \div s = a
OBVIOUS

LEMMA Places ==
  ASSUME NEW nd \in Node
  PROVE  /\ \A j \in Nat : At(nd, j) \in Nat
         /\ \A j, k \in Nat : At(nd, j) = At(nd, k) => j = k
         /\ \A j \in Nat : GateOf(nd, At(nd, j)) = j \div 2
         /\ \A g \in Nat : First(nd, g) = At(nd, 2 * g) /\ Second(nd, g) = At(nd, 2 * g + 1)
         /\ Lane(nd) = {At(nd, j) : j \in 0 .. nd.n - 1}
<1>1. nd.base \in Nat /\ nd.stride \in Nat /\ nd.stride # 0
  BY DEF Node
<1> DEFINE b == nd.base
           s == nd.stride
<1>2. ASSUME NEW j \in Nat PROVE j * s \in Nat
  BY <1>1
<1>3. ASSUME NEW j \in Nat PROVE GateOf(nd, At(nd, j)) = j \div 2
  <2>1. (b + j * s) - b = j * s
    <3> DEFINE x == j * s
    <3>1. x \in Nat BY <1>2
    <3> HIDE DEF x, s
    <3>2. b \in Nat BY <1>1
    <3> HIDE DEF b
    <3>3. (b + x) - b = x BY <3>1, <3>2
    <3>4. QED BY <3>3 DEF x
  <2>2. (j * s) \div s = j
    BY <1>1, Quotient
  <2>3. QED BY <2>1, <2>2 DEF GateOf, At
<1>4. ASSUME NEW j \in Nat, NEW k \in Nat, At(nd, j) = At(nd, k) PROVE j = k
  <2>1. j * s = k * s
    <3> DEFINE x == j * s
               y == k * s
    <3>1. x \in Nat /\ y \in Nat BY <1>2
    <3>2. b + x = b + y BY <1>4 DEF At
    <3> HIDE DEF x, y
    <3>3. x = y BY <3>1, <3>2, <1>1
    <3>4. QED BY <3>3 DEF x, y
  <2>2. QED BY <2>1, <1>1, Cancel
<1>5. ASSUME NEW j \in Nat PROVE At(nd, j) \in Nat
  BY <1>1, <1>2 DEF At
<1>6. ASSUME NEW g \in Nat PROVE First(nd, g) = At(nd, 2 * g) /\ Second(nd, g) = At(nd, 2 * g + 1)
  <2>1. (2 * g + 1) * s = 2 * g * s + s
    BY <1>1
  <2>2. 2 * g * s \in Nat BY <1>2
  <2>3. QED BY <2>1, <2>2, <1>1 DEF First, Second, At
<1>7. QED BY <1>3, <1>4, <1>5, <1>6 DEF Lane, At

\* The image of a set under a one-to-one function has as many elements.
LEMMA ImageCount ==
  ASSUME NEW S, IsFiniteSet(S), NEW f, \A x, y \in S : f[x] = f[y] => x = y
  PROVE  /\ IsFiniteSet({f[x] : x \in S})
         /\ Cardinality({f[x] : x \in S}) = Cardinality(S)
<1> DEFINE T == {f[x] : x \in S}
           h == [x \in S |-> f[x]]
<1>1. h \in [S -> T]
  OBVIOUS
<1>2. h \in Bijection(S, T)
  BY <1>1 DEF Bijection, Injection, Surjection, IsInjective
<1>3. ExistsBijection(S, T)
  BY <1>2 DEF ExistsBijection
<1> HIDE DEF T, h
<1>4. IsFiniteSet(T) /\ Cardinality(T) = Cardinality(S)
  BY <1>3, FS_Bijection
<1>5. QED BY <1>4 DEF T

\* The even, or the odd, lanes of some gates.
Lanes(nd, G, e) == {At(nd, 2 * g + e) : g \in G}

LEMMA LanesCount ==
  ASSUME NEW nd \in Node, NEW G, IsFiniteSet(G), G \subseteq Nat, NEW e \in {0, 1}
  PROVE  IsFiniteSet(Lanes(nd, G, e)) /\ Cardinality(Lanes(nd, G, e)) = Cardinality(G)
<1> DEFINE f == [g \in G |-> At(nd, 2 * g + e)]
<1>1. \A g, h \in G : f[g] = f[h] => g = h
  <2>1. SUFFICES ASSUME NEW g \in G, NEW h \in G, f[g] = f[h] PROVE g = h
    OBVIOUS
  <2>2. 2 * g + e \in Nat /\ 2 * h + e \in Nat /\ At(nd, 2 * g + e) = At(nd, 2 * h + e)
    BY <2>1
  <2>3. 2 * g + e = 2 * h + e
    BY <2>2, Places
  <2>4. QED BY <2>3
<1>2. Lanes(nd, G, e) = {f[g] : g \in G}
  BY DEF Lanes
<1> HIDE DEF f
<1>3. IsFiniteSet({f[g] : g \in G}) /\ Cardinality({f[g] : g \in G}) = Cardinality(G)
  BY <1>1, ImageCount
<1>4. QED BY <1>2, <1>3

\* Of a set of numbers those below m, and those whose rank is below q.
Below(S, m) == S \cap (0 .. m - 1)
Ranked(S, q) == {g \in S : Cardinality(Below(S, g)) < q}

LEMMA BelowFinite ==
  ASSUME NEW S, S \subseteq Nat, NEW m \in Nat
  PROVE  IsFiniteSet(Below(S, m)) /\ Cardinality(Below(S, m)) \in Nat
<1>1. IsFiniteSet(0 .. m - 1)
  BY FS_Interval
<1>2. QED BY <1>1, FS_Intersection, FS_CardinalityType DEF Below

LEMMA RankStep ==
  ASSUME NEW S, S \subseteq Nat, NEW m \in Nat, NEW q \in Nat
  PROVE  /\ m \notin S => Below(S, m + 1) = Below(S, m) /\ Below(Ranked(S, q), m + 1) = Below(Ranked(S, q), m)
         /\ m \in S => /\ Cardinality(Below(S, m + 1)) = Cardinality(Below(S, m)) + 1
                      /\ IF Cardinality(Below(S, m)) < q
                         THEN Cardinality(Below(Ranked(S, q), m + 1)) = Cardinality(Below(Ranked(S, q), m)) + 1
                         ELSE Below(Ranked(S, q), m + 1) = Below(Ranked(S, q), m)
<1>1. 0 .. (m + 1) - 1 = (0 .. m - 1) \cup {m}
  OBVIOUS
<1>2. Ranked(S, q) \subseteq S
  BY DEF Ranked
<1>3. CASE m \notin S
  BY <1>1, <1>2, <1>3 DEF Below
<1>4. CASE m \in S
  <2>1. Below(S, m + 1) = Below(S, m) \cup {m} /\ m \notin Below(S, m)
    BY <1>1, <1>4 DEF Below
  <2>2. Cardinality(Below(S, m + 1)) = Cardinality(Below(S, m)) + 1
    BY <2>1, BelowFinite, FS_AddElement
  <2>3. CASE Cardinality(Below(S, m)) < q
    <3>1. m \in Ranked(S, q)
      BY <1>4, <2>3 DEF Ranked
    <3>2. Below(Ranked(S, q), m + 1) = Below(Ranked(S, q), m) \cup {m} /\ m \notin Below(Ranked(S, q), m)
      BY <1>1, <3>1 DEF Below
    <3>3. QED BY <1>2, <1>4, <2>2, <2>3, <3>2, BelowFinite, FS_AddElement
  <2>4. CASE ~ (Cardinality(Below(S, m)) < q)
    <3>1. m \notin Ranked(S, q)
      BY <2>4 DEF Ranked
    <3>2. Below(Ranked(S, q), m + 1) = Below(Ranked(S, q), m)
      BY <1>1, <3>1 DEF Below
    <3>3. QED BY <1>4, <2>2, <2>4, <3>2
  <2>5. QED BY <2>3, <2>4
<1>5. QED BY <1>3, <1>4

\* Below m there are q of the members whose rank is below q, or all if there are fewer.
LEMMA RankBelow ==
  ASSUME NEW S, S \subseteq Nat, NEW q \in Nat
  PROVE  \A m \in Nat : Cardinality(Below(Ranked(S, q), m)) =
                          Smaller(q, Cardinality(Below(S, m)))
<1> DEFINE good(m) == Cardinality(Below(Ranked(S, q), m)) = Smaller(q, Cardinality(Below(S, m)))
           bad == {m \in Nat : ~ good(m)}
<1>1. SUFFICES ASSUME bad # {} PROVE FALSE
  OBVIOUS
<1>2. PICK m \in bad : \A k \in bad : m <= k
  <2> HIDE DEF good
  <2>1. QED BY <1>1, LeastNumber
<1>3. m # 0
  <2>1. Below(S, 0) = {} /\ Below(Ranked(S, q), 0) = {}
    BY DEF Below
  <2>2. good(0)
    BY <2>1, FS_EmptySet DEF Smaller
  <2>3. QED BY <2>2
<1>4. m - 1 \in Nat /\ m = (m - 1) + 1 /\ good(m - 1)
  <2>1. m - 1 \in Nat /\ ~ (m <= m - 1) /\ m = (m - 1) + 1
    BY <1>3
  <2>2. m - 1 \notin bad
    BY <1>2, <2>1
  <2> HIDE DEF good
  <2>3. QED BY <2>1, <2>2
<1>5. Ranked(S, q) \subseteq Nat
  BY DEF Ranked
<1>6. Cardinality(Below(S, m - 1)) \in Nat /\ Cardinality(Below(Ranked(S, q), m - 1)) \in Nat
  BY <1>4, <1>5, BelowFinite
<1>7. good((m - 1) + 1)
  <2> DEFINE k == m - 1
             a == Cardinality(Below(S, k))
             b == Cardinality(Below(Ranked(S, q), k))
             c == Cardinality(Below(S, k + 1))
             d == Cardinality(Below(Ranked(S, q), k + 1))
  <2>1. k \in Nat /\ a \in Nat /\ b \in Nat /\ b = Smaller(q, a)
    BY <1>4, <1>6
  <2>2. (k \notin S /\ c = a /\ d = b) \/ (c = a + 1 /\ d = IF a < q THEN b + 1 ELSE b)
    <3> HIDE DEF k
    <3>1. CASE k \notin S
      BY <2>1, <3>1, RankStep
    <3>2. CASE k \in S
      <4>1. c = a + 1
        BY <2>1, <3>2, RankStep
      <4>2. a < q => d = b + 1
        BY <2>1, <3>2, RankStep
      <4>3. ~ (a < q) => d = b
        BY <2>1, <3>2, RankStep
      <4>4. QED BY <4>1, <4>2, <4>3
    <3>3. QED BY <3>1, <3>2
  <2>3. d = Smaller(q, c)
    <3> HIDE DEF a, b, c, d
    <3>1. QED BY <2>1, <2>2 DEF Smaller
  <2>4. QED BY <2>3
<1>8. QED BY <1>4, <1>7

\* Of a finite set of numbers q have a rank below q.
LEMMA RankedCount ==
  ASSUME NEW S, NEW m \in Nat, S \subseteq 0 .. m - 1, NEW q \in 0 .. Cardinality(S)
  PROVE  IsFiniteSet(Ranked(S, q)) /\ Cardinality(Ranked(S, q)) = q
<1>1. S \subseteq Nat /\ Below(S, m) = S /\ Below(Ranked(S, q), m) = Ranked(S, q)
  <2>1. Ranked(S, q) \subseteq S
    BY DEF Ranked
  <2>2. \A T : T \subseteq 0 .. m - 1 => Below(T, m) = T
    BY DEF Below
  <2>3. S \subseteq Nat
    OBVIOUS
  <2>4. Ranked(S, q) \subseteq 0 .. m - 1
    BY <2>1
  <2>5. QED BY <2>2, <2>3, <2>4
<1>2. Cardinality(Ranked(S, q)) = Smaller(q, Cardinality(S))
  <2>1. Cardinality(Below(Ranked(S, q), m)) = Smaller(q, Cardinality(Below(S, m)))
    <3>1. q \in Nat
      OBVIOUS
    <3>2. QED BY <1>1, <3>1, RankBelow
  <2>2. QED BY <1>1, <2>1
<1>3. IsFiniteSet(S) /\ IsFiniteSet(Ranked(S, q)) /\ Cardinality(S) \in Nat
  BY <1>1, BelowFinite, FS_Subset DEF Ranked
<1>4. QED BY <1>2, <1>3 DEF Smaller

-----------------------------------------------------------------------------
(* The gates of a node by the class of their tags.                          *)

IsNode(nd) == nd \in Node /\ nd.left <= nd.n /\ Lane(nd) \subseteq Place

\* The gates whose even, or odd, record's tag has a side; whose tags both have it;
\* whose tags are diagonal; and whose tag with the side could go either way.
Has(nd, e, side) == {g \in Gates(nd) : side \in tags[At(nd, 2 * g + e)]}
Both(nd, side) == {g \in Gates(nd) : side \in Fixed(nd, g)}
Diagonals(nd) == {g \in Gates(nd) : Diagonal(nd, g)}
Either(nd, side) == {g \in Gates(nd) : side \in Variable(nd, g)}

IsDiagonal(x, y) == {x, y} = {{"left"}, {"right"}}

LEMMA TagValues ==
  ASSUME NEW x \in Tag
  PROVE  x = {} \/ x = {"left"} \/ x = {"right"} \/ x = {"left", "right"}
BY DEF Tag, Side

LEMMA DiagonalIs ==
  ASSUME NEW x \in Tag, NEW y \in Tag
  PROVE  IsDiagonal(x, y) <=> \/ x = {"left"} /\ y = {"right"}
                              \/ x = {"right"} /\ y = {"left"}
BY DEF IsDiagonal

\* The classes of a pair of tags.
LEMMA PairClasses ==
  ASSUME NEW x \in Tag, NEW y \in Tag, NEW side \in Side
  PROVE  LET either == IF IsDiagonal(x, y) THEN {} ELSE Xor(x, y)
         IN /\ (side \in x \/ side \in y) <=> (side \in x \cap y \/ IsDiagonal(x, y) \/ side \in either)
            /\ ~ (side \in x \cap y /\ IsDiagonal(x, y))
            /\ ~ (side \in x \cap y /\ side \in either)
            /\ ~ (IsDiagonal(x, y) /\ side \in either)
<1>1. CASE IsDiagonal(x, y)
  BY <1>1, DiagonalIs DEF Side
<1>2. CASE ~ IsDiagonal(x, y)
  BY <1>2 DEF Xor
<1>3. QED BY <1>1, <1>2

LEMMA GatePlaces ==
  ASSUME NEW nd, IsNode(nd)
  PROVE  /\ Gates(nd) \subseteq Nat /\ IsFiniteSet(Gates(nd)) /\ Cardinality(Gates(nd)) = nd.n \div 2
         /\ nd.n \in Nat /\ nd.left \in Nat /\ nd.left <= nd.n
         /\ \A g \in Gates(nd) : /\ At(nd, 2 * g) \in Place /\ At(nd, 2 * g + 1) \in Place
                                 /\ First(nd, g) = At(nd, 2 * g) /\ Second(nd, g) = At(nd, 2 * g + 1)
         /\ nd.n % 2 = 1 => At(nd, nd.n - 1) \in Place
<1>1. nd \in Node /\ nd.n \in Nat /\ nd.n # 0 /\ nd.left \in Nat /\ nd.left <= nd.n
  BY DEF IsNode, Node
<1>2. ASSUME NEW j \in 0 .. nd.n - 1 PROVE At(nd, j) \in Place
  BY <1>1, Places DEF IsNode
<1>3. Gates(nd) = 0 .. nd.n \div 2 - 1 /\ nd.n \div 2 \in Nat
  BY <1>1 DEF Gates
<1>4. IsFiniteSet(Gates(nd)) /\ Cardinality(Gates(nd)) = nd.n \div 2
  BY <1>3, FS_Interval
<1>5. ASSUME NEW g \in Gates(nd)
      PROVE  g \in Nat /\ 2 * g \in 0 .. nd.n - 1 /\ 2 * g + 1 \in 0 .. nd.n - 1
  BY <1>1, <1>3
<1>6. nd.n - 1 \in 0 .. nd.n - 1
  BY <1>1
<1>7. QED BY <1>1, <1>2, <1>4, <1>5, <1>6, Places

LEMMA GateClasses ==
  ASSUME tags \in [Place -> Tag], NEW nd, IsNode(nd), NEW side \in Side
  PROVE  /\ Has(nd, 0, side) \cup Has(nd, 1, side) = (Both(nd, side) \cup Diagonals(nd)) \cup Either(nd, side)
         /\ Has(nd, 0, side) \cap Has(nd, 1, side) = Both(nd, side)
         /\ Both(nd, side) \cap Diagonals(nd) = {}
         /\ (Both(nd, side) \cup Diagonals(nd)) \cap Either(nd, side) = {}
<1>1. ASSUME NEW g \in Gates(nd)
      PROVE  /\ (g \in Has(nd, 0, side) \/ g \in Has(nd, 1, side)) <=>
                  (g \in Both(nd, side) \/ g \in Diagonals(nd) \/ g \in Either(nd, side))
             /\ (g \in Has(nd, 0, side) /\ g \in Has(nd, 1, side)) <=> g \in Both(nd, side)
             /\ ~ (g \in Both(nd, side) /\ g \in Diagonals(nd))
             /\ ~ (g \in Both(nd, side) /\ g \in Either(nd, side))
             /\ ~ (g \in Diagonals(nd) /\ g \in Either(nd, side))
  <2> DEFINE x == tags[At(nd, 2 * g)]
             y == tags[At(nd, 2 * g + 1)]
  <2>1. x \in Tag /\ y \in Tag /\ First(nd, g) = At(nd, 2 * g) /\ Second(nd, g) = At(nd, 2 * g + 1)
    BY GatePlaces
  <2>2. /\ Fixed(nd, g) = x \cap y /\ (Diagonal(nd, g) <=> IsDiagonal(x, y))
        /\ Variable(nd, g) = IF IsDiagonal(x, y) THEN {} ELSE Xor(x, y)
    BY <2>1 DEF Fixed, Diagonal, Variable, IsDiagonal
  <2>3. g \in Nat /\ 2 * g + 0 = 2 * g
    BY GatePlaces
  <2>4. /\ g \in Has(nd, 0, side) <=> side \in x
        /\ g \in Has(nd, 1, side) <=> side \in y
        /\ g \in Both(nd, side) <=> side \in x \cap y
        /\ g \in Diagonals(nd) <=> IsDiagonal(x, y)
        /\ g \in Either(nd, side) <=> side \in (IF IsDiagonal(x, y) THEN {} ELSE Xor(x, y))
    BY <2>2, <2>3 DEF Has, Both, Diagonals, Either
  <2> HIDE DEF x, y
  <2>5. QED BY <2>1, <2>4, PairClasses
<1>2. /\ Has(nd, 0, side) \subseteq Gates(nd) /\ Has(nd, 1, side) \subseteq Gates(nd)
      /\ Both(nd, side) \subseteq Gates(nd) /\ Diagonals(nd) \subseteq Gates(nd)
      /\ Either(nd, side) \subseteq Gates(nd)
  BY DEF Has, Both, Diagonals, Either
<1>3. QED BY <1>1, <1>2

LEMMA GatesFinite ==
  ASSUME NEW nd, IsNode(nd), NEW G, G \subseteq Gates(nd)
  PROVE  /\ IsFiniteSet(G) /\ Cardinality(G) \in Nat /\ Cardinality(G) <= nd.n \div 2
         /\ G \subseteq Nat /\ G \subseteq 0 .. (nd.n \div 2) - 1
<1>1. IsFiniteSet(Gates(nd)) /\ Cardinality(Gates(nd)) = nd.n \div 2 /\ Gates(nd) \subseteq Nat
  BY GatePlaces
<1>2. IsFiniteSet(G) /\ Cardinality(G) <= Cardinality(Gates(nd))
  BY <1>1, FS_Subset
<1>3. QED BY <1>1, <1>2, FS_CardinalityType DEF Gates

LEMMA DisjointCount ==
  ASSUME NEW S, NEW T, IsFiniteSet(S), IsFiniteSet(T), S \cap T = {}
  PROVE  IsFiniteSet(S \cup T) /\ Cardinality(S \cup T) = Cardinality(S) + Cardinality(T)
<1>1. Cardinality(S \cap T) = 0
  BY FS_EmptySet
<1>2. Cardinality(S) \in Nat /\ Cardinality(T) \in Nat
  BY FS_CardinalityType
<1>3. IsFiniteSet(S \cup T) /\ Cardinality(S \cup T) = Cardinality(S) + Cardinality(T) - Cardinality(S \cap T)
  BY FS_Union
<1>4. QED BY <1>1, <1>2, <1>3

\* Those of a set of places whose tag has a side.
Wants(S, side) == {p \in S : side \in tags[p]}
TheLast(nd, side) == IF Unpaired(nd, side) = 1 THEN {At(nd, nd.n - 1)} ELSE {}

\* How many tags of a node have a side, by the classes of its gates.
LEMMA HasCount ==
  ASSUME tags \in [Place -> Tag], NEW nd, IsNode(nd), NEW side \in Side
  PROVE  /\ Cardinality(Has(nd, 0, side)) + Cardinality(Has(nd, 1, side)) =
              2 * Cardinality(Both(nd, side)) + Cardinality(Diagonals(nd)) + Cardinality(Either(nd, side))
         /\ Cardinality(Both(nd, side)) + Cardinality(Diagonals(nd)) + Cardinality(Either(nd, side))
              <= nd.n \div 2
<1> DEFINE a == Has(nd, 0, side)
           b == Has(nd, 1, side)
           f == Both(nd, side)
           d == Diagonals(nd)
           v == Either(nd, side)
<1>1. /\ a \subseteq Gates(nd) /\ b \subseteq Gates(nd) /\ f \subseteq Gates(nd)
      /\ d \subseteq Gates(nd) /\ v \subseteq Gates(nd)
  BY DEF Has, Both, Diagonals, Either
<1>2. a \cup b = (f \cup d) \cup v /\ a \cap b = f /\ f \cap d = {} /\ (f \cup d) \cap v = {}
  BY GateClasses
<1> HIDE DEF a, b, f, d, v
<1>3. /\ IsFiniteSet(a) /\ IsFiniteSet(b) /\ IsFiniteSet(f) /\ IsFiniteSet(d) /\ IsFiniteSet(v)
      /\ Cardinality(a) \in Nat /\ Cardinality(b) \in Nat /\ Cardinality(f) \in Nat
      /\ Cardinality(d) \in Nat /\ Cardinality(v) \in Nat
  BY <1>1, GatesFinite
<1>4. IsFiniteSet(f \cup d) /\ Cardinality(f \cup d) = Cardinality(f) + Cardinality(d)
  BY <1>2, <1>3, DisjointCount
<1>5. Cardinality((f \cup d) \cup v) = Cardinality(f) + Cardinality(d) + Cardinality(v)
  BY <1>2, <1>3, <1>4, DisjointCount
<1>6. Cardinality(a \cup b) = Cardinality(a) + Cardinality(b) - Cardinality(f)
  BY <1>2, <1>3, FS_Union
<1>7. Cardinality(a \cup b) <= nd.n \div 2
  <2>1. a \cup b \subseteq Gates(nd)
    BY <1>1
  <2>2. QED BY <2>1, GatesFinite
<1>8. Cardinality(a \cup b) = Cardinality(f) + Cardinality(d) + Cardinality(v)
  BY <1>2, <1>5
<1>9. Cardinality(a) + Cardinality(b) = 2 * Cardinality(f) + Cardinality(d) + Cardinality(v)
  BY <1>3, <1>6, <1>8
<1>10. Cardinality(f) + Cardinality(d) + Cardinality(v) <= nd.n \div 2
  BY <1>7, <1>8
<1>11. QED BY <1>9, <1>10 DEF a, b, f, d, v

LEMMA LastIs ==
  ASSUME tags \in [Place -> Tag], NEW nd, IsNode(nd), NEW side \in Side
  PROVE  /\ Unpaired(nd, side) \in {0, 1} /\ Unpaired(nd, side) <= nd.n % 2
         /\ Unpaired(nd, side) = 1 <=> nd.n % 2 = 1 /\ side \in tags[At(nd, nd.n - 1)]
         /\ IsFiniteSet(TheLast(nd, side)) /\ Cardinality(TheLast(nd, side)) = Unpaired(nd, side)
<1>1. nd.n \in Nat
  BY GatePlaces
<1>2. /\ Unpaired(nd, side) \in {0, 1} /\ Unpaired(nd, side) <= nd.n % 2
      /\ Unpaired(nd, side) = 1 <=> nd.n % 2 = 1 /\ side \in tags[At(nd, nd.n - 1)]
  BY <1>1 DEF Unpaired, At
<1>3. IsFiniteSet(TheLast(nd, side)) /\ Cardinality(TheLast(nd, side)) = Unpaired(nd, side)
  BY <1>2, FS_EmptySet, FS_Singleton DEF TheLast
<1>4. QED BY <1>2, <1>3

\* The lanes of a node: those of its gates, and a last one if it is odd.
LEMMA LaneIs ==
  ASSUME NEW nd, IsNode(nd), NEW j \in 0 .. nd.n - 1
  PROVE  \/ \E g \in Gates(nd) : j = 2 * g
         \/ \E g \in Gates(nd) : j = 2 * g + 1
         \/ nd.n % 2 = 1 /\ j = nd.n - 1
<1>1. nd.n \in Nat /\ nd.n # 0
  BY DEF IsNode, Node
<1>2. CASE j \div 2 < nd.n \div 2
  <2>1. j \div 2 \in Gates(nd)
    BY <1>1, <1>2 DEF Gates
  <2>2. j = 2 * (j \div 2) \/ j = 2 * (j \div 2) + 1
    OBVIOUS
  <2>3. QED BY <2>1, <2>2
<1>3. CASE ~ (j \div 2 < nd.n \div 2)
  BY <1>1, <1>3
<1>4. QED BY <1>2, <1>3

LEMMA WantsIs ==
  ASSUME tags \in [Place -> Tag], NEW nd, IsNode(nd), NEW side \in Side
  PROVE  /\ Wants(Lane(nd), side) =
              (Lanes(nd, Has(nd, 0, side), 0) \cup Lanes(nd, Has(nd, 1, side), 1)) \cup TheLast(nd, side)
         /\ Lanes(nd, Has(nd, 0, side), 0) \cap Lanes(nd, Has(nd, 1, side), 1) = {}
         /\ (Lanes(nd, Has(nd, 0, side), 0) \cup Lanes(nd, Has(nd, 1, side), 1)) \cap TheLast(nd, side) = {}
<1>1. nd \in Node /\ nd.n \in Nat /\ nd.n # 0
  BY DEF IsNode, Node
<1>2. Lane(nd) = {At(nd, j) : j \in 0 .. nd.n - 1}
  BY <1>1, Places
<1>3. ASSUME NEW g \in Gates(nd)
      PROVE  g \in Nat /\ 2 * g \in 0 .. nd.n - 1 /\ 2 * g + 1 \in 0 .. nd.n - 1 /\ 2 * g + 0 = 2 * g
             /\ (nd.n % 2 = 1 => 2 * g + 1 # nd.n - 1)
  BY <1>1 DEF Gates
<1>4. TheLast(nd, side) = IF nd.n % 2 = 1 /\ side \in tags[At(nd, nd.n - 1)] THEN {At(nd, nd.n - 1)} ELSE {}
  BY LastIs DEF TheLast
<1>5. ASSUME NEW p \in Wants(Lane(nd), side)
      PROVE  p \in (Lanes(nd, Has(nd, 0, side), 0) \cup Lanes(nd, Has(nd, 1, side), 1)) \cup TheLast(nd, side)
  <2>1. PICK j \in 0 .. nd.n - 1 : p = At(nd, j)
    BY <1>2 DEF Wants
  <2>2. CASE \E g \in Gates(nd) : j = 2 * g
    BY <1>3, <1>5, <2>1, <2>2 DEF Wants, Lanes, Has
  <2>3. CASE \E g \in Gates(nd) : j = 2 * g + 1
    BY <1>5, <2>1, <2>3 DEF Wants, Lanes, Has
  <2>4. CASE nd.n % 2 = 1 /\ j = nd.n - 1
    BY <1>4, <1>5, <2>1, <2>4 DEF Wants
  <2>5. QED BY <2>2, <2>3, <2>4, LaneIs
<1>6. ASSUME NEW p \in Lanes(nd, Has(nd, 0, side), 0) PROVE p \in Wants(Lane(nd), side)
  BY <1>2, <1>3, <1>6 DEF Lanes, Has, Wants
<1>7. ASSUME NEW p \in Lanes(nd, Has(nd, 1, side), 1) PROVE p \in Wants(Lane(nd), side)
  BY <1>2, <1>3, <1>7 DEF Lanes, Has, Wants
<1>8. ASSUME NEW p \in TheLast(nd, side) PROVE p \in Wants(Lane(nd), side)
  BY <1>1, <1>2, <1>4, <1>8 DEF Wants
<1>9. Wants(Lane(nd), side) =
        (Lanes(nd, Has(nd, 0, side), 0) \cup Lanes(nd, Has(nd, 1, side), 1)) \cup TheLast(nd, side)
  BY <1>5, <1>6, <1>7, <1>8
<1>10. ASSUME NEW g \in Gates(nd), NEW h \in Gates(nd) PROVE At(nd, 2 * g + 0) # At(nd, 2 * h + 1)
  BY <1>1, <1>3, Places
<1>11. ASSUME NEW g \in Gates(nd), nd.n % 2 = 1
       PROVE  At(nd, 2 * g + 0) # At(nd, nd.n - 1) /\ At(nd, 2 * g + 1) # At(nd, nd.n - 1)
  <2>1. nd.n - 1 \in Nat /\ 2 * g + 0 # nd.n - 1 /\ 2 * g + 1 # nd.n - 1
         /\ 2 * g + 0 \in Nat /\ 2 * g + 1 \in Nat
    BY <1>1, <1>3, <1>11 DEF Gates
  <2>2. QED BY <1>1, <2>1, Places
<1>12. QED BY <1>4, <1>9, <1>10, <1>11 DEF Lanes, Has

LEMMA WantsCount ==
  ASSUME tags \in [Place -> Tag], NEW nd, IsNode(nd), NEW side \in Side
  PROVE  /\ IsFiniteSet(Wants(Lane(nd), side))
         /\ Cardinality(Wants(Lane(nd), side)) =
              2 * Cardinality(Both(nd, side)) + Cardinality(Diagonals(nd))
                + Cardinality(Either(nd, side)) + Unpaired(nd, side)
<1> DEFINE a == Lanes(nd, Has(nd, 0, side), 0)
           b == Lanes(nd, Has(nd, 1, side), 1)
           c == TheLast(nd, side)
<1>1. Has(nd, 0, side) \subseteq Gates(nd) /\ Has(nd, 1, side) \subseteq Gates(nd)
  BY DEF Has
<1>2. /\ IsFiniteSet(a) /\ Cardinality(a) = Cardinality(Has(nd, 0, side))
      /\ IsFiniteSet(b) /\ Cardinality(b) = Cardinality(Has(nd, 1, side))
  BY <1>1, GatesFinite, LanesCount DEF IsNode
<1>3. /\ IsFiniteSet(c) /\ Cardinality(c) = Unpaired(nd, side)
      /\ Wants(Lane(nd), side) = (a \cup b) \cup c /\ a \cap b = {} /\ (a \cup b) \cap c = {}
  BY WantsIs, LastIs
<1> HIDE DEF a, b, c
<1>4. IsFiniteSet(a \cup b) /\ Cardinality(a \cup b) = Cardinality(a) + Cardinality(b)
  BY <1>2, <1>3, DisjointCount
<1>5. IsFiniteSet((a \cup b) \cup c) /\ Cardinality((a \cup b) \cup c) = Cardinality(a \cup b) + Cardinality(c)
  BY <1>3, <1>4, DisjointCount
<1>6. QED BY <1>2, <1>3, <1>4, <1>5, HasCount

\* The tags of a node ask for exactly its places.
Exact(nd) ==
  /\ Cardinality(Wants(Lane(nd), "left")) = nd.left
  /\ Cardinality(Wants(Lane(nd), "right")) = nd.n - nd.left

LEMMA CountsAre ==
  ASSUME NEW nd
  PROVE  /\ Counts(nd).diagonal = Cardinality(Diagonals(nd))
         /\ Counts(nd).fixed_left = Cardinality(Both(nd, "left"))
         /\ Counts(nd).fixed_right = Cardinality(Both(nd, "right"))
         /\ Counts(nd).last_left = Unpaired(nd, "left")
         /\ Counts(nd).last_right = Unpaired(nd, "right")
BY DEF Counts, Diagonals, Both

LEMMA ExactLayer ==
  ASSUME tags \in [Place -> Tag], NEW nd, IsNode(nd), Exact(nd)
  PROVE  /\ Layer(nd.n, nd.left, Counts(nd))
         /\ VariableLeft(nd.n, nd.left, Counts(nd)) = Cardinality(Either(nd, "left"))
         /\ VariableRight(nd.n, nd.left, Counts(nd)) = Cardinality(Either(nd, "right"))
<1> DEFINE c == Counts(nd)
           vl == Cardinality(Either(nd, "left"))
           vr == Cardinality(Either(nd, "right"))
<1>1. nd.n \in Nat /\ nd.left \in Nat /\ nd.left <= nd.n
  BY GatePlaces
<1>2. /\ c.diagonal \in Nat /\ c.fixed_left \in Nat /\ c.fixed_right \in Nat
      /\ vl \in Nat /\ vr \in Nat
  <2>1. /\ Diagonals(nd) \subseteq Gates(nd)
        /\ \A side \in Side : Both(nd, side) \subseteq Gates(nd) /\ Either(nd, side) \subseteq Gates(nd)
    BY DEF Diagonals, Both, Either
  <2>2. QED BY <2>1, CountsAre, GatesFinite DEF Side
<1>3. /\ c.last_left \in Nat /\ c.last_left <= nd.n % 2
      /\ c.last_right \in Nat /\ c.last_right <= nd.n % 2
  BY CountsAre, LastIs DEF Side
<1>4. /\ nd.left = 2 * c.fixed_left + c.diagonal + vl + c.last_left
      /\ nd.n - nd.left = 2 * c.fixed_right + c.diagonal + vr + c.last_right
      /\ c.fixed_left + c.diagonal + vl <= nd.n \div 2
      /\ c.fixed_right + c.diagonal + vr <= nd.n \div 2
  <2>1. "left" \in Side /\ "right" \in Side
    BY DEF Side
  <2>2. QED BY <2>1, WantsCount, HasCount, CountsAre DEF Exact
<1> HIDE DEF c, vl, vr
<1>5. VariableLeft(nd.n, nd.left, c) = vl /\ VariableRight(nd.n, nd.left, c) = vr
  <2> DEFINE m == nd.n
             left == nd.left
             fl == c.fixed_left
             fr == c.fixed_right
             d == c.diagonal
             ll == c.last_left
             lr == c.last_right
  <2>1. /\ VariableLeft(nd.n, nd.left, c) = left - ll - 2 * fl - d
        /\ VariableRight(nd.n, nd.left, c) = m - left - lr - 2 * fr - d
    BY DEF VariableLeft, VariableRight
  <2>2. /\ m \in Nat /\ left \in Nat /\ fl \in Nat /\ fr \in Nat /\ d \in Nat
        /\ ll \in Nat /\ lr \in Nat
        /\ left = 2 * fl + d + vl + ll /\ m - left = 2 * fr + d + vr + lr
    BY <1>1, <1>2, <1>3, <1>4
  <2> HIDE DEF m, left, fl, fr, d, ll, lr
  <2>3. left - ll - 2 * fl - d = vl /\ m - left - lr - 2 * fr - d = vr
    BY <1>2, <2>2
  <2>4. QED BY <2>1, <2>3
<1>6. Layer(nd.n, nd.left, c)
  BY <1>1, <1>2, <1>3, <1>4, <1>5 DEF Layer
<1>7. QED BY <1>5, <1>6 DEF c, vl, vr

-----------------------------------------------------------------------------
(* What a layer does with the tags.                                         *)

Q(nd) == Quotas(nd, Counts(nd))

Top(nd, g) ==
  Fixed(nd, g)
    \cup (IF ~ Diagonal(nd, g) THEN {}
          ELSE IF Within(RankDiagonal(nd, g), Q(nd).diagonal) THEN {"left"} ELSE {"right"})
    \cup {side \in Variable(nd, g) : Within(Rank(nd, g, side), Q(nd)[side])}

Out(nd, g) ==
  LET x == tags[First(nd, g)]
      y == tags[Second(nd, g)]
  IN IF nd.n = 2
     THEN [top |-> {"left"}, bottom |-> {"right"},
           control |-> {side \in {"top", "bottom"} :
                          (IF side = "top" THEN "left" ELSE "right") \notin x}]
     ELSE [top |-> Top(nd, g), bottom |-> Xor(Xor(x, y), Top(nd, g)),
           control |-> GateControl(x, y, Top(nd, g))]

LEMMA OutputIs ==
  ASSUME NEW nd, NEW g
  PROVE  Output(nd, Quotas(nd, Counts(nd)), Within, g) = Out(nd, g)
BY DEF Output, TopTag, Out, Top, Q

\* A gate's place among those of its class is within the quota.
LeftDiagonals(nd) == Ranked(Diagonals(nd), Q(nd).diagonal)
TopEither(nd, side) == Ranked(Either(nd, side), Q(nd)[side])

LEMMA QuotasFit ==
  ASSUME tags \in [Place -> Tag], NEW nd, IsNode(nd), Exact(nd)
  PROVE  /\ Q(nd).diagonal \in 0 .. Cardinality(Diagonals(nd))
         /\ Q(nd)["left"] \in 0 .. Cardinality(Either(nd, "left"))
         /\ Q(nd)["right"] \in 0 .. Cardinality(Either(nd, "right"))
<1>1. Feasible(nd.n, nd.left, Counts(nd))
  BY ExactLayer, QuotasAreFeasible
<1>2. QED BY <1>1, ExactLayer, CountsAre DEF Feasible, Q, Quotas

LEMMA WithinIs ==
  ASSUME tags \in [Place -> Tag], NEW nd, IsNode(nd), Exact(nd), NEW g \in Gates(nd)
  PROVE  /\ g \in Diagonals(nd) =>
              (Within(RankDiagonal(nd, g), Q(nd).diagonal) <=> g \in LeftDiagonals(nd))
         /\ \A side \in Side : g \in Either(nd, side) =>
              (Within(Rank(nd, g, side), Q(nd)[side]) <=> g \in TopEither(nd, side))
<1>1. g \in Nat /\ 0 .. g - 1 \subseteq Gates(nd)
  BY GatePlaces DEF Gates
<1>2. {h \in 0 .. g - 1 : Diagonal(nd, h)} = Below(Diagonals(nd), g)
  BY <1>1 DEF Below, Diagonals
<1>3. ASSUME NEW side \in Side
      PROVE  {h \in 0 .. g - 1 : side \in Variable(nd, h)} = Below(Either(nd, side), g)
  BY <1>1 DEF Below, Either
<1>4. ~ (Q(nd).diagonal < 0) /\ \A side \in Side : ~ (Q(nd)[side] < 0)
  <2>1. Diagonals(nd) \subseteq Gates(nd) /\ \A side \in Side : Either(nd, side) \subseteq Gates(nd)
    BY DEF Diagonals, Either
  <2>2. QED BY <2>1, QuotasFit, GatesFinite DEF Side
<1>5. QED BY <1>2, <1>3, <1>4 DEF Within, RankDiagonal, Rank, LeftDiagonals, TopEither, Ranked

-----------------------------------------------------------------------------
(* A gate.                                                                  *)

\* A gate moves each side of its records' tags, with the records: straight or across.
Moves(x, y, top, bottom, control) ==
  \A side \in Side :
    \/ /\ side \in top <=> side \in x
       /\ side \in bottom <=> side \in y
       /\ side \in x => "top" \notin control
       /\ side \in y => "bottom" \in control
    \/ /\ side \in top <=> side \in y
       /\ side \in bottom <=> side \in x
       /\ side \in y => "top" \in control
       /\ side \in x => "bottom" \notin control

LEMMA PairMoves ==
  ASSUME NEW x \in Tag, NEW y \in Tag, NEW top \in Tag,
         x \cap y \subseteq top, top \subseteq x \cup y,
         IsDiagonal(x, y) => top = {"left"} \/ top = {"right"}
  PROVE  /\ Xor(Xor(x, y), top) \in Tag /\ GateControl(x, y, top) \in Control
         /\ Moves(x, y, top, Xor(Xor(x, y), top), GateControl(x, y, top))
<1> DEFINE bottom == Xor(Xor(x, y), top)
           control == GateControl(x, y, top)
<1>1. bottom \in Tag /\ control \in Control
  BY DEF Xor, Tag, GateControl, Control
<1>2. \A side : side \in bottom <=>
        IF side \in top THEN side \in x /\ side \in y ELSE side \in x \/ side \in y
  BY DEF Xor
<1> HIDE DEF bottom
<1>3. CASE top = x
  <2>1. control = {"bottom"}
    BY <1>3 DEF GateControl
  <2> HIDE DEF control
  <2>2. QED BY <1>1, <1>2, <1>3, <2>1 DEF Moves, bottom, control
<1>4. CASE top # x /\ top = y
  <2>1. control = {"top"}
    BY <1>4 DEF GateControl
  <2> HIDE DEF control
  <2>2. QED BY <1>1, <1>2, <1>4, <2>1 DEF Moves, bottom, control
<1>5. CASE top # x /\ top # y
  <2>1. control = IF "left" \in y THEN {"top", "bottom"} ELSE {}
    BY <1>5 DEF GateControl
  <2>2. \/ x = {} /\ y = {"left", "right"}
        \/ x = {"left", "right"} /\ y = {}
    <3>1. /\ x = {} \/ x = {"left"} \/ x = {"right"} \/ x = {"left", "right"}
          /\ y = {} \/ y = {"left"} \/ y = {"right"} \/ y = {"left", "right"}
          /\ top = {} \/ top = {"left"} \/ top = {"right"} \/ top = {"left", "right"}
      BY TagValues
    <3>2. \/ x = {"left"} /\ y = {"right"}
          \/ x = {"right"} /\ y = {"left"}
          => top = x \/ top = y
      BY DiagonalIs
    <3>3. /\ "left" \in x /\ "left" \in y => "left" \in top
          /\ "right" \in x /\ "right" \in y => "right" \in top
          /\ "left" \in top => "left" \in x \/ "left" \in y
          /\ "right" \in top => "right" \in x \/ "right" \in y
      OBVIOUS
    <3>4. \A t \in Tag : /\ "left" \notin t /\ "right" \notin t => t = {}
                         /\ "left" \in t /\ "right" \notin t => t = {"left"}
                         /\ "left" \notin t /\ "right" \in t => t = {"right"}
                         /\ "left" \in t /\ "right" \in t => t = {"left", "right"}
      BY TagValues
    <3>5. QED BY <1>5, <3>2, <3>3, <3>4
  <2> HIDE DEF control
  <2>3. CASE x = {} /\ y = {"left", "right"}
    BY <1>1, <1>2, <2>1, <2>3 DEF Moves, bottom, control
  <2>4. CASE x = {"left", "right"} /\ y = {}
    BY <1>1, <1>2, <2>1, <2>4 DEF Moves, bottom, control
  <2>5. QED BY <2>2, <2>3, <2>4
<1>6. QED BY <1>3, <1>4, <1>5

\* A pair at the last level: one place in either output is asked for.
LEMMA LastPair ==
  ASSUME tags \in [Place -> Tag], NEW nd, IsNode(nd), Exact(nd), nd.n = 2, ~ Trivial(nd)
  PROVE  /\ Gates(nd) = {0} /\ nd.left = 1
         /\ \A side \in Side : side \in tags[At(nd, 0)] <=> side \notin tags[At(nd, 1)]
<1>1. Gates(nd) = {0} /\ nd.left = 1
  BY GatePlaces DEF Gates, Trivial
<1>2. ASSUME NEW side \in Side
      PROVE  side \in tags[At(nd, 0)] <=> side \notin tags[At(nd, 1)]
  <2> DEFINE a == Has(nd, 0, side)
             b == Has(nd, 1, side)
  <2>1. Unpaired(nd, side) = 0
    BY LastIs
  <2>2. Cardinality(Wants(Lane(nd), side)) = 1
    BY <1>1 DEF Exact, Side
  <2>3. a \subseteq Gates(nd) /\ b \subseteq Gates(nd)
    BY DEF Has
  <2>4. /\ Both(nd, side) \subseteq Gates(nd) /\ Diagonals(nd) \subseteq Gates(nd)
        /\ Either(nd, side) \subseteq Gates(nd)
    BY DEF Both, Diagonals, Either
  <2>5. /\ Cardinality(Both(nd, side)) \in Nat /\ Cardinality(Diagonals(nd)) \in Nat
        /\ Cardinality(Either(nd, side)) \in Nat
    BY <2>4, GatesFinite
  <2>6. Cardinality(a) + Cardinality(b) = 1
    BY <2>1, <2>2, <2>5, HasCount, WantsCount
  <2>7. /\ a = (IF side \in tags[At(nd, 0)] THEN {0} ELSE {})
        /\ b = (IF side \in tags[At(nd, 1)] THEN {0} ELSE {})
    BY <1>1 DEF Has
  <2> HIDE DEF a, b
  <2>8. Cardinality({0}) = 1 /\ Cardinality({}) = 0
    BY FS_Singleton, FS_EmptySet
  <2>9. QED BY <2>6, <2>7, <2>8
<1>3. QED BY <1>1, <1>2

LEMMA GateMoves ==
  ASSUME tags \in [Place -> Tag], NEW nd, IsNode(nd), Exact(nd), ~ Trivial(nd),
         NEW g \in Gates(nd)
  PROVE  /\ Out(nd, g).top \in Tag /\ Out(nd, g).bottom \in Tag /\ Out(nd, g).control \in Control
         /\ Moves(tags[At(nd, 2 * g)], tags[At(nd, 2 * g + 1)],
                  Out(nd, g).top, Out(nd, g).bottom, Out(nd, g).control)
<1> DEFINE x == tags[At(nd, 2 * g)]
           y == tags[At(nd, 2 * g + 1)]
           top == Top(nd, g)
<1>1. x \in Tag /\ y \in Tag /\ First(nd, g) = At(nd, 2 * g) /\ Second(nd, g) = At(nd, 2 * g + 1)
  BY GatePlaces
<1>2. CASE nd.n = 2
  <2>1. g = 0 /\ \A side \in Side : side \in x <=> side \notin y
    <3>1. g = 0 BY <1>2, LastPair
    <3>2. 2 * g = 0 /\ 2 * g + 1 = 1 BY <3>1
    <3>3. QED BY <1>2, <3>1, <3>2, LastPair
  <2>2. /\ Out(nd, g).top = {"left"} /\ Out(nd, g).bottom = {"right"}
        /\ Out(nd, g).control = {side \in {"top", "bottom"} :
                          (IF side = "top" THEN "left" ELSE "right") \notin x}
    BY <1>1, <1>2 DEF Out
  <2> DEFINE control == Out(nd, g).control
  <2>3. control \in Control /\ ("top" \in control <=> "left" \notin x)
                            /\ ("bottom" \in control <=> "right" \notin x)
    BY <2>2 DEF Control
  <2> HIDE DEF x, y, control
  <2>4. {"left"} \in Tag /\ {"right"} \in Tag /\ Moves(x, y, {"left"}, {"right"}, control)
    BY <2>1, <2>3 DEF Moves, Side, Tag
  <2>5. QED BY <2>2, <2>3, <2>4 DEF x, y, control
<1>3. CASE nd.n # 2
  <2>1. /\ Out(nd, g).top = top /\ Out(nd, g).bottom = Xor(Xor(x, y), top)
        /\ Out(nd, g).control = GateControl(x, y, top)
    BY <1>1, <1>3 DEF Out
  <2>2. /\ Fixed(nd, g) = x \cap y /\ (Diagonal(nd, g) <=> IsDiagonal(x, y))
        /\ Variable(nd, g) = IF IsDiagonal(x, y) THEN {} ELSE Xor(x, y)
    BY <1>1 DEF Fixed, Diagonal, Variable, IsDiagonal
  <2>3. /\ x \cap y \subseteq top /\ top \subseteq x \cup y
        /\ IsDiagonal(x, y) => top = {"left"} \/ top = {"right"}
    <3>1. CASE IsDiagonal(x, y)
      <4>1. x \cap y = {} /\ x \cup y = {"left", "right"}
        BY <1>1, <3>1, DiagonalIs
      <4>2. top = {"left"} \/ top = {"right"}
        BY <2>2, <3>1, <4>1 DEF Top
      <4> HIDE DEF x, y, top
      <4>3. QED BY <4>1, <4>2
    <3>2. CASE ~ IsDiagonal(x, y)
      <4>1. x \cap y \subseteq top /\ top \subseteq (x \cap y) \cup Xor(x, y)
        BY <2>2, <3>2 DEF Top
      <4> HIDE DEF x, y, top
      <4>2. QED BY <3>2, <4>1 DEF Xor
    <3>3. QED BY <3>1, <3>2
  <2> HIDE DEF x, y, top
  <2>4. top \in Tag
    BY <1>1, <2>3 DEF Tag
  <2>5. QED BY <1>1, <2>1, <2>3, <2>4, PairMoves DEF x, y
<1>4. QED BY <1>2, <1>3

-----------------------------------------------------------------------------
(* The gates of a node act on the places of a lane.                         *)

Alone(nd, p) == \A g \in Gates(nd) : p # At(nd, 2 * g) /\ p # At(nd, 2 * g + 1)

LEMMA GatedIs ==
  ASSUME NEW nd, IsNode(nd)
  PROVE  /\ \A g \in Gates(nd) : /\ Gated(nd, At(nd, 2 * g)) /\ GateOf(nd, At(nd, 2 * g)) = g
                                 /\ Gated(nd, At(nd, 2 * g + 1)) /\ GateOf(nd, At(nd, 2 * g + 1)) = g
                                 /\ At(nd, 2 * g) # At(nd, 2 * g + 1)
         /\ \A p : Gated(nd, p) <=> ~ Alone(nd, p)
<1>1. nd \in Node /\ nd.n \in Nat /\ nd.n # 0
  BY DEF IsNode, Node
<1>2. Lane(nd) = {At(nd, j) : j \in 0 .. nd.n - 1}
  BY <1>1, Places
<1>3. ASSUME NEW g \in Gates(nd)
      PROVE  /\ Gated(nd, At(nd, 2 * g)) /\ GateOf(nd, At(nd, 2 * g)) = g
             /\ Gated(nd, At(nd, 2 * g + 1)) /\ GateOf(nd, At(nd, 2 * g + 1)) = g
             /\ At(nd, 2 * g) # At(nd, 2 * g + 1)
  <2>1. /\ g \in Nat /\ 2 * g \in 0 .. nd.n - 1 /\ 2 * g + 1 \in 0 .. nd.n - 1
        /\ (2 * g) \div 2 = g /\ (2 * g + 1) \div 2 = g /\ 2 * g # 2 * g + 1
    BY <1>1 DEF Gates
  <2>2. 2 * g \in Nat /\ 2 * g + 1 \in Nat
    BY <2>1
  <2>3. At(nd, 2 * g) \in Lane(nd) /\ At(nd, 2 * g + 1) \in Lane(nd)
    BY <1>2, <2>1
  <2>4. GateOf(nd, At(nd, 2 * g)) = g /\ GateOf(nd, At(nd, 2 * g + 1)) = g
    BY <1>1, <2>1, <2>2, Places
  <2>5. At(nd, 2 * g) # At(nd, 2 * g + 1)
    BY <1>1, <2>1, <2>2, Places
  <2>6. QED BY <2>3, <2>4, <2>5 DEF Gated
<1>4. ASSUME NEW p, Gated(nd, p) PROVE ~ Alone(nd, p)
  <2>1. PICK j \in 0 .. nd.n - 1 : p = At(nd, j)
    BY <1>2, <1>4 DEF Gated
  <2>2. GateOf(nd, p) = j \div 2
    BY <1>1, <2>1, Places
  <2>3. j \div 2 \in Gates(nd)
    BY <1>4, <2>2 DEF Gated
  <2>4. ~ (nd.n % 2 = 1 /\ j = nd.n - 1)
    BY <1>1, <2>3 DEF Gates
  <2>5. QED BY <2>1, <2>4, LaneIs DEF Alone
<1>5. QED BY <1>3, <1>4 DEF Alone

\* Records after the gates of a node.
Carried(nd, f, control) ==
  [p \in Place |->
     IF ~ Gated(nd, p) THEN f[p]
     ELSE Gate(f, First(nd, GateOf(nd, p)), Second(nd, GateOf(nd, p)), control[GateOf(nd, p)])[p]]

LEMMA CarriedIs ==
  ASSUME NEW nd, IsNode(nd), NEW f \in [Place -> Place], NEW control
  PROVE  /\ Carried(nd, f, control) \in [Place -> Place]
         /\ \A g \in Gates(nd) :
              /\ Carried(nd, f, control)[At(nd, 2 * g)] =
                   IF "top" \in control[g] THEN f[At(nd, 2 * g + 1)] ELSE f[At(nd, 2 * g)]
              /\ Carried(nd, f, control)[At(nd, 2 * g + 1)] =
                   IF "bottom" \in control[g] THEN f[At(nd, 2 * g + 1)] ELSE f[At(nd, 2 * g)]
         /\ \A p \in Place : Alone(nd, p) => Carried(nd, f, control)[p] = f[p]
<1> DEFINE r == Carried(nd, f, control)
<1>1. ASSUME NEW g \in Gates(nd)
      PROVE  /\ r[At(nd, 2 * g)] = IF "top" \in control[g] THEN f[At(nd, 2 * g + 1)] ELSE f[At(nd, 2 * g)]
             /\ r[At(nd, 2 * g + 1)] = IF "bottom" \in control[g] THEN f[At(nd, 2 * g + 1)] ELSE f[At(nd, 2 * g)]
  <2> DEFINE a == At(nd, 2 * g)
             b == At(nd, 2 * g + 1)
  <2>1. /\ Gated(nd, a) /\ GateOf(nd, a) = g /\ Gated(nd, b) /\ GateOf(nd, b) = g /\ a # b
        /\ a \in Place /\ b \in Place /\ First(nd, g) = a /\ Second(nd, g) = b
    BY GatedIs, GatePlaces
  <2> HIDE DEF a, b
  <2>2. r[a] = Gate(f, a, b, control[g])[a] /\ r[b] = Gate(f, a, b, control[g])[b]
    BY <2>1 DEF Carried
  <2>3. /\ Gate(f, a, b, control[g])[a] = IF "top" \in control[g] THEN f[b] ELSE f[a]
        /\ Gate(f, a, b, control[g])[b] = IF "bottom" \in control[g] THEN f[b] ELSE f[a]
    BY <2>1 DEF Gate
  <2>4. QED BY <2>2, <2>3 DEF a, b
<1>2. ASSUME NEW p \in Place, Alone(nd, p) PROVE r[p] = f[p]
  BY <1>2, GatedIs DEF Carried
<1>3. \A p \in Place : r[p] \in Place
  BY <1>1, <1>2, GatePlaces DEF Alone
<1>4. r \in [Place -> Place]
  BY <1>3 DEF Carried
<1>5. QED BY <1>1, <1>2, <1>4

NewTags(nd) ==
  [p \in Place |->
     IF ~ Gated(nd, p) THEN tags[p]
     ELSE IF p = First(nd, GateOf(nd, p)) THEN Out(nd, GateOf(nd, p)).top
          ELSE Out(nd, GateOf(nd, p)).bottom]

LEMMA NewTagsAre ==
  ASSUME tags \in [Place -> Tag], NEW nd, IsNode(nd), Exact(nd), ~ Trivial(nd)
  PROVE  /\ NewTags(nd) \in [Place -> Tag]
         /\ \A g \in Gates(nd) : /\ NewTags(nd)[At(nd, 2 * g)] = Out(nd, g).top
                                 /\ NewTags(nd)[At(nd, 2 * g + 1)] = Out(nd, g).bottom
         /\ \A p \in Place : Alone(nd, p) => NewTags(nd)[p] = tags[p]
<1>1. ASSUME NEW g \in Gates(nd)
      PROVE  /\ NewTags(nd)[At(nd, 2 * g)] = Out(nd, g).top
             /\ NewTags(nd)[At(nd, 2 * g + 1)] = Out(nd, g).bottom
  BY GatedIs, GatePlaces DEF NewTags
<1>2. ASSUME NEW p \in Place, Alone(nd, p) PROVE NewTags(nd)[p] = tags[p]
  BY <1>2, GatedIs DEF NewTags
<1>3. \A p \in Place : NewTags(nd)[p] \in Tag
  BY <1>1, <1>2, GateMoves DEF Alone
<1>4. NewTags(nd) \in [Place -> Tag]
  BY <1>3 DEF NewTags
<1>5. QED BY <1>1, <1>2, <1>4

-----------------------------------------------------------------------------
(* What goes to the top half, and what to the bottom half.                  *)

Tops(nd, side) == {g \in Gates(nd) : side \in Out(nd, g).top}
Bottoms(nd, side) == {g \in Gates(nd) : side \in Out(nd, g).bottom}

\* The diagonals whose tag with the side goes to the top.
TopDiagonals(nd, side) ==
  IF side = "left" THEN LeftDiagonals(nd) ELSE Diagonals(nd) \ LeftDiagonals(nd)

LEMMA TopsAre ==
  ASSUME tags \in [Place -> Tag], NEW nd, IsNode(nd), Exact(nd), nd.n # 2, NEW side \in Side
  PROVE  /\ Tops(nd, side) = (Both(nd, side) \cup TopDiagonals(nd, side)) \cup TopEither(nd, side)
         /\ TopDiagonals(nd, side) \subseteq Diagonals(nd)
         /\ TopEither(nd, side) \subseteq Either(nd, side)
<1>1. /\ LeftDiagonals(nd) \subseteq Diagonals(nd) /\ TopEither(nd, side) \subseteq Either(nd, side)
      /\ Both(nd, side) \subseteq Gates(nd) /\ Diagonals(nd) \subseteq Gates(nd)
      /\ Either(nd, side) \subseteq Gates(nd)
  BY DEF LeftDiagonals, TopEither, Ranked, Both, Diagonals, Either
<1>2. TopDiagonals(nd, side) \subseteq Diagonals(nd)
  BY <1>1 DEF TopDiagonals
<1>3. ASSUME NEW g \in Gates(nd)
      PROVE  side \in Top(nd, g) <=> g \in Both(nd, side) \/ g \in TopDiagonals(nd, side)
                                                          \/ g \in TopEither(nd, side)
  <2>1. side \in Top(nd, g) <=>
          \/ side \in Fixed(nd, g)
          \/ side \in (IF ~ Diagonal(nd, g) THEN {}
                       ELSE IF Within(RankDiagonal(nd, g), Q(nd).diagonal) THEN {"left"} ELSE {"right"})
          \/ side \in Variable(nd, g) /\ Within(Rank(nd, g, side), Q(nd)[side])
    BY DEF Top
  <2>2. side \in Fixed(nd, g) <=> g \in Both(nd, side)
    BY DEF Both
  <2>3. (side \in (IF ~ Diagonal(nd, g) THEN {}
                   ELSE IF Within(RankDiagonal(nd, g), Q(nd).diagonal) THEN {"left"} ELSE {"right"}))
          <=> g \in TopDiagonals(nd, side)
    <3>1. Diagonal(nd, g) <=> g \in Diagonals(nd)
      BY DEF Diagonals
    <3>2. Diagonal(nd, g) => (Within(RankDiagonal(nd, g), Q(nd).diagonal) <=> g \in LeftDiagonals(nd))
      BY <3>1, WithinIs
    <3>3. CASE side = "left"
      BY <1>1, <3>1, <3>2, <3>3 DEF TopDiagonals
    <3>4. CASE side = "right"
      BY <1>1, <3>1, <3>2, <3>4 DEF TopDiagonals
    <3>5. QED BY <3>3, <3>4 DEF Side
  <2>4. (side \in Variable(nd, g) /\ Within(Rank(nd, g, side), Q(nd)[side])) <=> g \in TopEither(nd, side)
    <3>1. side \in Variable(nd, g) <=> g \in Either(nd, side)
      BY DEF Either
    <3>2. g \in Either(nd, side) => (Within(Rank(nd, g, side), Q(nd)[side]) <=> g \in TopEither(nd, side))
      BY WithinIs
    <3>3. QED BY <1>1, <3>1, <3>2
  <2>5. QED BY <2>1, <2>2, <2>3, <2>4
<1>4. \A g \in Gates(nd) : Out(nd, g).top = Top(nd, g)
  BY DEF Out
<1>5. Tops(nd, side) = (Both(nd, side) \cup TopDiagonals(nd, side)) \cup TopEither(nd, side)
  BY <1>1, <1>2, <1>3, <1>4 DEF Tops
<1>6. QED BY <1>1, <1>2, <1>5

LEMMA TopsCount ==
  ASSUME tags \in [Place -> Tag], NEW nd, IsNode(nd), Exact(nd), nd.n # 2
  PROVE  /\ Cardinality(Tops(nd, "left")) =
              Cardinality(Both(nd, "left")) + Q(nd).diagonal + Q(nd)["left"]
         /\ Cardinality(Tops(nd, "right")) =
              Cardinality(Both(nd, "right")) + Cardinality(Diagonals(nd)) - Q(nd).diagonal + Q(nd)["right"]
<1>1. ASSUME NEW side \in Side
      PROVE  Cardinality(Tops(nd, side)) =
               Cardinality(Both(nd, side)) + Cardinality(TopDiagonals(nd, side)) + Q(nd)[side]
  <2> DEFINE f == Both(nd, side)
             d == TopDiagonals(nd, side)
             v == TopEither(nd, side)
  <2>1. /\ f \subseteq Gates(nd) /\ Diagonals(nd) \subseteq Gates(nd) /\ Either(nd, side) \subseteq Gates(nd)
        /\ d \subseteq Diagonals(nd) /\ v \subseteq Either(nd, side)
        /\ Tops(nd, side) = (f \cup d) \cup v
    BY TopsAre DEF Both, Diagonals, Either
  <2>2. f \cap d = {} /\ (f \cup d) \cap v = {}
    <3>1. f \cap Diagonals(nd) = {} /\ (f \cup Diagonals(nd)) \cap Either(nd, side) = {}
      BY GateClasses
    <3> HIDE DEF f, d, v
    <3>2. QED BY <2>1, <3>1
  <2>3. Cardinality(v) = Q(nd)[side]
    <3>1. Either(nd, side) \subseteq 0 .. (nd.n \div 2) - 1 /\ nd.n \div 2 \in Nat
      BY <2>1, GatesFinite, GatePlaces
    <3>2. Q(nd)[side] \in 0 .. Cardinality(Either(nd, side))
      BY QuotasFit DEF Side
    <3>3. QED BY <3>1, <3>2, RankedCount DEF TopEither
  <2> HIDE DEF f, d, v
  <2>4. IsFiniteSet(f) /\ IsFiniteSet(d) /\ IsFiniteSet(v)
    BY <2>1, GatesFinite
  <2>5. IsFiniteSet(f \cup d) /\ Cardinality(f \cup d) = Cardinality(f) + Cardinality(d)
    BY <2>2, <2>4, DisjointCount
  <2>6. Cardinality((f \cup d) \cup v) = Cardinality(f \cup d) + Cardinality(v)
    BY <2>2, <2>4, <2>5, DisjointCount
  <2>7. QED BY <2>1, <2>3, <2>5, <2>6 DEF f, d, v
<1>2. /\ LeftDiagonals(nd) \subseteq Diagonals(nd) /\ IsFiniteSet(Diagonals(nd))
      /\ Cardinality(LeftDiagonals(nd)) = Q(nd).diagonal
      /\ Cardinality(Diagonals(nd) \ LeftDiagonals(nd)) = Cardinality(Diagonals(nd)) - Q(nd).diagonal
  <2> DEFINE d == Diagonals(nd)
             l == LeftDiagonals(nd)
  <2>1. d \subseteq Gates(nd) /\ l \subseteq d
    BY DEF Diagonals, LeftDiagonals, Ranked
  <2>2. d \subseteq 0 .. (nd.n \div 2) - 1 /\ nd.n \div 2 \in Nat /\ IsFiniteSet(d)
    BY <2>1, GatesFinite, GatePlaces
  <2>3. Cardinality(l) = Q(nd).diagonal
    BY <2>2, QuotasFit, RankedCount DEF LeftDiagonals
  <2> HIDE DEF d, l
  <2>4. d \cap l = l
    BY <2>1
  <2>5. Cardinality(d \ l) = Cardinality(d) - Cardinality(d \cap l)
    BY <2>2, FS_Difference
  <2>6. QED BY <2>1, <2>2, <2>3, <2>4, <2>5 DEF d, l
<1>3. /\ TopDiagonals(nd, "left") = LeftDiagonals(nd)
      /\ TopDiagonals(nd, "right") = Diagonals(nd) \ LeftDiagonals(nd)
  BY DEF TopDiagonals
<1>4. /\ Cardinality(Both(nd, "left")) \in Nat /\ Cardinality(Both(nd, "right")) \in Nat
      /\ Cardinality(Diagonals(nd)) \in Nat /\ Q(nd).diagonal \in Nat
      /\ Q(nd)["left"] \in Nat /\ Q(nd)["right"] \in Nat
  <2>1. /\ Both(nd, "left") \subseteq Gates(nd) /\ Both(nd, "right") \subseteq Gates(nd)
        /\ Diagonals(nd) \subseteq Gates(nd)
    BY DEF Both, Diagonals
  <2>2. /\ Cardinality(Both(nd, "left")) \in Nat /\ Cardinality(Both(nd, "right")) \in Nat
        /\ Cardinality(Diagonals(nd)) \in Nat
    BY <2>1, GatesFinite
  <2>3. QED BY <2>2, QuotasFit
<1>5. "left" \in Side /\ "right" \in Side
  BY DEF Side
<1>6. QED BY <1>1, <1>2, <1>3, <1>4, <1>5

\* Each side of a pair's tags is passed on to one of the gate's outputs.
LEMMA BottomsCount ==
  ASSUME tags \in [Place -> Tag], NEW nd, IsNode(nd), Exact(nd), ~ Trivial(nd), NEW side \in Side
  PROVE  Cardinality(Tops(nd, side)) + Cardinality(Bottoms(nd, side))
           = Cardinality(Has(nd, 0, side)) + Cardinality(Has(nd, 1, side))
<1> DEFINE a == Has(nd, 0, side)
           b == Has(nd, 1, side)
           t == Tops(nd, side)
           u == Bottoms(nd, side)
<1>1. a \subseteq Gates(nd) /\ b \subseteq Gates(nd) /\ t \subseteq Gates(nd) /\ u \subseteq Gates(nd)
  BY DEF Has, Tops, Bottoms
<1>2. ASSUME NEW g \in Gates(nd)
      PROVE  /\ g \in a \/ g \in b <=> g \in t \/ g \in u
             /\ g \in a /\ g \in b <=> g \in t /\ g \in u
  <2>1. /\ g \in Nat /\ 2 * g + 0 = 2 * g
    BY GatePlaces
  <2>2. /\ g \in a <=> side \in tags[At(nd, 2 * g)]
        /\ g \in b <=> side \in tags[At(nd, 2 * g + 1)]
        /\ g \in t <=> side \in Out(nd, g).top
        /\ g \in u <=> side \in Out(nd, g).bottom
    BY <2>1 DEF Has, Tops, Bottoms
  <2>3. \/ /\ side \in Out(nd, g).top <=> side \in tags[At(nd, 2 * g)]
           /\ side \in Out(nd, g).bottom <=> side \in tags[At(nd, 2 * g + 1)]
        \/ /\ side \in Out(nd, g).top <=> side \in tags[At(nd, 2 * g + 1)]
           /\ side \in Out(nd, g).bottom <=> side \in tags[At(nd, 2 * g)]
    BY GateMoves DEF Moves
  <2>4. QED BY <2>2, <2>3
<1> HIDE DEF a, b, t, u
<1>3. a \cup b = t \cup u /\ a \cap b = t \cap u
  BY <1>1, <1>2
<1>4. /\ IsFiniteSet(a) /\ IsFiniteSet(b) /\ IsFiniteSet(t) /\ IsFiniteSet(u)
      /\ Cardinality(a) \in Nat /\ Cardinality(b) \in Nat /\ Cardinality(t) \in Nat /\ Cardinality(u) \in Nat
  BY <1>1, GatesFinite
<1>5. /\ Cardinality(a \cup b) = Cardinality(a) + Cardinality(b) - Cardinality(a \cap b)
      /\ Cardinality(t \cup u) = Cardinality(t) + Cardinality(u) - Cardinality(t \cap u)
  BY <1>4, FS_Union
<1>6. a \cap b \subseteq Gates(nd)
  BY <1>1
<1>7. Cardinality(a \cap b) \in Nat
  BY <1>6, GatesFinite
<1>8. Cardinality(t) + Cardinality(u) = Cardinality(a) + Cardinality(b)
  <2>1. /\ Cardinality(t \cup u) = Cardinality(a \cup b)
        /\ Cardinality(t \cap u) = Cardinality(a \cap b)
    BY <1>3
  <2> DEFINE i == Cardinality(a \cap b)
             w == Cardinality(a \cup b)
  <2>2. w = Cardinality(a) + Cardinality(b) - i /\ w = Cardinality(t) + Cardinality(u) - i /\ i \in Nat
    BY <1>5, <1>7, <2>1
  <2> HIDE DEF i, w
  <2>3. QED BY <1>4, <2>2
<1>9. QED BY <1>8 DEF a, b, t, u

-----------------------------------------------------------------------------
(* The two halves.                                                          *)

TopChild(nd) ==
  [base |-> nd.base, stride |-> 2 * nd.stride, n |-> Ceil(nd.n), left |-> Ceil(nd.left)]
BottomChild(nd) ==
  [base |-> nd.base + nd.stride, stride |-> 2 * nd.stride, n |-> nd.n \div 2,
   left |-> nd.left - Ceil(nd.left)]

LEMMA ChildrenAre ==
  ASSUME NEW nd
  PROVE  Children(nd) = <<TopChild(nd), BottomChild(nd)>>
BY DEF Children, SplitCapacities, TopChild, BottomChild

\* An even lane is a lane of the top half, an odd one of the bottom half.
LEMMA ChildPlaces ==
  ASSUME NEW nd, IsNode(nd), ~ Trivial(nd)
  PROVE  /\ nd.n >= 2
         /\ IsNode(TopChild(nd)) /\ IsNode(BottomChild(nd))
         /\ \A j \in Nat : /\ At(TopChild(nd), j) = At(nd, 2 * j)
                           /\ At(BottomChild(nd), j) = At(nd, 2 * j + 1)
         /\ Lane(TopChild(nd)) = {At(nd, 2 * j) : j \in 0 .. Ceil(nd.n) - 1}
         /\ Lane(BottomChild(nd)) = {At(nd, 2 * j + 1) : j \in 0 .. nd.n \div 2 - 1}
         /\ Lane(TopChild(nd)) \cup Lane(BottomChild(nd)) = Lane(nd)
         /\ Lane(TopChild(nd)) \cap Lane(BottomChild(nd)) = {}
<1> DEFINE c1 == TopChild(nd)
           c2 == BottomChild(nd)
<1>1. /\ nd \in Node /\ nd.base \in Nat /\ nd.stride \in Nat /\ nd.stride # 0
      /\ nd.n \in Nat /\ nd.n # 0 /\ nd.left \in Nat /\ nd.left <= nd.n
  BY DEF IsNode, Node
<1>2. nd.n >= 2
  BY <1>1 DEF Trivial
<1>3. /\ Ceil(nd.n) \in Nat \ {0} /\ nd.n \div 2 \in Nat \ {0} /\ Ceil(nd.left) \in Nat
      /\ Ceil(nd.left) <= Ceil(nd.n)
      /\ nd.left - Ceil(nd.left) \in Nat /\ nd.left - Ceil(nd.left) <= nd.n \div 2
  BY <1>1, <1>2 DEF Ceil
<1>4. c1 \in Node /\ c2 \in Node
  <2>1. 2 * nd.stride \in Nat \ {0} /\ nd.base + nd.stride \in Nat
    BY <1>1
  <2>2. QED BY <1>1, <1>3, <2>1 DEF Node, TopChild, BottomChild
<1>5. ASSUME NEW j \in Nat
      PROVE  At(c1, j) = At(nd, 2 * j) /\ At(c2, j) = At(nd, 2 * j + 1)
  <2>1. j * (2 * nd.stride) = (2 * j) * nd.stride
    BY <1>1
  <2>2. (2 * j + 1) * nd.stride = (2 * j) * nd.stride + nd.stride
    BY <1>1
  <2>3. (2 * j) * nd.stride \in Nat
    BY <1>1
  <2> DEFINE x == (2 * j) * nd.stride
  <2>4. At(c1, j) = nd.base + x /\ At(nd, 2 * j) = nd.base + x
    BY <2>1 DEF At, TopChild
  <2>5. At(c2, j) = (nd.base + nd.stride) + x /\ At(nd, 2 * j + 1) = nd.base + (x + nd.stride)
    BY <2>1, <2>2 DEF At, BottomChild
  <2> HIDE DEF x
  <2>6. x \in Nat
    BY <2>3 DEF x
  <2>7. QED BY <1>1, <2>4, <2>5, <2>6
<1>6. /\ Lane(c1) = {At(nd, 2 * j) : j \in 0 .. Ceil(nd.n) - 1}
      /\ Lane(c2) = {At(nd, 2 * j + 1) : j \in 0 .. nd.n \div 2 - 1}
  <2>1. c1.n = Ceil(nd.n) /\ c2.n = nd.n \div 2
    BY DEF TopChild, BottomChild
  <2>2. /\ Lane(c1) = {At(c1, j) : j \in 0 .. c1.n - 1}
        /\ Lane(c2) = {At(c2, j) : j \in 0 .. c2.n - 1}
    BY <1>4, Places
  <2> HIDE DEF c1, c2
  <2>3. QED BY <1>3, <1>5, <2>1, <2>2
<1>7. Lane(nd) = {At(nd, j) : j \in 0 .. nd.n - 1}
  BY <1>1, Places
<1>8. Lane(c1) \cup Lane(c2) = Lane(nd)
  <2>1. \A j \in 0 .. Ceil(nd.n) - 1 : 2 * j \in 0 .. nd.n - 1
    BY <1>1 DEF Ceil
  <2>2. \A j \in 0 .. nd.n \div 2 - 1 : 2 * j + 1 \in 0 .. nd.n - 1
    BY <1>1
  <2>3. ASSUME NEW j \in 0 .. nd.n - 1
        PROVE  \/ \E i \in 0 .. Ceil(nd.n) - 1 : j = 2 * i
               \/ \E i \in 0 .. nd.n \div 2 - 1 : j = 2 * i + 1
    <3>1. CASE j % 2 = 0
      <4>1. j \div 2 \in 0 .. Ceil(nd.n) - 1 /\ j = 2 * (j \div 2)
        BY <1>1, <3>1 DEF Ceil
      <4>2. QED BY <4>1
    <3>2. CASE j % 2 # 0
      <4>1. j \div 2 \in 0 .. nd.n \div 2 - 1 /\ j = 2 * (j \div 2) + 1
        BY <1>1, <3>2
      <4>2. QED BY <4>1
    <3>3. QED BY <3>1, <3>2
  <2> HIDE DEF c1, c2
  <2>4. QED BY <1>6, <1>7, <2>1, <2>2, <2>3
<1>9. Lane(c1) \cap Lane(c2) = {}
  <2>1. ASSUME NEW i \in 0 .. Ceil(nd.n) - 1, NEW j \in 0 .. nd.n \div 2 - 1
        PROVE  At(nd, 2 * i) # At(nd, 2 * j + 1)
    <3>1. 2 * i \in Nat /\ 2 * j + 1 \in Nat /\ 2 * i # 2 * j + 1
      BY <1>3
    <3>2. QED BY <1>1, <3>1, Places
  <2> HIDE DEF c1, c2
  <2>2. QED BY <1>6, <2>1
<1>10. IsNode(c1) /\ IsNode(c2)
  <2>1. c1.n = Ceil(nd.n) /\ c2.n = nd.n \div 2 /\ c1.left = Ceil(nd.left)
        /\ c2.left = nd.left - Ceil(nd.left)
    BY DEF TopChild, BottomChild
  <2>2. Lane(c1) \subseteq Place /\ Lane(c2) \subseteq Place
    BY <1>8 DEF IsNode
  <2> HIDE DEF c1, c2
  <2>3. QED BY <1>3, <1>4, <2>1, <2>2 DEF IsNode
<1>11. QED BY <1>2, <1>5, <1>6, <1>8, <1>9, <1>10

-----------------------------------------------------------------------------
(* The demand on the halves.                                                *)

\* The tags t ask a node for exactly its places.
Asks(t, nd, side) == {p \in Lane(nd) : side \in t[p]}
ExactFor(t, nd) ==
  /\ Cardinality(Asks(t, nd, "left")) = nd.left
  /\ Cardinality(Asks(t, nd, "right")) = nd.n - nd.left

LEMMA LastAlone ==
  ASSUME NEW nd, IsNode(nd), nd.n % 2 = 1
  PROVE  Alone(nd, At(nd, nd.n - 1)) /\ At(nd, nd.n - 1) \in Place
<1>1. nd \in Node /\ nd.n \in Nat /\ nd.n # 0
  BY DEF IsNode, Node
<1>2. ASSUME NEW g \in Gates(nd)
      PROVE  At(nd, nd.n - 1) # At(nd, 2 * g) /\ At(nd, nd.n - 1) # At(nd, 2 * g + 1)
  <2>1. nd.n - 1 \in Nat /\ 2 * g # nd.n - 1 /\ 2 * g + 1 # nd.n - 1
         /\ 2 * g \in Nat /\ 2 * g + 1 \in Nat
    BY <1>1 DEF Gates
  <2>2. QED BY <1>1, <2>1, Places
<1>3. QED BY <1>2, GatePlaces DEF Alone

\* The halves are asked for what the gates' outputs ask.
LEMMA HalvesAsked ==
  ASSUME tags \in [Place -> Tag], NEW nd, IsNode(nd), Exact(nd), ~ Trivial(nd), NEW side \in Side
  PROVE  /\ Cardinality(Asks(NewTags(nd), TopChild(nd), side)) =
              Cardinality(Tops(nd, side)) + Unpaired(nd, side)
         /\ Cardinality(Asks(NewTags(nd), BottomChild(nd), side)) = Cardinality(Bottoms(nd, side))
<1> DEFINE t == NewTags(nd)
           c1 == TopChild(nd)
           c2 == BottomChild(nd)
           T == Tops(nd, side)
           B == Bottoms(nd, side)
<1>1. nd \in Node /\ nd.n \in Nat /\ nd.n >= 2
  BY ChildPlaces DEF IsNode, Node
<1>2. T \subseteq Gates(nd) /\ B \subseteq Gates(nd) /\ T \subseteq Nat /\ B \subseteq Nat
      /\ IsFiniteSet(T) /\ IsFiniteSet(B) /\ Cardinality(T) \in Nat
  BY GatesFinite DEF Tops, Bottoms
<1>3. \A g \in Gates(nd) : /\ g \in T <=> side \in t[At(nd, 2 * g)]
                           /\ g \in B <=> side \in t[At(nd, 2 * g + 1)]
                           /\ g \in Nat /\ 2 * g + 0 = 2 * g
  BY NewTagsAre, GatePlaces DEF Tops, Bottoms
<1>4. nd.n % 2 = 1 => t[At(nd, nd.n - 1)] = tags[At(nd, nd.n - 1)]
  BY LastAlone, NewTagsAre
<1>5. TheLast(nd, side) = IF nd.n % 2 = 1 /\ side \in t[At(nd, nd.n - 1)] THEN {At(nd, nd.n - 1)} ELSE {}
  BY <1>4, LastIs DEF TheLast
<1>6. Asks(t, c1, side) = Lanes(nd, T, 0) \cup TheLast(nd, side)
  <2>1. Lane(c1) = {At(nd, 2 * j) : j \in 0 .. Ceil(nd.n) - 1}
    BY ChildPlaces
  <2>2. ASSUME NEW j \in 0 .. Ceil(nd.n) - 1
        PROVE  j \in Gates(nd) \/ (nd.n % 2 = 1 /\ 2 * j = nd.n - 1)
    BY <1>1 DEF Ceil, Gates
  <2>3. Gates(nd) \subseteq 0 .. Ceil(nd.n) - 1
    BY <1>1 DEF Ceil, Gates
  <2>4. nd.n % 2 = 1 => \E j \in 0 .. Ceil(nd.n) - 1 : 2 * j = nd.n - 1
    <3>1. SUFFICES ASSUME nd.n % 2 = 1 PROVE nd.n \div 2 \in 0 .. Ceil(nd.n) - 1 /\ 2 * (nd.n \div 2) = nd.n - 1
      OBVIOUS
    <3>2. QED BY <1>1, <3>1 DEF Ceil
  <2> HIDE DEF t, c1, T
  <2>5. ASSUME NEW p \in Asks(t, c1, side) PROVE p \in Lanes(nd, T, 0) \cup TheLast(nd, side)
    <3>1. PICK j \in 0 .. Ceil(nd.n) - 1 : p = At(nd, 2 * j) /\ side \in t[p]
      BY <2>1, <2>5 DEF Asks
    <3>2. CASE j \in Gates(nd)
      BY <1>3, <3>1, <3>2 DEF Lanes
    <3>3. CASE nd.n % 2 = 1 /\ 2 * j = nd.n - 1
      BY <1>5, <3>1, <3>3
    <3>4. QED BY <2>2, <3>2, <3>3
  <2>6. ASSUME NEW p \in Lanes(nd, T, 0) PROVE p \in Asks(t, c1, side)
    BY <1>2, <1>3, <2>1, <2>3, <2>6 DEF Lanes, Asks
  <2>7. ASSUME NEW p \in TheLast(nd, side) PROVE p \in Asks(t, c1, side)
    BY <1>5, <2>1, <2>4, <2>7 DEF Asks
  <2>8. QED BY <2>5, <2>6, <2>7
<1>7. Asks(t, c2, side) = Lanes(nd, B, 1)
  <2>1. Lane(c2) = {At(nd, 2 * j + 1) : j \in Gates(nd)}
    BY ChildPlaces DEF Gates
  <2> HIDE DEF t, c2, B
  <2>2. QED BY <1>2, <1>3, <2>1 DEF Asks, Lanes
<1>8. Lanes(nd, T, 0) \cap TheLast(nd, side) = {}
  <2>1. nd.n % 2 = 1 => \A g \in Gates(nd) : At(nd, nd.n - 1) # At(nd, 2 * g)
    BY LastAlone DEF Alone
  <2> HIDE DEF T, t
  <2>2. QED BY <1>2, <1>3, <1>5, <2>1 DEF Lanes
<1>9. /\ IsFiniteSet(Lanes(nd, T, 0)) /\ Cardinality(Lanes(nd, T, 0)) = Cardinality(T)
      /\ Cardinality(Lanes(nd, B, 1)) = Cardinality(B)
  BY <1>1, <1>2, LanesCount
<1>10. IsFiniteSet(TheLast(nd, side)) /\ Cardinality(TheLast(nd, side)) = Unpaired(nd, side)
  BY LastIs
<1> HIDE DEF t, c1, c2, T, B
<1>11. Cardinality(Asks(t, c1, side)) = Cardinality(T) + Unpaired(nd, side)
  BY <1>6, <1>8, <1>9, <1>10, DisjointCount
<1>12. QED BY <1>7, <1>9, <1>11 DEF t, c1, c2, T, B

LEMMA HalvesExact ==
  ASSUME tags \in [Place -> Tag], NEW nd, IsNode(nd), Exact(nd), ~ Trivial(nd), nd.n # 2
  PROVE  ExactFor(NewTags(nd), TopChild(nd)) /\ ExactFor(NewTags(nd), BottomChild(nd))
<1> DEFINE c == Counts(nd)
           tl == Cardinality(Tops(nd, "left"))
           tr == Cardinality(Tops(nd, "right"))
           bl == Cardinality(Bottoms(nd, "left"))
           br == Cardinality(Bottoms(nd, "right"))
           ll == Unpaired(nd, "left")
           lr == Unpaired(nd, "right")
           m == nd.n
           left == nd.left
<1>0. "left" \in Side /\ "right" \in Side
  BY DEF Side
<1>1. m \in Nat /\ left \in Nat /\ left <= m
  BY GatePlaces
<1>2. tl + ll = Ceil(left) /\ tr + lr = Ceil(m) - Ceil(left)
  <2>1. Layer(nd.n, nd.left, c)
    BY ExactLayer
  <2>2. /\ c.fixed_left + QuotaDiagonal(nd.n, nd.left, c) + QuotaLeft(nd.n, nd.left, c) + c.last_left
             = SplitCapacities(nd.n, nd.left).top_left
        /\ c.fixed_right + c.diagonal - QuotaDiagonal(nd.n, nd.left, c)
             + QuotaRight(nd.n, nd.left, c) + c.last_right = SplitCapacities(nd.n, nd.left).top_right
    <3> HIDE DEF c
    <3>1. QED BY <2>1, TopHalfExact
  <2>3. /\ Q(nd).diagonal = QuotaDiagonal(nd.n, nd.left, c)
        /\ Q(nd)["left"] = QuotaLeft(nd.n, nd.left, c)
        /\ Q(nd)["right"] = QuotaRight(nd.n, nd.left, c)
    BY DEF Q, Quotas
  <2>4. /\ tl = c.fixed_left + Q(nd).diagonal + Q(nd)["left"]
        /\ tr = c.fixed_right + c.diagonal - Q(nd).diagonal + Q(nd)["right"]
        /\ c.last_left = ll /\ c.last_right = lr
    BY TopsCount, CountsAre
  <2>5. /\ SplitCapacities(nd.n, nd.left).top_left = Ceil(left)
        /\ SplitCapacities(nd.n, nd.left).top_right = Ceil(m) - Ceil(left)
    BY DEF SplitCapacities
  <2> HIDE DEF c, tl, tr, ll, lr, m, left
  <2>6. QED BY <2>2, <2>3, <2>4, <2>5
<1>3. ASSUME NEW side \in Side
      PROVE  /\ Cardinality(Tops(nd, side)) \in Nat /\ Cardinality(Bottoms(nd, side)) \in Nat
             /\ Unpaired(nd, side) \in Nat
             /\ Cardinality(Tops(nd, side)) + Cardinality(Bottoms(nd, side)) + Unpaired(nd, side)
                  = Cardinality(Wants(Lane(nd), side))
  <2> DEFINE a == Cardinality(Tops(nd, side))
             b == Cardinality(Bottoms(nd, side))
             f == Cardinality(Both(nd, side))
             d == Cardinality(Diagonals(nd))
             v == Cardinality(Either(nd, side))
             w == Cardinality(Wants(Lane(nd), side))
             l == Unpaired(nd, side)
  <2>1. /\ Tops(nd, side) \subseteq Gates(nd) /\ Bottoms(nd, side) \subseteq Gates(nd)
        /\ Both(nd, side) \subseteq Gates(nd) /\ Diagonals(nd) \subseteq Gates(nd)
        /\ Either(nd, side) \subseteq Gates(nd)
    BY DEF Tops, Bottoms, Both, Diagonals, Either
  <2>2. a \in Nat /\ b \in Nat /\ f \in Nat /\ d \in Nat /\ v \in Nat /\ l \in Nat
    BY <2>1, GatesFinite, LastIs
  <2>3. a + b = 2 * f + d + v /\ w = 2 * f + d + v + l
    BY BottomsCount, HasCount, WantsCount
  <2> HIDE DEF a, b, f, d, v, w, l
  <2>4. a \in Nat /\ b \in Nat /\ l \in Nat /\ a + b + l = w
    BY <2>2, <2>3
  <2>5. QED BY <2>4 DEF a, b, w, l
<1>4. /\ tl \in Nat /\ bl \in Nat /\ ll \in Nat /\ tr \in Nat /\ br \in Nat /\ lr \in Nat
      /\ tl + bl + ll = left /\ tr + br + lr = m - left
  BY <1>0, <1>3 DEF Exact
<1>5. /\ Cardinality(Asks(NewTags(nd), TopChild(nd), "left")) = tl + ll
      /\ Cardinality(Asks(NewTags(nd), TopChild(nd), "right")) = tr + lr
      /\ Cardinality(Asks(NewTags(nd), BottomChild(nd), "left")) = bl
      /\ Cardinality(Asks(NewTags(nd), BottomChild(nd), "right")) = br
  BY <1>0, HalvesAsked
<1>6. /\ TopChild(nd).left = Ceil(left) /\ TopChild(nd).n = Ceil(m)
      /\ BottomChild(nd).left = left - Ceil(left) /\ BottomChild(nd).n = m \div 2
  BY DEF TopChild, BottomChild
<1> HIDE DEF c, tl, tr, bl, br, ll, lr, m, left
<1>7. bl = left - Ceil(left) /\ br = m \div 2 - (left - Ceil(left))
  <2>1. Ceil(left) \in Nat /\ Ceil(m) \in Nat /\ m - Ceil(m) = m \div 2 /\ m \div 2 \in Nat
    BY <1>1 DEF Ceil
  <2>2. QED BY <1>1, <1>2, <1>4, <2>1
<1>8. QED BY <1>2, <1>5, <1>6, <1>7 DEF ExactFor

-----------------------------------------------------------------------------
(* Where the places of a node belong.                                       *)

Final(p) == IF p < n_left THEN {"left"} ELSE {"right"}

\* The first lanes of a node are places of the left output.
Goal(nd) == \A j \in 0 .. nd.n - 1 : At(nd, j) < n_left <=> j < nd.left

LEMMA HalvesGoals ==
  ASSUME NEW nd, IsNode(nd), ~ Trivial(nd), Goal(nd)
  PROVE  Goal(TopChild(nd)) /\ Goal(BottomChild(nd))
<1>1. nd.n \in Nat /\ nd.left \in Nat /\ nd.left <= nd.n
  BY GatePlaces
<1>2. Goal(TopChild(nd))
  <2>1. SUFFICES ASSUME NEW j \in 0 .. TopChild(nd).n - 1
                 PROVE  At(TopChild(nd), j) < n_left <=> j < TopChild(nd).left
    BY DEF Goal
  <2>2. TopChild(nd).n = Ceil(nd.n) /\ TopChild(nd).left = Ceil(nd.left)
    BY DEF TopChild
  <2>3. /\ j \in Nat /\ 2 * j \in 0 .. nd.n - 1
        /\ 2 * j < nd.left <=> j < Ceil(nd.left)
    BY <1>1, <2>1, <2>2 DEF Ceil
  <2>4. At(TopChild(nd), j) = At(nd, 2 * j)
    BY <2>3, ChildPlaces
  <2>5. At(nd, 2 * j) < n_left <=> 2 * j < nd.left
    BY <2>3 DEF Goal
  <2>6. QED BY <2>2, <2>3, <2>4, <2>5
<1>3. Goal(BottomChild(nd))
  <2>1. SUFFICES ASSUME NEW j \in 0 .. BottomChild(nd).n - 1
                 PROVE  At(BottomChild(nd), j) < n_left <=> j < BottomChild(nd).left
    BY DEF Goal
  <2>2. BottomChild(nd).n = nd.n \div 2 /\ BottomChild(nd).left = nd.left - Ceil(nd.left)
    BY DEF BottomChild
  <2>3. /\ j \in Nat /\ 2 * j + 1 \in 0 .. nd.n - 1
        /\ 2 * j + 1 < nd.left <=> j < nd.left - Ceil(nd.left)
    BY <1>1, <2>1, <2>2 DEF Ceil
  <2>4. At(BottomChild(nd), j) = At(nd, 2 * j + 1)
    BY <2>3, ChildPlaces
  <2>5. At(nd, 2 * j + 1) < n_left <=> 2 * j + 1 < nd.left
    BY <2>3 DEF Goal
  <2>6. QED BY <2>2, <2>3, <2>4, <2>5
<1>4. QED BY <1>2, <1>3

LEMMA LaneCount ==
  ASSUME NEW nd, IsNode(nd)
  PROVE  IsFiniteSet(Lane(nd)) /\ Cardinality(Lane(nd)) = nd.n
<1> DEFINE J == 0 .. nd.n - 1
           f == [j \in J |-> At(nd, j)]
<1>1. nd \in Node /\ nd.n \in Nat /\ nd.n # 0
  BY DEF IsNode, Node
<1>2. IsFiniteSet(J) /\ Cardinality(J) = nd.n
  <2> DEFINE m == nd.n - 1
  <2>1. m \in Nat /\ m + 1 = nd.n
    BY <1>1
  <2>2. IsFiniteSet(0 .. m) /\ Cardinality(0 .. m) = IF 0 > m THEN 0 ELSE m - 0 + 1
    <3> HIDE DEF m
    <3>1. 0 \in Int /\ m \in Int
      BY <2>1
    <3>2. QED BY <3>1, FS_Interval
  <2> HIDE DEF m
  <2>3. IsFiniteSet(0 .. m) /\ Cardinality(0 .. m) = nd.n
    BY <2>1, <2>2
  <2>4. QED BY <2>3 DEF m
<1>3. \A i, j \in J : f[i] = f[j] => i = j
  BY <1>1, Places
<1>4. Lane(nd) = {f[j] : j \in J}
  <2>1. Lane(nd) = {At(nd, j) : j \in 0 .. nd.n - 1}
    BY <1>1, Places
  <2>2. \A j \in J : f[j] = At(nd, j)
    OBVIOUS
  <2> HIDE DEF f
  <2>3. QED BY <2>1, <2>2
<1> HIDE DEF J, f
<1>5. QED BY <1>2, <1>3, <1>4, ImageCount

\* A node that routes to one output only is done.
LEMMA TrivialSettled ==
  ASSUME tags \in [Place -> Tag], NEW nd, IsNode(nd), Exact(nd), Trivial(nd), Goal(nd),
         NEW p \in Lane(nd)
  PROVE  tags[p] = Final(p)
<1>1. nd \in Node /\ nd.n \in Nat /\ nd.n # 0 /\ nd.left \in Nat /\ p \in Place
  BY DEF IsNode, Node
<1>2. PICK j \in 0 .. nd.n - 1 : p = At(nd, j)
  BY <1>1, Places
<1>3. p < n_left <=> j < nd.left
  BY <1>2 DEF Goal
<1>4. IsFiniteSet(Lane(nd)) /\ Cardinality(Lane(nd)) = nd.n
  BY LaneCount
<1>5. ASSUME NEW side, Cardinality(Wants(Lane(nd), side)) = 0 PROVE side \notin tags[p]
  <2>1. Wants(Lane(nd), side) \subseteq Lane(nd)
    BY DEF Wants
  <2>2. Wants(Lane(nd), side) = {}
    BY <1>4, <1>5, <2>1, FS_Subset, FS_EmptySet
  <2>3. QED BY <2>2 DEF Wants
<1>6. ASSUME NEW side, Cardinality(Wants(Lane(nd), side)) = nd.n PROVE side \in tags[p]
  <2>1. Wants(Lane(nd), side) \subseteq Lane(nd)
    BY DEF Wants
  <2>2. Wants(Lane(nd), side) = Lane(nd)
    BY <1>4, <1>6, <2>1, FS_Subset
  <2>3. QED BY <2>2 DEF Wants
<1>7. CASE nd.left = 0
  <2>1. "left" \notin tags[p] /\ "right" \in tags[p]
    <3>1. nd.n - nd.left = nd.n BY <1>1, <1>7
    <3>2. QED BY <1>5, <1>6, <1>7, <3>1 DEF Exact
  <2>2. tags[p] = {"right"}
    BY <1>1, <2>1, TagValues
  <2>3. ~ (p < n_left)
    BY <1>3, <1>7
  <2>4. QED BY <2>2, <2>3 DEF Final
<1>8. CASE nd.left = nd.n
  <2>1. "left" \in tags[p] /\ "right" \notin tags[p]
    <3>1. nd.n - nd.left = 0 BY <1>1, <1>8
    <3>2. QED BY <1>5, <1>6, <1>8, <3>1 DEF Exact
  <2>2. tags[p] = {"left"}
    BY <1>1, <2>1, TagValues
  <2>3. p < n_left
    <3>1. j < nd.left
      BY <1>1, <1>8
    <3>2. QED BY <1>3, <3>1
  <2>4. QED BY <2>2, <2>3 DEF Final
<1>9. QED BY <1>7, <1>8 DEF Trivial

\* So is one of two records, after its gate.
LEMMA PairSettled ==
  ASSUME tags \in [Place -> Tag], NEW nd, IsNode(nd), Exact(nd), ~ Trivial(nd), nd.n = 2, Goal(nd),
         NEW p \in Lane(nd)
  PROVE  NewTags(nd)[p] = Final(p)
<1>1. nd \in Node /\ Gates(nd) = {0} /\ nd.left = 1
  BY LastPair DEF IsNode
<1>2. PICK j \in 0 .. 1 : p = At(nd, j)
  <2>1. Lane(nd) = {At(nd, j) : j \in 0 .. nd.n - 1}
    BY <1>1, Places
  <2>2. nd.n - 1 = 1
    OBVIOUS
  <2>3. QED BY <2>1, <2>2
<1>3. p < n_left <=> j < 1
  BY <1>1, <1>2 DEF Goal
<1>4. NewTags(nd)[At(nd, 0)] = {"left"} /\ NewTags(nd)[At(nd, 1)] = {"right"}
  <2>1. 0 \in Gates(nd) /\ 2 * 0 = 0 /\ 2 * 0 + 1 = 1
    BY <1>1
  <2>2. Out(nd, 0).top = {"left"} /\ Out(nd, 0).bottom = {"right"}
    BY DEF Out
  <2>3. QED BY <2>1, <2>2, NewTagsAre
<1>5. j = 0 \/ j = 1
  OBVIOUS
<1>6. QED BY <1>2, <1>3, <1>4, <1>5 DEF Final

-----------------------------------------------------------------------------
(* Responsibilities.                                                        *)

\* Place p is responsible for record i's copy in an output.
Holds(r, t, p, i, side) == r[p] = i /\ side \in t[p]

\* One place is.
Single(r, t, i, side) ==
  \E p \in Place : /\ Holds(r, t, p, i, side)
                   /\ \A q \in Place : Holds(r, t, q, i, side) => q = p

Resp(r, t) == \A i \in Place : \A side \in Side : side \in wanted[i] => Single(r, t, i, side)

LEMMA SingleCount ==
  ASSUME NEW r, NEW t, NEW i, NEW side, Single(r, t, i, side)
  PROVE  Cardinality({p \in Place : r[p] = i /\ side \in t[p]}) = 1
<1>1. PICK p \in Place : /\ Holds(r, t, p, i, side)
                         /\ \A q \in Place : Holds(r, t, q, i, side) => q = p
  BY DEF Single
<1>2. {q \in Place : r[q] = i /\ side \in t[q]} = {p}
  BY <1>1 DEF Holds
<1>3. QED BY <1>2, FS_Singleton

\* A rearrangement of the places that is its own inverse keeps it.
LEMMA SingleMoves ==
  ASSUME NEW r, NEW t, NEW r2, NEW t2, NEW i, NEW side, Single(r, t, i, side),
         NEW move \in [Place -> Place], \A p \in Place : move[move[p]] = p,
         \A p \in Place : Holds(r2, t2, p, i, side) <=> Holds(r, t, move[p], i, side)
  PROVE  Single(r2, t2, i, side)
<1>1. PICK p \in Place : /\ Holds(r, t, p, i, side)
                         /\ \A q \in Place : Holds(r, t, q, i, side) => q = p
  BY DEF Single
<1>2. move[p] \in Place /\ move[move[p]] = p
  OBVIOUS
<1>3. Holds(r2, t2, move[p], i, side)
  BY <1>1, <1>2
<1>4. ASSUME NEW q \in Place, Holds(r2, t2, q, i, side) PROVE q = move[p]
  <2>1. move[q] \in Place /\ Holds(r, t, move[q], i, side)
    BY <1>4
  <2>2. move[q] = p
    BY <1>1, <2>1
  <2>3. QED BY <2>2
<1>5. QED BY <1>2, <1>3, <1>4 DEF Single

\* The controls of a layer.
NewControl(nd) == [g \in Gates(nd) |-> Out(nd, g).control]

LEMMA LayerKeeps ==
  ASSUME tags \in [Place -> Tag], rows \in [Place -> Place],
         NEW nd, IsNode(nd), Exact(nd), ~ Trivial(nd), Resp(rows, tags)
  PROVE  Resp(Carried(nd, rows, NewControl(nd)), NewTags(nd))
<1> DEFINE r2 == Carried(nd, rows, NewControl(nd))
           t2 == NewTags(nd)
<1>1. SUFFICES ASSUME NEW i \in Place, NEW side \in Side, side \in wanted[i]
               PROVE  Single(r2, t2, i, side)
  BY DEF Resp
<1>2. Single(rows, tags, i, side)
  BY <1>1 DEF Resp
<1> DEFINE Straight(g) ==
             /\ side \in Out(nd, g).top <=> side \in tags[At(nd, 2 * g)]
             /\ side \in Out(nd, g).bottom <=> side \in tags[At(nd, 2 * g + 1)]
             /\ side \in tags[At(nd, 2 * g)] => "top" \notin Out(nd, g).control
             /\ side \in tags[At(nd, 2 * g + 1)] => "bottom" \in Out(nd, g).control
           Across(g) ==
             /\ side \in Out(nd, g).top <=> side \in tags[At(nd, 2 * g + 1)]
             /\ side \in Out(nd, g).bottom <=> side \in tags[At(nd, 2 * g)]
             /\ side \in tags[At(nd, 2 * g + 1)] => "top" \in Out(nd, g).control
             /\ side \in tags[At(nd, 2 * g)] => "bottom" \notin Out(nd, g).control
<1>3. \A g \in Gates(nd) : Straight(g) \/ Across(g)
  BY GateMoves DEF Moves
<1> DEFINE partner(p) == IF p = At(nd, 2 * GateOf(nd, p)) THEN At(nd, 2 * GateOf(nd, p) + 1)
                         ELSE At(nd, 2 * GateOf(nd, p))
           move == [p \in Place |-> IF Alone(nd, p) \/ Straight(GateOf(nd, p)) THEN p ELSE partner(p)]
<1>4. ASSUME NEW p \in Place, Alone(nd, p)
      PROVE  /\ move[p] = p
             /\ Holds(r2, t2, p, i, side) <=> Holds(rows, tags, p, i, side)
  <2>1. r2[p] = rows[p] /\ t2[p] = tags[p]
    BY <1>4, CarriedIs, NewTagsAre
  <2>2. move[p] = p
    BY <1>4
  <2>3. QED BY <2>1, <2>2 DEF Holds
<1>5. ASSUME NEW g \in Gates(nd)
      PROVE  LET a == At(nd, 2 * g)
                 b == At(nd, 2 * g + 1)
             IN /\ a \in Place /\ b \in Place
                /\ \/ /\ move[a] = a /\ move[b] = b
                      /\ Holds(r2, t2, a, i, side) <=> Holds(rows, tags, a, i, side)
                      /\ Holds(r2, t2, b, i, side) <=> Holds(rows, tags, b, i, side)
                   \/ /\ move[a] = b /\ move[b] = a
                      /\ Holds(r2, t2, a, i, side) <=> Holds(rows, tags, b, i, side)
                      /\ Holds(r2, t2, b, i, side) <=> Holds(rows, tags, a, i, side)
  <2> DEFINE a == At(nd, 2 * g)
             b == At(nd, 2 * g + 1)
  <2>1. /\ a \in Place /\ b \in Place /\ a # b /\ GateOf(nd, a) = g /\ GateOf(nd, b) = g
        /\ ~ Alone(nd, a) /\ ~ Alone(nd, b)
    BY GatePlaces, GatedIs
  <2>2. /\ r2[a] = IF "top" \in Out(nd, g).control THEN rows[b] ELSE rows[a]
        /\ r2[b] = IF "bottom" \in Out(nd, g).control THEN rows[b] ELSE rows[a]
        /\ t2[a] = Out(nd, g).top /\ t2[b] = Out(nd, g).bottom
    BY CarriedIs, NewTagsAre DEF NewControl
  <2>3. /\ move[a] = IF Straight(g) THEN a ELSE b
        /\ move[b] = IF Straight(g) THEN b ELSE a
    <3>1. partner(a) = b /\ partner(b) = a
      BY <2>1
    <3> HIDE DEF partner, Straight
    <3>2. QED BY <2>1, <3>1
  <2> HIDE DEF r2, t2, move
  <2>4. CASE Straight(g)
    BY <2>1, <2>2, <2>3, <2>4 DEF Holds
  <2>5. CASE ~ Straight(g) /\ Across(g)
    BY <2>1, <2>2, <2>3, <2>5 DEF Holds
  <2>6. QED BY <1>3, <2>4, <2>5
<1>6. \A p \in Place : Alone(nd, p) \/ \E g \in Gates(nd) : p = At(nd, 2 * g) \/ p = At(nd, 2 * g + 1)
  BY DEF Alone
<1>7. \A p \in Place : /\ move[p] \in Place /\ move[move[p]] = p
                       /\ Holds(r2, t2, p, i, side) <=> Holds(rows, tags, move[p], i, side)
  <2> HIDE DEF move, r2, t2
  <2>1. SUFFICES ASSUME NEW p \in Place
                 PROVE  /\ move[p] \in Place /\ move[move[p]] = p
                        /\ Holds(r2, t2, p, i, side) <=> Holds(rows, tags, move[p], i, side)
    OBVIOUS
  <2>2. CASE Alone(nd, p)
    BY <1>4, <2>2
  <2>3. CASE ~ Alone(nd, p)
    <3>1. PICK g \in Gates(nd) : p = At(nd, 2 * g) \/ p = At(nd, 2 * g + 1)
      BY <1>6, <2>3
    <3> DEFINE a == At(nd, 2 * g)
               b == At(nd, 2 * g + 1)
    <3>2. /\ a \in Place /\ b \in Place
          /\ \/ /\ move[a] = a /\ move[b] = b
                /\ Holds(r2, t2, a, i, side) <=> Holds(rows, tags, a, i, side)
                /\ Holds(r2, t2, b, i, side) <=> Holds(rows, tags, b, i, side)
             \/ /\ move[a] = b /\ move[b] = a
                /\ Holds(r2, t2, a, i, side) <=> Holds(rows, tags, b, i, side)
                /\ Holds(r2, t2, b, i, side) <=> Holds(rows, tags, a, i, side)
      BY <1>5
    <3>3. p = a \/ p = b
      BY <3>1
    <3> HIDE DEF a, b
    <3>4. CASE p = a
      BY <3>2, <3>4
    <3>5. CASE p = b
      BY <3>2, <3>5
    <3>6. QED BY <3>3, <3>4, <3>5
  <2>4. QED BY <2>2, <2>3
<1>8. move \in [Place -> Place]
  <2>1. move = [p \in Place |-> move[p]]
    OBVIOUS
  <2> HIDE DEF move
  <2>2. QED BY <1>7, <2>1
<1> HIDE DEF move, r2, t2
<1>9. QED BY <1>2, <1>7, <1>8, SingleMoves

-----------------------------------------------------------------------------
(* Normalization.                                                           *)

Wanting(side) == {p \in Place : side \in wanted[p]}
Unwanted == {p \in Place : wanted[p] = {}}
FreeLeft == n_left - Cardinality(Wanting("left"))
FreeRight == (n - n_left) - Cardinality(Wanting("right"))
UnwantedRank(p) == Cardinality({q \in 0 .. p - 1 : wanted[q] = {}})

Normal ==
  [p \in Place |->
     IF wanted[p] # {} THEN wanted[p]
     ELSE IF UnwantedRank(p) < FreeLeft THEN {"left"}
     ELSE IF UnwantedRank(p) < FreeLeft + FreeRight THEN {"right"}
     ELSE {}]

LEMMA RootIs ==
  ASSUME n \in Nat \ {0}, n_left \in 0 .. n
  PROVE  /\ Root \in Node /\ Root.n = n /\ Root.left = n_left
         /\ Lane(Root) = Place /\ IsNode(Root) /\ Goal(Root)
<1>1. Root \in Node /\ Root.n = n /\ Root.left = n_left
  BY DEF Root, Node
<1>2. \A j \in Nat : At(Root, j) = j
  BY DEF Root, At
<1>3. Lane(Root) = Place
  <2>1. Lane(Root) = {At(Root, j) : j \in 0 .. n - 1}
    BY <1>1, Places
  <2>2. Place = 0 .. n - 1 /\ \A j \in 0 .. n - 1 : At(Root, j) = j
    BY <1>2 DEF Place
  <2>3. QED BY <2>1, <2>2
<1>4. IsNode(Root)
  BY <1>1, <1>3 DEF IsNode
<1>5. Goal(Root)
  <2>1. \A j \in 0 .. n - 1 : At(Root, j) = j
    BY <1>2
  <2>2. QED BY <1>1, <2>1 DEF Goal
<1>6. QED BY <1>1, <1>3, <1>4, <1>5

LEMMA NormalExact ==
  ASSUME n \in Nat \ {0}, n_left \in 0 .. n, wanted \in [Place -> Tag],
         Cardinality(Wanting("left")) <= n_left, Cardinality(Wanting("right")) <= n - n_left
  PROVE  /\ Normal \in [Place -> Tag]
         /\ ExactFor(Normal, Root)
         /\ \A p \in Place : wanted[p] \subseteq Normal[p]
<1> DEFINE E == Unwanted
           WL == Wanting("left")
           WR == Wanting("right")
           fl == FreeLeft
           fr == FreeRight
<1>1. IsFiniteSet(Place) /\ Cardinality(Place) = n /\ Place \subseteq Nat
  BY RootIs, LaneCount DEF Place
<1>2. E \subseteq Place /\ WL \subseteq Place /\ WR \subseteq Place
  BY DEF Unwanted, Wanting
<1>3. /\ IsFiniteSet(E) /\ IsFiniteSet(WL) /\ IsFiniteSet(WR)
      /\ Cardinality(E) \in Nat /\ Cardinality(WL) \in Nat /\ Cardinality(WR) \in Nat
  <2> HIDE DEF E, WL, WR
  <2>1. QED BY <1>1, <1>2, FS_Subset, FS_CardinalityType
<1>4. fl \in Nat /\ fr \in Nat /\ fl = n_left - Cardinality(WL) /\ fr = (n - n_left) - Cardinality(WR)
  BY <1>3 DEF FreeLeft, FreeRight
<1>5. fl + fr <= Cardinality(E)
  <2>1. E \cup (WL \cup WR) = Place
    <3>1. ASSUME NEW p \in Place PROVE p \in E \/ p \in WL \/ p \in WR
      <4>1. wanted[p] \in Tag
        OBVIOUS
      <4>2. QED BY <4>1, TagValues DEF Unwanted, Wanting
    <3> HIDE DEF E, WL, WR
    <3>2. QED BY <1>2, <3>1
  <2> HIDE DEF E, WL, WR, fl, fr
  <2>2. /\ IsFiniteSet(WL \cup WR) /\ IsFiniteSet(WL \cap WR)
        /\ Cardinality(WL \cup WR) = Cardinality(WL) + Cardinality(WR) - Cardinality(WL \cap WR)
    BY <1>3, FS_Union, FS_Intersection
  <2>3. /\ IsFiniteSet(E \cap (WL \cup WR))
        /\ Cardinality(Place) = Cardinality(E) + Cardinality(WL \cup WR) - Cardinality(E \cap (WL \cup WR))
    BY <1>3, <2>1, <2>2, FS_Union, FS_Intersection
  <2>4. Cardinality(WL \cap WR) \in Nat /\ Cardinality(E \cap (WL \cup WR)) \in Nat
    BY <2>2, <2>3, FS_CardinalityType
  <2> DEFINE x == Cardinality(WL \cap WR)
             y == Cardinality(E \cap (WL \cup WR))
             z == Cardinality(WL \cup WR)
  <2>5. /\ z = Cardinality(WL) + Cardinality(WR) - x /\ n = Cardinality(E) + z - y
        /\ x \in Nat /\ y \in Nat
    BY <1>1, <2>2, <2>3, <2>4
  <2> HIDE DEF x, y, z
  <2>6. QED BY <1>3, <1>4, <2>5
<1>6. \A p \in Place : UnwantedRank(p) = Cardinality(Below(E, p)) /\ UnwantedRank(p) \in Nat
  <2>1. SUFFICES ASSUME NEW p \in Place
                 PROVE  UnwantedRank(p) = Cardinality(Below(E, p)) /\ UnwantedRank(p) \in Nat
    OBVIOUS
  <2>2. p \in Nat /\ 0 .. p - 1 \subseteq Place /\ E \subseteq Nat
    BY <1>1, <1>2 DEF Place
  <2>3. {q \in 0 .. p - 1 : wanted[q] = {}} = Below(E, p)
    BY <2>2 DEF Below, Unwanted
  <2>4. QED BY <2>2, <2>3, BelowFinite DEF UnwantedRank
<1> DEFINE L == Ranked(E, fl)
           R == Ranked(E, fl + fr)
<1>7. /\ L \subseteq R /\ R \subseteq E
      /\ \A p \in E : /\ p \in L <=> UnwantedRank(p) < fl
                      /\ p \in R <=> UnwantedRank(p) < fl + fr
  <2>1. \A p \in E : /\ p \in L <=> UnwantedRank(p) < fl
                     /\ p \in R <=> UnwantedRank(p) < fl + fr
    BY <1>2, <1>6 DEF Ranked
  <2>2. L \subseteq E /\ R \subseteq E
    BY DEF Ranked
  <2> HIDE DEF E, L, R, fl, fr
  <2>3. \A p \in E : UnwantedRank(p) \in Nat
    BY <1>2, <1>6
  <2>4. QED BY <1>4, <2>1, <2>2, <2>3
<1>8. ASSUME NEW p \in Place
      PROVE  Normal[p] = IF p \notin E THEN wanted[p] ELSE IF p \in L THEN {"left"}
                         ELSE IF p \in R THEN {"right"} ELSE {}
  <2>1. Normal[p] = IF p \notin E THEN wanted[p] ELSE IF UnwantedRank(p) < fl THEN {"left"}
                    ELSE IF UnwantedRank(p) < fl + fr THEN {"right"} ELSE {}
    BY DEF Normal, Unwanted
  <2> HIDE DEF E, L, R, fl, fr
  <2>2. QED BY <1>7, <2>1
<1>9. Normal \in [Place -> Tag]
  <2>1. \A p \in Place : Normal[p] \in Tag
    <3>1. {"left"} \in Tag /\ {"right"} \in Tag /\ {} \in Tag
      BY DEF Tag, Side
    <3> HIDE DEF E, L, R
    <3>2. QED BY <1>8, <3>1
  <2>2. QED BY <2>1 DEF Normal
<1>10. \A p \in E : wanted[p] = {}
  BY DEF Unwanted
<1>11. Asks(Normal, Root, "left") = WL \cup L
  <2>1. Asks(Normal, Root, "left") = {p \in Place : "left" \in Normal[p]}
    BY RootIs DEF Asks
  <2>2. \A p \in Place : p \in WL <=> "left" \in wanted[p]
    BY DEF Wanting
  <2> HIDE DEF E, WL, L, R
  <2>3. QED BY <1>2, <1>7, <1>8, <1>10, <2>1, <2>2
<1>12. Asks(Normal, Root, "right") = WR \cup (R \ L)
  <2>1. Asks(Normal, Root, "right") = {p \in Place : "right" \in Normal[p]}
    BY RootIs DEF Asks
  <2>2. \A p \in Place : p \in WR <=> "right" \in wanted[p]
    BY DEF Wanting
  <2> HIDE DEF E, WR, L, R
  <2>3. QED BY <1>2, <1>7, <1>8, <1>10, <2>1, <2>2
<1>13. WL \cap E = {} /\ WR \cap E = {}
  BY <1>10 DEF Wanting
<1>14. /\ IsFiniteSet(L) /\ Cardinality(L) = fl
       /\ IsFiniteSet(R) /\ Cardinality(R) = fl + fr
  <2>1. E \subseteq 0 .. n - 1 /\ n \in Nat
    BY <1>2 DEF Place
  <2> HIDE DEF E, fl, fr
  <2>2. fl \in 0 .. Cardinality(E) /\ fl + fr \in 0 .. Cardinality(E)
    BY <1>3, <1>4, <1>5
  <2>3. QED BY <2>1, <2>2, RankedCount
<1> HIDE DEF E, WL, WR, fl, fr, L, R
<1>15. IsFiniteSet(R \ L) /\ Cardinality(R \ L) = fr
  <2>1. R \cap L = L
    BY <1>7
  <2>2. IsFiniteSet(R \ L) /\ Cardinality(R \ L) = Cardinality(R) - Cardinality(R \cap L)
    BY <1>14, FS_Difference
  <2>3. QED BY <1>4, <1>14, <2>1, <2>2
<1>16. Cardinality(WL \cup L) = Cardinality(WL) + fl
  <2>1. WL \cap L = {}
    BY <1>7, <1>13
  <2>2. QED BY <1>3, <1>14, <2>1, DisjointCount
<1>17. Cardinality(WR \cup (R \ L)) = Cardinality(WR) + fr
  <2>1. WR \cap (R \ L) = {}
    BY <1>7, <1>13
  <2>2. QED BY <1>3, <1>15, <2>1, DisjointCount
<1>18. ExactFor(Normal, Root)
  <2>1. Cardinality(WL) + fl = n_left /\ Cardinality(WR) + fr = n - n_left
    BY <1>3, <1>4
  <2>2. QED BY <1>11, <1>12, <1>16, <1>17, <2>1, RootIs DEF ExactFor
<1>19. \A p \in Place : wanted[p] \subseteq Normal[p]
  BY <1>8, <1>10
<1>20. QED BY <1>9, <1>18, <1>19

-----------------------------------------------------------------------------
(* The nodes still to do.                                                   *)

\* Stack s with tags t: its nodes have places of their own and are asked for
\* exactly these; a place of no node is settled.
Pending(t, s) ==
  /\ s \in Seq(Node)
  /\ \A i \in 1 .. Len(s) : IsNode(s[i]) /\ Goal(s[i]) /\ ExactFor(t, s[i])
  /\ \A i, j \in 1 .. Len(s) : i # j => Lane(s[i]) \cap Lane(s[j]) = {}
  /\ \A p \in Place : (\A i \in 1 .. Len(s) : p \notin Lane(s[i])) => t[p] = Final(p)

LEMMA SameAsked ==
  ASSUME NEW t, NEW t2, NEW nd, \A p \in Lane(nd) : t2[p] = t[p], ExactFor(t, nd)
  PROVE  ExactFor(t2, nd)
<1>1. Asks(t2, nd, "left") = Asks(t, nd, "left") /\ Asks(t2, nd, "right") = Asks(t, nd, "right")
  BY DEF Asks
<1>2. QED BY <1>1 DEF ExactFor

LEMMA TailPending ==
  ASSUME NEW t, NEW t2, NEW s, Pending(t, s), s # << >>,
         \A p \in Lane(Head(s)) : t2[p] = Final(p),
         \A p \in Place : p \notin Lane(Head(s)) => t2[p] = t[p]
  PROVE  Pending(t2, Tail(s))
<1> DEFINE u == Tail(s)
<1>1. /\ s \in Seq(Node) /\ Len(s) \in Nat /\ Len(s) >= 1 /\ Head(s) = s[1]
      /\ u \in Seq(Node) /\ Len(u) = Len(s) - 1
      /\ \A i \in 1 .. Len(u) : i + 1 \in 1 .. Len(s) /\ u[i] = s[i + 1] /\ i + 1 # 1
  BY DEF Pending
<1> HIDE DEF u
<1>2. 1 \in 1 .. Len(s)
  BY <1>1
<1>3. ASSUME NEW i \in 1 .. Len(u)
      PROVE  IsNode(u[i]) /\ Goal(u[i]) /\ ExactFor(t2, u[i])
  <2>1. IsNode(u[i]) /\ Goal(u[i]) /\ ExactFor(t, u[i])
    BY <1>1 DEF Pending
  <2>2. Lane(u[i]) \cap Lane(Head(s)) = {}
    BY <1>1, <1>2 DEF Pending
  <2>3. \A p \in Lane(u[i]) : t2[p] = t[p]
    BY <2>1, <2>2 DEF IsNode
  <2>4. QED BY <2>1, <2>3, SameAsked
<1>4. ASSUME NEW i \in 1 .. Len(u), NEW j \in 1 .. Len(u), i # j
      PROVE  Lane(u[i]) \cap Lane(u[j]) = {}
  <2>1. i + 1 # j + 1
    BY <1>4
  <2>2. QED BY <1>1, <2>1 DEF Pending
<1>5. ASSUME NEW p \in Place, \A i \in 1 .. Len(u) : p \notin Lane(u[i])
      PROVE  t2[p] = Final(p)
  <2>1. CASE p \in Lane(Head(s))
    BY <2>1
  <2>2. CASE p \notin Lane(Head(s))
    <3>1. ASSUME NEW i \in 1 .. Len(s) PROVE p \notin Lane(s[i])
      <4>1. CASE i = 1
        BY <1>1, <2>2, <4>1
      <4>2. CASE i # 1
        <5>1. i - 1 \in 1 .. Len(u) /\ (i - 1) + 1 = i
          BY <1>1, <4>2
        <5>2. u[i - 1] = s[i]
          BY <1>1, <5>1
        <5>3. QED BY <1>5, <5>1, <5>2
      <4>3. QED BY <4>1, <4>2
    <3>2. t[p] = Final(p)
      BY <3>1 DEF Pending
    <3>3. QED BY <2>2, <3>2
  <2>3. QED BY <2>1, <2>2
<1>6. Pending(t2, u)
  BY <1>1, <1>3, <1>4, <1>5 DEF Pending
<1>7. QED BY <1>6 DEF u

LEMMA ForkPending ==
  ASSUME NEW t, NEW t2, NEW s, Pending(t, s), s # << >>, NEW c1 \in Node, NEW c2 \in Node,
         IsNode(c1), IsNode(c2), Goal(c1), Goal(c2), ExactFor(t2, c1), ExactFor(t2, c2),
         Lane(c1) \cup Lane(c2) = Lane(Head(s)), Lane(c1) \cap Lane(c2) = {},
         \A p \in Place : p \notin Lane(Head(s)) => t2[p] = t[p]
  PROVE  Pending(t2, <<c1, c2>> \o Tail(s))
<1> DEFINE u == Tail(s)
           v == <<c1, c2>> \o u
<1>1. /\ s \in Seq(Node) /\ Len(s) \in Nat /\ Len(s) >= 1 /\ Head(s) = s[1]
      /\ u \in Seq(Node) /\ Len(u) = Len(s) - 1
      /\ \A i \in 1 .. Len(u) : u[i] = s[i + 1]
  BY DEF Pending
<1>2. /\ v \in Seq(Node) /\ Len(v) = Len(s) + 1 /\ v[1] = c1 /\ v[2] = c2
      /\ \A i \in 3 .. Len(v) : v[i] = s[i - 1] /\ i - 1 \in 2 .. Len(s)
  <2> HIDE DEF u
  <2>1. <<c1, c2>> \in Seq(Node) /\ Len(<<c1, c2>>) = 2
    OBVIOUS
  <2>2. v \in Seq(Node) /\ Len(v) = 2 + Len(u)
    BY <1>1, <2>1
  <2>3. v[1] = c1 /\ v[2] = c2
    BY <1>1, <2>1
  <2>4. ASSUME NEW i \in 3 .. Len(v) PROVE v[i] = s[i - 1] /\ i - 1 \in 2 .. Len(s)
    <3>1. v[i] = u[i - 2] /\ i - 2 \in 1 .. Len(u)
      BY <1>1, <2>1, <2>2
    <3>2. u[i - 2] = s[(i - 2) + 1] /\ (i - 2) + 1 = i - 1
      BY <1>1, <3>1
    <3>3. QED BY <1>1, <2>2, <3>1, <3>2
  <2>5. QED BY <1>1, <2>2, <2>3, <2>4
<1> HIDE DEF u, v
<1>3. /\ 1 \in 1 .. Len(s) /\ 1 \in 1 .. Len(v) /\ 2 \in 1 .. Len(v)
      /\ \A i \in 1 .. Len(v) : i = 1 \/ i = 2 \/ i \in 3 .. Len(v)
      /\ \A i \in 2 .. Len(s) : i \in 1 .. Len(s) /\ i # 1
  BY <1>1, <1>2
<1>4. ASSUME NEW i \in 3 .. Len(v)
      PROVE  /\ IsNode(v[i]) /\ Goal(v[i]) /\ ExactFor(t2, v[i])
             /\ Lane(v[i]) \cap Lane(Head(s)) = {}
  <2>1. IsNode(v[i]) /\ Goal(v[i]) /\ ExactFor(t, v[i])
    BY <1>2, <1>3 DEF Pending
  <2>2. Lane(v[i]) \cap Lane(Head(s)) = {}
    <3>1. i - 1 \in 1 .. Len(s) /\ 1 \in 1 .. Len(s) /\ i - 1 # 1 /\ v[i] = s[i - 1] /\ Head(s) = s[1]
      BY <1>1, <1>2, <1>3
    <3>2. \A a, b \in 1 .. Len(s) : a # b => Lane(s[a]) \cap Lane(s[b]) = {}
      BY DEF Pending
    <3>3. Lane(s[i - 1]) \cap Lane(s[1]) = {}
      BY <3>1, <3>2
    <3>4. QED BY <3>1, <3>3
  <2>3. \A p \in Lane(v[i]) : t2[p] = t[p]
    BY <2>1, <2>2 DEF IsNode
  <2>4. QED BY <2>1, <2>2, <2>3, SameAsked
<1>5. ASSUME NEW i \in 1 .. Len(v) PROVE IsNode(v[i]) /\ Goal(v[i]) /\ ExactFor(t2, v[i])
  BY <1>2, <1>3, <1>4
<1>6. ASSUME NEW i \in 3 .. Len(v), NEW j \in 3 .. Len(v), i # j
      PROVE  Lane(v[i]) \cap Lane(v[j]) = {}
  <2>1. /\ i - 1 \in 1 .. Len(s) /\ j - 1 \in 1 .. Len(s) /\ i - 1 # j - 1
        /\ v[i] = s[i - 1] /\ v[j] = s[j - 1]
    BY <1>2, <1>3, <1>6
  <2>2. \A a, b \in 1 .. Len(s) : a # b => Lane(s[a]) \cap Lane(s[b]) = {}
    BY DEF Pending
  <2>3. Lane(s[i - 1]) \cap Lane(s[j - 1]) = {}
    BY <2>1, <2>2
  <2>4. QED BY <2>1, <2>3
<1>7. ASSUME NEW i \in 1 .. Len(v), NEW j \in 1 .. Len(v), i # j
      PROVE  Lane(v[i]) \cap Lane(v[j]) = {}
  <2>1. Lane(c1) \subseteq Lane(Head(s)) /\ Lane(c2) \subseteq Lane(Head(s))
    OBVIOUS
  <2>2. CASE i \in 3 .. Len(v) /\ j \in 3 .. Len(v)
    BY <1>6, <1>7, <2>2
  <2>3. CASE i \in 3 .. Len(v) /\ j \in {1, 2}
    BY <1>2, <1>4, <2>1, <2>3
  <2>4. CASE j \in 3 .. Len(v) /\ i \in {1, 2}
    BY <1>2, <1>4, <2>1, <2>4
  <2>5. CASE i \in {1, 2} /\ j \in {1, 2}
    BY <1>2, <1>7, <2>5
  <2>6. QED BY <1>3, <2>2, <2>3, <2>4, <2>5
<1>8. ASSUME NEW p \in Place, \A i \in 1 .. Len(v) : p \notin Lane(v[i])
      PROVE  t2[p] = Final(p)
  <2>1. p \notin Lane(Head(s))
    BY <1>2, <1>3, <1>8
  <2>2. ASSUME NEW i \in 1 .. Len(s) PROVE p \notin Lane(s[i])
    <3>1. CASE i = 1
      BY <1>1, <2>1, <3>1
    <3>2. CASE i # 1
      <4>1. i + 1 \in 3 .. Len(v) /\ (i + 1) - 1 = i /\ i + 1 \in 1 .. Len(v)
        BY <1>1, <1>2, <3>2
      <4>2. v[i + 1] = s[i]
        BY <1>2, <4>1
      <4>3. QED BY <1>8, <4>1, <4>2
    <3>3. QED BY <3>1, <3>2
  <2>3. t[p] = Final(p)
    BY <2>2 DEF Pending
  <2>4. QED BY <2>1, <2>3
<1>9. Pending(t2, v)
  BY <1>2, <1>5, <1>7, <1>8 DEF Pending
<1>10. QED BY <1>9 DEF u, v

-----------------------------------------------------------------------------
(* One node.                                                                *)

\* A node's gates lie in its lane.
LEMMA OutsideAlone ==
  ASSUME NEW nd, IsNode(nd), NEW p, p \notin Lane(nd)
  PROVE  Alone(nd, p)
<1>1. nd \in Node /\ nd.n \in Nat
  BY DEF IsNode, Node
<1>2. \A g \in Gates(nd) : 2 * g \in 0 .. nd.n - 1 /\ 2 * g + 1 \in 0 .. nd.n - 1
  BY <1>1 DEF Gates
<1>3. QED BY <1>1, <1>2, Places DEF Alone

LEMMA WriteIs ==
  ASSUME Write, NEW nd, nd = Head(stack), ~ Trivial(nd)
  PROVE  /\ tags' = NewTags(nd)
         /\ rows' = Carried(nd, rows, NewControl(nd))
         /\ controls' = controls \o [i \in 1 .. nd.n \div 2 |-> Out(nd, i - 1).control]
         /\ stack' = Rest
<1>1. /\ tags' = [p \in Place |->
                    IF ~ Gated(nd, p) THEN tags[p]
                    ELSE IF p = First(nd, GateOf(nd, p))
                         THEN Output(nd, Quotas(nd, Counts(nd)), Within, GateOf(nd, p)).top
                         ELSE Output(nd, Quotas(nd, Counts(nd)), Within, GateOf(nd, p)).bottom]
      /\ rows' = [p \in Place |->
                    IF ~ Gated(nd, p) THEN rows[p]
                    ELSE Gate(rows, First(nd, GateOf(nd, p)), Second(nd, GateOf(nd, p)),
                              Output(nd, Quotas(nd, Counts(nd)), Within, GateOf(nd, p)).control)[p]]
      /\ controls' = controls \o
           [i \in 1 .. nd.n \div 2 |-> Output(nd, Quotas(nd, Counts(nd)), Within, i - 1).control]
      /\ stack' = Rest
  BY DEF Write, Retagged, Through
<1>2. \A g : Output(nd, Quotas(nd, Counts(nd)), Within, g) = Out(nd, g)
  BY OutputIs
<1>3. tags' = NewTags(nd)
  BY <1>1, <1>2 DEF NewTags
<1>4. \A p : Gated(nd, p) => NewControl(nd)[GateOf(nd, p)] = Out(nd, GateOf(nd, p)).control
  BY DEF NewControl, Gated
<1>5. rows' = Carried(nd, rows, NewControl(nd))
  BY <1>1, <1>2, <1>4 DEF Carried
<1>6. QED BY <1>1, <1>2, <1>3, <1>5

LEMMA WritePending ==
  ASSUME n \in Nat \ {0}, tags \in [Place -> Tag], rows \in [Place -> Place],
         Pending(tags, stack), Resp(rows, tags), Write
  PROVE  /\ tags' \in [Place -> Tag] /\ rows' \in [Place -> Place]
         /\ Pending(tags', stack') /\ Resp(rows', tags')
<1> DEFINE nd == Head(stack)
<1>1. /\ stack # << >> /\ IsNode(nd) /\ Goal(nd) /\ Exact(nd)
  <2>1. stack # << >> /\ stack \in Seq(Node)
    BY DEF Write, Pending
  <2>2. 1 \in 1 .. Len(stack) /\ nd = stack[1]
    BY <2>1
  <2>3. IsNode(nd) /\ Goal(nd) /\ ExactFor(tags, nd)
    BY <2>2 DEF Pending
  <2>4. QED BY <2>1, <2>3 DEF ExactFor, Exact, Asks, Wants
<1>2. CASE Trivial(nd)
  <2>1. stack' = Tail(stack) /\ tags' = tags /\ rows' = rows
    BY <1>2 DEF Write
  <2>2. \A p \in Lane(nd) : tags[p] = Final(p)
    BY <1>1, <1>2, TrivialSettled
  <2>3. Pending(tags, Tail(stack))
    BY <1>1, <2>2, TailPending
  <2>4. QED BY <2>1, <2>3
<1>3. CASE ~ Trivial(nd)
  <2> DEFINE t2 == NewTags(nd)
             r2 == Carried(nd, rows, NewControl(nd))
  <2>1. tags' = t2 /\ rows' = r2 /\ stack' = Rest
    BY <1>3, WriteIs
  <2>2. t2 \in [Place -> Tag] /\ r2 \in [Place -> Place] /\ Resp(r2, t2)
    BY <1>1, <1>3, NewTagsAre, CarriedIs, LayerKeeps
  <2>3. \A p \in Place : p \notin Lane(nd) => t2[p] = tags[p]
    BY <1>1, <1>3, NewTagsAre, OutsideAlone
  <2>4. CASE nd.n = 2
    <3>1. \A p \in Lane(nd) : t2[p] = Final(p)
      BY <1>1, <1>3, <2>4, PairSettled
    <3>2. Pending(t2, Tail(stack))
      <4> HIDE DEF t2
      <4>1. QED BY <1>1, <2>3, <3>1, TailPending
    <3>3. stack' = Tail(stack)
      BY <2>1, <2>4 DEF Rest
    <3>4. QED BY <2>1, <2>2, <3>2, <3>3
  <2>5. CASE nd.n # 2
    <3> DEFINE c1 == TopChild(nd)
               c2 == BottomChild(nd)
    <3>1. /\ IsNode(c1) /\ IsNode(c2) /\ c1 \in Node /\ c2 \in Node
          /\ Lane(c1) \cup Lane(c2) = Lane(nd) /\ Lane(c1) \cap Lane(c2) = {}
      BY <1>1, <1>3, ChildPlaces DEF IsNode
    <3>2. Goal(c1) /\ Goal(c2)
      BY <1>1, <1>3, HalvesGoals
    <3>3. ExactFor(t2, c1) /\ ExactFor(t2, c2)
      BY <1>1, <1>3, <2>5, HalvesExact
    <3>4. stack' = <<c1, c2>> \o Tail(stack)
      BY <2>1, <2>5, ChildrenAre DEF Rest
    <3> HIDE DEF t2, c1, c2
    <3>5. Pending(t2, <<c1, c2>> \o Tail(stack))
      BY <1>1, <2>3, <3>1, <3>2, <3>3, ForkPending
    <3>6. QED BY <2>1, <2>2, <3>4, <3>5
  <2>6. QED BY <2>4, <2>5
<1>4. QED BY <1>2, <1>3

-----------------------------------------------------------------------------
(* The controls still to be written.                                        *)

CountOf(nd) == ControlCount[nd.n][nd.left]

\* w sums up the controls of the nodes on a stack, from the last one on.
Weighs(w, s) ==
  /\ w[0] = 0
  /\ \A i \in 0 .. Len(s) : w[i] \in Nat
  /\ \A i \in 0 .. Len(s) - 1 : w[i + 1] = w[i] + CountOf(s[Len(s) - i])

ToWrite(s, c) == \E w : Weighs(w, s) /\ w[Len(s)] = c

LEMMA WriteNone == ToWrite(<< >>, 0)
<1> DEFINE w == [i \in {0} |-> 0]
<1>1. w[0] = 0 /\ Len(<< >>) = 0
  OBVIOUS
<1>2. Weighs(w, << >>)
  BY <1>1 DEF Weighs
<1>3. QED BY <1>1, <1>2 DEF ToWrite

LEMMA WriteTail ==
  ASSUME NEW s \in Seq(Node), s # << >>, NEW c, ToWrite(s, c), CountOf(Head(s)) \in Nat
  PROVE  /\ c \in Nat /\ c - CountOf(Head(s)) \in Nat
         /\ ToWrite(Tail(s), c - CountOf(Head(s)))
<1> DEFINE u == Tail(s)
           k == Len(s)
<1>1. /\ k \in Nat /\ k >= 1 /\ Head(s) = s[1] /\ Len(u) = k - 1
      /\ \A i \in 1 .. k - 1 : u[i] = s[i + 1]
  OBVIOUS
<1>2. PICK w : Weighs(w, s) /\ w[k] = c
  BY DEF ToWrite
<1> HIDE DEF u, k
<1>3. /\ w[0] = 0 /\ \A i \in 0 .. k : w[i] \in Nat
      /\ \A i \in 0 .. k - 1 : w[i + 1] = w[i] + CountOf(s[k - i])
  BY <1>2 DEF Weighs, k
<1>4. c = w[k - 1] + CountOf(Head(s)) /\ c \in Nat /\ w[k - 1] \in Nat
  <2>1. k - 1 \in 0 .. k - 1 /\ k - 1 \in 0 .. k /\ k \in 0 .. k /\ (k - 1) + 1 = k /\ k - (k - 1) = 1
    BY <1>1
  <2>2. QED BY <1>1, <1>2, <1>3, <2>1
<1>5. Weighs(w, u)
  <2>1. ASSUME NEW i \in 0 .. (k - 1) - 1 PROVE w[i + 1] = w[i] + CountOf(u[(k - 1) - i])
    <3>1. i \in 0 .. k - 1 /\ (k - 1) - i \in 1 .. k - 1 /\ ((k - 1) - i) + 1 = k - i
      BY <1>1
    <3>2. u[(k - 1) - i] = s[k - i]
      BY <1>1, <3>1
    <3>3. QED BY <1>3, <3>1, <3>2
  <2>2. \A i \in 0 .. k - 1 : w[i] \in Nat
    BY <1>1, <1>3
  <2>3. QED BY <1>1, <1>3, <2>1, <2>2 DEF Weighs
<1>6. c - CountOf(Head(s)) = w[k - 1]
  BY <1>4
<1>7. QED BY <1>1, <1>4, <1>5, <1>6 DEF ToWrite, u

LEMMA WriteMore ==
  ASSUME NEW s \in Seq(Node), NEW c \in Nat, ToWrite(s, c), NEW c1 \in Node, NEW c2 \in Node,
         CountOf(c1) \in Nat, CountOf(c2) \in Nat
  PROVE  ToWrite(<<c1, c2>> \o s, c + CountOf(c1) + CountOf(c2))
<1> DEFINE v == <<c1, c2>> \o s
           k == Len(s)
<1>1. /\ k \in Nat /\ Len(v) = k + 2 /\ v[1] = c1 /\ v[2] = c2
      /\ \A i \in 3 .. k + 2 : v[i] = s[i - 2]
  <2>1. <<c1, c2>> \in Seq(Node) /\ Len(<<c1, c2>>) = 2
    OBVIOUS
  <2>2. k \in Nat /\ Len(v) = k + 2
    BY <2>1
  <2>3. v[1] = c1 /\ v[2] = c2
    BY <2>1
  <2>4. \A i \in 3 .. k + 2 : v[i] = s[i - 2]
    BY <2>1
  <2>5. QED BY <2>2, <2>3, <2>4
<1>2. PICK w : Weighs(w, s) /\ w[k] = c
  BY DEF ToWrite
<1> DEFINE x == [i \in 0 .. k + 2 |-> IF i = k + 2 THEN c + CountOf(c1) + CountOf(c2)
                                     ELSE IF i = k + 1 THEN c + CountOf(c2) ELSE w[i]]
<1>3. x[k + 2] = c + CountOf(c1) + CountOf(c2) /\ x[k + 1] = c + CountOf(c2)
      /\ \A i \in 0 .. k : x[i] = w[i]
  BY <1>1
<1> HIDE DEF v, k, x
<1>4. /\ w[0] = 0 /\ \A i \in 0 .. k : w[i] \in Nat
      /\ \A i \in 0 .. k - 1 : w[i + 1] = w[i] + CountOf(s[k - i])
  BY <1>2 DEF Weighs, k
<1>5. \A i \in 0 .. k + 2 : x[i] \in Nat
  <2>1. x[k + 2] \in Nat /\ x[k + 1] \in Nat
    BY <1>3
  <2>2. \A i \in 0 .. k + 2 : i = k + 2 \/ i = k + 1 \/ i \in 0 .. k
    BY <1>1
  <2>3. QED BY <1>3, <1>4, <2>1, <2>2
<1>6. ASSUME NEW i \in 0 .. (k + 2) - 1 PROVE x[i + 1] = x[i] + CountOf(v[(k + 2) - i])
  <2>1. CASE i = k + 1
    <3>1. i + 1 = k + 2 /\ (k + 2) - i = 1
      BY <1>1, <2>1
    <3>2. x[k + 2] = x[k + 1] + CountOf(v[1])
      <4>1. v[1] = c1
        BY <1>1
      <4> DEFINE a == CountOf(c1)
                 b == CountOf(c2)
      <4>2. x[k + 2] = c + a + b /\ x[k + 1] = c + b /\ a \in Nat /\ b \in Nat
        BY <1>3
      <4> HIDE DEF a, b
      <4>3. x[k + 2] = x[k + 1] + a
        BY <4>2
      <4>4. QED BY <4>1, <4>3 DEF a
    <3>3. QED BY <2>1, <3>1, <3>2
  <2>2. CASE i = k
    <3>1. i + 1 = k + 1 /\ (k + 2) - i = 2 /\ i \in 0 .. k
      BY <1>1, <2>2
    <3>2. QED BY <1>1, <1>2, <1>3, <2>2, <3>1 DEF k
  <2>3. CASE i \in 0 .. k - 1
    <3>1. i + 1 \in 0 .. k /\ i \in 0 .. k /\ (k + 2) - i \in 3 .. k + 2 /\ ((k + 2) - i) - 2 = k - i
      BY <1>1, <2>3
    <3>2. v[(k + 2) - i] = s[k - i]
      BY <1>1, <3>1
    <3>3. QED BY <1>3, <1>4, <2>3, <3>1, <3>2
  <2>4. QED BY <1>1, <2>1, <2>2, <2>3
<1>7. Weighs(x, v)
  <2>1. x[0] = 0
    BY <1>1, <1>3, <1>4
  <2>2. QED BY <1>1, <1>5, <1>6, <2>1 DEF Weighs
<1>8. QED BY <1>1, <1>3, <1>7 DEF ToWrite, v

LEMMA NodeCounts ==
  ASSUME NEW nd, IsNode(nd)
  PROVE  /\ CountOf(nd) \in Nat
         /\ Trivial(nd) => CountOf(nd) = 0
         /\ ~ Trivial(nd) /\ nd.n = 2 => CountOf(nd) = 1 /\ nd.n \div 2 = 1
         /\ ~ Trivial(nd) /\ nd.n # 2 =>
              CountOf(nd) = nd.n \div 2 + CountOf(TopChild(nd)) + CountOf(BottomChild(nd))
<1>1. nd.n \in Nat /\ nd.left \in Nat /\ nd.left \in 0 .. nd.n
  BY GatePlaces
<1>2. CountOf(nd) = IF nd.left = 0 \/ nd.left = nd.n THEN 0 ELSE IF nd.n = 2 THEN 1
        ELSE nd.n \div 2 + ControlCount[Ceil(nd.n)][Ceil(nd.left)]
               + ControlCount[nd.n \div 2][nd.left - Ceil(nd.left)]
  BY <1>1, ControlCountIs DEF CountOf
<1>3. /\ CountOf(TopChild(nd)) = ControlCount[Ceil(nd.n)][Ceil(nd.left)]
      /\ CountOf(BottomChild(nd)) = ControlCount[nd.n \div 2][nd.left - Ceil(nd.left)]
  BY DEF CountOf, TopChild, BottomChild
<1>4. CountOf(nd) \in Nat
  BY <1>1, ControlCountType DEF CountOf
<1>5. QED BY <1>1, <1>2, <1>3, <1>4 DEF Trivial

-----------------------------------------------------------------------------
(* The replay.                                                              *)

\* A lane after the gates of a node, whose controls follow position k of tape cs.
Replayed(nd, f, cs, k) ==
  [p \in Place |->
     IF ~ Gated(nd, p) THEN f[p]
     ELSE Gate(f, First(nd, GateOf(nd, p)), Second(nd, GateOf(nd, p)), cs[k + GateOf(nd, p) + 1])[p]]

\* The stack after its first node.
After(s) == IF Head(s).n = 2 THEN Tail(s) ELSE Children(Head(s)) \o Tail(s)

\* Tape cs takes x, a stack, a position and a lane, to y, in one node.
StepOf(cs, x, y) ==
  LET nd == Head(x.stack)
  IN /\ x.stack # << >> /\ x.position \in Nat
     /\ IF Trivial(nd)
        THEN y.stack = Tail(x.stack) /\ y.position = x.position /\ y.lane = x.lane
        ELSE /\ nd.n \in Nat
             /\ y.stack = After(x.stack)
             /\ y.position = x.position + nd.n \div 2 /\ y.position <= Len(cs)
             /\ y.lane = Replayed(nd, x.lane, cs, x.position)

\* The k moments of h are a run of tape cs over the whole lane.
Played(cs, h, k) ==
  /\ h[0].stack = <<Root>> /\ h[0].position = 0 /\ h[0].lane = [p \in Place |-> p]
  /\ \A j \in 0 .. k - 1 : StepOf(cs, h[j], h[j + 1])

IsAt(x, s, k, f) == x.stack = s /\ x.position = k /\ x.lane = f

\* Playing what there is of a tape leads to stack s and lane f.
Leads(cs, s, f) ==
  \E k \in Nat : \E h : Played(cs, h, k) /\ IsAt(h[k], s, Len(cs), f)

\* Playing the whole tape does, and comes by stack t, position i and lane g.
ComesBy(cs, s, f, t, i, g) ==
  \E k \in Nat : \E h : /\ Played(cs, h, k) /\ IsAt(h[k], s, Len(cs), f)
                        /\ \E j \in 0 .. k : IsAt(h[j], t, i, g)

LEMMA StepExtends ==
  ASSUME NEW X, NEW cs \in Seq(X), NEW e \in Seq(X), NEW x, NEW y, StepOf(cs, x, y)
  PROVE  StepOf(cs \o e, x, y)
<1> DEFINE nd == Head(x.stack)
           k == x.position
           ds == cs \o e
<1>1. /\ Len(cs) \in Nat /\ Len(e) \in Nat /\ Len(ds) = Len(cs) + Len(e)
      /\ \A i \in 1 .. Len(cs) : ds[i] = cs[i]
  OBVIOUS
<1>2. k \in Nat /\ x.stack # << >>
  BY DEF StepOf
<1>3. CASE Trivial(nd)
  BY <1>3 DEF StepOf
<1>4. CASE ~ Trivial(nd)
  <2>1. /\ nd.n \in Nat /\ y.stack = After(x.stack) /\ y.position = k + nd.n \div 2
        /\ y.position <= Len(cs) /\ y.lane = Replayed(nd, x.lane, cs, k)
    BY <1>4 DEF StepOf
  <2>2. ASSUME NEW p \in Place, Gated(nd, p)
        PROVE  ds[k + GateOf(nd, p) + 1] = cs[k + GateOf(nd, p) + 1]
    <3> DEFINE g == GateOf(nd, p)
    <3>1. g \in 0 .. nd.n \div 2 - 1
      BY <2>2 DEF Gated, Gates
    <3> HIDE DEF g, ds, k, nd
    <3>2. k + g + 1 \in 1 .. Len(cs)
      BY <1>1, <1>2, <2>1, <3>1
    <3>3. QED BY <1>1, <3>2 DEF g
  <2> HIDE DEF ds, nd, k
  <2>3. Replayed(nd, x.lane, ds, k) = Replayed(nd, x.lane, cs, k)
    BY <2>2 DEF Replayed
  <2>4. y.position <= Len(ds)
    BY <1>1, <1>2, <2>1
  <2>5. QED BY <1>2, <1>4, <2>1, <2>3, <2>4 DEF StepOf, ds, nd, k
<1>5. QED BY <1>3, <1>4

\* A tape that is continued plays as before, and a node further.
LEMMA PlayOn ==
  ASSUME NEW X, NEW cs \in Seq(X), NEW e \in Seq(X), NEW s, NEW f, Leads(cs, s, f), NEW y,
         \A x : IsAt(x, s, Len(cs), f) => StepOf(cs \o e, x, y),
         y.position = Len(cs \o e)
  PROVE  Leads(cs \o e, y.stack, y.lane)
<1> DEFINE ds == cs \o e
<1>0. PICK k \in Nat : \E h : Played(cs, h, k) /\ IsAt(h[k], s, Len(cs), f)
  BY DEF Leads
<1>1. PICK h : Played(cs, h, k) /\ IsAt(h[k], s, Len(cs), f)
  BY <1>0
<1> DEFINE h2 == [j \in 0 .. k + 1 |-> IF j = k + 1 THEN y ELSE h[j]]
<1>2. h2[k + 1] = y /\ \A j \in 0 .. k : h2[j] = h[j]
  OBVIOUS
<1> HIDE DEF h2
<1>3. ASSUME NEW j \in 0 .. (k + 1) - 1 PROVE StepOf(ds, h2[j], h2[j + 1])
  <2>1. CASE j = k
    BY <1>1, <1>2, <2>1
  <2>2. CASE j # k
    <3>1. j \in 0 .. k - 1 /\ j \in 0 .. k /\ j + 1 \in 0 .. k
      BY <2>2
    <3>2. StepOf(cs, h[j], h[j + 1])
      BY <1>1, <3>1 DEF Played
    <3>3. StepOf(ds, h[j], h[j + 1])
      BY <3>2, StepExtends
    <3>4. QED BY <1>2, <3>1, <3>3
  <2>3. QED BY <2>1, <2>2
<1>4. h2[0] = h[0]
  BY <1>2
<1>5. Played(ds, h2, k + 1)
  BY <1>1, <1>3, <1>4 DEF Played
<1>6. IsAt(h2[k + 1], y.stack, Len(ds), y.lane)
  BY <1>2 DEF IsAt
<1>7. k + 1 \in Nat
  OBVIOUS
<1>8. QED BY <1>5, <1>6, <1>7 DEF Leads

\* The replay comes by the next moment of the run.
LEMMA ComesOn ==
  ASSUME NEW cs, NEW s, NEW f, NEW t, NEW i, NEW g, ComesBy(cs, s, f, t, i, g), s = << >>,
         t # << >>
  PROVE  \E x, y : /\ IsAt(x, t, i, g) /\ StepOf(cs, x, y)
                   /\ ComesBy(cs, s, f, y.stack, y.position, y.lane)
<1>0. PICK k \in Nat : \E h : /\ Played(cs, h, k) /\ IsAt(h[k], s, Len(cs), f)
                              /\ \E j \in 0 .. k : IsAt(h[j], t, i, g)
  BY DEF ComesBy
<1>1. PICK h : /\ Played(cs, h, k) /\ IsAt(h[k], s, Len(cs), f)
               /\ \E j \in 0 .. k : IsAt(h[j], t, i, g)
  BY <1>0
<1>2. PICK j \in 0 .. k : IsAt(h[j], t, i, g)
  BY <1>1
<1>3. j # k
  BY <1>1, <1>2 DEF IsAt
<1>4. j \in 0 .. k - 1 /\ j + 1 \in 0 .. k
  BY <1>3
<1>5. StepOf(cs, h[j], h[j + 1])
  BY <1>1, <1>4 DEF Played
<1>6. IsAt(h[j + 1], h[j + 1].stack, h[j + 1].position, h[j + 1].lane)
  BY DEF IsAt
<1>7. ComesBy(cs, s, f, h[j + 1].stack, h[j + 1].position, h[j + 1].lane)
  BY <1>1, <1>4, <1>6 DEF ComesBy
<1>8. QED BY <1>2, <1>5, <1>7

\* Once it has nothing left to do it is at the end.
LEMMA ComesHome ==
  ASSUME NEW cs, NEW s, NEW f, NEW t, NEW i, NEW g, ComesBy(cs, s, f, t, i, g), t = << >>
  PROVE  i = Len(cs) /\ g = f
<1>0. PICK k \in Nat : \E h : /\ Played(cs, h, k) /\ IsAt(h[k], s, Len(cs), f)
                              /\ \E j \in 0 .. k : IsAt(h[j], t, i, g)
  BY DEF ComesBy
<1>1. PICK h : /\ Played(cs, h, k) /\ IsAt(h[k], s, Len(cs), f)
               /\ \E j \in 0 .. k : IsAt(h[j], t, i, g)
  BY <1>0
<1>2. PICK j \in 0 .. k : IsAt(h[j], t, i, g)
  BY <1>1
<1>3. CASE j \in 0 .. k - 1
  <2>1. StepOf(cs, h[j], h[j + 1])
    BY <1>1, <1>3 DEF Played
  <2>2. h[j].stack # << >>
    BY <2>1 DEF StepOf
  <2>3. QED BY <1>2, <2>2 DEF IsAt
<1>4. CASE j = k
  BY <1>1, <1>2, <1>4 DEF IsAt
<1>5. QED BY <1>3, <1>4

-----------------------------------------------------------------------------
(* The inductive invariant.                                                 *)

Start == [p \in Place |-> p]

\* The tape still lacks the controls of the nodes on the stack.
Lacks == \E c : ToWrite(stack, c) /\ Len(controls) + c = CountOf(Root)

ShapeInv ==
  /\ n \in Nat \ {0} /\ n_left \in 0 .. n
  /\ wanted \in [Place -> Tag] /\ tags \in [Place -> Tag]
  /\ rows \in [Place -> Place] /\ controls \in Seq(Control)
  /\ stage \in {"normalize", "write", "apply", "done"}

FirstInv ==
  /\ Cardinality(Wanting("left")) <= n_left
  /\ Cardinality(Wanting("right")) <= n - n_left
  /\ rows = Start /\ data = Start /\ controls = << >> /\ position = 0

WritingInv ==
  /\ Pending(tags, stack) /\ Lacks /\ Leads(controls, stack, rows)
  /\ data = Start /\ position = 0

NetInv ==
  /\ ShapeInv
  /\ stage = "normalize" => FirstInv
  /\ stage # "normalize" => Resp(rows, tags)
  /\ stage = "write" => WritingInv
  /\ stage \in {"apply", "done"} =>
       (\A p \in Place : tags[p] = Final(p)) /\ Len(controls) = CountOf(Root)
  /\ stage = "apply" => ComesBy(controls, << >>, rows, stack, position, data)
  /\ stage = "done" => position = Len(controls) /\ data = rows

\* What is said of the tags, the rows and the tape depends on the shape only.
LEMMA ShapeKept ==
  ASSUME UNCHANGED <<n, n_left, wanted>>
  PROVE  /\ Place' = Place /\ Root' = Root
         /\ Pending(tags', stack') => Pending(tags, stack)'
         /\ Resp(rows', tags') => Resp(rows, tags)'
         /\ Leads(controls', stack', rows') => Leads(controls, stack, rows)'
         /\ ComesBy(controls', << >>, rows', stack', position', data') =>
              ComesBy(controls, << >>, rows, stack, position, data)'
         /\ (\A p \in Place : tags'[p] = Final(p)) => (\A p \in Place : tags[p] = Final(p))'
<1>1. Place' = Place /\ Root' = Root
  BY DEF Place, Root
<1>2. Pending(tags', stack') => Pending(tags, stack)'
  BY <1>1 DEF Pending, IsNode, Goal, Final
<1>3. Resp(rows', tags') => Resp(rows, tags)'
  BY <1>1 DEF Resp, Single
<1>4. ASSUME NEW h, NEW k, Played(controls', h, k) PROVE Played(controls, h, k)'
  <2>1. \A x, y : StepOf(controls', x, y) => StepOf(controls, x, y)'
    BY <1>1 DEF StepOf, Replayed
  <2>2. QED BY <1>1, <1>4, <2>1 DEF Played
<1>5. Leads(controls', stack', rows') => Leads(controls, stack, rows)'
  BY <1>4 DEF Leads
<1>6. ComesBy(controls', << >>, rows', stack', position', data') =>
              ComesBy(controls, << >>, rows, stack, position, data)'
  BY <1>4 DEF ComesBy
<1>7. (\A p \in Place : tags'[p] = Final(p)) => (\A p \in Place : tags[p] = Final(p))'
  BY <1>1 DEF Final
<1>8. QED BY <1>1, <1>2, <1>3, <1>5, <1>6, <1>7

-----------------------------------------------------------------------------
(* Every step keeps it.                                                     *)

LEMMA ExactIs ==
  ASSUME NEW nd
  PROVE  ExactFor(tags, nd) <=> Exact(nd)
BY DEF ExactFor, Exact, Asks, Wants

LEMMA InitHolds ==
  ASSUME RoutingInit
  PROVE  NetInv
<1>1. n \in Nat \ {0} /\ n_left \in 0 .. n
  BY RoutedAssumption DEF RoutingInit
<1>2. ShapeInv
  <2>1. rows \in [Place -> Place]
    BY DEF RoutingInit
  <2>2. controls \in Seq(Control)
    BY DEF RoutingInit
  <2>3. QED BY <1>1, <2>1, <2>2 DEF RoutingInit, ShapeInv
<1>3. FirstInv
  BY DEF RoutingInit, FirstInv, Start, Wanting
<1>4. QED BY <1>2, <1>3 DEF NetInv, RoutingInit

\* At first there is the root to do.
LEMMA RootLacks ==
  ASSUME n \in Nat \ {0}, n_left \in 0 .. n
  PROVE  ToWrite(<<Root>>, CountOf(Root))
<1> DEFINE w == [i \in 0 .. 1 |-> IF i = 0 THEN 0 ELSE CountOf(Root)]
           s == <<Root>>
<1>1. CountOf(Root) \in Nat
  BY RootIs, NodeCounts
<1>2. w[0] = 0 /\ w[1] = CountOf(Root) /\ Len(s) = 1 /\ s[1] = Root
  OBVIOUS
<1> HIDE DEF w, s
<1>3. \A i \in 0 .. Len(s) : w[i] \in Nat
  <2>1. \A i \in 0 .. 1 : i = 0 \/ i = 1
    OBVIOUS
  <2>2. QED BY <1>1, <1>2, <2>1
<1>4. \A i \in 0 .. Len(s) - 1 : w[i + 1] = w[i] + CountOf(s[Len(s) - i])
  <2>1. \A i \in 0 .. Len(s) - 1 : i = 0
    BY <1>2
  <2>2. w[0 + 1] = w[0] + CountOf(s[1 - 0])
    BY <1>1, <1>2
  <2>3. QED BY <1>2, <2>1, <2>2
<1>5. Weighs(w, s)
  BY <1>2, <1>3, <1>4 DEF Weighs
<1>6. QED BY <1>2, <1>5 DEF ToWrite, s

LEMMA RootLeads ==
  ASSUME NEW cs
  PROVE  /\ Played(cs, [j \in {0} |-> [stack |-> <<Root>>, position |-> 0, lane |-> Start]], 0)
         /\ IsAt([j \in {0} |-> [stack |-> <<Root>>, position |-> 0, lane |-> Start]][0],
                 <<Root>>, 0, Start)
BY DEF Played, IsAt, Start

LEMMA WriteStage ==
  ASSUME UNCHANGED <<n, n_left, wanted>>, ShapeInv', stage' = "write",
         Pending(tags', stack'), Resp(rows', tags'), Leads(controls', stack', rows'),
         \E c : ToWrite(stack', c) /\ Len(controls') + c = CountOf(Root),
         data' = Start, position' = 0
  PROVE  NetInv'
<1>1. Lacks'
  BY DEF Lacks, ToWrite, Weighs, CountOf, Root
<1>2. Start' = Start
  BY DEF Start, Place
<1>3. Pending(tags, stack)' /\ Resp(rows, tags)' /\ Leads(controls, stack, rows)'
  BY ShapeKept
<1>4. WritingInv'
  BY <1>1, <1>2, <1>3 DEF WritingInv
<1>5. QED BY <1>3, <1>4 DEF NetInv

LEMMA NormalizeHolds ==
  ASSUME NetInv, Normalize
  PROVE  NetInv'
<1>1. /\ ShapeInv /\ FirstInv /\ stage = "normalize"
      /\ n \in Nat \ {0} /\ n_left \in 0 .. n /\ wanted \in [Place -> Tag]
      /\ rows = Start /\ data = Start /\ controls = << >> /\ position = 0
  BY DEF NetInv, Normalize, ShapeInv, FirstInv
<1>2. /\ UNCHANGED <<n, n_left, wanted>>
      /\ rows' = rows /\ controls' = controls /\ data' = data /\ position' = position
      /\ stack' = <<Root>> /\ stage' = "write"
  BY DEF Normalize
<1>3. tags' = Normal
  BY DEF Normalize, Normal, Wanting, FreeLeft, FreeRight, UnwantedRank
<1>4. /\ Normal \in [Place -> Tag] /\ ExactFor(Normal, Root)
      /\ \A p \in Place : wanted[p] \subseteq Normal[p]
  BY <1>1, NormalExact DEF FirstInv
<1>5. Root \in Node /\ IsNode(Root) /\ Goal(Root) /\ Lane(Root) = Place
  BY <1>1, RootIs
<1>6. Pending(tags', stack')
  <2> DEFINE s == <<Root>>
  <2>1. s \in Seq(Node) /\ Len(s) = 1 /\ s[1] = Root
    BY <1>5
  <2> HIDE DEF s
  <2>2. \A i \in 1 .. Len(s) : i = 1
    BY <2>1
  <2>3. Pending(Normal, s)
    BY <1>4, <1>5, <2>1, <2>2 DEF Pending
  <2>4. QED BY <1>2, <1>3, <2>3 DEF s
<1>7. Resp(rows', tags')
  <2>1. ASSUME NEW i \in Place, NEW side \in Side, side \in wanted[i]
        PROVE  Single(Start, Normal, i, side)
    BY <1>4, <2>1 DEF Single, Holds, Start
  <2>2. QED BY <1>1, <1>2, <1>3, <2>1 DEF Resp
<1>8. Leads(controls', stack', rows')
  <2>1. Len(controls) = 0
    BY <1>1
  <2>2. 0 \in Nat
    OBVIOUS
  <2>3. Leads(controls, <<Root>>, Start)
    BY <2>1, <2>2, RootLeads DEF Leads
  <2>4. QED BY <1>1, <1>2, <2>3
<1>9. ToWrite(stack', CountOf(Root)) /\ Len(controls') + CountOf(Root) = CountOf(Root)
  <2>1. CountOf(Root) \in Nat /\ ToWrite(<<Root>>, CountOf(Root))
    BY <1>1, <1>5, RootLacks, NodeCounts
  <2>2. Len(controls') = 0
    BY <1>1, <1>2
  <2>3. QED BY <1>2, <2>1, <2>2
<1>10. ShapeInv'
  <2>1. Place' = Place
    BY <1>2 DEF Place
  <2>2. QED BY <1>1, <1>2, <1>3, <1>4, <2>1 DEF ShapeInv
<1>11. Start = data' /\ position' = 0
  BY <1>1, <1>2
<1>12. QED BY <1>2, <1>6, <1>7, <1>8, <1>9, <1>10, <1>11, WriteStage

LEMMA Appended ==
  ASSUME NEW X, NEW a \in Seq(X), NEW b \in Seq(X)
  PROVE  /\ a \o b \in Seq(X) /\ Len(a) \in Nat /\ Len(b) \in Nat
         /\ Len(a \o b) = Len(a) + Len(b)
         /\ \A j \in 1 .. Len(b) : (a \o b)[Len(a) + j] = b[j]
<1>1. a \o b \in Seq(X) /\ Len(a) \in Nat /\ Len(b) \in Nat /\ Len(a \o b) = Len(a) + Len(b)
  OBVIOUS
<1>2. ASSUME NEW j \in 1 .. Len(b) PROVE (a \o b)[Len(a) + j] = b[j]
  <2>1. Len(a) + j \in 1 .. Len(a) + Len(b) /\ Len(a) + j > Len(a) /\ (Len(a) + j) - Len(a) = j
    BY <1>1
  <2>2. QED BY <1>1, <2>1
<1>3. QED BY <1>1, <1>2

LEMMA WriteTape ==
  ASSUME NetInv, Write
  PROVE  /\ controls' \in Seq(Control)
         /\ Leads(controls', stack', rows')
         /\ \E c : ToWrite(stack', c) /\ Len(controls') + c = CountOf(Root)
<1> DEFINE nd == Head(stack)
<1>1. /\ ShapeInv /\ WritingInv /\ stage = "write" /\ stack # << >>
      /\ n \in Nat \ {0} /\ n_left \in 0 .. n /\ tags \in [Place -> Tag]
      /\ rows \in [Place -> Place] /\ controls \in Seq(Control)
      /\ Pending(tags, stack) /\ Lacks /\ Leads(controls, stack, rows)
  BY DEF NetInv, Write, ShapeInv, WritingInv
<1>2. stack \in Seq(Node) /\ Tail(stack) \in Seq(Node)
  BY <1>1 DEF Pending
<1>3. IsNode(nd) /\ Exact(nd)
  <2>1. nd = stack[1] /\ 1 \in 1 .. Len(stack)
    BY <1>1, <1>2
  <2>2. IsNode(nd) /\ ExactFor(tags, nd)
    BY <1>1, <2>1 DEF Pending
  <2>3. QED BY <2>2, ExactIs
<1>4. PICK c : ToWrite(stack, c) /\ Len(controls) + c = CountOf(Root)
  BY <1>1 DEF Lacks
<1>5. /\ c \in Nat /\ c - CountOf(nd) \in Nat /\ CountOf(nd) \in Nat
      /\ ToWrite(Tail(stack), c - CountOf(nd))
  <2>1. CountOf(nd) \in Nat
    BY <1>3, NodeCounts
  <2>2. QED BY <1>1, <1>2, <1>4, <2>1, WriteTail
<1> DEFINE e == [i \in 1 .. nd.n \div 2 |-> Out(nd, i - 1).control]
<1>6. CASE Trivial(nd)
  <2>1. UNCHANGED <<tags, rows, controls>> /\ stack' = Tail(stack)
    BY <1>6 DEF Write
  <2>2. CountOf(nd) = 0
    BY <1>3, <1>6, NodeCounts
  <2>3. ToWrite(stack', c)
    BY <1>5, <2>1, <2>2
  <2> DEFINE y == [stack |-> stack', position |-> Len(controls), lane |-> rows]
             none == << >>
  <2>4. none \in Seq(Control) /\ controls \o none = controls
    BY <1>1
  <2>5. ASSUME NEW x, IsAt(x, stack, Len(controls), rows) PROVE StepOf(controls \o none, x, y)
    <3>1. Len(controls) \in Nat
      BY <1>1
    <3>2. QED BY <1>1, <1>6, <2>1, <2>5, <3>1 DEF IsAt, StepOf
  <2>6. y.position = Len(controls \o none)
    BY <2>4
  <2>7. y.stack = stack' /\ y.lane = rows
    OBVIOUS
  <2> HIDE DEF y, none
  <2>8. Leads(controls \o none, y.stack, y.lane)
    BY <1>1, <2>4, <2>5, <2>6, PlayOn
  <2>9. QED BY <1>1, <1>4, <2>1, <2>3, <2>4, <2>7, <2>8
<1>7. CASE ~ Trivial(nd)
  <2>1. /\ rows' = Carried(nd, rows, NewControl(nd)) /\ controls' = controls \o e /\ stack' = Rest
    BY <1>7, WriteIs
  <2>2. nd.n \in Nat /\ nd.n \div 2 \in Nat /\ Gates(nd) = 0 .. nd.n \div 2 - 1
    BY <1>3, GatePlaces DEF Gates
  <2>3. \A i \in 1 .. nd.n \div 2 : i - 1 \in Gates(nd)
    BY <2>2
  <2>4. \A i \in 1 .. nd.n \div 2 : Out(nd, i - 1).control \in Control
    BY <1>1, <1>3, <1>7, <2>3, GateMoves
  <2>5. e \in Seq(Control) /\ Len(e) = nd.n \div 2
    BY <2>2, <2>4
  <2>5a. \A g \in Gates(nd) : e[g + 1] = Out(nd, g).control
    <3>1. \A g \in Gates(nd) : g + 1 \in 1 .. nd.n \div 2 /\ (g + 1) - 1 = g
      BY <2>2
    <3>2. QED BY <3>1
  <2> HIDE DEF e
  <2>6. /\ controls' \in Seq(Control) /\ Len(controls') = Len(controls) + nd.n \div 2
        /\ Len(controls) \in Nat
        /\ \A g \in Gates(nd) : controls'[Len(controls) + g + 1] = Out(nd, g).control
    <3>1. /\ controls \o e \in Seq(Control) /\ Len(controls \o e) = Len(controls) + Len(e)
          /\ Len(controls) \in Nat
          /\ \A j \in 1 .. Len(e) : (controls \o e)[Len(controls) + j] = e[j]
      BY <1>1, <2>5, Appended
    <3>2. ASSUME NEW g \in Gates(nd) PROVE controls'[Len(controls) + g + 1] = Out(nd, g).control
      <4>1. g + 1 \in 1 .. Len(e) /\ g \in Nat
        BY <2>2, <2>5
      <4>2. controls'[Len(controls) + (g + 1)] = e[g + 1]
        BY <2>1, <3>1, <4>1
      <4>3. Len(controls) + g + 1 = Len(controls) + (g + 1)
        BY <3>1, <4>1
      <4>4. QED BY <2>5a, <4>2, <4>3
    <3>3. QED BY <2>1, <2>5, <3>1, <3>2
  <2>7. Carried(nd, rows, NewControl(nd)) = Replayed(nd, rows, controls', Len(controls))
    <3>1. ASSUME NEW p \in Place, Gated(nd, p)
          PROVE  NewControl(nd)[GateOf(nd, p)] = controls'[Len(controls) + GateOf(nd, p) + 1]
      <4>1. GateOf(nd, p) \in Gates(nd)
        BY <3>1 DEF Gated
      <4>2. QED BY <2>6, <4>1 DEF NewControl
    <3>2. QED BY <3>1 DEF Carried, Replayed
  <2>8. Leads(controls', stack', rows')
    <3> DEFINE y == [stack |-> stack', position |-> Len(controls'), lane |-> rows']
    <3>1. y.stack = stack' /\ y.position = Len(controls') /\ y.lane = rows'
      OBVIOUS
    <3> HIDE DEF y
    <3>2. ASSUME NEW x, IsAt(x, stack, Len(controls), rows) PROVE StepOf(controls', x, y)
      <4>1. x.stack = stack /\ x.position = Len(controls) /\ x.lane = rows
        BY <3>2 DEF IsAt
      <4>2. y.stack = After(stack)
        BY <2>1, <3>1 DEF After, Rest
      <4>3. y.lane = Replayed(nd, rows, controls', Len(controls))
        BY <2>1, <2>7, <3>1
      <4>4. y.position = Len(controls) + nd.n \div 2 /\ y.position <= Len(controls')
        BY <2>2, <2>6, <3>1
      <4>5. QED BY <1>1, <1>7, <2>2, <2>6, <4>1, <4>2, <4>3, <4>4 DEF StepOf
    <3>3. Leads(controls', y.stack, y.lane)
      <4>1. y.position = Len(controls \o e)
        BY <2>1, <3>1
      <4>2. \A x : IsAt(x, stack, Len(controls), rows) => StepOf(controls \o e, x, y)
        BY <2>1, <3>2
      <4>3. Leads(controls \o e, y.stack, y.lane)
        BY <1>1, <2>5, <4>1, <4>2, PlayOn
      <4>4. QED BY <2>1, <4>3
    <3>4. QED BY <3>1, <3>3
  <2>9. CASE nd.n = 2
    <3>1. stack' = Tail(stack) /\ CountOf(nd) = nd.n \div 2
      BY <1>3, <1>7, <2>1, <2>9, NodeCounts DEF Rest
    <3> DEFINE k == Len(controls)
               m == CountOf(nd)
    <3>2. k \in Nat /\ m \in Nat /\ Len(controls') = k + m /\ k + c = CountOf(Root)
      BY <1>4, <1>5, <2>6, <3>1
    <3>3. Len(controls') + (c - m) = CountOf(Root)
      <4> HIDE DEF k, m
      <4>1. QED BY <1>5, <3>2
    <3>4. QED BY <1>5, <2>6, <2>8, <3>1, <3>3
  <2>10. CASE nd.n # 2
    <3> DEFINE c1 == TopChild(nd)
               c2 == BottomChild(nd)
    <3>1. stack' = <<c1, c2>> \o Tail(stack)
      BY <2>1, <2>10, ChildrenAre DEF Rest
    <3>2. IsNode(c1) /\ IsNode(c2) /\ c1 \in Node /\ c2 \in Node
      BY <1>3, <1>7, ChildPlaces DEF IsNode
    <3>3. CountOf(c1) \in Nat /\ CountOf(c2) \in Nat
      BY <3>2, NodeCounts
    <3>4. CountOf(nd) = nd.n \div 2 + CountOf(c1) + CountOf(c2)
      BY <1>3, <1>7, <2>10, NodeCounts
    <3> HIDE DEF c1, c2
    <3> DEFINE m == CountOf(nd)
               a == CountOf(c1)
               b == CountOf(c2)
               h == nd.n \div 2
               k == Len(controls)
    <3>5. ToWrite(<<c1, c2>> \o Tail(stack), (c - m) + a + b)
      BY <1>2, <1>5, <3>2, <3>3, WriteMore
    <3>6. Len(controls') + ((c - m) + a + b) = CountOf(Root)
      <4>1. /\ Len(controls') = k + h /\ k + c = CountOf(Root) /\ m = h + a + b
            /\ k \in Nat /\ h \in Nat /\ a \in Nat /\ b \in Nat /\ m \in Nat /\ c \in Nat
        BY <1>4, <1>5, <2>2, <2>6, <3>3, <3>4
      <4> HIDE DEF m, a, b, h, k
      <4>2. QED BY <4>1
    <3>7. QED BY <2>6, <2>8, <3>1, <3>5, <3>6
  <2>11. QED BY <2>9, <2>10
<1>8. QED BY <1>6, <1>7

LEMMA WriteHolds ==
  ASSUME NetInv, Write
  PROVE  NetInv'
<1>1. /\ ShapeInv /\ WritingInv /\ Resp(rows, tags) /\ stage = "write"
      /\ n \in Nat \ {0} /\ tags \in [Place -> Tag] /\ rows \in [Place -> Place]
      /\ Pending(tags, stack)
  BY DEF NetInv, Write, ShapeInv, WritingInv
<1>2. /\ UNCHANGED <<n, n_left, wanted, data, position>> /\ stage' = "write"
  BY <1>1 DEF Write
<1>3. /\ tags' \in [Place -> Tag] /\ rows' \in [Place -> Place]
      /\ Pending(tags', stack') /\ Resp(rows', tags')
  BY <1>1, WritePending
<1>4. /\ controls' \in Seq(Control)
      /\ Leads(controls', stack', rows')
      /\ \E c : ToWrite(stack', c) /\ Len(controls') + c = CountOf(Root)
  BY WriteTape
<1>5. ShapeInv'
  <2>1. Place' = Place
    BY <1>2 DEF Place
  <2>2. QED BY <1>1, <1>2, <1>3, <1>4, <2>1 DEF ShapeInv
<1>6. data' = Start /\ position' = 0
  BY <1>1, <1>2 DEF WritingInv
<1>7. QED BY <1>2, <1>3, <1>4, <1>5, <1>6, WriteStage

\* The stages after the writing.
LEMMA ApplyStage ==
  ASSUME UNCHANGED <<n, n_left, wanted, tags, rows, controls>>, NetInv,
         stage' \in {"apply", "done"},
         \A p \in Place : tags[p] = Final(p), Len(controls) = CountOf(Root), Resp(rows, tags),
         stage' = "apply" => ComesBy(controls', << >>, rows', stack', position', data'),
         stage' = "done" => position' = Len(controls) /\ data' = rows
  PROVE  NetInv'
<1>1. ShapeInv'
  BY DEF NetInv, ShapeInv, Place
<1>2. Root' = Root /\ Place' = Place
  BY DEF Root, Place
<1>3. Len(controls') = CountOf(Root)'
  BY <1>2 DEF CountOf
<1>4. Resp(rows, tags)' /\ (\A p \in Place : tags[p] = Final(p))'
  BY ShapeKept
<1>5. stage' = "apply" => ComesBy(controls, << >>, rows, stack, position, data)'
  BY ShapeKept
<1>6. QED BY <1>1, <1>3, <1>4, <1>5 DEF NetInv

LEMMA WrittenHolds ==
  ASSUME NetInv, Written
  PROVE  NetInv'
<1>1. /\ ShapeInv /\ WritingInv /\ Resp(rows, tags) /\ stack = << >> /\ controls \in Seq(Control)
      /\ Pending(tags, stack) /\ Lacks /\ Leads(controls, stack, rows)
      /\ data = Start /\ position = 0
  BY DEF NetInv, Written, ShapeInv, WritingInv
<1>2. /\ UNCHANGED <<n, n_left, wanted, tags, rows, controls, data, position>>
      /\ stage' = "apply" /\ stack' = <<Root>>
  BY DEF Written
<1>3. Len(<< >>) = 0
  OBVIOUS
<1>4. \A p \in Place : tags[p] = Final(p)
  BY <1>1, <1>3 DEF Pending
<1>5. Len(controls) = CountOf(Root)
  <2>1. PICK c : ToWrite(<< >>, c) /\ Len(controls) + c = CountOf(Root)
    BY <1>1 DEF Lacks
  <2>2. c = 0
    BY <1>3, <2>1 DEF ToWrite, Weighs
  <2>3. Len(controls) \in Nat
    BY <1>1
  <2>4. QED BY <2>1, <2>2, <2>3
<1>6. ComesBy(controls, << >>, rows, <<Root>>, 0, Start)
  <2>0. PICK k \in Nat : \E h : Played(controls, h, k) /\ IsAt(h[k], << >>, Len(controls), rows)
    BY <1>1 DEF Leads
  <2>1. PICK h : Played(controls, h, k) /\ IsAt(h[k], << >>, Len(controls), rows)
    BY <2>0
  <2>2. IsAt(h[0], <<Root>>, 0, Start) /\ 0 \in 0 .. k
    BY <2>1 DEF Played, IsAt, Start
  <2>3. QED BY <2>1, <2>2 DEF ComesBy
<1>7. ComesBy(controls', << >>, rows', stack', position', data')
  BY <1>1, <1>2, <1>6
<1>8. QED BY <1>1, <1>2, <1>4, <1>5, <1>7, ApplyStage

LEMMA ApplyHolds ==
  ASSUME NetInv, Apply
  PROVE  NetInv'
<1> DEFINE nd == Head(stack)
<1>1. /\ ShapeInv /\ stage = "apply" /\ Resp(rows, tags) /\ stack # << >>
      /\ \A p \in Place : tags[p] = Final(p)
      /\ Len(controls) = CountOf(Root)
      /\ ComesBy(controls, << >>, rows, stack, position, data)
  BY DEF NetInv, Apply
<1>2. UNCHANGED <<n, n_left, wanted, tags, rows, controls, stage>>
  BY DEF Apply
<1>3. PICK x, y : /\ IsAt(x, stack, position, data) /\ StepOf(controls, x, y)
                  /\ ComesBy(controls, << >>, rows, y.stack, y.position, y.lane)
  BY <1>1, ComesOn
<1>4. x.stack = stack /\ x.position = position /\ x.lane = data
  BY <1>3 DEF IsAt
<1>5. y.stack = stack' /\ y.position = position' /\ y.lane = data'
  <2>1. CASE Trivial(nd)
    <3>1. stack' = Tail(stack) /\ UNCHANGED <<data, position>>
      BY <2>1 DEF Apply
    <3>2. QED BY <1>3, <1>4, <2>1, <3>1 DEF StepOf
  <2>2. CASE ~ Trivial(nd)
    <3>1. /\ data' = Through(nd, data, LAMBDA g : controls[position + g + 1])
          /\ position' = position + nd.n \div 2 /\ stack' = Rest
      BY <2>2 DEF Apply
    <3>2. data' = Replayed(nd, data, controls, position)
      BY <3>1 DEF Through, Replayed
    <3>3. stack' = After(stack)
      BY <3>1 DEF Rest, After
    <3>4. y.stack = After(stack) /\ y.position = position + nd.n \div 2
          /\ y.lane = Replayed(nd, data, controls, position)
      BY <1>3, <1>4, <2>2 DEF StepOf
    <3>5. QED BY <3>1, <3>2, <3>3, <3>4
  <2>3. QED BY <2>1, <2>2
<1>6. ComesBy(controls', << >>, rows', stack', position', data')
  BY <1>2, <1>3, <1>5
<1>7. QED BY <1>1, <1>2, <1>6, ApplyStage

LEMMA AppliedHolds ==
  ASSUME NetInv, Applied
  PROVE  NetInv'
<1>1. /\ stage = "apply" /\ Resp(rows, tags) /\ stack = << >>
      /\ \A p \in Place : tags[p] = Final(p)
      /\ Len(controls) = CountOf(Root)
      /\ ComesBy(controls, << >>, rows, stack, position, data)
  BY DEF NetInv, Applied
<1>2. UNCHANGED <<n, n_left, wanted, tags, rows, controls, data, position>> /\ stage' = "done"
  BY DEF Applied
<1>3. position = Len(controls) /\ data = rows
  BY <1>1, ComesHome
<1>4. QED BY <1>1, <1>2, <1>3, ApplyStage

LEMMA StutterHolds ==
  ASSUME NetInv, UNCHANGED routing_vars
  PROVE  NetInv'
<1>1. UNCHANGED <<n, n_left, wanted, tags, rows, controls, data, position, stack, stage>>
  BY DEF routing_vars
<1>2. Place' = Place /\ Root' = Root /\ Start' = Start
  BY <1>1 DEF Place, Root, Start
<1>3. ShapeInv'
  BY <1>1, <1>2 DEF NetInv, ShapeInv
<1>4. stage = "normalize" => FirstInv'
  BY <1>1, <1>2 DEF NetInv, FirstInv, Wanting
<1>5. stage # "normalize" => Resp(rows, tags)'
  <2>1. stage # "normalize" => Resp(rows', tags')
    BY <1>1 DEF NetInv
  <2>2. QED BY <1>1, <2>1, ShapeKept
<1>6. ASSUME stage = "write" PROVE NetInv'
  <2>1. WritingInv /\ Resp(rows, tags)
    BY <1>6 DEF NetInv
  <2>2. Pending(tags', stack') /\ Resp(rows', tags') /\ Leads(controls', stack', rows')
    BY <1>1, <2>1 DEF WritingInv
  <2>3. \E c : ToWrite(stack', c) /\ Len(controls') + c = CountOf(Root)
    BY <1>1, <2>1 DEF WritingInv, Lacks
  <2>4. data' = Start /\ position' = 0
    BY <1>1, <2>1 DEF WritingInv
  <2>5. QED BY <1>1, <1>3, <1>6, <2>2, <2>3, <2>4, WriteStage
<1>7. ASSUME stage \in {"apply", "done"} PROVE NetInv'
  <2>1. /\ Resp(rows, tags) /\ \A p \in Place : tags[p] = Final(p)
    BY <1>7 DEF NetInv
  <2>2. /\ Len(controls) = CountOf(Root)
        /\ stage = "apply" => ComesBy(controls, << >>, rows, stack, position, data)
        /\ stage = "done" => position = Len(controls) /\ data = rows
    BY <1>7 DEF NetInv
  <2>3. stage = "apply" => ComesBy(controls', << >>, rows', stack', position', data')
    BY <1>1, <2>2
  <2>4. QED BY <1>1, <1>7, <2>1, <2>2, <2>3, ApplyStage
<1>8. ASSUME stage = "normalize" PROVE NetInv'
  BY <1>1, <1>3, <1>4, <1>8 DEF NetInv
<1>9. stage \in {"normalize", "write", "apply", "done"}
  BY DEF NetInv, ShapeInv
<1>10. QED BY <1>6, <1>7, <1>8, <1>9

-----------------------------------------------------------------------------
(* The theorems.                                                            *)

\* Type correctness and the invariant of offline writing and online applying:
\* the nodes still to do are disjoint, are asked for exactly their places and
\* miss exactly the controls that OFRControlCount gives for them; and the tape
\* so far, applied by OFRApplyStrided, leads to the rows so far.
THEOREM NetworkInvariant == RoutingSpec => []NetInv
<1>1. RoutingInit => NetInv
  BY InitHolds
<1>2. NetInv /\ [RoutingNext]_routing_vars => NetInv'
  BY NormalizeHolds, WriteHolds, WrittenHolds, ApplyHolds, AppliedHolds, StutterHolds
    DEF RoutingNext, Finished
<1>3. QED BY <1>1, <1>2, PTL DEF RoutingSpec

\* OFRControlWriteAndRouteImpl neither loses nor duplicates a copy: whatever the
\* tags, every copy that is wanted has exactly one place responsible for it.
THEOREM ResponsibilityHolds == RoutingSpec => []ResponsibilityKept
<1>1. NetInv => ResponsibilityKept
  <2>1. SUFFICES ASSUME NetInv, stage # "normalize", NEW i \in Place, NEW side \in wanted[i]
                 PROVE  Cardinality({p \in Place : rows[p] = i /\ side \in tags[p]}) = 1
    BY DEF ResponsibilityKept
  <2>2. Resp(rows, tags) /\ wanted \in [Place -> Tag]
    BY <2>1 DEF NetInv, ShapeInv
  <2>3. side \in Side
    BY <2>2 DEF Tag
  <2>4. Single(rows, tags, i, side)
    BY <2>2, <2>3 DEF Resp
  <2>5. QED BY <2>4, SingleCount
<1>2. QED BY <1>1, NetworkInvariant, PTL

\* What OFR is for: of any number of records, after OFRApplyStrided each one that
\* wants an output is in it once, if the outputs have room for all that want them.
THEOREM DeliveredHolds == RoutingSpec => []Delivered
<1>1. NetInv => Delivered
  <2>1. SUFFICES ASSUME NetInv, stage = "done", NEW i \in Place
                 PROVE  /\ "left" \in wanted[i] => Cardinality({p \in 0 .. n_left - 1 : data[p] = i}) = 1
                        /\ "right" \in wanted[i] => Cardinality({p \in n_left .. n - 1 : data[p] = i}) = 1
    BY DEF Delivered
  <2>2. Resp(rows, tags) /\ n \in Nat /\ n_left \in 0 .. n
    BY <2>1 DEF NetInv, ShapeInv
  <2>3. data = rows /\ \A p \in Place : tags[p] = Final(p)
    BY <2>1 DEF NetInv
  <2>4. ASSUME NEW side \in Side, side \in wanted[i]
        PROVE  Cardinality({p \in Place : data[p] = i /\ side \in tags[p]}) = 1
    BY <2>2, <2>3, <2>4, SingleCount DEF Resp
  <2>5. {p \in Place : data[p] = i /\ "left" \in tags[p]} = {p \in 0 .. n_left - 1 : data[p] = i}
    <3>1. \A p \in Place : "left" \in tags[p] <=> p < n_left
      BY <2>3 DEF Final
    <3>2. 0 .. n_left - 1 = {p \in Place : p < n_left}
      BY <2>2 DEF Place
    <3>3. QED BY <3>1, <3>2
  <2>6. {p \in Place : data[p] = i /\ "right" \in tags[p]} = {p \in n_left .. n - 1 : data[p] = i}
    <3>1. \A p \in Place : "right" \in tags[p] <=> ~ (p < n_left)
      BY <2>3 DEF Final
    <3>2. n_left .. n - 1 = {p \in Place : ~ (p < n_left)}
      BY <2>2 DEF Place
    <3>3. QED BY <3>1, <3>2
  <2>7. QED BY <2>4, <2>5, <2>6 DEF Side
<1>2. QED BY <1>1, NetworkInvariant, PTL

\* The tape has the length OFRControlCount gives, applying it uses it up, and the
\* payload ends up as the memberships were routed.
THEOREM ReplayHolds == RoutingSpec => []ReplayAgrees
<1>1. NetInv => ReplayAgrees
  <2>1. CountOf(Root) = ControlCount[n][n_left]
    BY DEF CountOf, Root
  <2>2. QED BY <2>1 DEF NetInv, ReplayAgrees
<1>2. QED BY <1>1, NetworkInvariant, PTL

-----------------------------------------------------------------------------
(* The tape that parallel writers share.                                   *)

\* The spans partition the tape.
CutInv ==
  /\ \A w \in Writer : cut[w - 1] < cut[w]
  /\ \A v, w \in Writer : v < w => cut[v] <= cut[w - 1]
  /\ \A b \in Position : \E w \in Writer : b \in Span(w)

\* The bit at b as its owner w would find it.
Seen(w, b) == IF Stages(w, b \div 8) /\ committed < w THEN staged[w][b] ELSE tape[b]

\* What w is changing lies in its span, and what it has read of its span is
\* still there.
WriteInv(w) ==
  /\ chunk[w] \subseteq Span(w) \ written
  /\ \A b \in Bytes(chunk[w]) \cap Span(w) : held[w][b] = Seen(w, b)

\* Every set control has its value, the others are still zero.
KeptInv ==
  \A w \in Writer : \A b \in Span(w) :
    Seen(w, b) = IF b \in written THEN Source[b] ELSE 0

\* Nobody writes any more when the first boundary is committed.
CommitInv == committed > 0 => written = Position /\ \A w \in Writer : chunk[w] = {}

Inv == TypeOK /\ CutInv /\ (\A w \in Writer : WriteInv(w)) /\ KeptInv /\ CommitInv

-----------------------------------------------------------------------------

LEMMA Numbers ==
  /\ Length \in Nat /\ Writers \in Nat
  /\ \A b : b \in Position <=> b \in Nat /\ b < Length
  /\ \A w : w \in Writer <=> w \in Nat /\ 1 <= w /\ w <= Writers
  /\ \A b \in Position : Source[b] \in {0, 1}
BY LengthAssumption, SourceAssumption DEF Position, Writer

\* The ends of a span are numbers, and a span is a part of the tape.
LEMMA Ends ==
  ASSUME TypeOK, NEW w \in Writer
  PROVE  /\ cut[w - 1] \in Nat /\ cut[w] \in Nat /\ cut[w] <= Length
         /\ \A b : b \in Span(w) <=> b \in Nat /\ cut[w - 1] <= b /\ b < cut[w]
         /\ Span(w) \subseteq Position
<1>1. w \in 0 .. Writers /\ w - 1 \in 0 .. Writers
  BY Numbers
<1>2. cut[w - 1] \in 0 .. Length /\ cut[w] \in 0 .. Length
  BY <1>1 DEF TypeOK
<1>3. QED BY <1>2, Numbers DEF Span

LEMMA Disjoint ==
  ASSUME TypeOK, CutInv, NEW v \in Writer, NEW w \in Writer, v # w,
         NEW b \in Span(v)
  PROVE  b \notin Span(w)
<1>1. cut[v] <= cut[w - 1] \/ cut[w] <= cut[v - 1]
  BY Numbers DEF CutInv
<1>2. QED BY <1>1, Ends

\* A byte that a writer does not stage is the writer's alone.
LEMMA FullByte ==
  ASSUME TypeOK, CutInv, NEW w \in Writer, NEW b \in Span(w),
         ~ Stages(w, b \div 8), NEW c \in Position, c \div 8 = b \div 8
  PROVE  c \in Span(w)
<1> DEFINE lo == cut[w - 1]
           hi == cut[w]
<1>1. /\ lo \in Nat /\ hi \in Nat /\ b \in Nat /\ c \in Nat
      /\ lo <= b /\ b < hi
  BY Ends, Numbers
<1>2. \/ lo \div 8 = (hi - 1) \div 8 /\ (b \div 8 # lo \div 8 \/ hi - lo = 8)
      \/ /\ lo \div 8 # (hi - 1) \div 8
         /\ b \div 8 # lo \div 8 \/ lo % 8 = 0
         /\ b \div 8 # (hi - 1) \div 8 \/ hi % 8 = 0
  BY DEF Stages
<1> HIDE DEF lo, hi
<1>3. lo <= c /\ c < hi
  BY <1>1, <1>2
<1>4. QED BY <1>1, <1>3, Ends DEF lo, hi

\* What a writer changes in memory lies in its own span.
LEMMA DirectBytes ==
  ASSUME TypeOK, CutInv, NEW w \in Writer, WriteInv(w),
         NEW b \in Bytes(chunk[w]), ~ Stages(w, b \div 8)
  PROVE  b \in Span(w)
<1>1. PICK c \in chunk[w] : b \in Position /\ b \div 8 = c \div 8
  BY DEF Bytes
<1>2. c \in Span(w) /\ ~ Stages(w, c \div 8)
  BY <1>1 DEF WriteInv
<1>3. QED BY <1>1, <1>2, FullByte

LEMMA InitInv == Init => Inv
<1> SUFFICES ASSUME Init PROVE Inv
  OBVIOUS
<1>1. TypeOK
  BY Numbers DEF Init, TypeOK
<1>2. CutInv
  BY DEF Init, CutInv
<1>3. \A w \in Writer : WriteInv(w)
  BY DEF Init, WriteInv, Bytes
<1>4. KeptInv
  BY <1>1, Ends DEF Init, KeptInv, Seen
<1>5. CommitInv
  BY DEF Init, CommitInv
<1>6. QED BY <1>1, <1>2, <1>3, <1>4, <1>5 DEF Inv

LEMMA LoadInv ==
  ASSUME Inv, NEW w \in Writer, NEW lo \in Span(w), NEW g \in Grains, Load(w, lo, g)
  PROVE  Inv'
<1> DEFINE new == lo .. lo + g - 1
<1>1. /\ new \subseteq Span(w) \ written
      /\ UNCHANGED <<cut, tape, staged, written, committed>>
      /\ chunk' = [chunk EXCEPT ![w] = new]
      /\ held' = [held EXCEPT ![w] =
                    [b \in Position |-> IF b \in Bytes(new) THEN Read(w, b) ELSE 0]]
  BY DEF Load
<1>2. lo \in new /\ committed = 0
  <2>1. lo \in Nat /\ g \in Nat \ {0}
    BY Ends, UnitAssumption DEF Inv
  <2>2. lo \in new
    BY <2>1
  <2>3. lo \in Position /\ lo \notin written
    BY <1>1, <2>2, Ends DEF Inv
  <2>4. QED BY <2>2, <2>3 DEF Inv, CommitInv, TypeOK
<1> HIDE DEF new
<1>3. TypeOK'
  BY <1>1, Ends, Numbers DEF Inv, TypeOK, Read
<1>4. CutInv' /\ CommitInv' /\ KeptInv'
  BY <1>1, <1>2 DEF Inv, CutInv, CommitInv, KeptInv, Span, Seen, Stages
<1>5. ASSUME NEW v \in Writer PROVE WriteInv(v)'
  <2>1. CASE v = w
    <3>1. chunk'[w] = new /\ \A b \in Position : b \in Bytes(new) => held'[w][b] = Read(w, b)
      BY <1>1 DEF Inv, TypeOK
    <3>2. \A b \in Position : Read(w, b) = Seen(w, b)
      BY <1>2, Numbers DEF Read, Seen
    <3>3. QED BY <1>1, <2>1, <3>1, <3>2 DEF WriteInv, Seen, Stages, Span, Bytes
  <2>2. CASE v # w
    BY <1>1, <2>2 DEF Inv, TypeOK, WriteInv, Seen, Stages, Span, Bytes
  <2>3. QED BY <2>1, <2>2
<1>6. QED BY <1>3, <1>4, <1>5 DEF Inv

LEMMA StoreInv ==
  ASSUME Inv, NEW w \in Writer, Store(w)
  PROVE  Inv'
<1> DEFINE old == Bytes(chunk[w])
           new(b) == IF b \in chunk[w] THEN Source[b] ELSE held[w][b]
<1>1. /\ chunk[w] # {} /\ chunk[w] \subseteq Span(w) \ written
      /\ chunk[w] \subseteq old /\ old \subseteq Position
  BY Ends DEF Inv, WriteInv, Store, Bytes
<1>2. committed = 0
  BY <1>1 DEF Inv, CommitInv, TypeOK
<1>3. TypeOK'
  BY <1>1, Numbers DEF Inv, TypeOK, Store
<1>4. /\ UNCHANGED <<cut, committed>>
      /\ written' = written \cup chunk[w]
      /\ chunk'[w] = {} /\ \A v \in Writer : v # w => chunk'[v] = chunk[v]
      /\ \A v \in Writer : v # w => staged'[v] = staged[v] /\ held'[v] = held[v]
      /\ \A b \in Position :
           staged'[w][b] = IF b \in old /\ Stages(w, b \div 8) THEN new(b) ELSE staged[w][b]
      /\ \A b \in Position :
           tape'[b] = IF b \in old /\ ~ Stages(w, b \div 8) THEN new(b) ELSE tape[b]
  BY DEF Inv, TypeOK, Store
<1> HIDE DEF new
<1>5. CutInv'
  BY <1>4 DEF Inv, CutInv, Span
<1>6. /\ \A v \in Writer : Span(v)' = Span(v)
      /\ \A v \in Writer : \A b : Stages(v, b \div 8)' = Stages(v, b \div 8)
  BY <1>4 DEF Span, Stages
<1>7. ASSUME NEW b \in Span(w)
      PROVE  Seen(w, b)' = IF b \in chunk[w] THEN Source[b] ELSE Seen(w, b)
  <2>1. b \in Position /\ 0 < w
    BY Ends, Numbers DEF Inv
  <2>2. CASE b \in old
    <3>1. new(b) = IF b \in chunk[w] THEN Source[b] ELSE Seen(w, b)
      BY <2>2 DEF new, Inv, WriteInv
    <3>2. QED BY <1>2, <1>4, <1>6, <2>1, <2>2, <3>1 DEF Seen
  <2>3. CASE b \notin old
    BY <1>1, <1>2, <1>4, <1>6, <2>1, <2>3 DEF Seen
  <2>4. QED BY <2>2, <2>3
<1>8. ASSUME NEW v \in Writer, v # w, NEW b \in Span(v) PROVE Seen(v, b)' = Seen(v, b)
  <2>1. b \in Position
    BY Ends DEF Inv
  <2>2. ~ (b \in old /\ ~ Stages(w, b \div 8))
    BY <1>8, DirectBytes, Disjoint DEF Inv
  <2>3. QED BY <1>4, <1>6, <1>8, <2>1, <2>2 DEF Seen
<1>9. KeptInv'
  <2>1. ASSUME NEW v \in Writer, NEW b \in Span(v)
        PROVE  Seen(v, b)' = IF b \in written' THEN Source[b] ELSE 0
    <3>1. Seen(v, b) = IF b \in written THEN Source[b] ELSE 0
      BY DEF Inv, KeptInv
    <3>2. CASE v = w
      BY <1>4, <1>7, <3>1, <3>2
    <3>3. CASE v # w
      <4>1. b \notin chunk[w]
        BY <1>1, <3>3, Disjoint DEF Inv
      <4>2. QED BY <1>4, <1>8, <3>1, <3>3, <4>1
    <3>4. QED BY <3>2, <3>3
  <2>2. QED BY <1>6, <2>1 DEF KeptInv
<1>10. CommitInv'
  BY <1>2, <1>4 DEF CommitInv
<1>11. ASSUME NEW v \in Writer PROVE WriteInv(v)'
  <2>1. CASE v = w
    BY <1>4, <2>1 DEF WriteInv, Bytes
  <2>2. CASE v # w
    <3>1. chunk'[v] \subseteq Span(v) \ written'
      BY <1>1, <1>4, <2>2, Disjoint DEF Inv, WriteInv
    <3>2. \A b \in Bytes(chunk[v]) \cap Span(v) : held[v][b] = Seen(v, b)'
      BY <1>8, <2>2 DEF Inv, WriteInv
    <3>3. QED BY <1>4, <1>6, <2>2, <3>1, <3>2 DEF WriteInv, Bytes
  <2>3. QED BY <2>1, <2>2
<1>12. QED BY <1>3, <1>5, <1>9, <1>10, <1>11 DEF Inv

LEMMA CommitStep ==
  ASSUME Inv, NEW w \in Writer, Commit(w)
  PROVE  /\ Inv'
         /\ \A v \in Writer : \A b \in Span(v) : Seen(v, b)' = Seen(v, b)
<1>1. /\ written = Position /\ w = committed + 1 /\ committed' = w
      /\ UNCHANGED <<cut, staged, chunk, held, written>>
      /\ \A b \in Position :
           tape'[b] = IF b \in Span(w) /\ Stages(w, b \div 8) THEN staged[w][b] ELSE tape[b]
      /\ tape' \in [Position -> {0, 1}]
  BY DEF Inv, TypeOK, Commit
<1>2. \A v \in Writer : chunk[v] = {}
  BY <1>1, Ends DEF Inv, WriteInv
<1>3. TypeOK'
  BY <1>1, Numbers DEF Inv, TypeOK
<1>4. ASSUME NEW v \in Writer, NEW b \in Span(v) PROVE Seen(v, b)' = Seen(v, b)
  <2>1. b \in Position
    BY Ends DEF Inv
  <2>2. Stages(v, b \div 8)' = Stages(v, b \div 8)
    BY <1>1 DEF Stages
  <2>3. CASE v = w
    BY <1>1, <2>1, <2>2, <2>3, Numbers DEF Seen, Inv, TypeOK
  <2>4. CASE v # w
    <3>1. b \notin Span(w)
      BY <2>4, Disjoint DEF Inv
    <3>2. (committed' < v) <=> (committed < v)
      BY <1>1, <2>4, Numbers DEF Inv, TypeOK
    <3>3. QED BY <1>1, <2>1, <2>2, <3>1, <3>2 DEF Seen
  <2>5. QED BY <2>3, <2>4
<1>5. CutInv' /\ CommitInv' /\ KeptInv'
  BY <1>1, <1>2, <1>4 DEF Inv, CutInv, CommitInv, KeptInv, Span
<1>6. \A v \in Writer : WriteInv(v)'
  BY <1>1, <1>2 DEF WriteInv, Bytes
<1>7. QED BY <1>3, <1>4, <1>5, <1>6 DEF Inv

\* The inductive invariant: what writers have set is there to be seen, and
\* what they have read and not yet written back is still what they would read.
THEOREM TapeInvariant == Spec => []Inv
<1>1. ASSUME Inv, [Next]_vars PROVE Inv'
  <2>1. CASE UNCHANGED vars
    <3>1. TypeOK' /\ CutInv' /\ CommitInv'
      BY <1>1, <2>1 DEF vars, Inv, TypeOK, CutInv, CommitInv, Span
    <3>2. KeptInv' /\ \A w \in Writer : WriteInv(w)'
      BY <1>1, <2>1 DEF vars, Inv, WriteInv, KeptInv, Span, Stages, Seen, Bytes
    <3>3. QED BY <3>1, <3>2 DEF Inv
  <2>2. QED
    BY <1>1, <2>1, LoadInv, StoreInv, CommitStep DEF Next, Done
<1>2. QED BY <1>1, InitInv, PTL DEF Spec

\* No byte of memory is ever changed by two threads at once: see NoByteRace.
THEOREM NoByteRaceHolds == Spec => []NoByteRace
<1>1. ASSUME Inv PROVE NoByteRace
  <2>1. ASSUME NEW v \in Writer, NEW w \in Writer, v # w,
               NEW b \in Bytes(chunk[v]) \cap Bytes(chunk[w]),
               ~ Stages(v, b \div 8)
        PROVE  FALSE
    <3>1. b \in Span(v)
      BY <1>1, <2>1, DirectBytes DEF Inv
    <3>2. PICK c \in chunk[w] : b \div 8 = c \div 8
      BY DEF Bytes
    <3>3. c \in Span(w) /\ c \in Position
      BY <1>1, <3>2, Ends DEF Inv, WriteInv
    <3>4. c \in Span(v)
      BY <1>1, <2>1, <3>1, <3>2, <3>3, FullByte DEF Inv
    <3>5. QED BY <1>1, <2>1, <3>3, <3>4, Disjoint DEF Inv
  <2>2. QED BY <2>1 DEF NoByteRace
<1>2. QED BY <1>1, TapeInvariant, PTL

\* The committed tape holds every control: see TapeComplete.
THEOREM TapeCompleteHolds == Spec => []TapeComplete
<1>1. ASSUME Inv, committed = Writers PROVE tape = Source
  <2>1. ASSUME NEW b \in Position PROVE tape[b] = Source[b]
    <3>1. PICK w \in Writer : b \in Span(w)
      BY <1>1 DEF Inv, CutInv
    <3>2. committed > 0 /\ ~ (committed < w)
      BY <1>1, Numbers
    <3>3. QED BY <1>1, <3>1, <3>2 DEF Inv, CommitInv, KeptInv, Seen
  <2>2. tape \in [Position -> {0, 1}] /\ Source \in [Position -> {0, 1}]
    BY <1>1, SourceAssumption DEF Inv, TypeOK, Position
  <2>3. QED BY <2>1, <2>2
<1>2. QED BY <1>1, TapeInvariant, PTL DEF TapeComplete

Views == \A w \in Writer : \A b \in Span(w) : View[b] = Seen(w, b)

LEMMA ViewIs == TypeOK /\ CutInv => Views
<1> SUFFICES ASSUME TypeOK, CutInv, NEW w \in Writer, NEW b \in Span(w)
             PROVE  View[b] = Seen(w, b)
  BY DEF Views
<1>1. Owner(b) = w
  BY Disjoint DEF Owner
<1>2. b \in Position
  BY Ends
<1>3. QED BY <1>1, <1>2 DEF View, Seen

\* The packed tape keeps the promise of BitTape: whatever a writer does, its
\* neighbours see no bit change that is not one of its own controls.
THEOREM PromiseKept == Spec => KeepsPromise
<1>1. ASSUME Init PROVE Promise!Init
  <2>1. Inv
    BY <1>1, InitInv
  <2>2. ASSUME NEW b \in Position PROVE View[b] = 0
    <3>1. PICK w \in Writer : b \in Span(w)
      BY <2>1 DEF Inv, CutInv
    <3>2. QED BY <1>1, <2>1, <3>1, ViewIs DEF Inv, KeptInv, Init, Views
  <2>3. View = [b \in Position |-> 0]
    BY <2>2 DEF View
  <2>4. QED BY <1>1, <2>3 DEF Promise!Init, Init
<1>2. ASSUME Inv, Inv', [Next]_vars PROVE [Promise!Set]_<<View, written>>
  <2>1. written \subseteq written' /\ written' \subseteq Position
    BY <1>2 DEF Inv, TypeOK, Next, Done, Load, Store, Commit, vars
  <2>2. ASSUME NEW b \in Position
        PROVE  View'[b] = IF b \in written' \ written THEN Source[b] ELSE View[b]
    <3>1. PICK w \in Writer : b \in Span(w)
      BY <1>2 DEF Inv, CutInv
    <3>2. b \in Span(w)'
      BY <1>2, <3>1 DEF Next, Done, Load, Store, Commit, vars, Span
    <3>3. View[b] = Seen(w, b)
      BY <1>2, <3>1, ViewIs DEF Inv, Views
    <3>4. View'[b] = Seen(w, b)'
      <4>1. (TypeOK /\ CutInv)' => Views'
        BY ViewIs, PTL
      <4>2. QED BY <1>2, <3>2, <4>1 DEF Inv, Views
    <3>5. QED BY <1>2, <2>1, <3>1, <3>2, <3>3, <3>4 DEF Inv, KeptInv
  <2>3. View' = [b \in Position |-> IF b \in written' \ written THEN Source[b] ELSE View[b]]
    BY <2>2 DEF View
  <2>4. QED BY <2>1, <2>3 DEF Promise!Set
<1>3. QED
  BY <1>1, <1>2, TapeInvariant, PTL DEF Spec, KeepsPromise, Promise!Spec

-----------------------------------------------------------------------------
(* The array of controls and its cursor.                                    *)

\* The gates that the array's bytes should have.
Kept == [g \in GatesFor(count_) |-> IF g < count_ THEN contents[g] ELSE 0]

\* A cursor that has read so far ends a byte with what it has cached, which are the
\* gates that follow its position.
CursorInv ==
  cursor # << >> =>
    /\ cursor = [position |-> cursor.position, next_byte |-> cursor.next_byte,
                 cached_gates |-> cursor.cached_gates, cached_byte |-> cursor.cached_byte]
    /\ cursor.position \in 0 .. count_ /\ cursor.next_byte \in Int
    /\ cursor.cached_gates \in 0 .. 4
    /\ cursor.cached_byte = [g \in ByteGates |-> cursor.cached_byte[g]]
    /\ cursor.position < count_ =>
         /\ 4 * cursor.next_byte = cursor.position + cursor.cached_gates
         /\ \A g \in 0 .. cursor.cached_gates - 1 :
              cursor.cached_byte[g] = bytes_[cursor.position + g]

ArrayInv == count_ \in 0 .. MaxControls /\ bytes_ = Kept /\ misread = FALSE /\ CursorInv

LEMMA SmallestNumber ==
  ASSUME NEW T, T \subseteq Nat, T # {}
  PROVE  \E m \in T : \A k \in T : m <= k
<1>1. PICK m \in T : \A k \in T : ~ (<<k, m>> \in OpToRel(<, Nat))
  BY NatLessThanWellFounded, WFMin
<1>2. \A k \in T : ~ (k < m)
  BY <1>1 DEF OpToRel
<1>3. QED BY <1>2

\* The array has whole bytes, as few as hold its controls.
LEMMA GatesAre ==
  ASSUME NEW count \in Nat
  PROVE  \E last \in Nat :
           /\ GatesFor(count) = 0 .. 4 * last - 1
           /\ count <= 4 * last /\ 4 * last < count + 4
<1> DEFINE last == (count \div 4) + (IF count % 4 # 0 THEN 1 ELSE 0)
<1>1. last \in Nat /\ count <= 4 * last /\ 4 * last < count + 4
  OBVIOUS
<1>2. GatesFor(count) = 0 .. 4 * last - 1
  BY DEF GatesFor
<1> HIDE DEF last
<1>3. QED BY <1>1, <1>2

LEMMA GatesHold ==
  ASSUME NEW count \in Nat
  PROVE  /\ \A g \in 0 .. count - 1 : g \in GatesFor(count)
         /\ \A k \in Nat, g \in ByteGates : 4 * k < count => 4 * k + g \in GatesFor(count)
         /\ \A g \in GatesFor(count) : g \in Nat
<1>1. PICK last \in Nat : /\ GatesFor(count) = 0 .. 4 * last - 1
                          /\ count <= 4 * last /\ 4 * last < count + 4
  BY GatesAre
<1>2. ASSUME NEW k \in Nat, NEW g \in ByteGates, 4 * k < count  PROVE 4 * k + g \in 0 .. 4 * last - 1
  BY <1>1, <1>2 DEF ByteGates
<1>3. QED BY <1>1, <1>2

\* Both parts of the array lie in G.
Movable(offset, source, size, G, shown) ==
  /\ G \subseteq Nat /\ bytes_ = [g \in G |-> shown[g]]
  /\ \A x \in 0 .. size - 1 : offset + x \in G /\ source + x \in G

Copied(offset, source, size, G, shown) ==
  [g \in G |-> IF g \in offset .. offset + size - 1 THEN shown[source + g - offset] ELSE shown[g]]

\* Before it overwrites a control, the copy has moved it: what it has moved so far
\* are the controls that were there.
LEMMA MovedIs ==
  ASSUME NEW offset \in Nat, NEW source \in Nat, NEW size \in Nat, NEW G, NEW shown,
         Movable(offset, source, size, G, shown)
  PROVE  Moved(offset, source, size) = Copied(offset, source, size, G, shown)
<1>0. /\ G \subseteq Nat /\ bytes_ = [g \in G |-> shown[g]]
      /\ \A x \in 0 .. size - 1 : offset + x \in G /\ source + x \in G
  BY DEF Movable
<1> DEFINE order == CopyOrder(offset, source, size)
           up == ~ (offset > source /\ offset - source < size)
           first(x) == IF up THEN 0 ELSE size - x
           Part(x) == [g \in G |->
                        IF g \in offset + first(x) .. offset + first(x) + x - 1
                        THEN shown[source + g - offset] ELSE shown[g]]
           Step(f) == [x \in 0 .. size |->
                         IF x = 0 THEN bytes_
                         ELSE [f[x - 1] EXCEPT ![offset + order[x]] = f[x - 1][source + order[x]]]]
<1>1. ASSUME NEW x \in 1 .. size
      PROVE  /\ order[x] = (IF up THEN x - 1 ELSE size - x) /\ order[x] \in 0 .. size - 1
             /\ first(x) \in Nat /\ first(x - 1) \in Nat
             /\ offset + order[x] \in G /\ source + order[x] \in G
             /\ ~ (source + order[x] \in offset + first(x - 1) .. offset + first(x - 1) + x - 2)
             /\ \A g \in Nat : g \in offset + first(x) .. offset + first(x) + x - 1
                  <=> g = offset + order[x]
                      \/ g \in offset + first(x - 1) .. offset + first(x - 1) + (x - 1) - 1
  <2>1. order[x] = IF up THEN x - 1 ELSE size - x
    BY DEF CopyOrder
  <2>2. order[x] \in 0 .. size - 1
    BY <2>1
  <2>3. offset + order[x] \in G /\ source + order[x] \in G
    BY <1>0, <2>2
  <2> HIDE DEF order
  <2>4. CASE up
    BY <2>1, <2>2, <2>3, <2>4
  <2>5. CASE ~ up
    BY <2>1, <2>2, <2>3, <2>5
  <2>6. QED BY <2>4, <2>5
<1>2. Part(0) = bytes_
  <2>1. first(0) \in Int
    OBVIOUS
  <2>2. \A g \in G : ~ (g \in offset + first(0) .. offset + first(0) + 0 - 1)
    BY <2>1
  <2>3. QED BY <1>0, <2>2
<1>3. ASSUME NEW x \in 1 .. size
      PROVE  Part(x) = [Part(x - 1) EXCEPT ![offset + order[x]] = Part(x - 1)[source + order[x]]]
  <2> DEFINE a == offset + first(x)
             b == offset + first(x - 1)
             p == offset + order[x]
             q == source + order[x]
  <2>1. /\ p \in G /\ q \in G /\ ~ (q \in b .. b + (x - 1) - 1) /\ source + p - offset = q
        /\ \A g \in G : g \in a .. a + x - 1 <=> g = p \/ g \in b .. b + (x - 1) - 1
    BY <1>0, <1>1
  <2>2. Part(x - 1)[q] = shown[q]
    BY <2>1
  <2>3. Part(x) = [g \in G |-> IF g \in a .. a + x - 1 THEN shown[source + g - offset] ELSE shown[g]]
    OBVIOUS
  <2>4. Part(x - 1) = [g \in G |-> IF g \in b .. b + (x - 1) - 1 THEN shown[source + g - offset] ELSE shown[g]]
    OBVIOUS
  <2> DEFINE before == Part(x - 1)
             later == [g \in G |-> IF g = p THEN shown[q] ELSE before[g]]
  <2>5. [before EXCEPT ![p] = before[q]] = later
    <3>1. DOMAIN before = G
      OBVIOUS
    <3>2. before = [g \in G |-> before[g]]
      OBVIOUS
    <3> HIDE DEF before, p, q
    <3>3. QED BY <2>1, <2>2, <3>2 DEF before
  <2>6. ASSUME NEW g \in G PROVE Part(x)[g] = later[g]
    <3>1. Part(x)[g] = IF g \in a .. a + x - 1 THEN shown[source + g - offset] ELSE shown[g]
      BY <2>3
    <3>2. before[g] = IF g \in b .. b + (x - 1) - 1 THEN shown[source + g - offset] ELSE shown[g]
      BY <2>4
    <3>3. later[g] = IF g = p THEN shown[q] ELSE before[g]
      OBVIOUS
    <3> HIDE DEF a, b, p, q, before, later, Part
    <3>4. QED BY <2>1, <3>1, <3>2, <3>3
  <2>7. Part(x) = [g \in G |-> Part(x)[g]]
    OBVIOUS
  <2> HIDE DEF a, b, p, q, first, order, Part
  <2>8. Part(x) = later
    BY <2>6, <2>7
  <2>9. QED BY <2>5, <2>8 DEF p, q
<1>4. [x \in 0 .. size |-> Part(x)] = Step([x \in 0 .. size |-> Part(x)])
  <2> DEFINE f == [x \in 0 .. size |-> Part(x)]
  <2>1. ASSUME NEW x \in 0 .. size
        PROVE  f[x] = IF x = 0 THEN bytes_
                      ELSE [f[x - 1] EXCEPT ![offset + order[x]] = f[x - 1][source + order[x]]]
    <3> HIDE DEF Part, order
    <3>1. CASE x = 0
      BY <1>2, <3>1
    <3>2. CASE x # 0
      <4>1. x \in 1 .. size /\ x - 1 \in 0 .. size
        BY <3>2
      <4>2. f[x] = Part(x) /\ f[x - 1] = Part(x - 1)
        BY <4>1
      <4> HIDE DEF f
      <4>3. QED BY <1>3, <3>2, <4>1, <4>2
    <3>3. QED BY <3>1, <3>2
  <2> HIDE DEF Part, order
  <2>2. QED BY <2>1
<1> DEFINE after == CHOOSE f : f = Step(f)
<1>5. after = Step(after)
  <2> HIDE DEF Step, Part
  <2>1. QED BY <1>4
<1>6. Moved(offset, source, size) = after[size]
  BY DEF Moved
<1>7. \A x \in 0 .. size : after[x] = Part(x)
  <2> DEFINE T == {x \in 0 .. size : after[x] # Part(x)}
  <2>1. SUFFICES T = {}
    <3> HIDE DEF Part, after
    <3>1. QED OBVIOUS
  <2>2. ASSUME T # {} PROVE FALSE
    <3>1. PICK m \in T : \A k \in T : m <= k
      <4>1. T \subseteq Nat
        OBVIOUS
      <4> HIDE DEF T
      <4>2. QED BY <2>2, <4>1, SmallestNumber
    <3> HIDE DEF Part, after
    <3>2. m \in 0 .. size /\ after[m] # Part(m)
      OBVIOUS
    <3>3. after[m] = IF m = 0 THEN bytes_
                     ELSE [after[m - 1] EXCEPT ![offset + order[m]] = after[m - 1][source + order[m]]]
      <4> HIDE DEF order
      <4>1. QED BY <1>5, <3>2
    <3> HIDE DEF order
    <3>4. CASE m = 0
      BY <1>2, <3>2, <3>3, <3>4
    <3>5. CASE m # 0
      <4>1. m - 1 \in 0 .. size /\ ~ (m <= m - 1) /\ m \in 1 .. size
        BY <3>2, <3>5
      <4>2. after[m - 1] = Part(m - 1)
        BY <3>1, <4>1
      <4>3. QED BY <1>3, <3>2, <3>3, <3>5, <4>1, <4>2
    <3>6. QED BY <3>4, <3>5
  <2>3. QED BY <2>2
<1>8. Part(size) = Copied(offset, source, size, G, shown)
  <2>1. first(size) = 0
    OBVIOUS
  <2>2. QED BY <2>1 DEF Copied
<1>9. QED
  <2> HIDE DEF Part, after
  <2>1. size \in 0 .. size
    OBVIOUS
  <2>2. QED BY <1>6, <1>7, <1>8, <2>1

\* A change that puts the intended controls in keeps the invariant.
LEMMA ChangeKeeps ==
  ASSUME ArrayInv, NEW count \in 0 .. MaxControls, NEW bytes, NEW intended,
         Change(count, bytes, intended),
         bytes = [g \in GatesFor(count) |-> IF g < count THEN intended[g] ELSE 0]
  PROVE  ArrayInv'
<1>1. /\ cursor = << >> /\ cursor' = cursor /\ misread' = misread
      /\ count_' = count /\ bytes_' = bytes /\ contents' = intended
  BY DEF Change
<1>2. Kept' = [g \in GatesFor(count) |-> IF g < count THEN intended[g] ELSE 0]
  BY <1>1 DEF Kept, GatesFor
<1>3. QED BY <1>1, <1>2 DEF ArrayInv, CursorInv

LEMMA ArrayFacts ==
  ASSUME ArrayInv
  PROVE  /\ count_ \in Nat /\ count_ \in 0 .. MaxControls /\ MaxControls \in Nat
         /\ DOMAIN bytes_ = GatesFor(count_)
         /\ \A g \in GatesFor(count_) : /\ g \in Nat
                                        /\ bytes_[g] = IF g < count_ THEN contents[g] ELSE 0
BY ControlsAssumption, GatesHold DEF ArrayInv, Kept

LEMMA ResizeKeeps ==
  ASSUME ArrayInv, NEW count \in 0 .. MaxControls, NEW value \in {0, 3}, resize(count, value)
  PROVE  ArrayInv'
<1> DEFINE intended == [i \in 0 .. count - 1 |-> IF i < count_ THEN contents[i] ELSE value]
<1>1. Change(count, Resized(count, value), intended) /\ count \in Nat
  BY ControlsAssumption DEF resize
<1>2. ASSUME NEW g \in GatesFor(count)
      PROVE  (IF g >= count THEN 0
              ELSE IF count > count_ /\ value # 0 /\ g >= count_ THEN value
              ELSE IF g \in DOMAIN bytes_ THEN bytes_[g] ELSE 0)
             = IF g < count THEN intended[g] ELSE 0
  <2>1. g \in Nat /\ count_ \in Nat
    BY <1>1, ArrayFacts, GatesHold
  <2>2. CASE g >= count
    BY <1>1, <2>1, <2>2
  <2>3. CASE g < count /\ g < count_
    <3>1. g \in GatesFor(count_)
      BY <2>1, <2>3, GatesHold
    <3>2. g \in DOMAIN bytes_ /\ bytes_[g] = contents[g] /\ intended[g] = contents[g]
      BY <1>1, <2>1, <2>3, <3>1, ArrayFacts
    <3>3. QED BY <1>1, <2>1, <2>3, <3>2
  <2>4. CASE g < count /\ g >= count_
    <3>1. intended[g] = value /\ count > count_
      BY <1>1, <2>1, <2>4
    <3>2. g \in DOMAIN bytes_ => bytes_[g] = 0
      BY <2>1, <2>4, ArrayFacts
    <3> HIDE DEF intended
    <3>3. QED BY <1>1, <2>1, <2>4, <3>1, <3>2
  <2>5. QED BY <1>1, <2>1, <2>2, <2>3, <2>4
<1>3. Resized(count, value) = [g \in GatesFor(count) |-> IF g < count THEN intended[g] ELSE 0]
  <2> HIDE DEF intended
  <2>1. QED BY <1>2 DEF Resized
<1> HIDE DEF intended
<1>4. QED BY <1>1, <1>3, ChangeKeeps

LEMMA SetKeeps ==
  ASSUME ArrayInv, NEW index \in 0 .. count_ - 1, NEW group \in Groups, NEW start \in Int,
         set(index, group, start)
  PROVE  ArrayInv'
<1> DEFINE intended == [i \in 0 .. count_ - 1 |->
               IF i \in index .. index + group - 1 THEN Pattern(start, i - index) ELSE contents[i]]
<1>1. Change(count_, Encoded(index, group, start), intended) /\ index + group <= count_
      /\ index \in Nat /\ group \in Nat
  BY ControlsAssumption DEF set
<1>2. ASSUME NEW g \in GatesFor(count_)
      PROVE  (IF g \in index .. index + group - 1 THEN Pattern(start, g - index) ELSE bytes_[g])
             = IF g < count_ THEN intended[g] ELSE 0
  <2>1. g \in Nat /\ count_ \in Nat /\ bytes_[g] = IF g < count_ THEN contents[g] ELSE 0
    BY ArrayFacts
  <2>2. CASE g < count_
    <3>1. g \in 0 .. count_ - 1
      BY <2>1, <2>2
    <3>2. intended[g] = IF g \in index .. index + group - 1 THEN Pattern(start, g - index) ELSE contents[g]
      BY <3>1
    <3>3. QED BY <2>1, <2>2, <3>2
  <2>3. CASE ~ (g < count_)
    <3>1. ~ (g \in index .. index + group - 1)
      BY <1>1, <2>1, <2>3
    <3>2. QED BY <2>1, <2>3, <3>1
  <2>4. QED BY <2>2, <2>3
<1>3. Encoded(index, group, start) = [g \in GatesFor(count_) |-> IF g < count_ THEN intended[g] ELSE 0]
  <2>1. DOMAIN bytes_ = GatesFor(count_)
    BY ArrayFacts
  <2> HIDE DEF intended
  <2>2. QED BY <1>2, <2>1 DEF Encoded
<1> HIDE DEF intended
<1>4. QED BY <1>1, <1>3, ArrayFacts, ChangeKeeps

LEMMA CopyKeepsControls ==
  ASSUME ArrayInv, NEW offset \in 0 .. count_, NEW source \in 0 .. count_, NEW size \in Nat,
         copy_from(offset, source, size)
  PROVE  ArrayInv'
<1> DEFINE intended == [i \in 0 .. count_ - 1 |->
               IF i \in offset .. offset + size - 1 THEN contents[source + i - offset]
               ELSE contents[i]]
           shown == [g \in GatesFor(count_) |-> IF g < count_ THEN contents[g] ELSE 0]
           copied == Copied(offset, source, size, GatesFor(count_), shown)
<1>1. /\ Change(count_, Moved(offset, source, size), intended)
      /\ offset + size <= count_ /\ source + size <= count_
      /\ offset \in Nat /\ source \in Nat /\ count_ \in Nat
  BY ArrayFacts DEF copy_from
<1>2. Moved(offset, source, size) = copied
  <2>1. bytes_ = [g \in GatesFor(count_) |-> shown[g]] /\ GatesFor(count_) \subseteq Nat
    BY ArrayFacts DEF ArrayInv, Kept
  <2>2. \A x \in 0 .. size - 1 : offset + x \in GatesFor(count_) /\ source + x \in GatesFor(count_)
    <3>1. \A x \in 0 .. size - 1 : offset + x \in 0 .. count_ - 1 /\ source + x \in 0 .. count_ - 1
      BY <1>1
    <3>2. QED BY <1>1, <3>1, GatesHold
  <2> HIDE DEF shown
  <2>3. Movable(offset, source, size, GatesFor(count_), shown)
    BY <2>1, <2>2 DEF Movable
  <2>4. QED BY <1>1, <2>3, MovedIs
<1>3. ASSUME NEW g \in GatesFor(count_)
      PROVE  copied[g] = IF g < count_ THEN intended[g] ELSE 0
  <2>1. g \in Nat /\ shown[g] = IF g < count_ THEN contents[g] ELSE 0
    BY <1>1, GatesHold
  <2>2. CASE g \in offset .. offset + size - 1
    <3> DEFINE h == source + g - offset
    <3>1. h \in Nat /\ h < count_ /\ g < count_ /\ g \in 0 .. count_ - 1 /\ h \in 0 .. count_ - 1
      BY <1>1, <2>1, <2>2
    <3> HIDE DEF h
    <3>2. h \in GatesFor(count_)
      BY <1>1, <3>1, GatesHold
    <3>3. shown[h] = contents[h]
      BY <3>1, <3>2
    <3>4. intended[g] = contents[h] /\ copied[g] = shown[h]
      BY <2>2, <3>1 DEF h, Copied
    <3>5. QED BY <3>1, <3>3, <3>4
  <2>3. CASE ~ (g \in offset .. offset + size - 1)
    <3>1. copied[g] = shown[g]
      BY <2>3 DEF Copied
    <3>2. g < count_ => intended[g] = contents[g]
      <4>1. g < count_ => g \in 0 .. count_ - 1
        BY <1>1, <2>1
      <4>2. QED BY <2>3, <4>1
    <3> HIDE DEF copied, shown, intended
    <3>3. QED BY <2>1, <3>1, <3>2
  <2>4. QED BY <2>2, <2>3
<1>4. copied = [g \in GatesFor(count_) |-> IF g < count_ THEN intended[g] ELSE 0]
  <2> HIDE DEF intended, shown
  <2>1. copied = [g \in GatesFor(count_) |-> copied[g]]
    BY DEF Copied
  <2> HIDE DEF copied
  <2>2. QED BY <1>3, <2>1
<1> HIDE DEF intended, shown, copied
<1>5. QED BY <1>1, <1>2, <1>4, ArrayFacts, ChangeKeeps

-----------------------------------------------------------------------------
(* The cursor.                                                              *)

\* What a byte that starts before the end of the array holds.
LEMMA ByteIs ==
  ASSUME ArrayInv, NEW k \in Nat, 4 * k < count_
  PROVE  /\ ByteAt(k) = [g \in ByteGates |-> ByteAt(k)[g]]
         /\ \A g \in ByteGates : ByteAt(k)[g] = bytes_[4 * k + g]
BY DEF ByteAt

\* The control at a position is the gate that the bytes have there.
LEMMA GateIs ==
  ASSUME ArrayInv
  PROVE  \A p \in 0 .. count_ - 1 : bytes_[p] = contents[p]
<1>1. ASSUME NEW p \in 0 .. count_ - 1 PROVE bytes_[p] = contents[p]
  <2>1. p \in GatesFor(count_) /\ p < count_
    BY ArrayFacts, GatesHold
  <2>2. QED BY <2>1, ArrayFacts
<1>2. QED BY <1>1

LEMMA OpenKeeps ==
  ASSUME ArrayInv, NEW gate \in 0 .. count_, Open(gate)
  PROVE  ArrayInv'
<1>1. /\ UNCHANGED <<count_, bytes_, contents, misread>> /\ count_ \in Nat
  BY ArrayFacts DEF Open
<1>2. CursorInv'
  <2>1. CASE gate = count_
    <3>1. cursor' = [position |-> gate, next_byte |-> -1, cached_gates |-> 0,
                     cached_byte |-> [g \in ByteGates |-> 0]]
      BY <2>1 DEF Open
    <3>2. QED BY <1>1, <2>1, <3>1 DEF CursorInv
  <2>2. CASE gate # count_
    <3> DEFINE k == gate \div 4
               r == gate % 4
               byte == ShiftedDown(ByteAt(k), r)
    <3>1. cursor' = [position |-> gate, next_byte |-> k + 1, cached_gates |-> 4 - r,
                     cached_byte |-> byte]
      BY <2>2 DEF Open
    <3>2. k \in Nat /\ r \in 0 .. 3 /\ gate = 4 * k + r /\ gate \in Nat /\ gate < count_
      BY <1>1, <2>2
    <3>3. ASSUME NEW g \in 0 .. (4 - r) - 1  PROVE byte[g] = bytes_[gate + g]
      <4>1. g \in ByteGates /\ g + r \in ByteGates /\ g + r < 4 /\ 4 * k + (g + r) = gate + g /\ 4 * k < count_
        <5> HIDE DEF k, r
        <5>1. QED BY <1>1, <3>2 DEF ByteGates
      <4>2. byte[g] = ByteAt(k)[g + r]
        BY <4>1 DEF ShiftedDown
      <4>3. ByteAt(k)[g + r] = bytes_[4 * k + (g + r)]
        BY <3>2, <4>1, ByteIs
      <4>4. QED BY <4>1, <4>2, <4>3
    <3>4. byte = [g \in ByteGates |-> byte[g]]
      BY DEF ShiftedDown
    <3> HIDE DEF k, r, byte
    <3>5. k + 1 \in Int /\ 4 - r \in 0 .. 4 /\ 4 * (k + 1) = gate + (4 - r)
      BY <3>2
    <3>6. QED BY <1>1, <3>1, <3>2, <3>3, <3>4, <3>5 DEF CursorInv
  <2>3. QED BY <2>1, <2>2
<1>3. QED BY <1>1, <1>2 DEF ArrayInv, Kept, GatesFor

\* A cursor as it is between two calls that deliver so many controls.
Follows(c, amount) ==
  /\ c = [position |-> cursor.position, next_byte |-> c.next_byte,
          cached_gates |-> c.cached_gates, cached_byte |-> c.cached_byte]
  /\ c.cached_gates \in 0 .. 4 /\ c.next_byte \in Int
  /\ c.cached_byte = [g \in ByteGates |-> c.cached_byte[g]]
  /\ 4 * c.next_byte = cursor.position + amount + c.cached_gates
  /\ \A g \in 0 .. c.cached_gates - 1 : c.cached_byte[g] = bytes_[cursor.position + amount + g]

LEMMA DeliversKeeps ==
  ASSUME ArrayInv, cursor # << >>, NEW amount \in Nat, cursor.position + amount <= count_,
         NEW got, NEW next, Delivers(got, next), Follows(next, amount),
         Len(got) = amount, DOMAIN got = 1 .. amount,
         \A x \in 1 .. amount : got[x] = bytes_[cursor.position + x - 1]
  PROVE  ArrayInv'
<1> DEFINE p == cursor.position
<1>1. /\ UNCHANGED <<count_, bytes_, contents>> /\ count_ \in Nat /\ p \in Nat
      /\ p + amount \in 0 .. count_
  BY ArrayFacts DEF ArrayInv, CursorInv, Delivers
<1>2. misread' = FALSE
  <2>1. ASSUME NEW x \in 1 .. amount PROVE got[x] = contents[p + x - 1]
    <3>1. p + x - 1 \in 0 .. count_ - 1
      BY <1>1
    <3> HIDE DEF p
    <3>2. QED BY <3>1, GateIs DEF p
  <2>2. QED BY <2>1 DEF Delivers, ArrayInv
<1>3. cursor' = [position |-> p + amount, next_byte |-> next.next_byte,
                 cached_gates |-> next.cached_gates, cached_byte |-> next.cached_byte]
  BY DEF Delivers, Follows
<1>4. CursorInv'
  <2> HIDE DEF p
  <2>1. /\ cursor'.position = p + amount /\ cursor'.next_byte = next.next_byte
        /\ cursor'.cached_gates = next.cached_gates /\ cursor'.cached_byte = next.cached_byte
    BY <1>3
  <2>2. /\ next.cached_gates \in 0 .. 4 /\ next.next_byte \in Int
        /\ next.cached_byte = [g \in ByteGates |-> next.cached_byte[g]]
        /\ 4 * next.next_byte = p + amount + next.cached_gates
        /\ \A g \in 0 .. next.cached_gates - 1 : next.cached_byte[g] = bytes_[p + amount + g]
    BY DEF Follows, p
  <2>3. QED BY <1>1, <1>3, <2>1, <2>2 DEF CursorInv
<1>5. QED BY <1>1, <1>2, <1>4 DEF ArrayInv, Kept, GatesFor

LEMMA CursorFacts ==
  ASSUME ArrayInv, cursor # << >>, cursor.position < count_
  PROVE  /\ Follows(cursor, 0) /\ cursor.position \in Nat /\ count_ \in Nat
         /\ cursor.cached_gates = 0 =>
              /\ cursor.next_byte \in Nat /\ 4 * cursor.next_byte = cursor.position
<1>1. /\ cursor = [position |-> cursor.position, next_byte |-> cursor.next_byte,
                   cached_gates |-> cursor.cached_gates, cached_byte |-> cursor.cached_byte]
      /\ cursor.position \in 0 .. count_ /\ cursor.next_byte \in Int
      /\ cursor.cached_gates \in 0 .. 4
      /\ cursor.cached_byte = [g \in ByteGates |-> cursor.cached_byte[g]]
      /\ 4 * cursor.next_byte = cursor.position + cursor.cached_gates
      /\ \A g \in 0 .. cursor.cached_gates - 1 :
           cursor.cached_byte[g] = bytes_[cursor.position + g]
  BY DEF ArrayInv, CursorInv
<1>2. cursor.position \in Nat /\ count_ \in Nat /\ cursor.position + 0 = cursor.position
  BY <1>1, ArrayFacts
<1>3. \A g \in 0 .. cursor.cached_gates - 1 : cursor.position + 0 + g = cursor.position + g
  BY <1>1, <1>2
<1>4. Follows(cursor, 0)
  BY <1>1, <1>2, <1>3 DEF Follows
<1>5. cursor.cached_gates = 0 => cursor.next_byte \in Nat /\ 4 * cursor.next_byte = cursor.position
  <2> DEFINE k == cursor.next_byte
  <2>1. k \in Int /\ cursor.cached_gates = 0 => 4 * k = cursor.position
    BY <1>1, <1>2
  <2>2. k \in Int
    BY <1>1
  <2> HIDE DEF k
  <2>3. cursor.cached_gates = 0 => k \in Nat
    BY <1>2, <2>1, <2>2
  <2>4. QED BY <2>1, <2>2, <2>3 DEF k
<1>6. QED BY <1>2, <1>4, <1>5

LEMMA LoadedIs ==
  ASSUME ArrayInv, cursor # << >>, cursor.position < count_
  PROVE  Follows(Loaded, 0) /\ Loaded.cached_gates \in 1 .. 4
<1>1. /\ Follows(cursor, 0) /\ cursor.position \in Nat
      /\ cursor.cached_gates = 0 =>
           /\ cursor.next_byte \in Nat /\ 4 * cursor.next_byte = cursor.position
  BY CursorFacts
<1>2. CASE cursor.cached_gates # 0
  <2>1. Loaded = cursor
    BY <1>2 DEF Loaded
  <2>2. cursor.cached_gates \in 0 .. 4
    BY <1>1 DEF Follows
  <2>3. cursor.cached_gates \in 1 .. 4
    BY <1>2, <2>2
  <2>4. QED BY <1>1, <2>1, <2>3
<1>3. CASE cursor.cached_gates = 0
  <2> DEFINE k == cursor.next_byte
             p == cursor.position
  <2>1. Loaded = [position |-> p, next_byte |-> k + 1, cached_gates |-> 4,
                  cached_byte |-> ByteAt(k)]
    BY <1>1, <1>3 DEF Loaded, Follows
  <2>2. k \in Nat /\ 4 * k = p /\ p \in Nat /\ 4 * k < count_
    BY <1>1, <1>3
  <2>3. /\ ByteAt(k) = [g \in ByteGates |-> ByteAt(k)[g]]
        /\ \A g \in ByteGates : ByteAt(k)[g] = bytes_[4 * k + g]
    BY <2>2, ByteIs
  <2>4. ASSUME NEW g \in 0 .. 3 PROVE ByteAt(k)[g] = bytes_[p + 0 + g]
    <3> HIDE DEF k, p
    <3>1. g \in ByteGates /\ 4 * k + g = p + 0 + g
      BY <2>2 DEF ByteGates
    <3>2. QED BY <2>3, <3>1
  <2>5. 4 * (k + 1) = p + 0 + 4 /\ 4 \in 0 .. 4 /\ 4 \in 1 .. 4 /\ 4 - 1 = 3 /\ k + 1 \in Int
    <3> HIDE DEF k, p
    <3>1. QED BY <2>2
  <2>6. /\ Loaded.next_byte = k + 1 /\ Loaded.cached_gates = 4 /\ Loaded.cached_byte = ByteAt(k)
    BY <2>1
  <2>7. QED BY <2>1, <2>3, <2>4, <2>5, <2>6 DEF Follows
<1>4. QED BY <1>2, <1>3

LEMMA CursorChanged ==
  ASSUME NEW r, NEW p, NEW k, NEW amount, NEW b, NEW x, NEW y,
         r = [position |-> p, next_byte |-> k, cached_gates |-> amount, cached_byte |-> b]
  PROVE  /\ [r EXCEPT !.cached_byte = x, !.cached_gates = y] =
                 [position |-> p, next_byte |-> k, cached_gates |-> y, cached_byte |-> x]
         /\ [r EXCEPT !.next_byte = y, !.cached_byte = x] =
                 [position |-> p, next_byte |-> y, cached_gates |-> amount, cached_byte |-> x]
<1> DEFINE Fields == {"position", "next_byte", "cached_gates", "cached_byte"}
           q1 == [r EXCEPT !.cached_byte = x, !.cached_gates = y]
           s1 == [position |-> p, next_byte |-> k, cached_gates |-> y, cached_byte |-> x]
           q2 == [r EXCEPT !.next_byte = y, !.cached_byte = x]
           s2 == [position |-> p, next_byte |-> y, cached_gates |-> amount, cached_byte |-> x]
<1>1. /\ q1 = [z \in Fields |-> q1[z]] /\ q2 = [z \in Fields |-> q2[z]]
      /\ s1 = [z \in Fields |-> s1[z]] /\ s2 = [z \in Fields |-> s2[z]]
  OBVIOUS
<1>2. \A z \in Fields : q1[z] = s1[z] /\ q2[z] = s2[z]
  <2>1. /\ q1.position = p /\ q1.next_byte = k /\ q1.cached_gates = y /\ q1.cached_byte = x
        /\ q2.position = p /\ q2.next_byte = y /\ q2.cached_gates = amount /\ q2.cached_byte = x
    OBVIOUS
  <2>2. /\ s1.position = p /\ s1.next_byte = k /\ s1.cached_gates = y /\ s1.cached_byte = x
        /\ s2.position = p /\ s2.next_byte = y /\ s2.cached_gates = amount /\ s2.cached_byte = x
    OBVIOUS
  <2> HIDE DEF q1, s1, q2, s2
  <2>3. QED BY <2>1, <2>2
<1> HIDE DEF q1, s1, q2, s2
<1>3. q1 = s1
  BY <1>1, <1>2
<1>4. q2 = s2
  BY <1>1, <1>2
<1>5. QED BY <1>3, <1>4 DEF q1, q2, s1, s2

LEMMA Next1Keeps ==
  ASSUME ArrayInv, Next1
  PROVE  ArrayInv'
<1> DEFINE L == Loaded
           p == cursor.position
           next == [L EXCEPT !.cached_byte = ShiftedDown(@, 1), !.cached_gates = @ - 1]
           got == <<L.cached_byte[0]>>
<1>1. cursor # << >> /\ p < count_ /\ Delivers(got, next)
  BY DEF Next1
<1>2. Follows(L, 0) /\ L.cached_gates \in 1 .. 4 /\ p \in Nat /\ count_ \in Nat
  BY <1>1, LoadedIs, CursorFacts
<1>3. /\ L = [position |-> p, next_byte |-> L.next_byte,
              cached_gates |-> L.cached_gates, cached_byte |-> L.cached_byte]
      /\ L.next_byte \in Int /\ 4 * L.next_byte = p + 0 + L.cached_gates
      /\ \A g \in 0 .. L.cached_gates - 1 : L.cached_byte[g] = bytes_[p + 0 + g]
  BY <1>2 DEF Follows
<1> DEFINE byte == ShiftedDown(L.cached_byte, 1)
           left == L.cached_gates
<1>4. next = [position |-> p, next_byte |-> L.next_byte, cached_gates |-> left - 1, cached_byte |-> byte]
  <2>1. next = [L EXCEPT !.cached_byte = byte, !.cached_gates = left - 1]
    OBVIOUS
  <2> DEFINE fewer == left - 1
             k == L.next_byte
             b == L.cached_byte
  <2>2. L = [position |-> p, next_byte |-> k, cached_gates |-> left, cached_byte |-> b]
    BY <1>3
  <2> HIDE DEF L, next, byte, left, fewer, k, b, p
  <2>3. next = [position |-> p, next_byte |-> k, cached_gates |-> fewer, cached_byte |-> byte]
    BY ONLY <2>1, <2>2, CursorChanged DEF fewer
  <2>4. QED BY <2>3 DEF fewer, k
<1>5. ASSUME NEW g \in 0 .. (left - 1) - 1 PROVE byte[g] = bytes_[p + 1 + g]
  <2> HIDE DEF L, p, left
  <2>1. g \in ByteGates /\ g + 1 < 4 /\ g + 1 \in 0 .. left - 1 /\ p + 0 + (g + 1) = p + 1 + g
    BY <1>2 DEF ByteGates, left
  <2>2. byte[g] = L.cached_byte[g + 1]
    BY <2>1 DEF ShiftedDown
  <2>3. L.cached_byte[g + 1] = bytes_[p + 0 + (g + 1)]
    BY <1>3, <2>1 DEF left
  <2>4. QED BY <2>1, <2>2, <2>3
<1>6. byte = [g \in ByteGates |-> byte[g]]
  BY DEF ShiftedDown
<1>7. left - 1 \in 0 .. 4 /\ 4 * L.next_byte = p + 1 + (left - 1) /\ p + 1 <= count_ /\ 0 \in 0 .. left - 1
      /\ p + 0 + 0 = p + 1 - 1
  <2> HIDE DEF L, p
  <2>1. QED BY <1>1, <1>2, <1>3
<1>8. Follows(next, 1)
  <2> HIDE DEF L, byte, left, next
  <2>1. QED BY <1>3, <1>4, <1>5, <1>6, <1>7 DEF Follows
<1>9. Len(got) = 1 /\ DOMAIN got = 1 .. 1 /\ got[1] = bytes_[p + 1 - 1]
  <2>1. got[1] = L.cached_byte[0]
    OBVIOUS
  <2>2. L.cached_byte[0] = bytes_[p + 0 + 0]
    BY <1>3, <1>7
  <2>3. Len(got) = 1 /\ DOMAIN got = 1 .. 1
    OBVIOUS
  <2> HIDE DEF got, L, p
  <2>4. QED BY <1>7, <2>1, <2>2, <2>3
<1>10. QED
  <2> HIDE DEF got, next
  <2>1. \A x \in 1 .. 1 : got[x] = bytes_[cursor.position + x - 1]
    BY <1>9
  <2>2. QED BY <1>1, <1>7, <1>8, <1>9, <2>1, DeliversKeeps

LEMMA Next4Keeps ==
  ASSUME ArrayInv, Next4
  PROVE  ArrayInv'
<1> DEFINE p == cursor.position
           left == cursor.cached_gates
           k == cursor.next_byte
           cached == cursor.cached_byte
           following == ByteAt(k)
           whole(byte) == [x \in 1 .. 4 |-> byte[x - 1]]
           joint == [x \in 1 .. 4 |-> IF x <= left THEN cached[x - 1] ELSE following[x - 1 - left]]
<1>1. cursor # << >> /\ p + 4 <= count_ /\ p \in Int
  BY DEF Next4, ArrayInv, CursorInv
<1>2. p < count_ /\ p \in Nat /\ count_ \in Nat
  <2>1. count_ \in Nat
    BY ArrayFacts
  <2>2. p < count_
    BY <1>1, <2>1
  <2>3. QED BY <1>1, <2>1, <2>2, CursorFacts
<1>3. /\ cursor = [position |-> p, next_byte |-> k, cached_gates |-> left, cached_byte |-> cached]
      /\ left \in 0 .. 4 /\ k \in Int /\ cached = [g \in ByteGates |-> cached[g]]
      /\ 4 * k = p + 0 + left
      /\ \A g \in 0 .. left - 1 : cached[g] = bytes_[p + 0 + g]
  BY <1>1, <1>2, CursorFacts DEF Follows
<1>4. left < 4 => k \in Nat /\ 4 * k = p + left /\ 4 * k < count_
  <2> HIDE DEF p, k, left
  <2>1. QED BY <1>1, <1>2, <1>3
<1>5. /\ following = [g \in ByteGates |-> following[g]]
      /\ left < 4 => \A g \in 0 .. 3 : following[g] = bytes_[p + left + g]
  <2>1. following = [g \in ByteGates |-> following[g]]
    BY DEF ByteAt
  <2>2. ASSUME left < 4, NEW g \in 0 .. 3 PROVE following[g] = bytes_[p + left + g]
    <3>1. g \in ByteGates
      BY DEF ByteGates
    <3>2. following[g] = bytes_[4 * k + g]
      BY <3>1 DEF ByteAt
    <3>3. 4 * k + g = p + left + g
      BY <1>4, <2>2
    <3>4. QED BY <3>2, <3>3
  <2>3. QED BY <2>1, <2>2
<1>6. ASSUME NEW byte, \A g \in 0 .. 3 : byte[g] = bytes_[p + g]
      PROVE  Len(whole(byte)) = 4 /\ DOMAIN whole(byte) = 1 .. 4
             /\ \A x \in 1 .. 4 : whole(byte)[x] = bytes_[p + x - 1]
  <2>1. whole(byte) \in Seq({byte[g] : g \in 0 .. 3}) /\ DOMAIN whole(byte) = 1 .. 4 /\ Len(whole(byte)) = 4
    OBVIOUS
  <2>2. ASSUME NEW x \in 1 .. 4 PROVE whole(byte)[x] = bytes_[p + x - 1]
    <3>1. x - 1 \in 0 .. 3 /\ p + (x - 1) = p + x - 1 /\ whole(byte)[x] = byte[x - 1]
      BY <1>2
    <3>2. QED BY <1>6, <3>1
  <2>3. QED BY <2>1, <2>2
<1>7. CASE left = 0
  <2> DEFINE next == [cursor EXCEPT !.next_byte = @ + 1]
  <2>1. Delivers(whole(following), next)
    BY <1>7 DEF Next4
  <2>2. \A g \in 0 .. 3 : following[g] = bytes_[p + g]
    <3>1. \A g \in 0 .. 3 : p + left + g = p + g
      BY <1>2, <1>7
    <3>2. QED BY <1>5, <1>7, <3>1
  <2>3. Follows(next, 4)
    <3> HIDE DEF p, left, k, cached
    <3>1. next = [position |-> p, next_byte |-> k + 1, cached_gates |-> 0, cached_byte |-> cached]
      BY <1>3, <1>7
    <3>2. 4 * (k + 1) = p + 4 + 0 /\ k + 1 \in Int /\ 0 \in 0 .. 4
      BY <1>2, <1>3, <1>7
    <3> HIDE DEF next
    <3>3. QED BY <1>3, <3>1, <3>2 DEF Follows, p
  <2> DEFINE got == whole(following)
  <2>4. /\ Len(got) = 4 /\ DOMAIN got = 1 .. 4
        /\ \A x \in 1 .. 4 : got[x] = bytes_[cursor.position + x - 1]
    <3> HIDE DEF following
    <3>1. QED BY <1>6, <2>2
  <2> HIDE DEF got, next
  <2>5. QED BY <1>1, <2>1, <2>3, <2>4, DeliversKeeps DEF got
<1>8. CASE left = 4
  <2> DEFINE next == [cursor EXCEPT !.cached_gates = 0]
  <2>1. Delivers(whole(cached), next)
    BY <1>8 DEF Next4
  <2>2. \A g \in 0 .. 3 : cached[g] = bytes_[p + g]
    <3>1. \A g \in 0 .. 3 : p + 0 + g = p + g /\ g \in 0 .. left - 1
      BY <1>2, <1>8
    <3>2. QED BY <1>3, <3>1
  <2>3. Follows(next, 4)
    <3> HIDE DEF p, left, k, cached
    <3>1. next = [position |-> p, next_byte |-> k, cached_gates |-> 0, cached_byte |-> cached]
      BY <1>3
    <3>2. 4 * k = p + 4 + 0 /\ 0 \in 0 .. 4
      BY <1>2, <1>3, <1>8
    <3> HIDE DEF next
    <3>3. QED BY <1>3, <3>1, <3>2 DEF Follows, p
  <2> DEFINE got == whole(cached)
  <2>4. /\ Len(got) = 4 /\ DOMAIN got = 1 .. 4
        /\ \A x \in 1 .. 4 : got[x] = bytes_[cursor.position + x - 1]
    <3> HIDE DEF cached
    <3>1. QED BY <1>6, <2>2
  <2> HIDE DEF got, next
  <2>5. QED BY <1>1, <2>1, <2>3, <2>4, DeliversKeeps DEF got
<1>9. CASE left \in 1 .. 3
  <2> DEFINE byte == ShiftedDown(following, 4 - left)
             next == [cursor EXCEPT !.next_byte = @ + 1, !.cached_byte = byte]
  <2>1. Delivers(joint, next)
    <3>1. ~ (left = 0) /\ ~ (left = 4)
      BY <1>9
    <3>2. QED BY <3>1 DEF Next4
  <2>2. Len(joint) = 4 /\ DOMAIN joint = 1 .. 4
    OBVIOUS
  <2>3. ASSUME NEW x \in 1 .. 4 PROVE joint[x] = bytes_[p + x - 1]
    <3>1. CASE x <= left
      <4>1. x - 1 \in 0 .. left - 1 /\ p + 0 + (x - 1) = p + x - 1
        BY <1>2, <1>9, <3>1
      <4>2. joint[x] = cached[x - 1]
        BY <3>1
      <4>3. QED BY <1>3, <4>1, <4>2
    <3>2. CASE ~ (x <= left)
      <4>1. x - 1 - left \in 0 .. 3 /\ p + left + (x - 1 - left) = p + x - 1 /\ left < 4
        BY <1>2, <1>9, <3>2
      <4>2. joint[x] = following[x - 1 - left]
        BY <3>2
      <4> HIDE DEF following, joint
      <4>3. QED BY <1>5, <4>1, <4>2
    <3>3. QED BY <3>1, <3>2
  <2>4. ASSUME NEW g \in 0 .. left - 1 PROVE byte[g] = bytes_[p + 4 + g]
    <3>1. /\ g \in ByteGates /\ g + (4 - left) < 4 /\ g + (4 - left) \in 0 .. 3
          /\ p + left + (g + (4 - left)) = p + 4 + g /\ left < 4
      BY <1>2, <1>9 DEF ByteGates
    <3>2. byte[g] = following[g + (4 - left)]
      BY <3>1 DEF ShiftedDown
    <3> HIDE DEF following, byte
    <3>3. QED BY <1>5, <3>1, <3>2
  <2>5. byte = [g \in ByteGates |-> byte[g]]
    BY DEF ShiftedDown
  <2>6. Follows(next, 4)
    <3> HIDE DEF p, left, k, cached, byte
    <3>1. next = [position |-> p, next_byte |-> k + 1, cached_gates |-> left, cached_byte |-> byte]
      <4>1. next = [cursor EXCEPT !.next_byte = k + 1, !.cached_byte = byte]
        BY DEF k
      <4> HIDE DEF next
      <4>2. QED BY <1>3, <4>1, CursorChanged
    <3>2. 4 * (k + 1) = p + 4 + left /\ k + 1 \in Int
      BY <1>2, <1>3
    <3> HIDE DEF next
    <3>3. QED BY <1>3, <2>4, <2>5, <3>1, <3>2 DEF Follows, p
  <2>7. \A x \in 1 .. 4 : joint[x] = bytes_[cursor.position + x - 1]
    BY <2>3
  <2> HIDE DEF joint, next
  <2>8. QED BY <1>1, <2>1, <2>2, <2>6, <2>7, DeliversKeeps
<1>10. left \in 1 .. 3 \/ left = 0 \/ left = 4
  BY <1>3
<1>11. QED BY <1>7, <1>8, <1>9, <1>10

\* The inductive invariant of the packed array and its cursor.
THEOREM ArrayInvariant == ArraySpec => []ArrayInv
<1>1. ArrayInit => ArrayInv
  <2>1. SUFFICES ASSUME ArrayInit PROVE ArrayInv
    OBVIOUS
  <2>2. \A g \in GatesFor(count_) : g < count_ => contents[g] = Pattern(1, g)
    <3>1. count_ \in Nat
      BY <2>1, ControlsAssumption DEF ArrayInit
    <3>2. \A g \in GatesFor(count_) : g < count_ => g \in 0 .. count_ - 1
      BY <3>1, GatesHold
    <3>3. QED BY <2>1, <3>2 DEF ArrayInit
  <2>3. QED BY <2>1, <2>2 DEF ArrayInit, ArrayInv, Kept, CursorInv
<1>2. ArrayInv /\ [ArrayNext]_array_vars => ArrayInv'
  <2>1. SUFFICES ASSUME ArrayInv, [ArrayNext]_array_vars PROVE ArrayInv'
    OBVIOUS
  <2>2. ASSUME NEW offset \in 0 .. count_, NEW source \in 0 .. count_, NEW size \in 2 .. MaxControls,
               copy_from(offset, source, size)
        PROVE  ArrayInv'
    <3>1. size \in Nat
      BY ControlsAssumption
    <3>2. QED BY <2>1, <2>2, <3>1, CopyKeepsControls
  <2>3. CASE UNCHANGED array_vars
    BY <2>1, <2>3 DEF array_vars, ArrayInv, Kept, GatesFor, CursorInv
  <2>4. 2 \in Int
    OBVIOUS
  <2>5. QED BY <2>1, <2>2, <2>3, <2>4, ResizeKeeps, SetKeeps, OpenKeeps, Next1Keeps, Next4Keeps
            DEF ArrayNext
<1>3. QED BY <1>1, <1>2, PTL DEF ArraySpec

\* Whatever was resized, set and moved, the bytes hold the controls that were put in
\* and zeros after them, and every cursor delivers them, for every number of controls.
THEOREM ControlsKeptHolds == ArraySpec => []ControlsKept
<1>1. ArrayInv => ControlsKept
  BY DEF ArrayInv, Kept, ControlsKept
<1>2. QED BY <1>1, ArrayInvariant, PTL

=============================================================================
