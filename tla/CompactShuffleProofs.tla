------------------------ MODULE CompactShuffleProofs ------------------------
(***************************************************************************)
(* Proofs about the compactions and the shuffle that is made of them.      *)
(* TightCompact: whatever the number of records and threads, the selection *)
(* and the order in which the threads' jobs end, every call compacts its   *)
(* records, and every job finds its worker idle.  RecursiveShuffle: its    *)
(* threads keep apart, and the order that it ends with is decided by its   *)
(* draws.  OrderCompact: over a cleared array, the selected records come   *)
(* to the front in their order.                                            *)
(***************************************************************************)
EXTENDS RecursiveShuffle, OrderCompact, SumProofs, SequenceTheorems

-----------------------------------------------------------------------------
(* Recursive functions.                                                     *)

\* mu gives every argument a size.
Measure(mu, S) == \A x \in S : mu[x] \in Nat

\* f and g agree on the arguments of S that mu makes less than m.
AgreeBelow(f, g, S, mu, m) == \A y \in S : mu[y] < m => f[y] = g[y]

\* H[x][g] is what the recursion has at x if it has g for smaller arguments.
Descends(H, S, V, mu) ==
  \A x \in S : \A g, h \in [S -> V] : AgreeBelow(g, h, S, mu, mu[x]) => H[x][g] = H[x][h]

\* H is a recursion over S, with values in V.
Recursion(H, S, V, mu) ==
  /\ mu \in [S -> Nat] /\ H \in [S -> [[S -> V] -> V]] /\ V # {}
  /\ Descends(H, S, V, mu)

SolvedBelow(g, H, S, V, mu, m) ==
  g \in [S -> V] /\ \A x \in S : mu[x] < m => g[x] = H[x][g]

LEMMA SolveOneMore ==
  ASSUME NEW S, NEW V, NEW mu \in [S -> Nat], NEW H \in [S -> [[S -> V] -> V]],
         Descends(H, S, V, mu), NEW m \in Nat, NEW g, SolvedBelow(g, H, S, V, mu, m)
  PROVE  \E h : SolvedBelow(h, H, S, V, mu, m + 1)
<1> DEFINE h == [x \in S |-> IF mu[x] = m THEN H[x][g] ELSE g[x]]
<1>1. h \in [S -> V] /\ g \in [S -> V]
  BY DEF SolvedBelow
<1>2. AgreeBelow(g, h, S, mu, m)
  BY DEF AgreeBelow
<1>3. ASSUME NEW x \in S, mu[x] < m + 1 PROVE h[x] = H[x][h]
  <2>1. AgreeBelow(g, h, S, mu, mu[x])
    BY <1>2, <1>3 DEF AgreeBelow
  <2>2. H[x][g] = H[x][h]
    BY <1>1, <2>1 DEF Descends
  <2>3. CASE mu[x] = m
    BY <2>2, <2>3
  <2>4. CASE mu[x] # m
    <3>1. mu[x] < m
      <4>1. mu[x] \in Nat
        OBVIOUS
      <4>2. \A a \in Nat : a < m + 1 /\ a # m => a < m
        OBVIOUS
      <4>3. QED BY <1>3, <2>4, <4>1, <4>2
    <3>2. g[x] = H[x][g] /\ h[x] = g[x]
      BY <2>4, <3>1 DEF SolvedBelow
    <3>3. QED BY <2>2, <3>2
  <2>5. QED BY <2>3, <2>4
<1>4. SolvedBelow(h, H, S, V, mu, m + 1)
  <2> HIDE DEF h
  <2>1. QED BY <1>1, <1>3 DEF SolvedBelow
<1>5. QED BY <1>4

LEMMA SolvedAlike ==
  ASSUME NEW S, NEW V, NEW mu, Measure(mu, S), NEW H, Descends(H, S, V, mu), NEW m \in Nat, NEW k \in Nat, NEW g, NEW h,
         SolvedBelow(g, H, S, V, mu, m), SolvedBelow(h, H, S, V, mu, k)
  PROVE  \A x \in S : mu[x] < m /\ mu[x] < k => g[x] = h[x]
<1> DEFINE bad == {x \in S : mu[x] < m /\ mu[x] < k /\ g[x] # h[x]}
           sizes == {mu[x] : x \in bad}
<1>1. SUFFICES ASSUME bad # {} PROVE FALSE
  OBVIOUS
<1>2. PICK s \in sizes : \A t \in sizes : s <= t
  <2>1. sizes \subseteq Nat
    BY DEF Measure
  <2>2. sizes # {}
    <3>1. PICK x : x \in bad
      BY <1>1
    <3>2. mu[x] \in sizes
      BY <3>1
    <3>3. QED BY <3>2
  <2>3. QED
    <3> HIDE DEF sizes
    <3>1. QED BY <2>1, <2>2, LeastNumber
<1>3. PICK x \in bad : s = mu[x]
  OBVIOUS
<1>4. AgreeBelow(g, h, S, mu, mu[x])
  <2>1. ASSUME NEW y \in S, mu[y] < mu[x], g[y] # h[y] PROVE FALSE
    <3>1. mu[y] \in Nat /\ mu[x] \in Nat /\ mu[x] < m /\ mu[x] < k
      BY <1>3 DEF Measure
    <3>2. mu[y] < m /\ mu[y] < k
      BY <2>1, <3>1
    <3>3. y \in bad
      BY <2>1, <3>2
    <3>4. mu[y] \in sizes
      BY <3>3
    <3>5. mu[x] <= mu[y]
      BY <1>2, <1>3, <3>4
    <3>6. QED BY <2>1, <3>1, <3>5
  <2>2. QED BY <2>1 DEF AgreeBelow
<1>5. H[x][g] = H[x][h]
  BY <1>4 DEF Descends, SolvedBelow
<1>6. g[x] = H[x][g] /\ h[x] = H[x][h]
  BY <1>3 DEF SolvedBelow
<1>7. QED BY <1>3, <1>5, <1>6

\* A recursion whose argument becomes less each time has a solution.
LEMMA RecursionSolved ==
  ASSUME NEW S, NEW V, NEW mu, NEW H, Recursion(H, S, V, mu)
  PROVE  \E f \in [S -> V] : \A x \in S : f[x] = H[x][f]
<1>0. PICK v \in V : mu \in [S -> Nat] /\ H \in [S -> [[S -> V] -> V]] /\ Descends(H, S, V, mu)
  BY DEF Recursion
<1> DEFINE bad == {m \in Nat : ~ \E g : SolvedBelow(g, H, S, V, mu, m)}
<1>1. bad = {}
  <2>1. SUFFICES ASSUME bad # {} PROVE FALSE
    OBVIOUS
  <2>2. PICK m \in bad : \A k \in bad : m <= k
    BY <2>1, LeastNumber
  <2>3. m # 0
    <3>1. SolvedBelow([x \in S |-> v], H, S, V, mu, 0)
      BY <1>0 DEF SolvedBelow
    <3>2. QED BY <2>2, <3>1
  <2>4. PICK g : SolvedBelow(g, H, S, V, mu, m - 1)
    <3>1. m - 1 \in Nat /\ ~ (m <= m - 1)
      BY <2>2, <2>3
    <3>2. QED BY <2>2, <3>1
  <2>5. \E h : SolvedBelow(h, H, S, V, mu, (m - 1) + 1)
    <3>1. m - 1 \in Nat
      BY <2>2, <2>3
    <3>2. QED BY <1>0, <2>4, <3>1, SolveOneMore
  <2>6. (m - 1) + 1 = m
    BY <2>2
  <2>7. QED BY <2>2, <2>5, <2>6
<1> DEFINE G(m) == CHOOSE g : SolvedBelow(g, H, S, V, mu, m)
           f == [x \in S |-> G(mu[x] + 1)[x]]
<1>2. ASSUME NEW m \in Nat PROVE SolvedBelow(G(m), H, S, V, mu, m)
  BY <1>1, <1>2
<1> HIDE DEF G, bad
<1>3. f \in [S -> V]
  <2>1. ASSUME NEW x \in S PROVE G(mu[x] + 1)[x] \in V
    <3>1. mu[x] + 1 \in Nat
      BY <1>0
    <3>2. QED BY <1>2, <3>1 DEF SolvedBelow
  <2>2. QED BY <2>1
<1>4. ASSUME NEW x \in S PROVE f[x] = H[x][f]
  <2> DEFINE g == G(mu[x] + 1)
  <2>1. mu[x] + 1 \in Nat /\ SolvedBelow(g, H, S, V, mu, mu[x] + 1)
    BY <1>0, <1>2
  <2>2. AgreeBelow(g, f, S, mu, mu[x])
    <3>1. ASSUME NEW y \in S, mu[y] < mu[x] PROVE g[y] = f[y]
      <4>1. mu[y] + 1 \in Nat /\ SolvedBelow(G(mu[y] + 1), H, S, V, mu, mu[y] + 1)
        BY <1>0, <1>2
      <4>2. mu[y] < mu[x] + 1 /\ mu[y] < mu[y] + 1
        BY <1>0, <3>1
      <4>3. g[y] = G(mu[y] + 1)[y]
        <5>1. \A z \in S : mu[z] < mu[x] + 1 /\ mu[z] < mu[y] + 1 => g[z] = G(mu[y] + 1)[z]
          <6>1. PICK j \in Nat, k \in Nat : j = mu[x] + 1 /\ k = mu[y] + 1
            BY <1>0, <2>1, <4>1
          <6>2. PICK d, e : d = g /\ e = G(mu[y] + 1)
            OBVIOUS
          <6>3. SolvedBelow(d, H, S, V, mu, j) /\ SolvedBelow(e, H, S, V, mu, k)
            BY <2>1, <4>1, <6>1, <6>2
          <6>4. \A z \in S : mu[z] < j /\ mu[z] < k => d[z] = e[z]
            <7>1. Measure(mu, S)
              BY <1>0 DEF Measure
            <7>2. QED BY <1>0, <6>3, <7>1, SolvedAlike
          <6>5. QED BY <6>1, <6>2, <6>4
        <5>2. QED BY <4>2, <5>1
      <4>4. QED BY <4>3
    <3>2. QED BY <3>1 DEF AgreeBelow
  <2>3. g \in [S -> V] /\ g[x] = H[x][g]
    <3>1. mu[x] < mu[x] + 1
      BY <1>0
    <3>2. QED BY <2>1, <3>1 DEF SolvedBelow
  <2>4. H[x][g] = H[x][f]
    <3> HIDE DEF f, g
    <3>1. QED BY <1>0, <1>3, <2>2, <2>3 DEF Descends
  <2>5. QED BY <2>3, <2>4
<1>5. QED BY <1>3, <1>4

-----------------------------------------------------------------------------
(* Powers of two.                                                           *)

LEMMA PowSolved ==
  \E f \in [Nat -> Nat] : \A k \in Nat : f[k] = IF k <= 2 THEN k \div 2 ELSE 2 * f[(k + 1) \div 2]
<1> DEFINE H == [k \in Nat |-> [g \in [Nat -> Nat] |->
                  IF k <= 2 THEN k \div 2 ELSE 2 * g[(k + 1) \div 2]]]
           mu == [k \in Nat |-> k]
<1>1. mu \in [Nat -> Nat]
  OBVIOUS
<1>2. H \in [Nat -> [[Nat -> Nat] -> Nat]]
  <2>1. ASSUME NEW k \in Nat, NEW g \in [Nat -> Nat]
        PROVE  (IF k <= 2 THEN k \div 2 ELSE 2 * g[(k + 1) \div 2]) \in Nat
    <3>1. (k + 1) \div 2 \in Nat /\ k \div 2 \in Nat
      OBVIOUS
    <3>2. g[(k + 1) \div 2] \in Nat
      BY <3>1
    <3>3. QED BY <3>1, <3>2
  <2>2. QED BY <2>1
<1>3. Descends(H, Nat, Nat, mu)
  <2>1. ASSUME NEW k \in Nat, NEW g \in [Nat -> Nat], NEW h \in [Nat -> Nat],
               AgreeBelow(g, h, Nat, mu, mu[k])
        PROVE  H[k][g] = H[k][h]
    <3>1. CASE k <= 2
      BY <3>1
    <3>2. CASE ~ (k <= 2)
      <4>1. (k + 1) \div 2 \in Nat /\ (k + 1) \div 2 < k
        BY <3>2
      <4>2. g[(k + 1) \div 2] = h[(k + 1) \div 2]
        BY <2>1, <4>1 DEF AgreeBelow
      <4>3. QED BY <3>2, <4>2
    <3>3. QED BY <3>1, <3>2
  <2>2. QED BY <2>1 DEF Descends
<1>4. \E f \in [Nat -> Nat] : \A k \in Nat : f[k] = H[k][f]
  <2> HIDE DEF H, mu
  <2>1. Recursion(H, Nat, Nat, mu)
    BY <1>1, <1>2, <1>3 DEF Recursion
  <2>2. QED BY <2>1, RecursionSolved
<1>5. QED BY <1>4

LEMMA PowIs ==
  /\ pow2_lt \in [Nat -> Nat]
  /\ \A k \in Nat : pow2_lt[k] = IF k <= 2 THEN k \div 2 ELSE 2 * pow2_lt[(k + 1) \div 2]
<1>1. PICK f \in [Nat -> Nat] : \A k \in Nat : f[k] = IF k <= 2 THEN k \div 2 ELSE 2 * f[(k + 1) \div 2]
  BY PowSolved
<1>2. f = [k \in Nat |-> IF k <= 2 THEN k \div 2 ELSE 2 * f[(k + 1) \div 2]]
  BY <1>1
<1>3. pow2_lt = [k \in Nat |-> IF k <= 2 THEN k \div 2 ELSE 2 * pow2_lt[(k + 1) \div 2]]
  BY <1>2 DEF pow2_lt
<1>4. \A k \in Nat : pow2_lt[k] = IF k <= 2 THEN k \div 2 ELSE 2 * pow2_lt[(k + 1) \div 2]
  BY <1>3
<1>5. pow2_lt \in [Nat -> Nat]
  <2> DEFINE bad == {k \in Nat : pow2_lt[k] \notin Nat}
  <2>1. SUFFICES ASSUME bad # {} PROVE FALSE
    BY <1>3
  <2>2. PICK k \in bad : \A j \in bad : k <= j
    <3>1. bad \subseteq Nat
      OBVIOUS
    <3>2. QED
      <4> HIDE DEF bad
      <4>1. QED BY <2>1, <3>1, LeastNumber
  <2>3. CASE k <= 2
    <3>1. k \div 2 \in Nat
      OBVIOUS
    <3>2. QED BY <1>4, <2>2, <2>3, <3>1
  <2>4. CASE ~ (k <= 2)
    <3>1. (k + 1) \div 2 \in Nat /\ (k + 1) \div 2 < k
      BY <2>4
    <3>2. pow2_lt[(k + 1) \div 2] \in Nat
      BY <2>2, <3>1
    <3>3. QED BY <1>4, <2>2, <2>4, <3>2
  <2>5. QED BY <2>3, <2>4
<1>6. QED BY <1>4, <1>5

\* pow2_lt(k) is below k, and not below its half.
LEMMA PowFits ==
  ASSUME NEW k \in Nat, k >= 2
  PROVE  pow2_lt[k] \in Nat /\ 1 <= pow2_lt[k] /\ pow2_lt[k] < k /\ k <= 2 * pow2_lt[k]
<1> DEFINE ok(j) == 1 <= pow2_lt[j] /\ pow2_lt[j] < j /\ j <= 2 * pow2_lt[j]
           bad == {j \in Nat : j >= 2 /\ ~ ok(j)}
<1>1. bad = {}
  <2>1. SUFFICES ASSUME bad # {} PROVE FALSE
    OBVIOUS
  <2>2. PICK n \in bad : \A j \in bad : n <= j
    <3>1. bad \subseteq Nat
      OBVIOUS
    <3>2. QED
      <4> HIDE DEF bad
      <4>1. QED BY <2>1, <3>1, LeastNumber
  <2>3. CASE n = 2
    <3>1. pow2_lt[n] = 1
      BY <2>3, PowIs
    <3>2. QED BY <2>2, <2>3, <3>1
  <2>4. CASE n # 2
    <3>1. PICK h \in Nat : h = (n + 1) \div 2
      OBVIOUS
    <3>2. n > 2 /\ h >= 2 /\ h < n /\ n <= 2 * h /\ 2 * h <= n + 1
      BY <2>2, <2>4, <3>1
    <3>3. ok(h)
      BY <2>2, <3>2
    <3>4. pow2_lt[n] = 2 * pow2_lt[h] /\ pow2_lt[h] \in Nat
      BY <2>2, <3>1, <3>2, PowIs
    <3>5. ok(n)
      BY <3>2, <3>3, <3>4
    <3>6. QED BY <2>2, <3>5
  <2>5. QED BY <2>3, <2>4
<1>2. QED BY <1>1, PowIs

Powers == {pow2_lt[k] : k \in Nat \ {0, 1}}

LEMMA PowersHalve ==
  ASSUME NEW n \in Powers
  PROVE  /\ n \in Nat /\ n >= 1
         /\ n > 2 => n = 2 * (n \div 2) /\ n \div 2 \in Powers
<1>1. PICK k \in Nat \ {0, 1} : n = pow2_lt[k]
  BY DEF Powers
<1>2. k >= 2
  BY <1>1
<1>3. n \in Nat /\ n >= 1
  BY <1>1, <1>2, PowFits
<1>4. ASSUME n > 2 PROVE n = 2 * (n \div 2) /\ n \div 2 \in Powers
  <2>1. k # 2
    BY <1>1, <1>4, PowIs
  <2>2. n = 2 * pow2_lt[(k + 1) \div 2]
    BY <1>1, <1>2, <2>1, PowIs
  <2>3. PICK h \in Nat : h = (k + 1) \div 2
    OBVIOUS
  <2>4. h \in Nat \ {0, 1}
    BY <1>2, <2>1, <2>3
  <2>5. pow2_lt[h] \in Nat
    BY PowIs
  <2>6. n \div 2 = pow2_lt[h]
    BY <2>2, <2>3, <2>5
  <2>7. QED BY <2>2, <2>3, <2>4, <2>6 DEF Powers
<1>5. QED BY <1>3, <1>4

-----------------------------------------------------------------------------
(* Calls and their halves.                                                  *)

\* A call that the code can make.
Fits(c) ==
  /\ c \in Call /\ c.nthreads >= 1
  /\ c.pow => c.n \in Powers
  /\ ~ c.pow => c.offset = 0

LEMMA SelectedIs ==
  ASSUME NEW lo \in Nat, NEW k \in Nat, NEW j \in 0 .. k
  PROVE  /\ Selected(lo, k) \in 0 .. k
         /\ Selected(lo, j) \in 0 .. j /\ Selected(lo + j, k - j) \in 0 .. k - j
         /\ Selected(lo, k) = Selected(lo, j) + Selected(lo + j, k - j)
<1>1. ASSUME NEW a \in Nat, NEW m \in Nat
      PROVE  Selected(a, m) \in 0 .. m /\ IsFiniteSet(selected \cap (a .. a + m - 1))
  <2>1. IsFiniteSet(a .. a + m - 1) /\ Cardinality(a .. a + m - 1) = m
    <3>1. a \in Int /\ a + m - 1 \in Int
      OBVIOUS
    <3>2. QED BY <3>1, FS_Interval
  <2>2. selected \cap (a .. a + m - 1) \subseteq a .. a + m - 1
    OBVIOUS
  <2>3. IsFiniteSet(selected \cap (a .. a + m - 1))
        /\ Cardinality(selected \cap (a .. a + m - 1)) <= m
    BY <2>1, <2>2, FS_Subset
  <2>4. Cardinality(selected \cap (a .. a + m - 1)) \in Nat
    BY <2>3, FS_CardinalityType
  <2>5. QED BY <2>3, <2>4 DEF Selected
<1>2. lo + j \in Nat /\ k - j \in Nat /\ j \in Nat
  OBVIOUS
<1> DEFINE A == selected \cap (lo .. lo + j - 1)
           B == selected \cap (lo + j .. (lo + j) + (k - j) - 1)
<1>3. IsFiniteSet(A) /\ IsFiniteSet(B)
  BY <1>1, <1>2
<1>4. A \cap B = {} /\ A \cup B = selected \cap (lo .. lo + k - 1)
  BY <1>2
<1>5. Cardinality(A \cup B) = Cardinality(A) + Cardinality(B)
  <2>1. Cardinality(A \cup B) = Cardinality(A) + Cardinality(B) - Cardinality(A \cap B)
    BY <1>3, FS_Union
  <2>2. Cardinality(A \cap B) = 0
    BY <1>4, FS_EmptySet
  <2>3. Cardinality(A) \in Nat /\ Cardinality(B) \in Nat
    BY <1>3, FS_CardinalityType
  <2>4. QED
    <3> HIDE DEF A, B
    <3>1. QED BY <2>1, <2>2, <2>3
<1>6. Selected(lo, k) = Selected(lo, j) + Selected(lo + j, k - j)
  BY <1>4, <1>5 DEF Selected
<1>7. QED BY <1>1, <1>2, <1>6

\* The halves of a call.
HalvesAre(c) ==
  /\ Split(c) \in 1 .. c.n - 1
  /\ LeftCall(c) \in Call /\ RightCall(c) \in Call
  /\ LeftCall(c).lo = c.lo /\ LeftCall(c).n = Split(c) /\ LeftCall(c).pow = c.pow
  /\ LeftCall(c).offset = IF c.pow THEN c.offset % Split(c) ELSE 0
  /\ LeftCall(c).thread = c.thread /\ LeftCall(c).nthreads = LeftThreads(c)
  /\ RightCall(c).lo = c.lo + Split(c) /\ RightCall(c).n = c.n - Split(c) /\ RightCall(c).pow
  /\ RightCall(c).offset = OffsetRight(c)
  /\ RightCall(c).thread = RightThread(c) /\ RightCall(c).nthreads = RightThreads(c)

LEMMA SplitFits ==
  ASSUME NEW c \in Call, c.n > 2
  PROVE  /\ Split(c) \in Nat /\ 1 <= Split(c) /\ Split(c) < c.n
         /\ ~ c.pow => pow2_lt[c.n] = c.n - Split(c) /\ Split(c) <= c.n - Split(c)
<1>1. c.n \in Nat /\ c.n >= 2
  BY DEF Call
<1>2. pow2_lt[c.n] \in Nat /\ 1 <= pow2_lt[c.n] /\ pow2_lt[c.n] < c.n /\ c.n <= 2 * pow2_lt[c.n]
  BY <1>1, PowFits
<1>3. CASE c.pow
  <2>1. Split(c) = c.n \div 2
    BY <1>3 DEF Split
  <2>2. \A n \in Nat : n > 2 => n \div 2 \in Nat /\ 1 <= n \div 2 /\ n \div 2 < n
    OBVIOUS
  <2>3. QED BY <1>1, <1>3, <2>1, <2>2
<1>4. CASE ~ c.pow
  <2>1. Split(c) = c.n - pow2_lt[c.n]
    BY <1>4 DEF Split
  <2>2. QED BY <1>1, <1>2, <2>1
<1>5. QED BY <1>3, <1>4

LEMMA Halved ==
  ASSUME NEW c \in Call, c.n > 2
  PROVE  HalvesAre(c)
<1>1. c.lo \in Nat /\ c.n \in Nat /\ c.offset \in Nat /\ c.nthreads \in Nat /\ c.thread \in Nat
  BY DEF Call
<1>2. PICK s \in Nat : s = Split(c) /\ 1 <= s /\ s < c.n /\ (~ c.pow => pow2_lt[c.n] = c.n - s)
  BY SplitFits
<1>3. SelectedLeft(c) \in Nat /\ SelectedLeft(c) <= s
  <2>1. 0 \in 0 .. s
    OBVIOUS
  <2>2. Selected(c.lo, s) \in 0 .. s
    BY <1>1, <2>1, SelectedIs
  <2>3. QED BY <1>2, <2>2 DEF SelectedLeft
<1>4. OffsetRight(c) \in Nat
  <2>1. CASE c.pow
    <3>1. (c.offset + SelectedLeft(c)) % s \in Nat
      <4>1. c.offset + SelectedLeft(c) \in Nat
        BY <1>1, <1>3
      <4>2. QED BY <1>2, <4>1
    <3>2. QED BY <1>2, <2>1, <3>1 DEF OffsetRight
  <2>2. CASE ~ c.pow
    <3>1. PICK p \in Nat : p = pow2_lt[c.n] /\ p = c.n - s /\ p >= 1 /\ s <= p
      BY <1>1, <1>2, <2>2, SplitFits
    <3>2. PICK o \in Nat : o = p - s + SelectedLeft(c)
      BY <1>3, <3>1
    <3>3. o % p \in Nat
      BY <3>1
    <3>4. QED BY <1>2, <2>2, <3>1, <3>2, <3>3 DEF OffsetRight
  <2>3. QED BY <2>1, <2>2
<1>5. /\ LeftThreads(c) \in Nat /\ RightThreads(c) \in Nat /\ RightThread(c) \in Nat
  <2>1. CASE IsSerial(c)
    BY <1>1, <2>1 DEF LeftThreads, RightThreads, RightThread
  <2>2. CASE ~ IsSerial(c)
    <3>1. \A k \in Nat : k \div 2 \in Nat /\ k - k \div 2 \in Nat
      OBVIOUS
    <3>2. LeftThreads(c) = c.nthreads \div 2 /\ RightThreads(c) = c.nthreads - c.nthreads \div 2
          /\ RightThread(c) = c.thread + c.nthreads \div 2
      BY <2>2 DEF LeftThreads, RightThreads, RightThread
    <3>3. QED BY <1>1, <3>1, <3>2
  <2>3. QED BY <2>1, <2>2
<1>6. /\ LeftCall(c).pow = c.pow /\ LeftCall(c).lo = c.lo /\ LeftCall(c).n = s
      /\ LeftCall(c).offset = (IF c.pow THEN c.offset % s ELSE 0)
      /\ LeftCall(c).nthreads = LeftThreads(c) /\ LeftCall(c).thread = c.thread
      /\ LeftCall(c) \in Call
  <2>1. (IF c.pow THEN c.offset % s ELSE 0) \in Nat
    BY <1>1, <1>2
  <2>2. LeftCall(c) = [c EXCEPT !.n = s, !.nthreads = LeftThreads(c),
                                !.offset = IF c.pow THEN c.offset % s ELSE 0]
    BY <1>2 DEF LeftCall
  <2>3. QED BY <1>5, <2>1, <2>2 DEF Call
<1>7. /\ RightCall(c).pow /\ RightCall(c).lo = c.lo + s /\ RightCall(c).n = c.n - s
      /\ RightCall(c).offset = OffsetRight(c)
      /\ RightCall(c).nthreads = RightThreads(c) /\ RightCall(c).thread = RightThread(c)
      /\ RightCall(c) \in Call
  <2>1. c.lo + s \in Nat /\ c.n - s \in Nat
    BY <1>1, <1>2
  <2>2. RightCall(c) = [pow |-> TRUE, lo |-> c.lo + s, n |-> c.n - s, offset |-> OffsetRight(c),
                        nthreads |-> RightThreads(c), thread |-> RightThread(c)]
    BY <1>2 DEF RightCall
  <2>3. QED BY <1>4, <1>5, <2>1, <2>2 DEF Call
<1>8. Split(c) \in 1 .. c.n - 1
  BY <1>1, <1>2
<1>9. QED BY <1>2, <1>6, <1>7, <1>8 DEF HalvesAre

HalvesFit(c) ==
  /\ Fits(LeftCall(c)) /\ Fits(RightCall(c))
  /\ c.pow => c.n = 2 * Split(c)
  /\ ~ c.pow => pow2_lt[c.n] = c.n - Split(c) /\ Split(c) <= c.n - Split(c)
  /\ IF IsSerial(c) THEN IsSerial(LeftCall(c)) /\ IsSerial(RightCall(c))
     ELSE /\ c.nthreads >= 2
          /\ RightThread(c) = c.thread + LeftThreads(c)
          /\ LeftThreads(c) + RightThreads(c) = c.nthreads

LEMMA HalvedFit ==
  ASSUME NEW c, Fits(c), c.n > 2
  PROVE  HalvesFit(c)
<1>1. c \in Call /\ c.n \in Nat /\ c.nthreads \in Nat /\ c.nthreads >= 1 /\ (c.pow => c.n \in Powers)
  BY DEF Fits, Call
<1>2. HalvesAre(c)
  BY <1>1, Halved
<1>3. c.pow => c.n = 2 * Split(c) /\ Split(c) \in Powers
  BY <1>1, PowersHalve DEF Split
<1>4. ~ c.pow => /\ pow2_lt[c.n] = c.n - Split(c) /\ Split(c) <= c.n - Split(c)
                 /\ c.n - Split(c) \in Powers
  <2>1. c.n \in Nat \ {0, 1}
    BY <1>1
  <2>2. pow2_lt[c.n] \in Powers
    BY <2>1 DEF Powers
  <2>3. QED BY <1>1, <2>2, SplitFits
<1>5. c.n - Split(c) \in Powers
  <2>1. c.pow => c.n - Split(c) = Split(c)
    BY <1>1, <1>2, <1>3 DEF HalvesAre
  <2>2. QED BY <1>3, <1>4, <2>1
<1>6. /\ LeftThreads(c) >= 1 /\ RightThreads(c) >= 1
      /\ ~ IsSerial(c) => /\ c.nthreads >= 2
                          /\ RightThread(c) = c.thread + LeftThreads(c)
                          /\ LeftThreads(c) + RightThreads(c) = c.nthreads
  <2>1. CASE IsSerial(c)
    BY <2>1 DEF LeftThreads, RightThreads
  <2>2. CASE ~ IsSerial(c)
    <3>1. c.nthreads >= 2
      BY <1>1, <2>2 DEF IsSerial
    <3>2. \A k \in Nat : k >= 2 => LET j == k \div 2 IN j >= 1 /\ k - j >= 1 /\ j + (k - j) = k
      OBVIOUS
    <3>3. /\ LeftThreads(c) = c.nthreads \div 2 /\ RightThreads(c) = c.nthreads - c.nthreads \div 2
          /\ RightThread(c) = c.thread + LeftThreads(c)
      BY <2>2 DEF LeftThreads, RightThreads, RightThread
    <3>4. QED BY <1>1, <3>1, <3>2, <3>3
  <2>3. QED BY <2>1, <2>2
<1>7. Fits(LeftCall(c)) /\ Fits(RightCall(c))
  BY <1>2, <1>3, <1>5, <1>6 DEF HalvesAre, Fits
<1>8. IsSerial(c) => IsSerial(LeftCall(c)) /\ IsSerial(RightCall(c))
  <2>1. IsSerial(c) => LeftThreads(c) = 1 /\ RightThreads(c) = 1
    BY DEF LeftThreads, RightThreads
  <2>2. QED BY <1>2, <2>1 DEF HalvesAre, IsSerial
<1>9. QED BY <1>3, <1>4, <1>6, <1>7, <1>8 DEF HalvesFit

-----------------------------------------------------------------------------
(* The calls that a call makes.                                             *)

Recalled(f, c) == {c} \cup IF IsLeaf(c) THEN {} ELSE f[LeftCall(c)] \cup f[RightCall(c)]

LEMMA SplitCall ==
  ASSUME NEW c \in Call, ~ IsLeaf(c)
  PROVE  c.n > 2 /\ LeftCall(c) \in Call /\ RightCall(c) \in Call
         /\ LeftCall(c).n \in Nat /\ RightCall(c).n \in Nat
         /\ LeftCall(c).n < c.n /\ RightCall(c).n < c.n
<1>1. c.n > 2 /\ c.n \in Nat
  BY DEF IsLeaf, IsBase, Call
<1>2. HalvesAre(c)
  BY <1>1, Halved
<1>3. QED BY <1>1, <1>2 DEF HalvesAre

LEMMA CallsSolved ==
  \E f \in [Call -> SUBSET Call] : \A c \in Call : f[c] = Recalled(f, c)
<1> DEFINE H == [c \in Call |-> [g \in [Call -> SUBSET Call] |-> Recalled(g, c)]]
           mu == [c \in Call |-> c.n]
<1>1. mu \in [Call -> Nat]
  BY DEF Call
<1>2. H \in [Call -> [[Call -> SUBSET Call] -> SUBSET Call]]
  <2>1. ASSUME NEW c \in Call, NEW g \in [Call -> SUBSET Call] PROVE Recalled(g, c) \in SUBSET Call
    <3>1. CASE IsLeaf(c)
      BY <3>1 DEF Recalled
    <3>2. CASE ~ IsLeaf(c)
      <4>1. g[LeftCall(c)] \in SUBSET Call /\ g[RightCall(c)] \in SUBSET Call
        BY <3>2, SplitCall
      <4>2. QED BY <3>2, <4>1 DEF Recalled
    <3>3. QED BY <3>1, <3>2
  <2>2. QED BY <2>1
<1>3. Descends(H, Call, SUBSET Call, mu)
  <2>1. ASSUME NEW c \in Call, NEW g \in [Call -> SUBSET Call], NEW h \in [Call -> SUBSET Call],
               AgreeBelow(g, h, Call, mu, mu[c])
        PROVE  H[c][g] = H[c][h]
    <3>1. CASE IsLeaf(c)
      BY <3>1 DEF Recalled
    <3>2. CASE ~ IsLeaf(c)
      <4>1. g[LeftCall(c)] = h[LeftCall(c)] /\ g[RightCall(c)] = h[RightCall(c)]
        BY <2>1, <3>2, SplitCall DEF AgreeBelow
      <4>2. QED BY <3>2, <4>1 DEF Recalled
    <3>3. QED BY <3>1, <3>2
  <2>2. QED
    <3> HIDE DEF H, mu
    <3>1. QED BY <2>1 DEF Descends
<1>4. \E f \in [Call -> SUBSET Call] : \A c \in Call : f[c] = H[c][f]
  <2> HIDE DEF H, mu
  <2>1. SUBSET Call # {}
    OBVIOUS
  <2>2. Recursion(H, Call, SUBSET Call, mu)
    BY <1>1, <1>2, <1>3, <2>1 DEF Recursion
  <2>3. QED BY <2>2, RecursionSolved
<1>5. QED BY <1>4

LEMMA CallsIs ==
  ASSUME NEW c \in Call
  PROVE  Calls[c] = {c} \cup IF IsLeaf(c) THEN {} ELSE Calls[LeftCall(c)] \cup Calls[RightCall(c)]
<1>1. PICK f \in [Call -> SUBSET Call] : \A d \in Call : f[d] = Recalled(f, d)
  BY CallsSolved
<1>2. f = [d \in Call |-> {d} \cup IF IsLeaf(d) THEN {} ELSE f[LeftCall(d)] \cup f[RightCall(d)]]
  BY <1>1 DEF Recalled
<1>3. Calls = [d \in Call |-> {d} \cup IF IsLeaf(d) THEN {}
                              ELSE Calls[LeftCall(d)] \cup Calls[RightCall(d)]]
  BY <1>2 DEF Calls
<1>4. QED BY <1>3


\* The calls form a tree: their places and threads are nested or disjoint.
Threads(c) == c.thread .. c.thread + c.nthreads - 1
Children(c) == {LeftCall(c), RightCall(c)}
Within(d, e) == Places(d) \subseteq Places(e) /\ Threads(d) \subseteq Threads(e) /\ d.n <= e.n
Separate(d, e) == Places(d) \cap Places(e) = {} /\ Threads(d) \cap Threads(e) = {}
Below(d, e) == ~ IsLeaf(e) /\ \E h \in Children(e) : Within(d, h)
IsChild(c, T) == \E e \in T : ~ IsLeaf(e) /\ c \in Children(e)

Nested(T) == \A d, e \in T : d = e \/ Below(d, e) \/ Below(e, d) \/ Separate(d, e)
Rooted(T, r) ==
  /\ r \in T
  /\ \A c \in T : Fits(c) /\ Within(c, r) /\ (c # r => c.n >= 1 /\ Below(c, r))
Linked(T, r) ==
  /\ \A c \in T : ~ IsLeaf(c) => Children(c) \subseteq T
  /\ \A c \in T : c # r => IsChild(c, T)
IsTree(T, r) == Nested(T) /\ Rooted(T, r) /\ Linked(T, r)

LEMMA ChildrenApart ==
  ASSUME NEW c, Fits(c), ~ IsLeaf(c)
  PROVE  /\ Separate(LeftCall(c), RightCall(c)) /\ Separate(RightCall(c), LeftCall(c))
         /\ \A h \in Children(c) : Fits(h) /\ Within(h, c) /\ h.n \in Nat /\ 1 <= h.n /\ h.n < c.n
<1>1. c \in Call /\ c.n > 2 /\ ~ IsSerial(c) /\ c.n \in Nat /\ c.lo \in Nat /\ c.thread \in Nat
      /\ c.nthreads \in Nat
  BY DEF IsLeaf, IsBase, Fits, Call
<1>2. HalvesAre(c) /\ HalvesFit(c)
  BY <1>1, Halved, HalvedFit
<1>3. Fits(LeftCall(c)) /\ Fits(RightCall(c))
  BY <1>2 DEF HalvesFit
<1>4. PICK l, r : l = LeftCall(c) /\ r = RightCall(c)
  OBVIOUS
<1>5. /\ l.lo = c.lo /\ l.n \in Nat /\ r.n \in Nat /\ 1 <= l.n /\ 1 <= r.n
      /\ l.n < c.n /\ r.n < c.n /\ r.lo = c.lo + l.n /\ l.n + r.n = c.n
  BY <1>1, <1>2, <1>4 DEF HalvesAre
<1>6. /\ l.thread = c.thread /\ l.nthreads \in Nat /\ r.nthreads \in Nat
      /\ r.thread = c.thread + l.nthreads /\ l.nthreads + r.nthreads = c.nthreads
  <2>1. l.nthreads = LeftThreads(c) /\ r.nthreads = RightThreads(c) /\ l.thread = c.thread
        /\ r.thread = RightThread(c) /\ l \in Call /\ r \in Call
    BY <1>2, <1>4 DEF HalvesAre
  <2>2. l.nthreads \in Nat /\ r.nthreads \in Nat
    BY <2>1 DEF Call
  <2>3. QED BY <1>1, <1>2, <2>1, <2>2 DEF HalvesFit
<1>7. Separate(l, r) /\ Separate(r, l) /\ Within(l, c) /\ Within(r, c)
  BY <1>1, <1>5, <1>6 DEF Separate, Within, Places, Threads
<1>8. QED BY <1>3, <1>4, <1>5, <1>7 DEF Children

LEMMA WithinBoth ==
  ASSUME NEW c, NEW d, NEW e, Within(c, d), Within(d, e), c.n \in Nat, d.n \in Nat, e.n \in Nat
  PROVE  Within(c, e)
BY DEF Within

LEMMA TreeGrows ==
  ASSUME NEW r, Fits(r), ~ IsLeaf(r), NEW A, NEW B, IsTree(A, LeftCall(r)), IsTree(B, RightCall(r))
  PROVE  IsTree({r} \cup A \cup B, r)
<1> DEFINE T == {r} \cup A \cup B
<1>1. PICK l, h : l = LeftCall(r) /\ h = RightCall(r)
  OBVIOUS
<1>2. /\ Separate(l, h) /\ Separate(h, l) /\ Within(l, r) /\ Within(h, r) /\ l \in A /\ h \in B
      /\ Children(r) = {l, h} /\ 1 <= l.n /\ 1 <= h.n /\ l.n \in Nat /\ h.n \in Nat
  BY <1>1, ChildrenApart DEF Children, IsTree, Rooted
<1>3. \A c \in A : Fits(c) /\ Within(c, l) /\ c.n >= 1 /\ c.n \in Nat
  <2>1. \A c \in A : Fits(c) => c.n \in Nat
    BY DEF Fits, Call
  <2>2. \A c \in A : Fits(c) /\ Within(c, l) /\ (c # l => c.n >= 1)
    BY <1>1 DEF IsTree, Rooted
  <2>3. QED BY <1>2, <2>1, <2>2
<1>4. \A c \in B : Fits(c) /\ Within(c, h) /\ c.n >= 1 /\ c.n \in Nat
  <2>1. \A c \in B : Fits(c) => c.n \in Nat
    BY DEF Fits, Call
  <2>2. \A c \in B : Fits(c) /\ Within(c, h) /\ (c # h => c.n >= 1)
    BY <1>1 DEF IsTree, Rooted
  <2>3. QED BY <1>2, <2>1, <2>2
<1>5. r.n \in Nat
  BY DEF Fits, Call
<1>6. \A c \in A \cup B : Below(c, r) /\ Within(c, r)
  <2>1. \A c \in A \cup B : Below(c, r)
    BY <1>2, <1>3, <1>4 DEF Below
  <2>2. ASSUME NEW c \in A \cup B PROVE Within(c, r)
    BY <1>2, <1>3, <1>4, <1>5, WithinBoth
  <2>3. QED BY <2>1, <2>2
<1>7. \A a \in A, b \in B : Separate(a, b) /\ Separate(b, a)
  BY <1>2, <1>3, <1>4 DEF Separate, Within
<1>8. Rooted(T, r)
  <2>1. Within(r, r)
    BY <1>5 DEF Within
  <2>2. QED BY <1>3, <1>4, <1>6, <2>1 DEF Rooted
<1>9. Nested(T)
  <2>1. ASSUME NEW d \in T, NEW e \in T
        PROVE  d = e \/ Below(d, e) \/ Below(e, d) \/ Separate(d, e)
    <3>1. CASE d = r \/ e = r
      BY <1>6, <3>1
    <3>2. CASE d \in A /\ e \in A
      BY <3>2 DEF IsTree, Nested
    <3>3. CASE d \in B /\ e \in B
      BY <3>3 DEF IsTree, Nested
    <3>4. CASE (d \in A /\ e \in B) \/ (d \in B /\ e \in A)
      BY <1>7, <3>4
    <3>5. QED BY <3>1, <3>2, <3>3, <3>4
  <2>2. QED
    <3> HIDE DEF T
    <3>1. QED BY <2>1 DEF Nested
<1>10. Linked(T, r)
  <2>1. ASSUME NEW c \in T, ~ IsLeaf(c) PROVE Children(c) \subseteq T
    BY <1>2, <2>1 DEF IsTree, Linked
  <2>2. ASSUME NEW c \in T, c # r PROVE IsChild(c, T)
    <3>1. CASE c = l \/ c = h
      BY <1>2, <3>1 DEF IsChild
    <3>2. CASE c # l /\ c # h
      <4>1. IsChild(c, A) \/ IsChild(c, B)
        BY <1>1, <2>2, <3>2 DEF IsTree, Linked
      <4>2. QED BY <4>1 DEF IsChild
    <3>3. QED BY <3>1, <3>2
  <2>3. QED
    <3> HIDE DEF T
    <3>1. QED BY <2>1, <2>2 DEF Linked
<1>11. QED BY <1>8, <1>9, <1>10 DEF IsTree

LEMMA CallsTree ==
  ASSUME NEW r, Fits(r)
  PROVE  IsTree(Calls[r], r)
<1> DEFINE bad == {m \in Nat : \E c \in Call : c.n = m /\ Fits(c) /\ ~ IsTree(Calls[c], c)}
<1>1. bad = {}
  <2>1. SUFFICES ASSUME bad # {} PROVE FALSE
    OBVIOUS
  <2>2. PICK m \in bad : \A k \in bad : m <= k
    <3>1. bad \subseteq Nat
      OBVIOUS
    <3>2. QED
      <4> HIDE DEF bad
      <4>1. QED BY <2>1, <3>1, LeastNumber
  <2>3. PICK c \in Call : c.n = m /\ Fits(c) /\ ~ IsTree(Calls[c], c)
    BY <2>2
  <2>4. CASE IsLeaf(c)
    <3>1. Calls[c] = {c}
      BY <2>4, CallsIs
    <3>2. Within(c, c)
      BY DEF Within, Call
    <3>3. IsTree({c}, c)
      BY <2>3, <2>4, <3>2 DEF IsTree, Nested, Rooted, Linked
    <3>4. QED BY <2>3, <3>1, <3>3
  <2>5. CASE ~ IsLeaf(c)
    <3>1. PICK l \in Call, h \in Call : l = LeftCall(c) /\ h = RightCall(c)
      BY <2>5, SplitCall
    <3>2. Fits(l) /\ Fits(h) /\ l.n \in Nat /\ h.n \in Nat /\ l.n < m /\ h.n < m
      BY <2>3, <2>5, <3>1, ChildrenApart DEF Children
    <3>3. IsTree(Calls[l], l) /\ IsTree(Calls[h], h)
      <4>1. l.n \notin bad /\ h.n \notin bad
        BY <2>2, <3>2
      <4>2. QED BY <3>2, <4>1
    <3>4. IsTree({c} \cup Calls[l] \cup Calls[h], c)
      BY <2>3, <2>5, <3>1, <3>3, TreeGrows
    <3>5. Calls[c] = {c} \cup Calls[l] \cup Calls[h]
      BY <2>5, <3>1, CallsIs
    <3>6. QED BY <2>3, <3>4, <3>5
  <2>6. QED BY <2>4, <2>5
<1>2. r \in Call /\ r.n \in Nat
  BY DEF Fits, Call
<1>3. QED BY <1>1, <1>2


-----------------------------------------------------------------------------
(* Windows with wraparound.                                                 *)

\* Place x of n lies among the m from o on.
Window(x, o, m, n) == (IF x >= o THEN x - o ELSE (x - o) + n) < m

\* a modulo s, if a is less than twice s.
Reduced(a, s) == IF a < s THEN a ELSE a - s

LEMMA ModIs ==
  ASSUME NEW a \in Nat, NEW s \in Nat, s >= 1, a < 2 * s
  PROVE  a % s = Reduced(a, s)
BY DEF Reduced

LEMMA ModAgain ==
  ASSUME NEW a \in Nat, NEW s \in Nat, s >= 1, a < 2 * s
  PROVE  (a + s) % s = a % s
<1>1. CASE a < s
  <2>1. a + s < 2 * s /\ a + s \in Nat
    BY <1>1
  <2>2. (a + s) % s = Reduced(a + s, s)
    BY <2>1, ModIs
  <2>3. Reduced(a + s, s) = a /\ Reduced(a, s) = a
    BY <1>1 DEF Reduced
  <2>4. a % s = Reduced(a, s)
    BY ModIs
  <2>5. QED BY <2>2, <2>3, <2>4
<1>2. CASE ~ (a < s)
  <2>1. PICK b \in Nat : a = b + s /\ b < s
    <3>1. a - s \in Nat /\ a = (a - s) + s /\ a - s < s
      BY <1>2
    <3>2. QED BY <3>1
  <2>2. (b + s) + s = b + 2 * s
    OBVIOUS
  <2>3. (b + 2 * s) % s = b
    BY <2>1
  <2>4. a % s = b
    BY <1>2, <2>1, ModIs DEF Reduced
  <2>5. QED BY <2>1, <2>2, <2>3, <2>4
<1>3. QED BY <1>1, <1>2

\* A power of two: the halves' windows, with the pairs swapped or not.
PowJoined(x, s, o, m, k, l, r, swap) ==
  /\ (IF swap THEN Window(x, r, k, s) ELSE Window(x, l, m, s)) <=> Window(x, o, m + k, 2 * s)
  /\ (IF swap THEN Window(x, l, m, s) ELSE Window(x, r, k, s)) <=> Window(x + s, o, m + k, 2 * s)

LEMMA PowWindows ==
  ASSUME NEW s \in Nat, NEW o \in Nat, NEW m \in Nat, NEW k \in Nat, NEW x \in Nat,
         o < 2 * s, m <= s, k <= s, x < s,
         NEW l, l = Reduced(o, s), NEW r, r = Reduced(l + m, s),
         NEW swap \in BOOLEAN, swap <=> ((x >= r) # ((l + m >= s) # (o >= s)))
  PROVE  PowJoined(x, s, o, m, k, l, r, swap)
<1>1. CASE o < s
  <2>1. CASE o + m < s
    BY <1>1, <2>1 DEF Reduced, Window, PowJoined
  <2>2. CASE ~ (o + m < s)
    BY <1>1, <2>2 DEF Reduced, Window, PowJoined
  <2>3. QED BY <2>1, <2>2
<1>2. CASE ~ (o < s)
  <2>1. CASE (o - s) + m < s
    BY <1>2, <2>1 DEF Reduced, Window, PowJoined
  <2>2. CASE ~ ((o - s) + m < s)
    BY <1>2, <2>2 DEF Reduced, Window, PowJoined
  <2>3. QED BY <2>1, <2>2
<1>3. QED BY <1>1, <1>2

\* A rest of s and a power of two q: the windows with the pairs swapped from m on.
RestJoined(x, s, q, m, k, r) ==
  /\ x < s => ((IF x >= m THEN Window((x + q) - s, r, k, q) ELSE Window(x, 0, m, s))
                 <=> Window(x, 0, m + k, s + q))
  /\ x >= q => ((IF x - q >= m THEN Window(x - q, 0, m, s) ELSE Window(x - s, r, k, q))
                  <=> Window(x, 0, m + k, s + q))
  /\ x >= s /\ x < q => (Window(x - s, r, k, q) <=> Window(x, 0, m + k, s + q))

LEMMA RestWindows ==
  ASSUME NEW s \in Nat, NEW q \in Nat, NEW m \in Nat, NEW k \in Nat, NEW x \in Nat, 1 <= s, s <= q,
         m <= s, k <= q, x < s + q, NEW r \in Nat, r = Reduced((q - s) + m, q)
  PROVE  RestJoined(x, s, q, m, k, r)
<1>1. CASE m < s
  <2>1. r = (q - s) + m
    BY <1>1 DEF Reduced
  <2>2. QED BY <1>1, <2>1 DEF Window, RestJoined
<1>2. CASE m = s
  <2>1. r = 0
    BY <1>2 DEF Reduced
  <2>2. QED BY <1>2, <2>1 DEF Window, RestJoined
<1>3. QED BY <1>1, <1>2


-----------------------------------------------------------------------------
(* Swaps.                                                                   *)

\* The pairs of a call lie side by side in its places.
SwapRoom(c) ==
  /\ c.lo \in Nat /\ c.n \in Nat /\ Pairs(c) \in Nat /\ Apart(c) \in Nat
  /\ Pairs(c) <= Apart(c) /\ 1 <= Apart(c)
  /\ Pairs(c) > 0 => Pairs(c) + Apart(c) <= c.n

LEMMA SwapsFit ==
  ASSUME NEW c \in Call
  PROVE  SwapRoom(c)
<1>1. c.lo \in Nat /\ c.n \in Nat
  BY DEF Call
<1>2. CASE c.n <= 2
  BY <1>1, <1>2 DEF SwapRoom, Pairs, Apart, IsBase
<1>3. CASE c.n > 2
  <2>1. PICK s \in Nat : s = Split(c) /\ 1 <= s /\ s < c.n
                         /\ (~ c.pow => pow2_lt[c.n] = c.n - s /\ s <= c.n - s)
    BY <1>3, SplitFits
  <2>2. Pairs(c) = s
    BY <1>1, <1>3, <2>1 DEF Pairs
  <2>3. CASE c.pow
    <3>1. Apart(c) = s
      BY <1>1, <1>3, <2>1, <2>3 DEF Apart, IsBase
    <3>2. s + s <= c.n
      <4>1. s = c.n \div 2
        BY <2>1, <2>3 DEF Split
      <4>2. \A n \in Nat : n \div 2 + n \div 2 <= n
        OBVIOUS
      <4>3. QED BY <1>1, <4>1, <4>2
    <3>3. QED BY <1>1, <2>1, <2>2, <3>1, <3>2 DEF SwapRoom
  <2>4. CASE ~ c.pow
    <3>1. Apart(c) = c.n - s
      BY <1>1, <1>3, <2>1, <2>4 DEF Apart, IsBase
    <3>2. QED BY <1>1, <2>1, <2>2, <2>4, <3>1 DEF SwapRoom
  <2>5. QED BY <2>3, <2>4
<1>4. QED BY <1>1, <1>2, <1>3

\* Where the record comes from that SwapRange puts at p.
First(c, Q, p) == p - c.lo \in Q /\ Swaps(c, p - c.lo)
Second(c, Q, p) == (p - Apart(c)) - c.lo \in Q /\ Swaps(c, (p - Apart(c)) - c.lo)
Source(c, Q, p) ==
  IF First(c, Q, p) THEN p + Apart(c) ELSE IF Second(c, Q, p) THEN p - Apart(c) ELSE p

LEMMA SwapRangeAt ==
  ASSUME NEW c \in Call, NEW Q, Q \subseteq 0 .. Pairs(c) - 1, NEW b, DOMAIN b \subseteq Nat
  PROVE  /\ DOMAIN SwapRange(b, c, Q) = DOMAIN b
         /\ \A p \in DOMAIN b : SwapRange(b, c, Q)[p] = b[Source(c, Q, p)]
<1>1. SwapRoom(c)
  BY SwapsFit
<1> DEFINE swapped == {c.lo + i : i \in {j \in Q : Swaps(c, j)}}
<1>2. ASSUME NEW p \in Int PROVE p \in swapped <=> (p - c.lo \in Q /\ Swaps(c, p - c.lo))
  <2>1. ASSUME p \in swapped PROVE p - c.lo \in Q /\ Swaps(c, p - c.lo)
    <3>1. PICK i \in Q : Swaps(c, i) /\ p = c.lo + i
      BY <2>1
    <3>2. i \in Nat /\ c.lo \in Nat
      BY <1>1 DEF SwapRoom
    <3>3. p - c.lo = i
      BY <3>1, <3>2
    <3>4. QED BY <3>1, <3>3
  <2>2. ASSUME p - c.lo \in Q, Swaps(c, p - c.lo) PROVE p \in swapped
    <3>1. c.lo \in Nat
      BY <1>1 DEF SwapRoom
    <3>2. p = c.lo + (p - c.lo)
      BY <3>1
    <3>3. QED BY <2>2, <3>2
  <2>3. QED BY <2>1, <2>2
<1>3. SwapRange(b, c, Q) = [p \in DOMAIN b |-> CASE p \in swapped -> b[p + Apart(c)]
                                                 [] p - Apart(c) \in swapped -> b[p - Apart(c)]
                                                 [] OTHER -> b[p]]
  BY DEF SwapRange
<1>4. DOMAIN SwapRange(b, c, Q) = DOMAIN b
  BY <1>3
<1>5. ASSUME NEW p \in DOMAIN b PROVE SwapRange(b, c, Q)[p] = b[Source(c, Q, p)]
  <2>1. p \in Int /\ p - Apart(c) \in Int /\ Apart(c) \in Nat /\ c.lo \in Nat
    BY <1>1 DEF SwapRoom
  <2>2. (p \in swapped <=> First(c, Q, p)) /\ (p - Apart(c) \in swapped <=> Second(c, Q, p))
    BY <1>2, <2>1 DEF First, Second
  <2>3. ~ (First(c, Q, p) /\ Second(c, Q, p))
    <3>1. First(c, Q, p) => p - c.lo < Pairs(c) /\ p - c.lo >= 0
      BY <1>1, <2>1 DEF First, SwapRoom
    <3>2. Second(c, Q, p) => (p - Apart(c)) - c.lo >= 0
      BY <1>1, <2>1 DEF Second, SwapRoom
    <3>3. QED BY <1>1, <2>1, <3>1, <3>2 DEF SwapRoom
  <2>4. SwapRange(b, c, Q)[p] = CASE p \in swapped -> b[p + Apart(c)]
                                  [] p - Apart(c) \in swapped -> b[p - Apart(c)]
                                  [] OTHER -> b[p]
    BY <1>3
  <2> HIDE DEF swapped
  <2>5. CASE First(c, Q, p)
    BY <2>2, <2>3, <2>4, <2>5 DEF Source
  <2>6. CASE Second(c, Q, p)
    BY <2>2, <2>3, <2>4, <2>6 DEF Source
  <2>7. CASE ~ First(c, Q, p) /\ ~ Second(c, Q, p)
    BY <2>2, <2>4, <2>7 DEF Source
  <2>8. QED BY <2>5, <2>6, <2>7
<1>6. QED BY <1>4, <1>5

\* A swap stays in the call's places, and undoes itself.
LEMMA SourceStays ==
  ASSUME NEW c \in Call, NEW Q, Q \subseteq 0 .. Pairs(c) - 1, NEW p \in Int
  PROVE  /\ p \in Places(c) => Source(c, Q, p) \in Places(c)
         /\ p \notin Places(c) => Source(c, Q, p) = p
         /\ Source(c, Q, Source(c, Q, p)) = p
<1>1. SwapRoom(c)
  BY SwapsFit
<1>2. PICK a \in Nat, lo \in Nat, n \in Nat, s \in Nat : a = Apart(c) /\ lo = c.lo /\ n = c.n /\ s = Pairs(c)
  BY <1>1 DEF SwapRoom
<1>3. s <= a /\ 1 <= a /\ (s > 0 => s + a <= n)
  BY <1>1, <1>2 DEF SwapRoom
<1>4. \A i : i \in Q => i \in Nat /\ i < s
  BY <1>2
<1>5. CASE First(c, Q, p)
  <2>1. p - lo \in Nat /\ p - lo < s
    BY <1>2, <1>4, <1>5 DEF First
  <2>2. Source(c, Q, p) = p + a
    BY <1>2, <1>5 DEF Source
  <2>3. p \in Places(c) /\ p + a \in Places(c)
    BY <1>2, <1>3, <2>1 DEF Places
  <2>4. ~ First(c, Q, p + a)
    <3>1. ~ ((p + a) - lo < s)
      BY <1>3, <2>1
    <3>2. QED BY <1>2, <1>4, <3>1 DEF First
  <2>5. Second(c, Q, p + a)
    <3>1. (p + a) - a = p
      OBVIOUS
    <3>2. QED BY <1>2, <1>5, <3>1 DEF First, Second
  <2>6. Source(c, Q, p + a) = p
    <3>1. (p + a) - a = p
      OBVIOUS
    <3>2. QED BY <1>2, <2>4, <2>5, <3>1 DEF Source
  <2>7. QED BY <2>2, <2>3, <2>6
<1>6. CASE ~ First(c, Q, p) /\ Second(c, Q, p)
  <2>1. (p - a) - lo \in Nat /\ (p - a) - lo < s
    BY <1>2, <1>4, <1>6 DEF Second
  <2>2. Source(c, Q, p) = p - a
    BY <1>2, <1>6 DEF Source
  <2>3. p \in Places(c) /\ p - a \in Places(c)
    BY <1>2, <1>3, <2>1 DEF Places
  <2>4. First(c, Q, p - a)
    BY <1>2, <1>6 DEF First, Second
  <2>5. Source(c, Q, p - a) = p
    <3>1. (p - a) + a = p
      OBVIOUS
    <3>2. QED BY <1>2, <2>4, <3>1 DEF Source
  <2>6. QED BY <2>2, <2>3, <2>5
<1>7. CASE ~ First(c, Q, p) /\ ~ Second(c, Q, p)
  BY <1>7 DEF Source
<1>8. QED BY <1>5, <1>6, <1>7

\* SwapRange moves the call's own records, and no others.
SameRecords(d, b, c) == {d[p] : p \in Places(c)} = {b[p] : p \in Places(c)}

StaysArray(d, b) == \A D : b \in [D -> D] => d \in [D -> D]

LEMMA SwapRangeKeeps ==
  ASSUME NEW c \in Call, NEW Q, Q \subseteq 0 .. Pairs(c) - 1, NEW b, DOMAIN b \subseteq Nat,
         Places(c) \subseteq DOMAIN b
  PROVE  /\ SameRecords(SwapRange(b, c, Q), b, c)
         /\ \A p \in DOMAIN b : p \notin Places(c) => SwapRange(b, c, Q)[p] = b[p]
         /\ StaysArray(SwapRange(b, c, Q), b)
<1> DEFINE d == SwapRange(b, c, Q)
<1>1. DOMAIN d = DOMAIN b /\ \A p \in DOMAIN b : d[p] = b[Source(c, Q, p)]
  BY SwapRangeAt
<1>2. \A p \in Int : /\ p \in Places(c) => Source(c, Q, p) \in Places(c)
                     /\ p \notin Places(c) => Source(c, Q, p) = p
                     /\ Source(c, Q, Source(c, Q, p)) = p
  BY SourceStays
<1>3. DOMAIN b \subseteq Int
  OBVIOUS
<1>4. \A p \in DOMAIN b : p \notin Places(c) => d[p] = b[p]
  BY <1>1, <1>2, <1>3
<1>5. \A p \in Places(c) : /\ d[p] = b[Source(c, Q, p)] /\ Source(c, Q, p) \in Places(c)
                           /\ d[Source(c, Q, p)] = b[p]
  <2>1. ASSUME NEW p \in Places(c) 
        PROVE  /\ d[p] = b[Source(c, Q, p)] /\ Source(c, Q, p) \in Places(c)
               /\ d[Source(c, Q, p)] = b[p]
    <3>1. p \in DOMAIN b /\ p \in Int /\ Source(c, Q, p) \in Places(c)
      BY <1>2, <1>3
    <3>2. Source(c, Q, p) \in DOMAIN b
      BY <3>1
    <3>3. QED BY <1>1, <1>2, <3>1, <3>2
  <2>2. QED BY <2>1
<1>6. {d[p] : p \in Places(c)} = {b[p] : p \in Places(c)}
  <2> HIDE DEF d
  <2>1. QED BY <1>5
<1>7. ASSUME NEW D, b \in [D -> D] PROVE d \in [D -> D]
  <2>1. DOMAIN b = D
    BY <1>7
  <2>2. \A p \in D : Source(c, Q, p) \in D
    BY <1>2, <1>3, <2>1
  <2>3. d = [p \in D |-> d[p]]
    BY <2>1 DEF SwapRange
  <2>4. QED
    <3> HIDE DEF d
    <3>1. QED BY <1>1, <1>7, <2>1, <2>2, <2>3
<1>8. QED BY <1>4, <1>6, <1>7 DEF SameRecords, StaysArray


\* Call c is done in array b: its records are its own, and the selected ones are those
\* from the offset on.
IsSelected(b, c, x) == b[c.lo + x] \in selected
InWindow(c, x) == Window(x, c.offset, Selected(c.lo, c.n), c.n)
Own(b, c) == {b[p] : p \in Places(c)} = Places(c)
CompactIn(b, c) == Own(b, c) /\ \A x \in 0 .. c.n - 1 : IsSelected(b, c, x) <=> InWindow(c, x)

AllPairs(c) == 0 .. Pairs(c) - 1

\* What a level of swaps makes of its places.
LEMMA LevelMarks ==
  ASSUME NEW c \in Call, NEW b, DOMAIN b \subseteq Nat, Places(c) \subseteq DOMAIN b,
         NEW x \in 0 .. c.n - 1
  PROVE  IsSelected(SwapRange(b, c, AllPairs(c)), c, x) =
           IF x < Pairs(c) /\ Swaps(c, x) THEN IsSelected(b, c, x + Apart(c))
           ELSE IF x >= Apart(c) /\ x - Apart(c) < Pairs(c) /\ Swaps(c, x - Apart(c))
                THEN IsSelected(b, c, x - Apart(c))
           ELSE IsSelected(b, c, x)
<1>1. SwapRoom(c)
  BY SwapsFit
<1>2. PICK a \in Nat, lo \in Nat, n \in Nat, s \in Nat : a = Apart(c) /\ lo = c.lo /\ n = c.n /\ s = Pairs(c)
  BY <1>1 DEF SwapRoom
<1>3. AllPairs(c) \subseteq 0 .. Pairs(c) - 1
  BY DEF AllPairs
<1>4. x \in Nat /\ x < n /\ lo + x \in Places(c)
  BY <1>2 DEF Places
<1>5. SwapRange(b, c, AllPairs(c))[lo + x] = b[Source(c, AllPairs(c), lo + x)]
  BY <1>3, <1>4, SwapRangeAt
<1>6. (lo + x) - lo = x /\ ((lo + x) - a) - lo = x - a /\ (lo + x) - a = lo + (x - a)
      /\ (lo + x) + a = lo + (x + a)
  BY <1>4
<1>7. First(c, AllPairs(c), lo + x) <=> (x < s /\ Swaps(c, x))
  BY <1>2, <1>4, <1>6 DEF First, AllPairs
<1>8. Second(c, AllPairs(c), lo + x) <=> (x >= a /\ x - a < s /\ Swaps(c, x - a))
  <2>1. x - a \in 0 .. s - 1 <=> (x >= a /\ x - a < s)
    BY <1>4
  <2>2. QED BY <1>2, <1>6, <2>1 DEF Second, AllPairs
<1>9. QED BY <1>2, <1>5, <1>6, <1>7, <1>8 DEF Source, IsSelected

\* The halves of a call are done in b.
HalvesDone(b, c) ==
  /\ CompactIn(b, LeftCall(c)) /\ CompactIn(b, RightCall(c))
  /\ c.offset < c.n /\ LeftCall(c).offset < LeftCall(c).n /\ RightCall(c).offset < RightCall(c).n

LEMMA HalvesMarked ==
  ASSUME NEW c, Fits(c), c.n > 2, NEW b, HalvesDone(b, c)
  PROVE  /\ Own(b, c)
         /\ \A x \in 0 .. Split(c) - 1 :
              IsSelected(b, c, x) <=> Window(x, LeftCall(c).offset, SelectedLeft(c), Split(c))
         /\ \A x \in Split(c) .. c.n - 1 :
              IsSelected(b, c, x) <=> Window(x - Split(c), OffsetRight(c),
                                         Selected(c.lo + Split(c), c.n - Split(c)), c.n - Split(c))
<1>1. c \in Call /\ HalvesAre(c)
  BY Halved DEF Fits
<1>2. PICK lo \in Nat, n \in Nat, s \in Nat : lo = c.lo /\ n = c.n /\ s = Split(c) /\ 1 <= s /\ s < n
  BY <1>1, SplitFits DEF Call
<1>3. PICK l, h : l = LeftCall(c) /\ h = RightCall(c)
  OBVIOUS
<1>4. l.lo = lo /\ l.n = s /\ h.lo = lo + s /\ h.n = n - s /\ h.offset = OffsetRight(c)
  BY <1>1, <1>2, <1>3 DEF HalvesAre
<1>5. CompactIn(b, l) /\ CompactIn(b, h)
  BY <1>3 DEF HalvesDone
<1>6. Own(b, c)
  <2>1. Places(c) = Places(l) \cup Places(h)
    BY <1>2, <1>4 DEF Places
  <2>2. {b[p] : p \in Places(l)} = Places(l) /\ {b[p] : p \in Places(h)} = Places(h)
    BY <1>5 DEF CompactIn, Own
  <2>3. {b[p] : p \in Places(l) \cup Places(h)} = Places(l) \cup Places(h)
    BY <2>2
  <2>4. QED BY <2>1, <2>3 DEF Own
<1>7. ASSUME NEW x \in 0 .. s - 1
      PROVE  IsSelected(b, c, x) <=> Window(x, l.offset, SelectedLeft(c), s)
  <2>1. IsSelected(b, l, x) <=> InWindow(l, x)
    BY <1>4, <1>5 DEF CompactIn
  <2>2. SelectedLeft(c) = Selected(l.lo, l.n)
    BY <1>2, <1>4 DEF SelectedLeft
  <2>3. QED BY <1>2, <1>4, <2>1, <2>2 DEF IsSelected, InWindow
<1>8. ASSUME NEW x \in s .. n - 1
      PROVE  IsSelected(b, c, x) <=> Window(x - s, OffsetRight(c), Selected(lo + s, n - s), n - s)
  <2>1. x - s \in 0 .. h.n - 1
    BY <1>2, <1>4
  <2>2. IsSelected(b, h, x - s) <=> InWindow(h, x - s)
    BY <1>5, <2>1 DEF CompactIn
  <2>3. (lo + s) + (x - s) = lo + x
    BY <1>2
  <2>4. QED BY <1>2, <1>4, <2>2, <2>3 DEF IsSelected, InWindow
<1>9. QED BY <1>2, <1>3, <1>6, <1>7, <1>8


\* The swaps of a level put the windows of the halves together.
LEMMA PowLevel ==
  ASSUME NEW c, Fits(c), c.n > 2, c.pow, NEW b, HalvesDone(b, c), NEW x \in 0 .. Split(c) - 1,
         DOMAIN b \subseteq Nat, Places(c) \subseteq DOMAIN b
  PROVE  /\ IsSelected(SwapRange(b, c, AllPairs(c)), c, x) <=> InWindow(c, x)
         /\ IsSelected(SwapRange(b, c, AllPairs(c)), c, x + Split(c)) <=> InWindow(c, x + Split(c))
<1>1. c \in Call /\ HalvesAre(c) /\ HalvesFit(c)
  BY Halved, HalvedFit DEF Fits
<1>2. PICK lo \in Nat, n \in Nat, s \in Nat, o \in Nat :
        lo = c.lo /\ n = c.n /\ s = Split(c) /\ o = c.offset /\ 1 <= s /\ n = 2 * s /\ o < n
  BY <1>1, SplitFits DEF Call, HalvesDone, HalvesFit
<1>3. PICK m \in Nat, k \in Nat : /\ m = SelectedLeft(c) /\ k = Selected(lo + s, s)
                                  /\ m <= s /\ k <= s /\ m + k = Selected(lo, n)
  <2>1. s \in 0 .. n /\ n - s = s
    BY <1>2
  <2>2. Selected(lo, s) \in 0 .. s /\ Selected(lo + s, n - s) \in 0 .. n - s
        /\ Selected(lo, n) = Selected(lo, s) + Selected(lo + s, n - s)
    BY <2>1, SelectedIs
  <2>3. QED BY <1>2, <2>1, <2>2 DEF SelectedLeft
<1>4. PICK l \in Nat : l = LeftCall(c).offset /\ l = Reduced(o, s) /\ l < s /\ l = o % s
  <2>1. LeftCall(c).offset = o % s
    BY <1>1, <1>2 DEF HalvesAre
  <2>2. o % s = Reduced(o, s)
    BY <1>2, ModIs
  <2>3. Reduced(o, s) \in Nat /\ Reduced(o, s) < s
    BY <1>2 DEF Reduced
  <2>4. QED BY <2>1, <2>2, <2>3
<1>5. PICK r \in Nat : r = OffsetRight(c) /\ r = Reduced(l + m, s)
  <2>1. OffsetRight(c) = (o + m) % s
    BY <1>2, <1>3 DEF OffsetRight
  <2>2. Reduced(l + m, s) \in Nat
    BY <1>3, <1>4 DEF Reduced
  <2>3. (l + m) % s = Reduced(l + m, s)
    BY <1>2, <1>3, <1>4, ModIs
  <2>4. (o + m) % s = (l + m) % s
    <3>1. CASE o < s
      BY <1>4, <3>1 DEF Reduced
    <3>2. CASE ~ (o < s)
      <4>1. l = o - s
        BY <1>4, <3>2 DEF Reduced
      <4>2. PICK a \in Nat : a = l + m /\ a < 2 * s
        BY <1>3, <1>4
      <4>3. (a + s) % s = a % s
        BY <1>2, <4>2, ModAgain
      <4>4. o + m = a + s
        BY <4>1, <4>2
      <4>5. QED BY <4>2, <4>3, <4>4
    <3>3. QED BY <3>1, <3>2
  <2>5. QED BY <2>1, <2>2, <2>3, <2>4
<1>6. Pairs(c) = s /\ Apart(c) = s
  BY <1>2 DEF Pairs, Apart, IsBase
<1>7. PICK swap \in BOOLEAN : swap <=> Swaps(c, x)
  <2>1. CASE Swaps(c, x)
    BY <2>1
  <2>2. CASE ~ Swaps(c, x)
    BY <2>2
  <2>3. QED BY <2>1, <2>2
<1>8. swap <=> ((x >= r) # ((l + m >= s) # (o >= s)))
  <2>1. Swaps(c, x) = ((x >= OffsetRight(c)) # (LeftWrapped(c) # (c.offset >= Split(c))))
    <3>1. ~ IsBase(c)
      BY <1>2 DEF IsBase
    <3>2. QED BY <3>1 DEF Swaps
  <2>2. LeftWrapped(c) = (l + m >= s)
    BY <1>2, <1>3, <1>4 DEF LeftWrapped
  <2>3. QED BY <1>2, <1>5, <1>7, <2>1, <2>2
<1>9. x \in Nat /\ x < s
  BY <1>2
<1>10. PowJoined(x, s, o, m, k, l, r, swap)
  BY <1>2, <1>3, <1>4, <1>5, <1>8, <1>9, PowWindows
<1>11. IsSelected(b, c, x) <=> Window(x, l, m, s)
  BY <1>2, <1>3, <1>4, HalvesMarked
<1>12. IsSelected(b, c, x + s) <=> Window(x, r, k, s)
  <2>1. x + s \in s .. n - 1 /\ (x + s) - s = x /\ n - s = s
    <3>1. n = s + s /\ x + s < s + s /\ x + s \in Nat /\ s <= x + s
      BY <1>2, <1>9
    <3>2. QED BY <1>9, <3>1
  <2>2. QED BY <1>2, <1>3, <1>5, <2>1, HalvesMarked
<1>13. IsSelected(SwapRange(b, c, AllPairs(c)), c, x)
         = IF swap THEN IsSelected(b, c, x + s) ELSE IsSelected(b, c, x)
  <2>1. x \in 0 .. c.n - 1 /\ x < Pairs(c) /\ ~ (x >= Apart(c))
    BY <1>2, <1>6, <1>9
  <2>2. QED BY <1>1, <1>6, <1>7, <2>1, LevelMarks
<1>14. IsSelected(SwapRange(b, c, AllPairs(c)), c, x + s)
         = IF swap THEN IsSelected(b, c, x) ELSE IsSelected(b, c, x + s)
  <2>1. PICK y \in Nat : y = x + s
    BY <1>9
  <2>2. y \in 0 .. c.n - 1 /\ ~ (y < Pairs(c)) /\ y >= Apart(c) /\ y - Apart(c) = x /\ x < Pairs(c)
    BY <1>2, <1>6, <1>9, <2>1
  <2>3. QED BY <1>1, <1>7, <2>1, <2>2, LevelMarks
<1>15. InWindow(c, x) = Window(x, o, m + k, 2 * s)
       /\ InWindow(c, x + s) = Window(x + s, o, m + k, 2 * s)
  BY <1>2, <1>3 DEF InWindow
<1>16. QED BY <1>2, <1>10, <1>11, <1>12, <1>13, <1>14, <1>15 DEF PowJoined

LEMMA RestLevel ==
  ASSUME NEW c, Fits(c), c.n > 2, ~ c.pow, NEW b, HalvesDone(b, c), NEW x \in 0 .. c.n - 1,
         DOMAIN b \subseteq Nat, Places(c) \subseteq DOMAIN b
  PROVE  IsSelected(SwapRange(b, c, AllPairs(c)), c, x) <=> InWindow(c, x)
<1>1. c \in Call /\ HalvesAre(c) /\ c.offset = 0
  BY Halved DEF Fits
<1>2. PICK lo \in Nat, n \in Nat, s \in Nat :
        lo = c.lo /\ n = c.n /\ s = Split(c) /\ 1 <= s /\ s < n /\ pow2_lt[c.n] = n - s /\ s <= n - s
  BY <1>1, SplitFits DEF Call
<1>3. PICK q \in Nat : q = n - s /\ s <= q /\ n = s + q /\ q = pow2_lt[c.n] /\ 1 <= q
  BY <1>2
<1>4. PICK m \in Nat, k \in Nat : /\ m = SelectedLeft(c) /\ k = Selected(lo + s, q)
                                  /\ m <= s /\ k <= q /\ m + k = Selected(lo, n)
  <2>1. s \in 0 .. n
    BY <1>2
  <2>2. Selected(lo, s) \in 0 .. s /\ Selected(lo + s, n - s) \in 0 .. n - s
        /\ Selected(lo, n) = Selected(lo, s) + Selected(lo + s, n - s)
    BY <2>1, SelectedIs
  <2>3. QED BY <1>2, <1>3, <2>2 DEF SelectedLeft
<1>5. PICK r \in Nat : r = OffsetRight(c) /\ r = Reduced((q - s) + m, q)
  <2>1. PICK a \in Nat : a = (q - s) + m /\ a < 2 * q
    BY <1>2, <1>3, <1>4
  <2>2. a % q = Reduced(a, q) /\ Reduced(a, q) \in Nat
    <3>1. a % q = Reduced(a, q)
      BY <1>3, <2>1, ModIs
    <3>2. Reduced(a, q) \in Nat
      BY <2>1 DEF Reduced
    <3>3. QED BY <3>1, <3>2
  <2>3. OffsetRight(c) = IF IsSerial(c) THEN a % q ELSE a
    BY <1>2, <1>3, <1>4, <2>1 DEF OffsetRight
  <2>4. RightCall(c).offset = OffsetRight(c) /\ RightCall(c).n = q
    BY <1>1, <1>2, <1>3 DEF HalvesAre
  <2>5. OffsetRight(c) < q
    BY <2>4 DEF HalvesDone
  <2>6. OffsetRight(c) = Reduced(a, q)
    BY <2>1, <2>2, <2>3, <2>5 DEF Reduced
  <2>7. QED BY <2>1, <2>2, <2>6
<1>6. Pairs(c) = s /\ Apart(c) = q
  BY <1>2, <1>3 DEF Pairs, Apart, IsBase
<1>7. \A i : Swaps(c, i) = (i >= m)
  BY <1>2, <1>4 DEF Swaps, IsBase
<1>8. x \in Nat /\ x < n
  BY <1>2
<1>9. RestJoined(x, s, q, m, k, r)
  BY <1>2, <1>3, <1>4, <1>5, <1>8, RestWindows
<1>10. InWindow(c, x) = Window(x, 0, m + k, s + q)
  BY <1>1, <1>2, <1>3, <1>4 DEF InWindow
<1>11. \A y \in 0 .. s - 1 : IsSelected(b, c, y) <=> Window(y, 0, m, s)
  <2>1. LeftCall(c).offset = 0
    BY <1>1 DEF HalvesAre
  <2>2. QED BY <1>2, <1>4, <2>1, HalvesMarked
<1>12. \A y \in s .. n - 1 : IsSelected(b, c, y) <=> Window(y - s, r, k, q)
  BY <1>2, <1>3, <1>4, <1>5, HalvesMarked
<1>13. IsSelected(SwapRange(b, c, AllPairs(c)), c, x)
         = IF x < s /\ x >= m THEN IsSelected(b, c, x + q)
           ELSE IF x >= q /\ x - q < s /\ x - q >= m THEN IsSelected(b, c, x - q)
           ELSE IsSelected(b, c, x)
  BY <1>1, <1>6, <1>7, LevelMarks
<1>14. CASE x < s
  <2>1. x \in 0 .. s - 1 /\ x + q \in s .. n - 1 /\ ~ (x >= q)
    BY <1>3, <1>8, <1>14
  <2>2. QED BY <1>9, <1>10, <1>11, <1>12, <1>13, <1>14, <2>1 DEF RestJoined
<1>15. CASE x >= q
  <2>1. x - q \in 0 .. s - 1 /\ x \in s .. n - 1 /\ ~ (x < s) /\ x - q < s
    BY <1>3, <1>8, <1>15
  <2>2. QED BY <1>9, <1>10, <1>11, <1>12, <1>13, <1>15, <2>1 DEF RestJoined
<1>16. CASE x >= s /\ x < q
  <2>1. x \in s .. n - 1 /\ ~ (x < s) /\ ~ (x >= q)
    BY <1>3, <1>8, <1>16
  <2>2. QED BY <1>9, <1>10, <1>12, <1>13, <1>16, <2>1 DEF RestJoined
<1>17. QED BY <1>3, <1>8, <1>14, <1>15, <1>16

LEMMA LevelDone ==
  ASSUME NEW c, Fits(c), c.n > 2, NEW b, HalvesDone(b, c),
         DOMAIN b \subseteq Nat, Places(c) \subseteq DOMAIN b
  PROVE  CompactIn(SwapRange(b, c, AllPairs(c)), c)
<1> DEFINE d == SwapRange(b, c, AllPairs(c))
<1>1. c \in Call /\ AllPairs(c) \subseteq 0 .. Pairs(c) - 1
  BY DEF Fits, AllPairs
<1>2. Own(d, c)
  <2>1. SameRecords(d, b, c)
    BY <1>1, SwapRangeKeeps
  <2>2. QED BY <2>1, HalvesMarked DEF Own, SameRecords
<1>3. ASSUME NEW x \in 0 .. c.n - 1 PROVE IsSelected(d, c, x) <=> InWindow(c, x)
  <2>1. CASE ~ c.pow
    BY <2>1, RestLevel
  <2>2. CASE c.pow
    <3>1. PICK n \in Nat, s \in Nat : n = c.n /\ s = Split(c) /\ n = 2 * s
      BY <1>1, <2>2, SplitFits, HalvedFit DEF Call, HalvesFit
    <3>2. CASE x < s
      <4>1. x \in 0 .. s - 1
        BY <3>2
      <4>2. QED BY <2>2, <3>1, <4>1, PowLevel
    <3>3. CASE ~ (x < s)
      <4>1. PICK y \in 0 .. s - 1 : x = y + s
        <5>1. x - s \in 0 .. s - 1 /\ x = (x - s) + s
          BY <3>1, <3>3
        <5>2. QED BY <5>1
      <4>2. QED BY <2>2, <3>1, <4>1, PowLevel
    <3>4. QED BY <3>2, <3>3
  <2>3. QED BY <2>1, <2>2
<1>4. QED BY <1>2, <1>3 DEF CompactIn


-----------------------------------------------------------------------------
(* A call from its beginning to its end.                                    *)

\* Nothing has been moved in the places of c.
Fresh(b, c) == \A p \in Places(c) : b[p] = p

\* A call of two records or fewer.
LEMMA BaseDone ==
  ASSUME NEW c, Fits(c), c.n <= 2, c.n > 0 => c.offset < c.n, NEW b, Fresh(b, c),
         DOMAIN b \subseteq Nat, Places(c) \subseteq DOMAIN b
  PROVE  CompactIn(SwapRange(b, c, AllPairs(c)), c)
<1> DEFINE d == SwapRange(b, c, AllPairs(c))
<1>1. c \in Call /\ c.lo \in Nat /\ c.n \in Nat /\ c.offset \in Nat /\ AllPairs(c) \subseteq 0 .. Pairs(c) - 1
  BY DEF Fits, AllPairs, Call
<1>2. Own(d, c)
  <2>1. SameRecords(d, b, c)
    BY <1>1, SwapRangeKeeps
  <2>2. {b[p] : p \in Places(c)} = Places(c)
    BY DEF Fresh
  <2>3. QED BY <2>1, <2>2 DEF SameRecords, Own
<1>3. \A k \in Nat : Selected(k, 1) = IF k \in selected THEN 1 ELSE 0
  <2>1. ASSUME NEW k \in Nat PROVE Selected(k, 1) = IF k \in selected THEN 1 ELSE 0
    <3>1. k .. k + 1 - 1 = {k}
      OBVIOUS
    <3>2. CASE k \in selected
      <4>1. selected \cap (k .. k + 1 - 1) = {k}
        BY <3>1, <3>2
      <4>2. Cardinality({k}) = 1
        BY FS_Singleton
      <4>3. QED BY <3>2, <4>1, <4>2 DEF Selected
    <3>3. CASE k \notin selected
      <4>1. selected \cap (k .. k + 1 - 1) = {}
        BY <3>1, <3>3
      <4>2. Cardinality({}) = 0
        BY FS_EmptySet
      <4>3. QED BY <3>3, <4>1, <4>2 DEF Selected
    <3>4. QED BY <3>2, <3>3
  <2>2. QED BY <2>1
<1>4. \A x \in 0 .. c.n - 1 : b[c.lo + x] = c.lo + x
  BY <1>1 DEF Fresh, Places
<1>5. ASSUME NEW x \in 0 .. c.n - 1 PROVE IsSelected(d, c, x) <=> InWindow(c, x)
  <2>1. c.offset < c.n /\ c.n > 0
    BY <1>1
  <2>2. IsSelected(b, c, x) <=> c.lo + x \in selected
    BY <1>4 DEF IsSelected
  <2>3. CASE c.n = 1
    <3>1. x = 0 /\ c.offset = 0 /\ Pairs(c) = 0 /\ c.lo + x = c.lo
      BY <1>1, <2>1, <2>3 DEF Pairs
    <3>2. IsSelected(d, c, x) = IsSelected(b, c, x)
      <4>1. Apart(c) = 1
        BY <2>3 DEF Apart, IsBase
      <4>2. QED BY <1>1, <3>1, <4>1, LevelMarks
    <3>3. InWindow(c, x) <=> 0 < Selected(c.lo, 1)
      BY <2>3, <3>1 DEF InWindow, Window
    <3>4. QED BY <1>1, <1>3, <2>2, <3>1, <3>2, <3>3
  <2>4. CASE c.n = 2
    <3>1. x \in {0, 1} /\ c.offset \in {0, 1} /\ Pairs(c) = 1 /\ Apart(c) = 1
      BY <1>1, <2>1, <2>4 DEF Pairs, Apart, IsBase
    <3>2. PICK lo \in Nat, o \in {0, 1} : lo = c.lo /\ o = c.offset
      BY <1>1, <3>1
    <3>3. Selected(lo, 2) = (IF lo \in selected THEN 1 ELSE 0) + (IF lo + 1 \in selected THEN 1 ELSE 0)
      <4>1. 1 \in 0 .. 2 /\ 2 \in Nat
        OBVIOUS
      <4>2. Selected(lo, 2) = Selected(lo, 1) + Selected(lo + 1, 2 - 1)
        BY <4>1, SelectedIs
      <4>3. 2 - 1 = 1 /\ lo + 1 \in Nat
        OBVIOUS
      <4>4. QED BY <1>3, <4>2, <4>3
    <3>4. InWindow(c, x) <=> Window(x, o, Selected(lo, 2), 2)
      BY <2>4, <3>2 DEF InWindow
    <3>5. Swaps(c, 0) <=> (IF lo \notin selected /\ lo + 1 \in selected THEN 1 ELSE 0) # o
      BY <2>4, <3>2 DEF Swaps, IsBase, SwapsTwo
    <3>6. 0 \in 0 .. c.n - 1 /\ 1 \in 0 .. c.n - 1
      BY <2>4
    <3>7. IsSelected(b, c, 0) <=> lo \in selected
      <4>1. lo + 0 = lo
        OBVIOUS
      <4>2. QED BY <1>4, <3>2, <3>6, <4>1 DEF IsSelected
    <3>8. IsSelected(b, c, 1) <=> lo + 1 \in selected
      BY <1>4, <3>2, <3>6 DEF IsSelected
    <3>9. IsSelected(d, c, 0) = IF Swaps(c, 0) THEN IsSelected(b, c, 1) ELSE IsSelected(b, c, 0)
      <4>1. 0 + Apart(c) = 1 /\ 0 < Pairs(c) /\ ~ (0 >= Apart(c))
        BY <3>1
      <4>2. QED BY <1>1, <3>6, <4>1, LevelMarks
    <3>10. IsSelected(d, c, 1) = IF Swaps(c, 0) THEN IsSelected(b, c, 0) ELSE IsSelected(b, c, 1)
      <4>1. 1 - Apart(c) = 0 /\ ~ (1 < Pairs(c)) /\ 0 < Pairs(c) /\ 1 >= Apart(c)
        BY <3>1
      <4>2. QED BY <1>1, <3>6, <4>1, LevelMarks
    <3> HIDE DEF d
    <3>11. CASE x = 0
      <4>1. Window(0, o, Selected(lo, 2), 2)
              <=> (IF o = 0 THEN lo \in selected \/ lo + 1 \in selected
                   ELSE lo \in selected /\ lo + 1 \in selected)
        BY <3>3 DEF Window
      <4>2. QED BY <3>2, <3>4, <3>5, <3>7, <3>8, <3>9, <3>11, <4>1
    <3>12. CASE x = 1
      <4>1. Window(1, o, Selected(lo, 2), 2)
              <=> (IF o = 1 THEN lo \in selected \/ lo + 1 \in selected
                   ELSE lo \in selected /\ lo + 1 \in selected)
        BY <3>3 DEF Window
      <4>2. QED BY <3>2, <3>4, <3>5, <3>7, <3>8, <3>10, <3>12, <4>1
    <3>13. QED BY <3>1, <3>11, <3>12
  <2>5. QED BY <1>1, <2>1, <2>3, <2>4
<1>6. QED BY <1>2, <1>5 DEF CompactIn

\* The calls whose places are there.
Held == {d \in Call : Places(d) \subseteq DOMAIN buf}

OneThread(f, c, b) ==
  SwapRange(IF IsBase(c) THEN b ELSE f[RightCall(c)][f[LeftCall(c)][b]], c, 0 .. Pairs(c) - 1)

LEMMA HeldHalves ==
  ASSUME NEW c \in Held, ~ IsBase(c)
  PROVE  /\ LeftCall(c) \in Held /\ RightCall(c) \in Held
         /\ LeftCall(c).n \in Nat /\ RightCall(c).n \in Nat
         /\ LeftCall(c).n < c.n /\ RightCall(c).n < c.n /\ c.n \in Nat
<1>1. c \in Call /\ c.n \in Nat /\ c.n > 2 /\ c.lo \in Nat /\ Places(c) \subseteq DOMAIN buf
  BY DEF Held, IsBase, Call
<1>2. HalvesAre(c)
  BY <1>1, Halved
<1>3. PICK l \in Call, h \in Call, s \in Nat :
        /\ l = LeftCall(c) /\ h = RightCall(c) /\ 1 <= s /\ s < c.n
        /\ l.lo = c.lo /\ l.n = s /\ h.lo = c.lo + s /\ h.n = c.n - s
  <2>1. Split(c) \in Nat /\ 1 <= Split(c) /\ Split(c) < c.n
    BY <1>1, <1>2 DEF HalvesAre
  <2>2. QED BY <1>2, <2>1 DEF HalvesAre
<1>4. Places(l) \subseteq Places(c) /\ Places(h) \subseteq Places(c)
  BY <1>1, <1>3 DEF Places
<1>5. QED BY <1>1, <1>3, <1>4 DEF Held

Halver(f, c) == f[LeftCall(c)] \in [Array -> Array] /\ f[RightCall(c)] \in [Array -> Array]

LEMMA OneThreadStays ==
  ASSUME DOMAIN buf \subseteq Nat, NEW c \in Held, NEW f, IsBase(c) \/ Halver(f, c), NEW b \in Array
  PROVE  OneThread(f, c, b) \in Array
<1>1. c \in Call /\ Places(c) \subseteq DOMAIN buf
  BY DEF Held
<1>2. PICK e : e = IF IsBase(c) THEN b ELSE f[RightCall(c)][f[LeftCall(c)][b]]
  OBVIOUS
<1>3. e \in Array
  <2>1. CASE IsBase(c)
    BY <1>2, <2>1
  <2>2. CASE ~ IsBase(c)
    BY <1>2, <2>2 DEF Halver
  <2>3. QED BY <2>1, <2>2
<1>4. DOMAIN e = DOMAIN buf
  BY <1>3 DEF Array
<1>5. SwapRange(e, c, 0 .. Pairs(c) - 1) \in Array
  <2>1. e \in [DOMAIN buf -> DOMAIN buf]
    BY <1>3 DEF Array
  <2>2. StaysArray(SwapRange(e, c, 0 .. Pairs(c) - 1), e)
    BY <1>1, <1>4, SwapRangeKeeps
  <2>3. QED BY <2>1, <2>2 DEF Array, StaysArray
<1>6. QED BY <1>2, <1>5 DEF OneThread

LEMMA OneThreadKeeps ==
  ASSUME DOMAIN buf \subseteq Nat, NEW c \in Held, NEW f \in [Held -> [Array -> Array]], NEW b \in Array
  PROVE  OneThread(f, c, b) \in Array
<1>1. IsBase(c) \/ Halver(f, c)
  BY HeldHalves DEF Halver
<1>2. QED BY <1>1, OneThreadStays

LEMMA CompactedSolved ==
  ASSUME DOMAIN buf \subseteq Nat
  PROVE  \E f \in [Held -> [Array -> Array]] : \A c \in Held : f[c] = [b \in Array |-> OneThread(f, c, b)]
<1> DEFINE V == [Array -> Array]
           H == [c \in Held |-> [g \in [Held -> V] |-> [b \in Array |-> OneThread(g, c, b)]]]
           mu == [c \in Held |-> c.n]
<1>1. mu \in [Held -> Nat]
  BY DEF Held, Call
<1>2. H \in [Held -> [[Held -> V] -> V]]
  <2>1. ASSUME NEW c \in Held, NEW g \in [Held -> V] PROVE [b \in Array |-> OneThread(g, c, b)] \in V
    BY OneThreadKeeps
  <2>2. QED
    <3> HIDE DEF V
    <3>1. QED BY <2>1
<1>3. ASSUME NEW c \in Held, NEW g \in [Held -> V], NEW h \in [Held -> V],
             AgreeBelow(g, h, Held, mu, mu[c])
      PROVE  H[c][g] = H[c][h]
  <2>1. \A b \in Array : OneThread(g, c, b) = OneThread(h, c, b)
    <3>1. CASE IsBase(c)
      BY <3>1 DEF OneThread
    <3>2. CASE ~ IsBase(c)
      <4>1. g[LeftCall(c)] = h[LeftCall(c)] /\ g[RightCall(c)] = h[RightCall(c)]
        BY <1>3, <3>2, HeldHalves DEF AgreeBelow
      <4>2. QED BY <4>1 DEF OneThread
    <3>3. QED BY <3>1, <3>2
  <2>2. H[c][g] = [b \in Array |-> OneThread(g, c, b)] /\ H[c][h] = [b \in Array |-> OneThread(h, c, b)]
    <3> HIDE DEF V
    <3>1. QED BY <1>3
  <2>3. QED
    <3> HIDE DEF H
    <3>1. QED BY <2>1, <2>2
<1>4. Descends(H, Held, V, mu)
  <2> HIDE DEF H, mu, V
  <2>1. QED BY <1>3 DEF Descends
<1>5. V # {}
  <2>1. [b \in Array |-> b] \in V
    OBVIOUS
  <2>2. QED BY <2>1
<1>6. \E f \in [Held -> V] : \A c \in Held : f[c] = H[c][f]
  <2> HIDE DEF H, mu, V
  <2>1. Recursion(H, Held, V, mu)
    BY <1>1, <1>2, <1>4, <1>5 DEF Recursion
  <2>2. QED BY <2>1, RecursionSolved
<1>7. PICK f \in [Held -> V] : \A c \in Held : f[c] = H[c][f]
  BY <1>6
<1>8. \A c \in Held : f[c] = [b \in Array |-> OneThread(f, c, b)]
  <2> HIDE DEF V
  <2>1. QED BY <1>7
<1>9. QED BY <1>7, <1>8

LEMMA CompactedIs ==
  ASSUME DOMAIN buf \subseteq Nat, NEW c \in Held
  PROVE  Compacted[c] = [b \in Array |-> OneThread(Compacted, c, b)]
<1>1. PICK f \in [Held -> [Array -> Array]] : \A d \in Held : f[d] = [b \in Array |-> OneThread(f, d, b)]
  BY CompactedSolved
<1>2. f = [d \in Held |-> [b \in Array |-> OneThread(f, d, b)]]
  BY <1>1
<1>3. f = [d \in {e \in Call : Places(e) \subseteq DOMAIN buf} |->
            [b \in Array |->
              SwapRange(IF IsBase(d) THEN b ELSE f[RightCall(d)][f[LeftCall(d)][b]],
                        d, 0 .. Pairs(d) - 1)]]
  BY <1>2 DEF OneThread, Held
<1>4. Compacted = [d \in {e \in Call : Places(e) \subseteq DOMAIN buf} |->
            [b \in Array |->
              SwapRange(IF IsBase(d) THEN b ELSE Compacted[RightCall(d)][Compacted[LeftCall(d)][b]],
                        d, 0 .. Pairs(d) - 1)]]
  BY <1>3 DEF Compacted
<1>5. Compacted = [d \in Held |-> [b \in Array |-> OneThread(Compacted, d, b)]]
  BY <1>4 DEF OneThread, Held
<1>6. QED BY <1>5

LEMMA CompactedType ==
  ASSUME DOMAIN buf \subseteq Nat, NEW c \in Held
  PROVE  Compacted[c] \in [Array -> Array]
<1> DEFINE bad == {m \in Nat : \E d \in Held : d.n = m /\ Compacted[d] \notin [Array -> Array]}
<1>1. bad = {}
  <2>1. SUFFICES ASSUME bad # {} PROVE FALSE
    OBVIOUS
  <2>2. PICK m \in bad : \A k \in bad : m <= k
    <3>1. bad \subseteq Nat
      OBVIOUS
    <3>2. QED
      <4> HIDE DEF bad
      <4>1. QED BY <2>1, <3>1, LeastNumber
  <2>3. PICK d \in Held : d.n = m /\ Compacted[d] \notin [Array -> Array]
    BY <2>2
  <2>4. IsBase(d) \/ Halver(Compacted, d)
    <3>1. SUFFICES ASSUME ~ IsBase(d) PROVE Halver(Compacted, d)
      OBVIOUS
    <3>2. PICK l \in Held, h \in Held : l = LeftCall(d) /\ h = RightCall(d)
      BY <3>1, HeldHalves
    <3>3. l.n \in Nat /\ h.n \in Nat /\ l.n < m /\ h.n < m
      BY <2>3, <3>1, <3>2, HeldHalves
    <3>4. l.n \notin bad /\ h.n \notin bad
      BY <2>2, <3>3
    <3>5. QED BY <3>2, <3>3, <3>4 DEF Halver
  <2>5. \A b \in Array : OneThread(Compacted, d, b) \in Array
    BY <2>4, OneThreadStays
  <2>6. Compacted[d] = [b \in Array |-> OneThread(Compacted, d, b)]
    BY CompactedIs
  <2>7. QED BY <2>3, <2>5, <2>6
<1>2. c.n \in Nat
  BY DEF Held, Call
<1>3. QED BY <1>1, <1>2

LEMMA DoneKept ==
  ASSUME NEW c \in Call, NEW b, NEW d, CompactIn(b, c), \A p \in Places(c) : d[p] = b[p]
  PROVE  CompactIn(d, c)
<1>1. {d[p] : p \in Places(c)} = {b[p] : p \in Places(c)}
  OBVIOUS
<1>2. ASSUME NEW x \in 0 .. c.n - 1 PROVE IsSelected(d, c, x) = IsSelected(b, c, x)
  <2>1. c.lo + x \in Places(c)
    BY DEF Places, Call
  <2>2. QED BY <2>1 DEF IsSelected
<1>3. QED BY <1>1, <1>2 DEF CompactIn, Own

\* What one thread makes of call c in array b.
ThreadDone(c, b) ==
  /\ Compacted[c][b] \in Array /\ CompactIn(Compacted[c][b], c)
  /\ \A p \in DOMAIN buf : p \notin Places(c) => Compacted[c][b][p] = b[p]
SaneBelow(c) == \A d \in Calls[c] : d.n > 0 => d.offset < d.n
Callable(c) == c \in Held /\ Fits(c) /\ SaneBelow(c)

LEMMA SaneLeaf ==
  ASSUME NEW c \in Call, IsLeaf(c)
  PROVE  SaneBelow(c) <=> (c.n > 0 => c.offset < c.n)
<1>1. Calls[c] = {c}
  BY CallsIs
<1>2. QED BY <1>1 DEF SaneBelow

LEMMA SaneHalves ==
  ASSUME NEW c \in Call, SaneBelow(c)
  PROVE  /\ c.n > 0 => c.offset < c.n
         /\ ~ IsLeaf(c) => SaneBelow(LeftCall(c)) /\ SaneBelow(RightCall(c))
<1>1. c \in Calls[c] /\ (~ IsLeaf(c) => Calls[LeftCall(c)] \subseteq Calls[c] /\ Calls[RightCall(c)] \subseteq Calls[c])
  BY CallsIs
<1>2. ~ IsLeaf(c) => LeftCall(c) \in Call /\ RightCall(c) \in Call
  BY SplitCall
<1>3. QED BY <1>1, <1>2 DEF SaneBelow

LEMMA ThreadLevel ==
  ASSUME DOMAIN buf \subseteq Nat, NEW c, Callable(c), ~ IsBase(c), NEW b \in Array, Fresh(b, c),
         Callable(LeftCall(c)) => \A d \in Array : Fresh(d, LeftCall(c)) => ThreadDone(LeftCall(c), d),
         Callable(RightCall(c)) => \A d \in Array : Fresh(d, RightCall(c)) => ThreadDone(RightCall(c), d)
  PROVE  ThreadDone(c, b)
<1>1. /\ c \in Call /\ c \in Held /\ Fits(c) /\ c.n > 2 /\ c.n \in Nat /\ c.lo \in Nat
      /\ c.offset < c.n /\ c.offset \in Nat /\ Places(c) \subseteq DOMAIN buf /\ SaneBelow(c)
  <2>1. c \in Call /\ c.n > 2 /\ c.n \in Nat /\ c.lo \in Nat /\ c.offset \in Nat
    BY DEF Callable, IsBase, Held, Call
  <2>2. QED BY <2>1, SaneHalves DEF Callable, Held
<1>2. HalvesAre(c) /\ HalvesFit(c)
  BY <1>1, Halved, HalvedFit
<1>3. PICK l, h : l = LeftCall(c) /\ h = RightCall(c)
  OBVIOUS
<1>4. l \in Held /\ h \in Held /\ Fits(l) /\ Fits(h) /\ l \in Call /\ h \in Call
      /\ (IsSerial(c) => IsLeaf(l) /\ IsLeaf(h))
      /\ (~ IsSerial(c) => SaneBelow(l) /\ SaneBelow(h))
  <2>1. ~ IsSerial(c) => ~ IsLeaf(c)
    BY <1>1 DEF IsLeaf, IsBase
  <2>2. QED BY <1>1, <1>2, <1>3, <2>1, HeldHalves, SaneHalves DEF HalvesFit, IsLeaf, Held
<1>5. PICK s \in Nat : s = Split(c) /\ 1 <= s /\ s < c.n /\ l.n = s /\ h.n = c.n - s /\ l.lo = c.lo /\ h.lo = c.lo + s
  BY <1>1, <1>2, <1>3, SplitFits DEF HalvesAre
<1>6. l.offset < l.n
  <2>1. l.offset = IF c.pow THEN c.offset % s ELSE 0
    BY <1>2, <1>3, <1>5 DEF HalvesAre
  <2>2. c.offset % s < s
    BY <1>1, <1>5
  <2>3. QED BY <1>5, <2>1, <2>2
<1>7. h.offset < h.n
  <2>1. h.offset = OffsetRight(c)
    BY <1>2, <1>3 DEF HalvesAre
  <2>2. SelectedLeft(c) \in Nat
    <3>1. 0 \in 0 .. s
      OBVIOUS
    <3>2. Selected(c.lo, s) \in 0 .. s
      BY <1>1, <3>1, SelectedIs
    <3>3. QED BY <1>5, <3>2 DEF SelectedLeft
  <2>3. CASE c.pow
    <3>1. PICK a \in Nat : a = c.offset + SelectedLeft(c)
      BY <1>1, <2>2
    <3>2. a % s < s
      BY <1>5
    <3>3. OffsetRight(c) < s
      BY <1>5, <2>3, <3>1, <3>2 DEF OffsetRight
    <3>4. h.n = s
      BY <1>1, <1>2, <1>5, <2>3 DEF HalvesFit
    <3>5. QED BY <2>1, <3>3, <3>4
  <2>4. CASE ~ c.pow
    <3>1. PICK q \in Nat : q = pow2_lt[c.n] /\ q = h.n /\ q >= 1 /\ s <= q
      BY <1>1, <1>2, <1>5, <2>4 DEF HalvesFit
    <3>2. PICK a \in Nat : a = q - s + SelectedLeft(c)
      BY <2>2, <3>1
    <3>3. a % q < q
      BY <3>1
    <3>4. CASE IsSerial(c)
      <4>1. OffsetRight(c) = a % q
        BY <1>1, <1>5, <2>4, <3>1, <3>2, <3>4 DEF OffsetRight
      <4>2. QED BY <2>1, <3>1, <3>3, <4>1
    <3>5. CASE ~ IsSerial(c)
      <4>1. h.n > 0
        BY <3>1
      <4>2. QED BY <1>4, <3>5, <4>1, SaneHalves
    <3>6. QED BY <3>4, <3>5
  <2>5. QED BY <2>3, <2>4
<1>8. Callable(l) /\ Callable(h)
  BY <1>4, <1>6, <1>7, SaneLeaf DEF Callable
<1>9. /\ Places(l) \subseteq Places(c) /\ Places(h) \subseteq Places(c) /\ Places(l) \cap Places(h) = {}
  BY <1>1, <1>5 DEF Places
<1>10. PICK e : e = Compacted[l][b]
  OBVIOUS
<1>11. ThreadDone(l, b)
  BY <1>3, <1>8, <1>9 DEF Fresh
<1>12. e \in Array /\ CompactIn(e, l) /\ \A p \in DOMAIN buf : p \notin Places(l) => e[p] = b[p]
  BY <1>10, <1>11 DEF ThreadDone
<1>13. Fresh(e, h)
  BY <1>1, <1>9, <1>12 DEF Fresh
<1>14. PICK g : g = Compacted[h][e]
  OBVIOUS
<1>15. ThreadDone(h, e)
  BY <1>3, <1>8, <1>12, <1>13
<1>16. g \in Array /\ CompactIn(g, h) /\ \A p \in DOMAIN buf : p \notin Places(h) => g[p] = e[p]
  BY <1>14, <1>15 DEF ThreadDone
<1>17. CompactIn(g, l)
  <2>1. \A p \in Places(l) : g[p] = e[p]
    BY <1>1, <1>9, <1>16
  <2>2. l \in Call
    BY <1>4 DEF Held
  <2>3. QED BY <1>12, <2>1, <2>2, DoneKept
<1>18. HalvesDone(g, c)
  BY <1>1, <1>3, <1>6, <1>7, <1>16, <1>17 DEF HalvesDone
<1>19. DOMAIN g = DOMAIN buf
  BY <1>16 DEF Array
<1>20. Compacted[c][b] = SwapRange(g, c, AllPairs(c))
  <2>1. Compacted[c][b] = OneThread(Compacted, c, b)
    BY <1>1, CompactedIs
  <2>2. QED BY <1>3, <1>10, <1>14, <2>1 DEF OneThread, AllPairs
<1>21. CompactIn(SwapRange(g, c, AllPairs(c)), c)
  BY <1>1, <1>18, <1>19, LevelDone
<1>22. /\ StaysArray(SwapRange(g, c, AllPairs(c)), g)
       /\ \A p \in DOMAIN g : p \notin Places(c) => SwapRange(g, c, AllPairs(c))[p] = g[p]
  <2>1. AllPairs(c) \subseteq 0 .. Pairs(c) - 1 /\ DOMAIN g \subseteq Nat /\ Places(c) \subseteq DOMAIN g
    BY <1>1, <1>19 DEF AllPairs
  <2>2. QED BY <1>1, <2>1, SwapRangeKeeps
<1>23. SwapRange(g, c, AllPairs(c)) \in Array
  BY <1>16, <1>22 DEF StaysArray, Array
<1>24. \A p \in DOMAIN buf : p \notin Places(c) => SwapRange(g, c, AllPairs(c))[p] = b[p]
  BY <1>9, <1>12, <1>16, <1>19, <1>22
<1>25. QED BY <1>20, <1>21, <1>23, <1>24 DEF ThreadDone


\* A call is compacted, and nothing else is touched.
LEMMA ThreadCompacts ==
  ASSUME DOMAIN buf \subseteq Nat, NEW c, Callable(c), NEW b \in Array, Fresh(b, c)
  PROVE  ThreadDone(c, b)
<1> DEFINE wrong(d) == Callable(d) /\ \E e \in Array : Fresh(e, d) /\ ~ ThreadDone(d, e)
           bad == {m \in Nat : \E d \in Held : d.n = m /\ wrong(d)}
<1>1. bad = {}
  <2>1. SUFFICES ASSUME bad # {} PROVE FALSE
    OBVIOUS
  <2>2. PICK m \in bad : \A k \in bad : m <= k
    <3>1. bad \subseteq Nat
      OBVIOUS
    <3>2. QED
      <4> HIDE DEF bad
      <4>1. QED BY <2>1, <3>1, LeastNumber
  <2>3. PICK d \in Held : d.n = m /\ wrong(d)
    BY <2>2
  <2>4. PICK e \in Array : Fresh(e, d) /\ ~ ThreadDone(d, e)
    BY <2>3
  <2>5. Callable(d) /\ Fits(d) /\ d \in Call /\ Places(d) \subseteq DOMAIN buf /\ DOMAIN e = DOMAIN buf
    BY <2>3 DEF Callable, Held, Array
  <2>6. CASE IsBase(d)
    <3>1. Compacted[d][e] = SwapRange(e, d, AllPairs(d))
      <4>1. Compacted[d][e] = OneThread(Compacted, d, e)
        BY CompactedIs
      <4>2. QED BY <2>6, <4>1 DEF OneThread, AllPairs
    <3>2. CompactIn(SwapRange(e, d, AllPairs(d)), d)
      <4>1. d.n > 0 => d.offset < d.n
        BY <2>5, SaneHalves DEF Callable
      <4>2. QED BY <2>4, <2>5, <2>6, <4>1, BaseDone DEF IsBase
    <3>3. AllPairs(d) \subseteq 0 .. Pairs(d) - 1
      BY DEF AllPairs
    <3>4. /\ StaysArray(SwapRange(e, d, AllPairs(d)), e)
          /\ \A p \in DOMAIN e : p \notin Places(d) => SwapRange(e, d, AllPairs(d))[p] = e[p]
      BY <2>5, <3>3, SwapRangeKeeps
    <3>5. ThreadDone(d, e)
      BY <2>5, <3>1, <3>2, <3>4 DEF ThreadDone, StaysArray, Array
    <3>6. QED BY <2>4, <3>5
  <2>7. CASE ~ IsBase(d)
    <3>1. PICK l, h : l = LeftCall(d) /\ h = RightCall(d)
      OBVIOUS
    <3>2. l \in Held /\ h \in Held /\ l.n \in Nat /\ h.n \in Nat /\ l.n < m /\ h.n < m
      BY <2>3, <2>7, <3>1, HeldHalves
    <3>3. ~ wrong(l) /\ ~ wrong(h)
      <4>1. l.n \notin bad /\ h.n \notin bad
        BY <2>2, <3>2
      <4>2. QED BY <3>2, <4>1
    <3>4. ThreadDone(d, e)
      <4>1. Callable(l) => \A a \in Array : Fresh(a, l) => ThreadDone(l, a)
        BY <3>3
      <4>2. Callable(h) => \A a \in Array : Fresh(a, h) => ThreadDone(h, a)
        BY <3>3
      <4>3. QED BY <2>4, <2>5, <2>7, <3>1, <4>1, <4>2, ThreadLevel
    <3>5. QED BY <2>4, <3>4
  <2>8. QED BY <2>6, <2>7
<1>2. c \in Held /\ c.n \in Nat
  BY DEF Callable, Held, Call
<1>3. QED BY <1>1, <1>2

-----------------------------------------------------------------------------
(* The jobs.                                                                *)

\* Both halves of c are taken up by its swaps.
Consumed(c) == \E job \in done : ~ IsLeaf(job[1]) /\ c \in Children(job[1])

\* Ended(c) is known of all calls below one whose swaps may start.
InTree ==
  \E r : Fits(r) /\ r.thread = 0 /\ r.nthreads = threads /\ IsTree(tree, r)
Ordered == \A job \in done : job[1] \in tree /\ job[2] \in Job(job[1]) /\ Unlocked(job[1])

LEMMA JobIs ==
  ASSUME NEW c, Fits(c)
  PROVE  Job(c) \subseteq Nat /\ \E i : i \in Job(c)
<1>1. c.nthreads \in Nat /\ c.nthreads >= 1
  BY DEF Fits, Call
<1>2. 0 \in 0 .. c.nthreads - 1
  BY <1>1
<1>3. QED BY <1>1, <1>2 DEF Job

\* What is below d in e is a half of e, or below a call below e of which it is a half.
LEMMA BelowParent ==
  ASSUME NEW T, NEW r, IsTree(T, r), NEW d \in T, NEW e \in T, Below(d, e), d.n >= 1
  PROVE  d \in Children(e) \/ \E f \in T : ~ IsLeaf(f) /\ d \in Children(f) /\ Below(f, e) /\ d.n < f.n
<1>1. \A c \in T : Fits(c) /\ c \in Call /\ c.n \in Nat /\ c.lo \in Nat
  BY DEF IsTree, Rooted, Fits, Call
<1>2. \A c \in T : ~ IsLeaf(c) => \A h \in Children(c) : Fits(h) /\ Within(h, c) /\ h.n \in Nat /\ 1 <= h.n /\ h.n < c.n
  BY <1>1, ChildrenApart
<1>3. ~ IsLeaf(e) /\ d.n < e.n
  <2>1. PICK h \in Children(e) : Within(d, h) /\ ~ IsLeaf(e)
    BY DEF Below
  <2>2. QED BY <1>1, <1>2, <2>1 DEF Within
<1>4. d # r
  BY <1>1, <1>3 DEF IsTree, Rooted, Within
<1>5. PICK f \in T : ~ IsLeaf(f) /\ d \in Children(f)
  BY <1>4 DEF IsTree, Linked, IsChild
<1>6. Within(d, f) /\ d.n < f.n
  BY <1>2, <1>5
<1>7. d.lo \in Places(d)
  BY <1>1 DEF Places
<1>8. CASE f = e
  BY <1>5, <1>8
<1>9. CASE Below(f, e)
  BY <1>5, <1>6, <1>9
<1>10. CASE Separate(f, e)
  <2>1. d.lo \in Places(f)
    BY <1>6, <1>7 DEF Within
  <2>2. d.lo \in Places(e)
    <3>1. PICK h \in Children(e) : Within(d, h)
      BY DEF Below
    <3>2. Within(h, e)
      BY <1>2, <1>3, <3>1
    <3>3. QED BY <1>7, <3>1, <3>2 DEF Within
  <2>3. QED BY <1>10, <2>1, <2>2 DEF Separate
<1>11. CASE Below(e, f)
  <2>1. PICK h \in Children(f) : Within(e, h)
    BY <1>11 DEF Below
  <2>2. CASE h = d
    <3>1. e.n <= d.n
      BY <2>1, <2>2 DEF Within
    <3>2. QED BY <1>1, <1>3, <3>1
  <2>3. CASE h # d
    <3>1. Separate(h, d)
      BY <1>1, <1>5, <2>1, <2>3, ChildrenApart DEF Children
    <3>2. PICK g \in Children(e) : Within(d, g)
      BY DEF Below
    <3>3. Within(g, e)
      BY <1>2, <1>3, <3>2
    <3>4. d.lo \in Places(h)
      BY <1>7, <2>1, <3>2, <3>3 DEF Within
    <3>5. QED BY <1>7, <3>1, <3>4 DEF Separate
  <2>4. QED BY <2>2, <2>3
<1>12. QED BY <1>8, <1>9, <1>10, <1>11 DEF IsTree, Nested


LEMMA BelowSmaller ==
  ASSUME NEW T, NEW r, IsTree(T, r), NEW d \in T, NEW e \in T, Below(d, e)
  PROVE  d # r /\ d.n \in Nat /\ e.n \in Nat /\ 1 <= d.n /\ d.n < e.n
<1>1. \A c \in T : Fits(c) /\ c.n \in Nat
  BY DEF IsTree, Rooted, Fits, Call
<1>2. PICK h \in Children(e) : Within(d, h) /\ ~ IsLeaf(e)
  BY DEF Below
<1>3. h.n \in Nat /\ h.n < e.n
  BY <1>1, <1>2, ChildrenApart
<1>4. d.n < e.n
  BY <1>1, <1>2, <1>3 DEF Within
<1>5. d # r
  BY <1>1, <1>4 DEF IsTree, Rooted, Within
<1>6. QED BY <1>1, <1>4, <1>5 DEF IsTree, Rooted

\* Once the swaps of e may start, the calls below it have ended, and its halves
\* are the only ones of them whose caller has not started.
BelowDone(d, e) == Ended(d) /\ (d \in Children(e) \/ Consumed(d))

LEMMA BelowEnded ==
  ASSUME InTree, Ordered, NEW e \in tree, Unlocked(e), NEW d \in tree, Below(d, e)
  PROVE  BelowDone(d, e)
<1>1. PICK r : IsTree(tree, r)
  BY DEF InTree
<1>2. ASSUME NEW c \in tree, Below(c, e) PROVE c.n \in Nat /\ e.n \in Nat /\ 1 <= c.n /\ c.n < e.n
  BY <1>1, <1>2, BelowSmaller
<1> DEFINE bad == {m \in Nat : \E c \in tree : Below(c, e) /\ m = e.n - c.n /\ ~ BelowDone(c, e)}
<1>3. bad = {}
  <2>1. SUFFICES ASSUME bad # {} PROVE FALSE
    OBVIOUS
  <2>2. PICK m \in bad : \A k \in bad : m <= k
    <3>1. bad \subseteq Nat
      OBVIOUS
    <3>2. QED
      <4> HIDE DEF bad
      <4>1. QED BY <2>1, <3>1, LeastNumber
  <2>3. PICK c \in tree : Below(c, e) /\ m = e.n - c.n /\ ~ BelowDone(c, e)
    BY <2>2
  <2>4. c.n \in Nat /\ e.n \in Nat /\ 1 <= c.n /\ c.n < e.n
    BY <1>2, <2>3
  <2>5. CASE c \in Children(e)
    <3>1. ~ IsLeaf(e)
      BY <2>3 DEF Below
    <3>2. Ended(c)
      BY <2>5, <3>1 DEF Unlocked, Children
    <3>3. QED BY <2>3, <2>5, <3>2 DEF BelowDone
  <2>6. CASE c \notin Children(e)
    <3>1. PICK f \in tree : ~ IsLeaf(f) /\ c \in Children(f) /\ Below(f, e) /\ c.n < f.n
      BY <1>1, <2>3, <2>4, <2>6, BelowParent
    <3>2. f.n \in Nat /\ f.n < e.n
      BY <1>2, <3>1
    <3>3. BelowDone(f, e)
      <4>1. e.n - f.n \in Nat /\ e.n - f.n < m
        BY <2>3, <2>4, <3>1, <3>2
      <4>2. e.n - f.n \notin bad
        BY <2>2, <2>4, <3>2, <4>1
      <4>3. QED BY <3>1, <4>1, <4>2
    <3>4. PICK i : i \in Job(f)
      <4>1. Fits(f)
        BY <1>1 DEF IsTree, Rooted
      <4>2. QED BY <4>1, JobIs
    <3>5. <<f, i>> \in done
      BY <3>3, <3>4 DEF BelowDone, Ended
    <3>6. Unlocked(f)
      BY <3>5 DEF Ordered
    <3>7. Ended(c)
      BY <3>1, <3>6 DEF Unlocked, Children
    <3>8. Consumed(c)
      BY <3>1, <3>5 DEF Consumed
    <3>9. QED BY <2>3, <3>7, <3>8 DEF BelowDone
  <2>7. QED BY <2>5, <2>6
<1>4. PICK m : m = e.n - d.n
  OBVIOUS
<1>5. m \in Nat /\ m \notin bad
  BY <1>2, <1>3, <1>4
<1>6. QED BY <1>4, <1>5

LEMMA WorkerIs ==
  ASSUME NEW c, Fits(c), NEW i \in Job(c)
  PROVE  /\ Worker(c, i) \in Threads(c)
         /\ \A j \in Job(c) : Worker(c, i) = Worker(c, j) => i = j
<1>1. c.nthreads \in Nat /\ c.nthreads >= 1 /\ c.thread \in Nat
  BY DEF Fits, Call
<1>2. CASE IsLeaf(c)
  BY <1>1, <1>2 DEF Job, Worker, Threads
<1>3. CASE ~ IsLeaf(c)
  BY <1>1, <1>3 DEF Job, Worker, Threads
<1>4. QED BY <1>2, <1>3

LEMMA ReadyApart ==
  ASSUME InTree, Ordered, NEW c \in tree, NEW e \in tree, Unlocked(c), Unlocked(e),
         ~ Ended(c), ~ Ended(e), c # e
  PROVE  Separate(c, e)
<1>1. PICK r : IsTree(tree, r)
  BY DEF InTree
<1>2. ~ Below(c, e) /\ ~ Below(e, c)
  BY BelowEnded DEF BelowDone
<1>3. QED BY <1>1, <1>2 DEF IsTree, Nested

LEMMA WorkersApart ==
  ASSUME InTree, Ordered
  PROVE  WorkersIdle
<1>1. PICK r : Fits(r) /\ r.thread = 0 /\ r.nthreads = threads /\ IsTree(tree, r)
  BY DEF InTree
<1>2. \A c \in tree : Fits(c) /\ Within(c, r)
  BY <1>1 DEF IsTree, Rooted
<1>3. threads \in Nat /\ Threads(r) = 0 .. threads - 1
  BY <1>1 DEF Fits, Call, Threads
<1>4. ASSUME NEW job \in Ready
      PROVE  \E c \in tree : \E i \in Job(c) : job = <<c, i>> /\ <<c, i>> \notin done /\ Unlocked(c)
                                               /\ job[1] = c /\ job[2] = i
  BY DEF Ready
<1>5. ASSUME NEW job \in Ready, NEW other \in Ready, Worker(other[1], other[2]) = Worker(job[1], job[2])
      PROVE  Worker(job[1], job[2]) < threads /\ other = job
  <2>1. PICK c, i : c \in tree /\ i \in Job(c) /\ job = <<c, i>> /\ <<c, i>> \notin done /\ Unlocked(c)
                             /\ job[1] = c /\ job[2] = i
    BY <1>4
  <2>2. PICK e, j : e \in tree /\ j \in Job(e) /\ other = <<e, j>> /\ <<e, j>> \notin done /\ Unlocked(e)
                             /\ other[1] = e /\ other[2] = j
    BY <1>4
  <2>3. Worker(c, i) \in Threads(c) /\ Worker(e, j) \in Threads(e)
    BY <1>2, <2>1, <2>2, WorkerIs
  <2>4. Worker(c, i) < threads
    <3>1. Worker(c, i) \in 0 .. threads - 1
      BY <1>2, <1>3, <2>1, <2>3 DEF Within
    <3>2. QED BY <1>3, <3>1
  <2>5. ~ Separate(c, e)
    BY <1>5, <2>1, <2>2, <2>3 DEF Separate
  <2>6. ~ Ended(c) /\ ~ Ended(e)
    BY <2>1, <2>2 DEF Ended
  <2>7. c = e
    BY <2>1, <2>2, <2>5, <2>6, ReadyApart
  <2>8. i = j
    <3>1. Fits(c) /\ i \in Job(c) /\ j \in Job(c) /\ Worker(c, i) = Worker(c, j)
      BY <1>2, <1>5, <2>1, <2>2, <2>7
    <3>2. QED BY <3>1, WorkerIs
  <2>9. QED BY <2>1, <2>2, <2>4, <2>7, <2>8
<1>6. QED BY <1>5 DEF WorkersIdle


-----------------------------------------------------------------------------
(* The jobs of a level share its pairs.                                     *)

JobPairs(c, i) == FirstPair(c, i) .. FirstPair(c, i + 1) - 1

\* f cuts 0 .. p - 1 into t pieces.
Cuts(f, t, p) ==
  /\ f \in [0 .. t -> Nat] /\ f[0] = 0 /\ f[t] = p
  /\ \A i \in 0 .. t - 1 : f[i] <= f[i + 1]
Piece(f, i) == f[i] .. f[i + 1] - 1
Pieces(f, t, p) ==
  /\ \A i \in 0 .. t - 1 : Piece(f, i) \subseteq 0 .. p - 1
  /\ \A i, j \in 0 .. t - 1 : i # j => Piece(f, i) \cap Piece(f, j) = {}
  /\ \A k \in 0 .. p - 1 : \E i \in 0 .. t - 1 : k \in Piece(f, i)

LEMMA CutsGrow ==
  ASSUME NEW t \in Nat, NEW p \in Nat, NEW f, Cuts(f, t, p), NEW i \in 0 .. t, NEW j \in 0 .. t, i <= j
  PROVE  f[i] <= f[j]
<1> DEFINE bad == {k \in Nat : i <= k /\ k <= t /\ ~ (f[i] <= f[k])}
<1>1. bad = {}
  <2>1. SUFFICES ASSUME bad # {} PROVE FALSE
    OBVIOUS
  <2>2. PICK k \in bad : \A h \in bad : k <= h
    <3>1. bad \subseteq Nat
      OBVIOUS
    <3>2. QED
      <4> HIDE DEF bad
      <4>1. QED BY <2>1, <3>1, LeastNumber
  <2>3. k \in Nat /\ i <= k /\ k <= t /\ ~ (f[i] <= f[k]) /\ f[i] \in Nat /\ f[k] \in Nat
    BY <2>2 DEF Cuts
  <2>4. k # i
    BY <2>3
  <2>5. k - 1 \in 0 .. t - 1 /\ i <= k - 1 /\ k - 1 \in 0 .. t /\ (k - 1) + 1 = k
    BY <2>3, <2>4
  <2>6. f[k - 1] \in Nat /\ f[k - 1] <= f[k]
    BY <2>5 DEF Cuts
  <2>7. k - 1 \notin bad
    BY <2>2, <2>3
  <2>8. f[i] <= f[k - 1]
    BY <2>5, <2>7
  <2>9. QED BY <2>3, <2>6, <2>8
<1>2. j \in Nat /\ i <= j /\ j <= t
  OBVIOUS
<1>3. QED BY <1>1, <1>2

LEMMA CutsShare ==
  ASSUME NEW t \in Nat, NEW p \in Nat, NEW f, Cuts(f, t, p)
  PROVE  Pieces(f, t, p)
<1>1. ASSUME NEW i \in 0 .. t - 1
      PROVE  i \in 0 .. t /\ i + 1 \in 0 .. t /\ f[i] \in Nat /\ f[i + 1] \in Nat
  BY DEF Cuts
<1>2. ASSUME NEW i \in 0 .. t - 1 PROVE Piece(f, i) \subseteq 0 .. p - 1
  <2>1. f[i + 1] <= p
    <3>1. t \in 0 .. t /\ i + 1 \in 0 .. t /\ i + 1 <= t
      OBVIOUS
    <3>2. f[t] = p
      BY DEF Cuts
    <3>3. QED BY <3>1, <3>2, CutsGrow
  <2>2. QED BY <1>1, <2>1 DEF Piece
<1>3. ASSUME NEW i \in 0 .. t - 1, NEW j \in 0 .. t - 1, i < j
      PROVE  Piece(f, i) \cap Piece(f, j) = {} /\ Piece(f, j) \cap Piece(f, i) = {}
  <2>1. i + 1 \in 0 .. t /\ j \in 0 .. t /\ i + 1 <= j
    BY <1>3
  <2>2. f[i + 1] <= f[j]
    BY <2>1, CutsGrow
  <2>3. QED BY <1>1, <2>2 DEF Piece
<1>4. ASSUME NEW k \in 0 .. p - 1 PROVE \E i \in 0 .. t - 1 : k \in Piece(f, i)
  <2> DEFINE above == {j \in Nat : j <= t /\ k < f[j]}
  <2>1. PICK j \in above : \A h \in above : j <= h
    <3>1. above \subseteq Nat /\ t \in above
      BY DEF Cuts
    <3>2. QED
      <4> HIDE DEF above
      <4>1. QED BY <3>1, LeastNumber
  <2>2. j # 0
    BY <2>1 DEF Cuts
  <2>3. j - 1 \in 0 .. t - 1 /\ (j - 1) + 1 = j /\ j - 1 \in Nat /\ j - 1 <= t
    BY <2>1, <2>2
  <2>4. j - 1 \notin above
    BY <2>1
  <2>5. f[j - 1] \in Nat /\ f[j - 1] <= k /\ k < f[j] /\ f[j] \in Nat
    BY <1>1, <2>1, <2>3, <2>4
  <2>6. k \in Piece(f, j - 1)
    BY <2>3, <2>5 DEF Piece
  <2>7. QED BY <2>3, <2>6
<1>5. QED BY <1>2, <1>3, <1>4 DEF Pieces

\* The last piece ends at inc * t + extra.
LEMMA PiecesFit ==
  ASSUME NEW t \in Nat, t >= 1, NEW inc \in Nat, NEW extra \in Nat, extra < t
  PROVE  Cuts([i \in 0 .. t |-> i * inc + (IF i < extra THEN i ELSE extra)], t, t * inc + extra)
<1> DEFINE f == [i \in 0 .. t |-> i * inc + (IF i < extra THEN i ELSE extra)]
<1>1. ASSUME NEW i \in 0 .. t PROVE i * inc \in Nat /\ f[i] \in Nat
  <2>1. i \in Nat
    OBVIOUS
  <2>2. \A a, b \in Nat : a * b \in Nat
    OBVIOUS
  <2>3. i * inc \in Nat
    BY <2>1, <2>2
  <2>4. QED BY <2>1, <2>3
<1>2. f[0] = 0
  <2>1. 0 * inc = 0
    OBVIOUS
  <2>2. f[0] = 0 * inc + (IF 0 < extra THEN 0 ELSE extra)
    OBVIOUS
  <2>3. QED BY <2>1, <2>2
<1>3. f[t] = t * inc + extra
  <2>1. f[t] = t * inc + (IF t < extra THEN t ELSE extra)
    OBVIOUS
  <2>2. QED BY <2>1
<1>4. ASSUME NEW i \in 0 .. t - 1 PROVE f[i] <= f[i + 1]
  <2>1. PICK x \in Nat, y \in Nat : x = i * inc /\ y = (i + 1) * inc
    <3>1. i \in 0 .. t /\ i + 1 \in 0 .. t
      OBVIOUS
    <3>2. i * inc \in Nat /\ (i + 1) * inc \in Nat
      BY <1>1, <3>1
    <3>3. QED BY <3>2
  <2>2. y = x + inc
    <3>1. \A a, b \in Int : (a + 1) * b = a * b + b
      OBVIOUS
    <3>2. i \in Int /\ inc \in Int
      OBVIOUS
    <3>3. QED BY <2>1, <3>1, <3>2
  <2>3. f[i] = x + (IF i < extra THEN i ELSE extra)
        /\ f[i + 1] = y + (IF i + 1 < extra THEN i + 1 ELSE extra)
    BY <2>1
  <2>4. QED
    <3> HIDE DEF f
    <3>1. QED BY <2>2, <2>3
<1>5. f \in [0 .. t -> Nat]
  <2>1. f = [i \in 0 .. t |-> f[i]]
    OBVIOUS
  <2>2. QED
    <3> HIDE DEF f
    <3>1. QED BY <1>1, <2>1
<1>6. Cuts(f, t, t * inc + extra)
  <2> HIDE DEF f
  <2>1. QED BY <1>2, <1>3, <1>4, <1>5 DEF Cuts
<1>7. QED BY <1>6

JobsShare(c) ==
  /\ \A i \in Job(c) : JobPairs(c, i) \subseteq AllPairs(c)
  /\ \A i, j \in Job(c) : i # j => JobPairs(c, i) \cap JobPairs(c, j) = {}
  /\ \A k \in AllPairs(c) : \E i \in Job(c) : k \in JobPairs(c, i)

LEMMA JobsCover ==
  ASSUME NEW c, Fits(c), ~ IsLeaf(c)
  PROVE  JobsShare(c)
<1>1. PICK t \in Nat : t = c.nthreads /\ t >= 1
  BY DEF Fits, Call
<1>2. PICK p \in Nat : p = Pairs(c)
  BY SwapsFit DEF SwapRoom, Fits
<1>3. PICK inc \in Nat, extra \in Nat : inc = p \div t /\ extra = p % t
  <2>1. p \div t \in Nat /\ p % t \in Nat
    BY <1>1
  <2>2. QED BY <2>1
<1>4. extra < t /\ p = t * inc + extra
  BY <1>1, <1>3
<1> DEFINE f == [i \in 0 .. t |-> i * inc + (IF i < extra THEN i ELSE extra)]
<1>5. Pieces(f, t, p)
  <2>1. Cuts(f, t, t * inc + extra)
    BY <1>1, <1>4, PiecesFit
  <2>2. QED
    <3> HIDE DEF f
    <3>1. QED BY <1>4, <2>1, CutsShare
<1>6. Job(c) = 0 .. t - 1
  BY <1>1 DEF Job
<1>7. ASSUME NEW i \in 0 .. t - 1 PROVE JobPairs(c, i) = Piece(f, i)
  <2>1. i \in 0 .. t /\ i + 1 \in 0 .. t
    OBVIOUS
  <2>2. f[i] = FirstPair(c, i) /\ f[i + 1] = FirstPair(c, i + 1)
    BY <1>1, <1>2, <1>3, <2>1 DEF FirstPair
  <2>3. QED BY <2>2 DEF JobPairs, Piece
<1>8. AllPairs(c) = 0 .. p - 1
  BY <1>2 DEF AllPairs
<1>9. QED
  <2> HIDE DEF f
  <2>1. QED BY <1>5, <1>6, <1>7, <1>8 DEF Pieces, JobsShare


-----------------------------------------------------------------------------
(* What the jobs have done.                                                 *)

\* Ended, Consumed and Unlocked if the jobs of D have ended.
EndedIn(D, c) == \A i \in Job(c) : <<c, i>> \in D
ConsumedIn(D, c) == \E job \in D : ~ IsLeaf(job[1]) /\ c \in Children(job[1])
UnlockedIn(D, c) == IsLeaf(c) \/ (EndedIn(D, LeftCall(c)) /\ EndedIn(D, RightCall(c)))
PairsIn(D, c) == {k \in AllPairs(c) : \E i \in Job(c) : <<c, i>> \in D /\ k \in JobPairs(c, i)}

SwappedBy(b, a, c, Q) == \A p \in Places(c) : b[p] = SwapRange(a, c, Q)[p]
PartlySwapped(b, D, c) ==
  \E a \in [DOMAIN b -> DOMAIN b] : HalvesDone(a, c) /\ SwappedBy(b, a, c, PairsIn(D, c))

LeafOf(b, D, c) ==
  IsLeaf(c) => /\ ~ EndedIn(D, c) => Fresh(b, c)
               /\ EndedIn(D, c) /\ ~ ConsumedIn(D, c) => CompactIn(b, c)
LevelOf(b, D, c) ==
  ~ IsLeaf(c) /\ UnlockedIn(D, c) /\ ~ ConsumedIn(D, c) => PartlySwapped(b, D, c)

LEMMA SourceBoth ==
  ASSUME NEW c \in Call, NEW P, P \subseteq AllPairs(c), NEW Q, Q \subseteq AllPairs(c),
         P \cap Q = {}, NEW p \in Int
  PROVE  Source(c, P, Source(c, Q, p)) = Source(c, P \cup Q, p)
<1>1. SwapRoom(c)
  BY SwapsFit
<1>2. PICK a \in Nat, lo \in Nat, s \in Nat : a = Apart(c) /\ lo = c.lo /\ s = Pairs(c)
  BY <1>1 DEF SwapRoom
<1>3. s <= a /\ 1 <= a
  BY <1>1, <1>2 DEF SwapRoom
<1>4. \A i : i \in P \/ i \in Q => i \in Nat /\ i < s
  <2>1. P \subseteq 0 .. s - 1 /\ Q \subseteq 0 .. s - 1
    BY <1>2 DEF AllPairs
  <2>2. \A i \in 0 .. s - 1 : i \in Nat /\ i < s
    OBVIOUS
  <2>3. QED BY ONLY <2>1, <2>2
<1>5. CASE First(c, Q, p)
  <2>1. p - lo \in Nat /\ p - lo < s /\ p - lo \in Q /\ p - lo \notin P /\ Swaps(c, p - lo)
    BY <1>2, <1>4, <1>5 DEF First
  <2>2. Source(c, Q, p) = p + a
    BY <1>2, <1>5 DEF Source
  <2>3. ~ First(c, P, p + a)
    <3>1. ~ ((p + a) - lo < s)
      BY <1>3, <2>1
    <3>2. QED BY <1>2, <1>4, <3>1 DEF First
  <2>4. ~ Second(c, P, p + a)
    <3>1. ((p + a) - a) - lo = p - lo
      OBVIOUS
    <3>2. QED BY <1>2, <2>1, <3>1 DEF Second
  <2>5. Source(c, P, p + a) = p + a
    BY <2>3, <2>4 DEF Source
  <2>6. First(c, P \cup Q, p)
    BY <1>5 DEF First
  <2>7. Source(c, P \cup Q, p) = p + a
    BY <1>2, <2>6 DEF Source
  <2>8. QED BY <2>2, <2>5, <2>7
<1>6. CASE ~ First(c, Q, p) /\ Second(c, Q, p)
  <2>1. (p - a) - lo \in Nat /\ (p - a) - lo < s /\ (p - a) - lo \in Q /\ (p - a) - lo \notin P
        /\ Swaps(c, (p - a) - lo)
    BY <1>2, <1>4, <1>6 DEF Second
  <2>2. Source(c, Q, p) = p - a
    BY <1>2, <1>6 DEF Source
  <2>3. ~ First(c, P, p - a)
    BY <1>2, <2>1 DEF First
  <2>4. ~ Second(c, P, p - a)
    <3>1. ~ (((p - a) - a) - lo >= 0)
      BY <1>3, <2>1
    <3>2. ((p - a) - a) - lo \notin P
      BY <1>4, <3>1
    <3>3. QED BY <1>2, <3>2 DEF Second
  <2>5. Source(c, P, p - a) = p - a
    BY <2>3, <2>4 DEF Source
  <2>6. ~ First(c, P \cup Q, p)
    <3>1. ~ (p - lo < s)
      BY <1>3, <2>1
    <3>2. QED BY <1>2, <1>4, <3>1 DEF First
  <2>7. Second(c, P \cup Q, p)
    BY <1>6 DEF Second
  <2>8. Source(c, P \cup Q, p) = p - a
    BY <1>2, <2>6, <2>7 DEF Source
  <2>9. QED BY <2>2, <2>5, <2>8
<1>7. CASE ~ First(c, Q, p) /\ ~ Second(c, Q, p)
  <2>1. Source(c, Q, p) = p
    BY <1>7 DEF Source
  <2>2. (First(c, P \cup Q, p) <=> First(c, P, p)) /\ (Second(c, P \cup Q, p) <=> Second(c, P, p))
    BY <1>7 DEF First, Second
  <2>3. QED BY <2>1, <2>2 DEF Source
<1>8. QED BY <1>5, <1>6, <1>7

\* Swapping first the pairs of P and then those of Q swaps those of both.
LEMMA SwapsJoin ==
  ASSUME NEW c \in Call, NEW P, P \subseteq AllPairs(c), NEW Q, Q \subseteq AllPairs(c),
         P \cap Q = {}, NEW b, NEW a, DOMAIN a = DOMAIN b, DOMAIN b \subseteq Nat,
         Places(c) \subseteq DOMAIN b, SwappedBy(b, a, c, P)
  PROVE  SwappedBy(SwapRange(b, c, Q), a, c, P \cup Q)
<1>1. /\ P \subseteq 0 .. Pairs(c) - 1 /\ Q \subseteq 0 .. Pairs(c) - 1
      /\ P \cup Q \subseteq 0 .. Pairs(c) - 1
  BY DEF AllPairs
<1>2. ASSUME NEW p \in Places(c) PROVE SwapRange(b, c, Q)[p] = SwapRange(a, c, P \cup Q)[p]
  <2>1. p \in DOMAIN b /\ p \in DOMAIN a /\ p \in Int
    OBVIOUS
  <2>2. SwapRange(b, c, Q)[p] = b[Source(c, Q, p)]
    BY <1>1, <2>1, SwapRangeAt
  <2>3. Source(c, Q, p) \in Places(c) /\ Source(c, Q, p) \in DOMAIN a
    BY <1>1, <2>1, SourceStays
  <2>4. b[Source(c, Q, p)] = SwapRange(a, c, P)[Source(c, Q, p)]
    BY <2>3 DEF SwappedBy
  <2>5. SwapRange(a, c, P)[Source(c, Q, p)] = a[Source(c, P, Source(c, Q, p))]
    BY <1>1, <2>3, SwapRangeAt
  <2>6. SwapRange(a, c, P \cup Q)[p] = a[Source(c, P \cup Q, p)]
    <3>1. PICK R : R = P \cup Q
      OBVIOUS
    <3>2. SwapRange(a, c, R)[p] = a[Source(c, R, p)]
      BY <1>1, <2>1, <3>1, SwapRangeAt
    <3>3. QED BY <3>1, <3>2
  <2>7. Source(c, P, Source(c, Q, p)) = Source(c, P \cup Q, p)
    BY <2>1, SourceBoth
  <2>8. QED BY <2>2, <2>4, <2>5, <2>6, <2>7
<1>3. QED BY <1>2 DEF SwappedBy

LEMMA NoSwaps ==
  ASSUME NEW c \in Call, NEW b, DOMAIN b \subseteq Nat, Places(c) \subseteq DOMAIN b
  PROVE  SwappedBy(b, b, c, {})
<1>1. ASSUME NEW p \in Places(c) PROVE b[p] = SwapRange(b, c, {})[p]
  <2>1. SwapRange(b, c, {})[p] = b[Source(c, {}, p)]
    <3>1. PICK Q : Q = {}
      OBVIOUS
    <3>2. SwapRange(b, c, Q)[p] = b[Source(c, Q, p)]
      BY <3>1, SwapRangeAt
    <3>3. QED BY <3>1, <3>2
  <2>2. Source(c, {}, p) = p
    BY DEF Source, First, Second
  <2>3. QED BY <2>1, <2>2
<1>2. QED BY <1>1 DEF SwappedBy


LEMMA EndedCompact ==
  ASSUME NEW b, DOMAIN b \subseteq Nat, NEW D, NEW c, Fits(c), Places(c) \subseteq DOMAIN b,
         LeafOf(b, D, c), LevelOf(b, D, c), EndedIn(D, c), UnlockedIn(D, c), ~ ConsumedIn(D, c)
  PROVE  CompactIn(b, c)
<1>1. CASE IsLeaf(c)
  BY <1>1 DEF LeafOf
<1>2. CASE ~ IsLeaf(c)
  <2>1. PICK a \in [DOMAIN b -> DOMAIN b] : HalvesDone(a, c) /\ SwappedBy(b, a, c, PairsIn(D, c))
    BY <1>2 DEF LevelOf, PartlySwapped
  <2>2. PairsIn(D, c) = AllPairs(c)
    <3>1. \A k \in AllPairs(c) : \E i \in Job(c) : k \in JobPairs(c, i)
      BY <1>2, JobsCover DEF JobsShare
    <3>2. \A i \in Job(c) : <<c, i>> \in D
      BY DEF EndedIn
    <3>3. QED BY <3>1, <3>2 DEF PairsIn
  <2>3. c \in Call /\ c.n > 2 /\ DOMAIN a \subseteq Nat /\ Places(c) \subseteq DOMAIN a
    BY <1>2, <2>1, SplitCall DEF Fits
  <2>4. CompactIn(SwapRange(a, c, AllPairs(c)), c)
    BY <2>1, <2>3, LevelDone
  <2>5. \A p \in Places(c) : b[p] = SwapRange(a, c, AllPairs(c))[p]
    BY <2>1, <2>2 DEF SwappedBy
  <2>6. QED BY <2>3, <2>4, <2>5, DoneKept
<1>3. QED BY <1>1, <1>2

\* A call has one caller.
LEMMA ParentIs ==
  ASSUME NEW T, NEW r, IsTree(T, r), NEW c \in T, NEW f \in T, ~ IsLeaf(c), ~ IsLeaf(f),
         NEW h \in Children(c), h \in Children(f)
  PROVE  c = f
<1>1. \A d \in T : Fits(d) /\ d.lo \in Nat /\ d.n \in Nat
  BY DEF IsTree, Rooted, Fits, Call
<1>2. \A d \in T : ~ IsLeaf(d) => \A g \in Children(d) : Within(g, d) /\ g.n \in Nat /\ 1 <= g.n /\ g.n < d.n
  BY <1>1, ChildrenApart
<1>3. h \in T
  BY DEF IsTree, Linked
<1>4. h.lo \in Places(h)
  BY <1>1, <1>2, <1>3 DEF Places
<1>5. ~ Separate(c, f)
  BY <1>2, <1>4 DEF Separate, Within
<1>6. ASSUME NEW d \in T, NEW g \in T, ~ IsLeaf(d), ~ IsLeaf(g), h \in Children(d), h \in Children(g),
             Below(d, g)
      PROVE  FALSE
  <2>1. PICK k \in Children(g) : Within(d, k)
    BY <1>6 DEF Below
  <2>2. h.n < d.n /\ d.n <= k.n /\ Within(h, d)
    BY <1>2, <1>6, <2>1 DEF Within
  <2>3. h # k
    BY <1>1, <1>2, <1>3, <1>6, <2>2
  <2>4. Separate(h, k)
    BY <1>1, <1>6, <2>1, <2>3, ChildrenApart DEF Children
  <2>5. h.lo \in Places(k)
    BY <1>4, <2>1, <2>2 DEF Within
  <2>6. QED BY <1>4, <2>4, <2>5 DEF Separate
<1>7. ~ Below(c, f) /\ ~ Below(f, c)
  BY <1>6
<1>8. QED BY <1>5, <1>7 DEF IsTree, Nested

-----------------------------------------------------------------------------
(* A step.                                                                  *)

Roomy == DOMAIN buf \subseteq Nat /\ buf \in Array /\ \A c \in tree : Places(c) \subseteq DOMAIN buf
Sane == \A c \in tree : c.n > 0 => c.offset < c.n
DataOf(b, D) == \A c \in tree : LeafOf(b, D, c) /\ LevelOf(b, D, c)

\* Job i of e may run.
MayRun(e, i) ==
  /\ InTree /\ Ordered /\ Roomy
  /\ e \in tree /\ i \in Job(e) /\ <<e, i>> \notin done /\ Unlocked(e)

JobResult(e, i) == IF IsLeaf(e) THEN Compacted[e][buf] ELSE SwapRange(buf, e, JobPairs(e, i))

LEMMA JobFacts ==
  ASSUME NEW e, NEW i, MayRun(e, i)
  PROVE  /\ Fits(e) /\ e \in Call /\ e \in Held /\ e.n \in Nat
         /\ Places(e) \subseteq DOMAIN buf /\ DOMAIN buf \subseteq Nat /\ buf \in Array
         /\ \E r : IsTree(tree, r)
<1>1. PICK r : IsTree(tree, r)
  BY DEF MayRun, InTree
<1>2. Fits(e) /\ e \in Call /\ e.n \in Nat
  BY <1>1 DEF MayRun, IsTree, Rooted, Fits, Call
<1>3. QED BY <1>1, <1>2 DEF MayRun, Roomy, Held

LEMMA JobStays ==
  ASSUME NEW e, NEW i, MayRun(e, i)
  PROVE  JobResult(e, i) \in Array
<1>1. Fits(e) /\ e \in Call /\ e \in Held /\ Places(e) \subseteq DOMAIN buf /\ DOMAIN buf \subseteq Nat /\ buf \in Array
  BY JobFacts
<1>2. CASE IsLeaf(e)
  <2>1. Compacted[e] \in [Array -> Array]
    BY <1>1, CompactedType
  <2>2. QED BY <1>1, <1>2, <2>1 DEF JobResult
<1>3. CASE ~ IsLeaf(e)
  <2>1. JobPairs(e, i) \subseteq 0 .. Pairs(e) - 1
    BY <1>1, <1>3, JobsCover DEF JobsShare, AllPairs, MayRun
  <2>2. StaysArray(SwapRange(buf, e, JobPairs(e, i)), buf)
    BY <1>1, <2>1, SwapRangeKeeps
  <2>3. QED BY <1>1, <1>3, <2>2 DEF JobResult, StaysArray, Array
<1>4. QED BY <1>2, <1>3

\* The job has not been done, and the records of a leaf are in their places.
LEMMA LeafCalled ==
  ASSUME NEW e, NEW i, MayRun(e, i), Sane, DataOf(buf, done), IsLeaf(e)
  PROVE  ThreadDone(e, buf)
<1>1. Fits(e) /\ e \in Held /\ e.n \in Nat /\ DOMAIN buf \subseteq Nat /\ buf \in Array
  BY JobFacts
<1>2. Callable(e)
  BY <1>1, SaneLeaf DEF Callable, Sane, MayRun, Fits
<1>3. ~ EndedIn(done, e)
  BY DEF EndedIn, MayRun
<1>4. Fresh(buf, e)
  BY <1>3 DEF DataOf, LeafOf, MayRun
<1>5. QED BY <1>1, <1>2, <1>4, ThreadCompacts

LEMMA JobTouches ==
  ASSUME NEW e, NEW i, MayRun(e, i), Sane, DataOf(buf, done)
  PROVE  \A p \in DOMAIN buf : p \notin Places(e) => JobResult(e, i)[p] = buf[p]
<1>1. Fits(e) /\ e \in Call /\ Places(e) \subseteq DOMAIN buf /\ DOMAIN buf \subseteq Nat
  BY JobFacts
<1>2. CASE IsLeaf(e)
  BY <1>2, LeafCalled DEF ThreadDone, JobResult
<1>3. CASE ~ IsLeaf(e)
  <2>1. JobPairs(e, i) \subseteq 0 .. Pairs(e) - 1
    BY <1>1, <1>3, JobsCover DEF JobsShare, AllPairs, MayRun
  <2>2. QED BY <1>1, <1>3, <2>1, SwapRangeKeeps DEF JobResult
<1>4. QED BY <1>2, <1>3


After(e, i) == done \cup {<<e, i>>}

LEMMA AfterIs ==
  ASSUME NEW e, NEW i, NEW c
  PROVE  /\ c # e => (EndedIn(After(e, i), c) <=> EndedIn(done, c))
         /\ c # e => PairsIn(After(e, i), c) = PairsIn(done, c)
         /\ ConsumedIn(done, c) => ConsumedIn(After(e, i), c)
<1>1. ASSUME c # e, NEW j PROVE <<c, j>> \in After(e, i) <=> <<c, j>> \in done
  BY <1>1 DEF After
<1>2. QED BY <1>1 DEF EndedIn, PairsIn, ConsumedIn, After

\* The call whose job it is.
LEMMA OwnStep ==
  ASSUME NEW e, NEW i, MayRun(e, i), Sane, DataOf(buf, done)
  PROVE  LeafOf(JobResult(e, i), After(e, i), e) /\ LevelOf(JobResult(e, i), After(e, i), e)
<1>1. /\ Fits(e) /\ e \in Call /\ Places(e) \subseteq DOMAIN buf /\ DOMAIN buf \subseteq Nat
      /\ buf \in Array /\ e \in tree /\ i \in Job(e) /\ <<e, i>> \notin done /\ Unlocked(e)
  BY JobFacts DEF MayRun
<1>2. CASE IsLeaf(e)
  <2>1. EndedIn(After(e, i), e)
    BY <1>1, <1>2 DEF EndedIn, After, Job
  <2>2. CompactIn(JobResult(e, i), e)
    BY <1>2, LeafCalled DEF ThreadDone, JobResult
  <2>3. QED BY <1>2, <2>1, <2>2 DEF LeafOf, LevelOf
<1>3. CASE ~ IsLeaf(e)
  <2>1. SUFFICES ASSUME ~ ConsumedIn(After(e, i), e)
                 PROVE  PartlySwapped(JobResult(e, i), After(e, i), e)
    BY <1>3 DEF LeafOf, LevelOf
  <2>2. ~ ConsumedIn(done, e)
    BY <2>1, AfterIs
  <2>3. UnlockedIn(done, e)
    BY <1>1 DEF Unlocked, UnlockedIn, Ended, EndedIn
  <2>4. PICK a \in [DOMAIN buf -> DOMAIN buf] : HalvesDone(a, e) /\ SwappedBy(buf, a, e, PairsIn(done, e))
    BY <1>1, <1>3, <2>2, <2>3 DEF DataOf, LevelOf, PartlySwapped
  <2>5. JobsShare(e)
    BY <1>1, <1>3, JobsCover
  <2>6. JobPairs(e, i) \subseteq AllPairs(e) /\ PairsIn(done, e) \subseteq AllPairs(e)
    BY <1>1, <2>5 DEF JobsShare, PairsIn
  <2>7. PairsIn(done, e) \cap JobPairs(e, i) = {}
    <3>1. ASSUME NEW k \in PairsIn(done, e), k \in JobPairs(e, i) PROVE FALSE
      <4>1. PICK j \in Job(e) : <<e, j>> \in done /\ k \in JobPairs(e, j)
        BY DEF PairsIn
      <4>2. i # j
        BY <1>1, <4>1
      <4>3. QED BY <1>1, <2>5, <3>1, <4>1, <4>2 DEF JobsShare
    <3>2. QED BY <3>1
  <2>8. PairsIn(After(e, i), e) = PairsIn(done, e) \cup JobPairs(e, i)
    <3>1. \A j : <<e, j>> \in After(e, i) <=> <<e, j>> \in done \/ j = i
      BY DEF After
    <3>2. \A k \in AllPairs(e) : k \in PairsIn(After(e, i), e) <=> k \in PairsIn(done, e) \/ k \in JobPairs(e, i)
      BY <1>1, <3>1 DEF PairsIn
    <3>3. PairsIn(After(e, i), e) \subseteq AllPairs(e)
      BY DEF PairsIn
    <3>4. QED BY <2>6, <3>2, <3>3
  <2>9. SwappedBy(SwapRange(buf, e, JobPairs(e, i)), a, e, PairsIn(done, e) \cup JobPairs(e, i))
    <3>1. DOMAIN a = DOMAIN buf
      BY <2>4
    <3>2. QED BY <1>1, <2>4, <2>6, <2>7, <3>1, SwapsJoin
  <2>10. JobResult(e, i) = SwapRange(buf, e, JobPairs(e, i)) /\ DOMAIN JobResult(e, i) = DOMAIN buf
    <3>1. JobPairs(e, i) \subseteq 0 .. Pairs(e) - 1
      BY <2>6 DEF AllPairs
    <3>2. QED BY <1>1, <1>3, <3>1, SwapRangeAt DEF JobResult
  <2>11. QED BY <2>4, <2>8, <2>9, <2>10 DEF PartlySwapped
<1>4. QED BY <1>2, <1>3

\* A call with other places.
LEMMA ApartStep ==
  ASSUME NEW e, NEW i, MayRun(e, i), Sane, DataOf(buf, done), NEW c \in tree, c # e, Separate(c, e)
  PROVE  LeafOf(JobResult(e, i), After(e, i), c) /\ LevelOf(JobResult(e, i), After(e, i), c)
<1>1. PICK b : b = JobResult(e, i)
  OBVIOUS
<1>2. PICK r : IsTree(tree, r)
  BY JobFacts
<1>3. Fits(c) /\ c \in Call /\ Places(c) \subseteq DOMAIN buf /\ e \in tree
  BY <1>2 DEF IsTree, Rooted, Fits, MayRun, Roomy
<1>4. \A p \in Places(c) : b[p] = buf[p]
  <2>1. \A p \in Places(c) : p \notin Places(e)
    BY DEF Separate
  <2>2. QED BY <1>1, <1>3, <2>1, JobTouches
<1>5. /\ EndedIn(After(e, i), c) <=> EndedIn(done, c)
      /\ PairsIn(After(e, i), c) = PairsIn(done, c)
      /\ ConsumedIn(done, c) => ConsumedIn(After(e, i), c)
  BY AfterIs
<1>6. ~ IsLeaf(c) => e \notin Children(c)
  <2>1. ASSUME ~ IsLeaf(c), e \in Children(c) PROVE FALSE
    <3>1. Within(e, c) /\ e.n \in Nat /\ 1 <= e.n
      BY <1>3, <2>1, ChildrenApart
    <3>2. e.lo \in Places(e)
      <4>1. e.lo \in Nat
        BY JobFacts DEF Call
      <4>2. QED BY <3>1, <4>1 DEF Places
    <3>3. QED BY <3>1, <3>2 DEF Within, Separate
  <2>2. QED BY <2>1
<1>7. UnlockedIn(After(e, i), c) => UnlockedIn(done, c)
  <2>1. ASSUME ~ IsLeaf(c) PROVE LeftCall(c) # e /\ RightCall(c) # e
    BY <1>6, <2>1 DEF Children
  <2>2. QED BY <2>1, AfterIs DEF UnlockedIn
<1>8. LeafOf(buf, done, c) /\ LevelOf(buf, done, c)
  BY DEF DataOf
<1>9. DOMAIN b = DOMAIN buf
  <2>1. b \in Array
    BY <1>1, JobStays
  <2>2. QED BY <2>1 DEF Array
<1>10. LeafOf(b, After(e, i), c)
  <2>1. Fresh(buf, c) => Fresh(b, c)
    BY <1>4 DEF Fresh
  <2>2. CompactIn(buf, c) => CompactIn(b, c)
    BY <1>3, <1>4, DoneKept
  <2>3. QED BY <1>5, <1>8, <2>1, <2>2 DEF LeafOf
<1>11. LevelOf(b, After(e, i), c)
  <2>1. SUFFICES ASSUME PartlySwapped(buf, done, c) PROVE PartlySwapped(b, After(e, i), c)
    BY <1>5, <1>7, <1>8 DEF LevelOf
  <2>2. PICK a \in [DOMAIN buf -> DOMAIN buf] : HalvesDone(a, c) /\ SwappedBy(buf, a, c, PairsIn(done, c))
    BY <2>1 DEF PartlySwapped
  <2>3. SwappedBy(b, a, c, PairsIn(After(e, i), c))
    BY <1>4, <1>5, <2>2 DEF SwappedBy
  <2>4. QED BY <1>9, <2>2, <2>3 DEF PartlySwapped
<1>12. QED BY <1>1, <1>10, <1>11

\* A call below: its caller has ended too, or is e.
LEMMA BelowStep ==
  ASSUME NEW e, NEW i, MayRun(e, i), NEW c \in tree, Below(c, e), NEW b
  PROVE  LeafOf(b, After(e, i), c) /\ LevelOf(b, After(e, i), c)
<1>1. BelowDone(c, e)
  BY BelowEnded DEF MayRun
<1>2. PICK r : IsTree(tree, r)
  BY JobFacts
<1>3. ~ IsLeaf(e) /\ e \in tree /\ c # e
  <2>1. c.n < e.n /\ e.n \in Nat
    BY <1>2, BelowSmaller DEF MayRun
  <2>2. QED BY <2>1 DEF Below, MayRun
<1>4. EndedIn(After(e, i), c)
  BY <1>1, <1>3, AfterIs DEF BelowDone, Ended, EndedIn
<1>5. ConsumedIn(After(e, i), c)
  <2>1. CASE Consumed(c)
    BY <2>1, AfterIs DEF Consumed, ConsumedIn
  <2>2. CASE c \in Children(e)
    <3>1. <<e, i>> \in After(e, i) /\ <<e, i>>[1] = e
      BY DEF After
    <3>2. QED BY <1>3, <2>2, <3>1 DEF ConsumedIn
  <2>3. QED BY <1>1, <2>1, <2>2 DEF BelowDone
<1>6. QED BY <1>4, <1>5 DEF LeafOf, LevelOf


\* A call above, if e was the last job that it waited for.
LEMMA AboveStep ==
  ASSUME NEW e, NEW i, MayRun(e, i), Sane, DataOf(buf, done), NEW c \in tree, Below(e, c)
  PROVE  LeafOf(JobResult(e, i), After(e, i), c) /\ LevelOf(JobResult(e, i), After(e, i), c)
<1>1. PICK b, D : b = JobResult(e, i) /\ D = After(e, i)
  OBVIOUS
<1>2. PICK r : IsTree(tree, r)
  BY JobFacts
<1>3. /\ e \in tree /\ Fits(e) /\ i \in Job(e) /\ <<e, i>> \notin done /\ Unlocked(e)
      /\ ~ IsLeaf(c) /\ InTree /\ Ordered /\ Roomy
  BY JobFacts DEF Below, MayRun
<1>4. \A d \in tree : Fits(d) /\ d \in Call /\ d.n \in Nat /\ d.lo \in Nat /\ Places(d) \subseteq DOMAIN buf
  BY <1>2, <1>3 DEF IsTree, Rooted, Fits, Call, Roomy
<1>5. Children(c) \subseteq tree /\ \A h \in Children(c) : 1 <= h.n /\ h.n < c.n
  BY <1>2, <1>3, <1>4, ChildrenApart DEF IsTree, Linked
<1>6. e.n < c.n /\ c # e
  BY <1>2, <1>3, BelowSmaller
<1>7. SUFFICES ASSUME UnlockedIn(D, c), ~ ConsumedIn(D, c) PROVE PartlySwapped(b, D, c)
  BY <1>1, <1>3 DEF LeafOf, LevelOf
<1>8. ~ Unlocked(c)
  <2>1. Unlocked(c) => Ended(e)
    BY <1>3, BelowEnded DEF BelowDone
  <2>2. QED BY <1>3, <2>1 DEF Ended
<1>9. \A job \in done : job[1] # c
  BY <1>3, <1>8 DEF Ordered
<1>10. PairsIn(D, c) = {}
  <2>1. PairsIn(D, c) = PairsIn(done, c)
    BY <1>1, <1>6, AfterIs
  <2>2. \A j : <<c, j>> \in done => <<c, j>>[1] # c
    BY <1>9
  <2>3. PairsIn(done, c) = {}
    BY <2>2 DEF PairsIn
  <2>4. QED BY <2>1, <2>3
<1>11. ASSUME NEW h \in Children(c) PROVE ~ ConsumedIn(D, h) /\ ~ ConsumedIn(done, h)
  <2>1. ASSUME NEW job \in D, ~ IsLeaf(job[1]), h \in Children(job[1]) PROVE FALSE
    <3>1. job \in done \/ job[1] = e
      BY <1>1, <2>1 DEF After
    <3>2. job[1] \in tree /\ job[1] # c
      BY <1>3, <1>6, <1>9, <3>1 DEF Ordered
    <3>3. QED BY <1>2, <1>3, <2>1, <3>2, ParentIs
  <2>2. ~ ConsumedIn(D, h)
    BY <2>1 DEF ConsumedIn
  <2>3. QED BY <1>1, <2>2, AfterIs
<1>12. DOMAIN b = DOMAIN buf /\ DOMAIN b \subseteq Nat
  <2>1. b \in Array
    BY <1>1, JobStays
  <2>2. QED BY <1>3, <2>1 DEF Array, Roomy
<1>13. ASSUME NEW h \in Children(c) PROVE CompactIn(b, h)
  <2>1. h \in tree /\ Fits(h) /\ h \in Call /\ Places(h) \subseteq DOMAIN buf /\ EndedIn(D, h)
    BY <1>3, <1>4, <1>5, <1>7 DEF UnlockedIn, Children
  <2>2. CASE h = e
    <3>1. LeafOf(b, D, h) /\ LevelOf(b, D, h)
      BY <1>1, <2>2, OwnStep
    <3>2. UnlockedIn(D, h)
      <4>1. \A d : EndedIn(done, d) => EndedIn(D, d)
        BY <1>1 DEF EndedIn, After
      <4>2. UnlockedIn(done, h)
        BY <1>3, <2>2 DEF Unlocked, UnlockedIn, Ended, EndedIn
      <4>3. QED BY <4>1, <4>2 DEF UnlockedIn
    <3>3. QED BY <1>11, <1>12, <2>1, <3>1, <3>2, EndedCompact
  <2>3. CASE h # e
    <3>1. EndedIn(done, h)
      BY <1>1, <2>1, <2>3, AfterIs
    <3>2. Unlocked(h)
      <4>1. PICK j : j \in Job(h)
        BY <2>1, JobIs
      <4>2. <<h, j>> \in done
        BY <3>1, <4>1 DEF EndedIn
      <4>3. QED BY <1>3, <4>2 DEF Ordered
    <3>3. UnlockedIn(done, h)
      BY <3>2 DEF Unlocked, UnlockedIn, Ended, EndedIn
    <3>4. CompactIn(buf, h)
      <4>1. LeafOf(buf, done, h) /\ LevelOf(buf, done, h) /\ DOMAIN buf \subseteq Nat
        BY <1>3, <2>1 DEF DataOf, Roomy
      <4>2. QED BY <1>11, <2>1, <3>1, <3>3, <4>1, EndedCompact
    <3>5. ~ Below(e, h)
      <4>1. Below(e, h) => Ended(e)
        BY <1>3, <2>1, <3>2, BelowEnded DEF BelowDone
      <4>2. QED BY <1>3, <4>1 DEF Ended
    <3>6. ~ Below(h, e)
      <4>1. ASSUME Below(h, e) PROVE FALSE
        <5>1. PICK g \in Children(c) : Within(e, g)
          BY DEF Below
        <5>2. PICK k \in Children(e) : Within(h, k) /\ ~ IsLeaf(e)
          BY <4>1 DEF Below
        <5>3. Within(k, e)
          BY <1>3, <5>2, ChildrenApart
        <5>4. h.n < e.n /\ e.n <= g.n /\ h # g
          <6>1. h.n < e.n
            BY <1>2, <1>3, <2>1, <4>1, BelowSmaller
          <6>2. g \in tree /\ e.n <= g.n
            BY <1>5, <5>1 DEF Within
          <6>3. QED BY <1>3, <1>4, <2>1, <6>1, <6>2
        <5>5. Separate(h, g)
          BY <1>3, <1>4, <5>1, <5>4, ChildrenApart DEF Children
        <5>6. h.lo \in Places(h)
          BY <1>4, <1>5, <2>1 DEF Places
        <5>7. h.lo \in Places(g)
          BY <5>1, <5>2, <5>3, <5>6 DEF Within
        <5>8. QED BY <5>5, <5>6, <5>7 DEF Separate
      <4>2. QED BY <4>1
    <3>7. Separate(h, e)
      BY <1>2, <1>3, <2>1, <2>3, <3>5, <3>6 DEF IsTree, Nested
    <3>8. \A p \in Places(h) : b[p] = buf[p]
      <4>1. \A p \in Places(h) : p \notin Places(e)
        BY <3>7 DEF Separate
      <4>2. QED BY <1>1, <2>1, <4>1, JobTouches
    <3>9. QED BY <2>1, <3>4, <3>8, DoneKept
  <2>4. QED BY <2>2, <2>3
<1>14. HalvesDone(b, c)
  <2>1. \A d \in tree : d.n >= 1 => d.offset < d.n
    BY <1>4 DEF Sane
  <2>2. c.n >= 1
    BY <1>4, <1>3, SplitCall
  <2>3. LeftCall(c) \in tree /\ RightCall(c) \in tree /\ LeftCall(c).n >= 1 /\ RightCall(c).n >= 1
    BY <1>4, <1>5 DEF Children
  <2>4. CompactIn(b, LeftCall(c)) /\ CompactIn(b, RightCall(c))
    BY <1>13 DEF Children
  <2>5. QED BY <2>1, <2>2, <2>3, <2>4 DEF HalvesDone
<1>15. SwappedBy(b, b, c, PairsIn(D, c))
  BY <1>4, <1>10, <1>12, NoSwaps
<1>16. b \in [DOMAIN b -> DOMAIN b]
  BY <1>1, <1>12, JobStays DEF Array
<1>17. QED BY <1>14, <1>15, <1>16 DEF PartlySwapped

LEMMA DataStep ==
  ASSUME NEW e, NEW i, MayRun(e, i), Sane, DataOf(buf, done)
  PROVE  DataOf(JobResult(e, i), After(e, i))
<1>1. PICK r : IsTree(tree, r)
  BY JobFacts
<1>2. e \in tree
  BY DEF MayRun
<1>3. ASSUME NEW c \in tree
      PROVE  LeafOf(JobResult(e, i), After(e, i), c) /\ LevelOf(JobResult(e, i), After(e, i), c)
  <2>1. CASE c = e
    BY <2>1, OwnStep
  <2>2. CASE c # e /\ Separate(c, e)
    BY <2>2, ApartStep
  <2>3. CASE Below(c, e)
    BY <2>3, BelowStep
  <2>4. CASE Below(e, c)
    BY <2>4, AboveStep
  <2>5. QED BY <1>1, <1>2, <2>1, <2>2, <2>3, <2>4 DEF IsTree, Nested
<1>4. QED BY <1>3 DEF DataOf


-----------------------------------------------------------------------------
(* The theorems.                                                            *)

Inv ==
  /\ TypeOK /\ InTree /\ Ordered /\ Roomy
  /\ Sane => DataOf(buf, done)

LEMMA InvInit == Init => Inv
<1>1. SUFFICES ASSUME Init PROVE Inv
  OBVIOUS
<1>2. PICK n \in Nat : /\ selected \in SUBSET (0 .. n - 1) /\ buf = [p \in 0 .. n - 1 |-> p]
                       /\ tree = Calls[Whole(n, threads)]
  BY <1>1, CompactAssumption DEF Init
<1>3. threads \in Nat /\ threads >= 1 /\ threads \in 1 .. MaxThreads /\ done = {}
  BY <1>1, CompactAssumption DEF Init
<1>4. PICK r : r = Whole(n, threads)
  OBVIOUS
<1>5. Fits(r) /\ r.thread = 0 /\ r.nthreads = threads /\ r.lo = 0 /\ r.n = n
  BY <1>3, <1>4 DEF Whole, Fits, Call
<1>6. IsTree(tree, r)
  BY <1>2, <1>4, <1>5, CallsTree
<1>7. Places(r) = 0 .. n - 1 /\ DOMAIN buf = 0 .. n - 1 /\ 0 .. n - 1 \subseteq Nat
  BY <1>2, <1>5 DEF Places
<1>8. \A c \in tree : Fits(c) /\ Places(c) \subseteq DOMAIN buf
  BY <1>6, <1>7 DEF IsTree, Rooted, Within
<1>9. Roomy
  <2>1. buf \in Array
    BY <1>2 DEF Array
  <2>2. QED BY <1>7, <1>8, <2>1 DEF Roomy
<1>10. TypeOK
  BY <1>2, <1>3, <1>7 DEF TypeOK
<1>11. DataOf(buf, done)
  <2>1. ASSUME NEW c, Fits(c) PROVE ~ EndedIn(done, c)
    BY <1>3, <2>1, JobIs DEF EndedIn
  <2>2. ASSUME NEW c \in tree PROVE LeafOf(buf, done, c)
    <3>1. \A p \in Places(c) : buf[p] = p
      BY <1>2, <1>7, <1>8
    <3>2. QED BY <1>8, <2>1, <3>1 DEF LeafOf, Fresh
  <2>3. ASSUME NEW c \in tree PROVE LevelOf(buf, done, c)
    <3>1. ~ IsLeaf(c) => Fits(LeftCall(c))
      BY <1>8, ChildrenApart DEF Children
    <3>2. QED BY <2>1, <3>1 DEF LevelOf, UnlockedIn
  <2>4. QED BY <2>2, <2>3 DEF DataOf
<1>12. InTree /\ Ordered
  BY <1>3, <1>5, <1>6 DEF InTree, Ordered
<1>13. QED BY <1>9, <1>10, <1>11, <1>12 DEF Inv

LEMMA RightStays ==
  ASSUME selected' = selected, NEW c
  PROVE  LeftCall(c)' = LeftCall(c) /\ RightCall(c)' = RightCall(c)
BY DEF LeftCall, RightCall, OffsetRight, SelectedLeft, Selected, Split, LeftThreads, RightThreads,
       RightThread, IsSerial

LEMMA SwapsStay ==
  ASSUME selected' = selected, NEW c, NEW k
  PROVE  Swaps(c, k)' = Swaps(c, k)
BY DEF Swaps, SwapsTwo, LeftWrapped, OffsetRight, SelectedLeft, Selected, Split, IsSerial, IsBase

LEMMA SwapRangeStays ==
  ASSUME selected' = selected, NEW b, NEW c, NEW Q
  PROVE  SwapRange(b, c, Q)' = SwapRange(b, c, Q)
BY DEF SwapRange, Apart, Swaps, SwapsTwo, LeftWrapped, OffsetRight, SelectedLeft, Selected, Split, IsSerial, IsBase

LEMMA TreeStays ==
  ASSUME selected' = selected, tree' = tree, threads' = threads, InTree
  PROVE  InTree'
BY RightStays DEF InTree, IsTree, Nested, Rooted, Linked, IsChild, Below, Within, Separate, Children, Places, Threads,
       IsLeaf, IsSerial, IsBase, Fits, Call, Powers


LEMMA CompactStays ==
  ASSUME selected' = selected, NEW b, NEW c
  PROVE  CompactIn(b, c)' = CompactIn(b, c)
BY DEF CompactIn, Own, IsSelected, InWindow, Window, Selected, Places

LEMMA HalvesStay ==
  ASSUME selected' = selected, NEW b, NEW c
  PROVE  HalvesDone(b, c)' = HalvesDone(b, c)
<1>1. PICK l, h : l = LeftCall(c) /\ h = RightCall(c) /\ l = LeftCall(c)' /\ h = RightCall(c)'
  BY RightStays
<1>2. CompactIn(b, l)' = CompactIn(b, l) /\ CompactIn(b, h)' = CompactIn(b, h)
  BY CompactStays
<1>3. HalvesDone(b, c) <=> (CompactIn(b, l) /\ CompactIn(b, h) /\ c.offset < c.n /\ l.offset < l.n /\ h.offset < h.n)
  BY <1>1 DEF HalvesDone
<1>4. HalvesDone(b, c)' <=> (CompactIn(b, l)' /\ CompactIn(b, h)' /\ c.offset < c.n /\ l.offset < l.n /\ h.offset < h.n)
  BY <1>1 DEF HalvesDone, CompactIn, Own, IsSelected, InWindow, Window, Selected, Places
<1>5. QED BY <1>2, <1>3, <1>4 DEF HalvesDone

LEMMA EndedStays ==
  ASSUME NEW D, NEW c
  PROVE  EndedIn(D, c)' = EndedIn(D, c)
BY DEF EndedIn, Job, IsLeaf, IsSerial, IsBase

LEMMA PairsStay ==
  ASSUME NEW D, NEW c
  PROVE  PairsIn(D, c)' = PairsIn(D, c)
BY DEF PairsIn, AllPairs, Job, IsLeaf, IsSerial, IsBase, JobPairs, FirstPair, Pairs, Split

LEMMA LeafStays ==
  ASSUME selected' = selected, NEW b, NEW D, buf' = b, done' = D, NEW c
  PROVE  LeafOf(buf, done, c)' = LeafOf(b, D, c)
BY RightStays DEF LeafOf, EndedIn, Job, IsLeaf, IsSerial, IsBase, Fresh, ConsumedIn, Children,
   CompactIn, Own, IsSelected, InWindow, Window, Selected, Places

LEMMA LevelStays ==
  ASSUME selected' = selected, NEW b, NEW D, buf' = b, done' = D, NEW c
  PROVE  LevelOf(buf, done, c)' = LevelOf(b, D, c)
BY RightStays, SwapRangeStays, HalvesStay, PairsStay DEF LevelOf, EndedIn, Job, IsLeaf, IsSerial, IsBase, ConsumedIn, Children,
   UnlockedIn, PartlySwapped, SwappedBy, Places


LEMMA DataStays ==
  ASSUME selected' = selected, tree' = tree, NEW b, NEW D, buf' = b, done' = D, DataOf(b, D)
  PROVE  DataOf(buf, done)'
<1>1. \A c \in tree : LeafOf(buf, done, c)' /\ LevelOf(buf, done, c)'
  BY LeafStays, LevelStays DEF DataOf
<1>2. QED BY <1>1 DEF DataOf

LEMMA SaneStays ==
  ASSUME tree' = tree, Sane'
  PROVE  Sane
BY DEF Sane

LEMMA UnlockedStays ==
  ASSUME selected' = selected, done \subseteq done', NEW c, Unlocked(c)
  PROVE  Unlocked(c)'
BY RightStays DEF Unlocked, Ended, Job, IsLeaf, IsSerial, IsBase

LEMMA InvRun ==
  ASSUME Inv, NEW e \in tree, NEW i \in Job(e), Run(e, i)
  PROVE  Inv'
<1>1. /\ TypeOK /\ InTree /\ Ordered /\ Roomy /\ (Sane => DataOf(buf, done))
      /\ threads' = threads /\ selected' = selected /\ tree' = tree
  BY DEF Inv, Run
<1>2. MayRun(e, i)
  <2>1. PICK c \in tree : <<e, i>> \in {c} \X Job(c) /\ <<e, i>> \notin done /\ Unlocked(<<e, i>>[1])
    BY DEF Run, Ready
  <2>2. QED BY <1>1, <2>1 DEF MayRun
<1>3. PICK b, D : b = JobResult(e, i) /\ D = After(e, i) /\ buf' = b /\ done' = D
  BY DEF Run, JobResult, After, JobPairs
<1>4. b \in Array /\ DOMAIN b = DOMAIN buf /\ DOMAIN buf' = DOMAIN buf
  <2>1. b \in Array
    BY <1>2, <1>3, JobStays
  <2>2. QED BY <1>3, <2>1 DEF Array
<1>5. Unlocked(e) /\ D = done \cup {<<e, i>>}
  BY <1>2, <1>3 DEF MayRun, After
<1>6. TypeOK'
  <2>1. buf' \in [DOMAIN buf' -> DOMAIN buf'] /\ selected' \subseteq DOMAIN buf' /\ threads' \in 1 .. MaxThreads
    BY <1>1, <1>3, <1>4 DEF Array, TypeOK
  <2>2. done' \subseteq UNION {{c} \X Job(c) : c \in tree}
    <3>1. <<e, i>> \in UNION {{c} \X Job(c) : c \in tree}
      OBVIOUS
    <3>2. QED BY <1>1, <1>3, <1>5, <3>1 DEF TypeOK
  <2>3. \A c : Job(c)' = Job(c)
    BY DEF Job, IsLeaf, IsSerial, IsBase
  <2>4. done' \subseteq UNION {{c} \X Job(c)' : c \in tree'}
    BY <1>1, <2>2, <2>3
  <2>5. QED BY <2>1, <2>4 DEF TypeOK
<1>7. InTree'
  BY <1>1, TreeStays
<1>8. Ordered'
  <2>1. done \subseteq done'
    BY <1>3, <1>5
  <2>2. ASSUME NEW job \in done' PROVE job[1] \in tree /\ job[2] \in Job(job[1]) /\ Unlocked(job[1])
    BY <1>1, <1>3, <1>5 DEF Ordered
  <2>3. ASSUME NEW job \in done' PROVE job[1] \in tree' /\ job[2] \in Job(job[1])' /\ Unlocked(job[1])'
    <3>1. PICK c, j : c = job[1] /\ j = job[2]
      OBVIOUS
    <3>2. Unlocked(c)' /\ Job(c)' = Job(c)
      BY <1>1, <2>1, <2>2, <3>1, UnlockedStays DEF Job, IsLeaf, IsSerial, IsBase
    <3>3. QED BY <1>1, <2>2, <3>1, <3>2
  <2>4. QED BY <2>3 DEF Ordered
<1>9. Roomy'
  <2>1. buf' \in Array'
    BY <1>3, <1>4 DEF Array
  <2>2. DOMAIN buf' \subseteq Nat /\ \A c \in tree' : Places(c)' \subseteq DOMAIN buf'
    BY <1>1, <1>4 DEF Roomy, Places
  <2>3. QED BY <2>1, <2>2 DEF Roomy
<1>10. Sane' => DataOf(buf, done)'
  <2>1. SUFFICES ASSUME Sane' PROVE DataOf(buf, done)'
    OBVIOUS
  <2>2. Sane
    BY <1>1, <2>1, SaneStays
  <2>3. DataOf(b, D)
    BY <1>1, <1>2, <1>3, <2>2, DataStep
  <2>4. QED BY <1>1, <1>3, <2>3, DataStays
<1>11. QED BY <1>6, <1>7, <1>8, <1>9, <1>10 DEF Inv

LEMMA InvStutters ==
  ASSUME Inv, UNCHANGED vars
  PROVE  Inv'
<1>1. /\ TypeOK /\ InTree /\ Ordered /\ Roomy /\ (Sane => DataOf(buf, done))
      /\ threads' = threads /\ selected' = selected /\ tree' = tree /\ buf' = buf /\ done' = done
  BY DEF Inv, vars
<1>2. PICK b, D : b = buf /\ D = done /\ buf' = b /\ done' = D
  BY <1>1
<1>3. TypeOK' /\ Roomy'
  BY <1>1 DEF TypeOK, Roomy, Array, Places, Job, IsLeaf, IsSerial, IsBase
<1>4. InTree'
  BY <1>1, TreeStays
<1>5. Ordered'
  <2>1. ASSUME NEW job \in done PROVE job[2] \in Job(job[1])' /\ Unlocked(job[1])'
    <3>1. PICK c, j : c = job[1] /\ j = job[2]
      OBVIOUS
    <3>2. Unlocked(c) /\ j \in Job(c)
      BY <1>1, <3>1 DEF Ordered
    <3>3. Unlocked(c)' /\ Job(c)' = Job(c)
      BY <1>1, <3>2, UnlockedStays DEF Job, IsLeaf, IsSerial, IsBase
    <3>4. QED BY <3>1, <3>2, <3>3
  <2>2. QED BY <1>1, <2>1 DEF Ordered
<1>6. Sane' => DataOf(buf, done)'
  BY <1>1, <1>2, SaneStays, DataStays
<1>7. QED BY <1>3, <1>4, <1>5, <1>6 DEF Inv

\* The inductive invariant of the compaction: the calls form a tree of nested
\* places and threads, a job has run only after both halves of its call ended,
\* and every call's records are what the jobs that have run make of them
\* (TightCompaction_v2.tcc:155-228 and 284-420).
THEOREM TightInvariant == Spec => []Inv
<1>1. Init => Inv
  BY InvInit
<1>2. Inv /\ [Next]_vars => Inv'
  BY InvRun, InvStutters DEF Next
<1>3. QED BY <1>1, <1>2, PTL DEF Spec

\* A window is what wraparound makes of the first places from the offset.
LEMMA CompactedWindow ==
  ASSUME NEW c \in Call, CompactIn(buf, c), c.n > 0, c.offset < c.n
  PROVE  IsCompacted(c)
<1>1. PICK n \in Nat, o \in Nat, lo \in Nat : n = c.n /\ o = c.offset /\ lo = c.lo /\ n > 0 /\ o < n
  BY DEF Call
<1>2. PICK m \in Nat : m = Selected(c.lo, c.n) /\ m <= n
  <2>1. 0 \in 0 .. n
    BY <1>1
  <2>2. Selected(lo, n) \in 0 .. n
    BY <2>1, SelectedIs
  <2>3. QED BY <1>1, <2>2
<1> DEFINE front == {lo + ((o + j) % n) : j \in 0 .. m - 1}
<1>3. ASSUME NEW x \in 0 .. n - 1 PROVE buf[lo + x] \in selected <=> Window(x, o, m, n)
  BY <1>1, <1>2 DEF CompactIn, IsSelected, InWindow
<1>4. ASSUME NEW x \in 0 .. n - 1, Window(x, o, m, n) PROVE lo + x \in front
  <2>1. PICK j \in Nat : j = (IF x >= o THEN x - o ELSE (x - o) + n) /\ j < m
    BY <1>1, <1>4 DEF Window
  <2>2. o + j < 2 * n /\ Reduced(o + j, n) = x
    BY <1>1, <1>2, <2>1 DEF Reduced
  <2>3. (o + j) % n = x
    <3>1. o + j \in Nat /\ n >= 1
      BY <1>1
    <3>2. QED BY <2>2, <3>1, ModIs
  <2>4. j \in 0 .. m - 1
    BY <1>2, <2>1
  <2>5. QED BY <2>3, <2>4
<1>5. ASSUME NEW j \in 0 .. m - 1
      PROVE  \E x \in 0 .. n - 1 : (o + j) % n = x /\ Window(x, o, m, n)
  <2>1. o + j \in Nat /\ n >= 1 /\ o + j < 2 * n /\ j < n /\ j \in Nat /\ j < m
    BY <1>1, <1>2
  <2>2. PICK x : x = Reduced(o + j, n)
    OBVIOUS
  <2>3. (o + j) % n = x
    BY <2>1, <2>2, ModIs
  <2>4. x \in 0 .. n - 1 /\ Window(x, o, m, n)
    BY <1>1, <2>1, <2>2 DEF Reduced, Window
  <2>5. QED BY <2>3, <2>4
<1>6. {p \in Places(c) : buf[p] \in selected} = front
  <2>1. ASSUME NEW p \in Places(c), buf[p] \in selected PROVE p \in front
    <3>1. PICK x : x = p - lo
      OBVIOUS
    <3>2. x \in 0 .. n - 1 /\ lo + x = p
      BY <1>1, <3>1 DEF Places
    <3>3. QED BY <1>3, <1>4, <2>1, <3>2
  <2>2. ASSUME NEW p \in front PROVE p \in Places(c) /\ buf[p] \in selected
    <3>1. PICK j \in 0 .. m - 1 : p = lo + ((o + j) % n)
      OBVIOUS
    <3>2. PICK x \in 0 .. n - 1 : (o + j) % n = x /\ Window(x, o, m, n)
      BY <1>5
    <3>3. p = lo + x
      BY <3>1, <3>2
    <3>4. p \in Places(c)
      BY <1>1, <3>3 DEF Places
    <3>5. QED BY <1>3, <3>2, <3>3, <3>4
  <2>3. QED
    <3> HIDE DEF front
    <3>1. QED BY <2>1, <2>2
<1>7. front = {c.lo + ((c.offset + j) % c.n) : j \in 0 .. Selected(c.lo, c.n) - 1}
  BY <1>1, <1>2
<1>8. QED BY <1>6, <1>7 DEF IsCompacted, CompactIn, Own

LEMMA CompactedNone ==
  ASSUME NEW c \in Call, c.n = 0
  PROVE  IsCompacted(c)
<1>1. Places(c) = {}
  BY DEF Places, Call
<1>2. Selected(c.lo, c.n) = 0
  <2>1. c.lo \in Nat /\ 0 \in 0 .. 0 /\ 0 \in Nat
    BY DEF Call
  <2>2. Selected(c.lo, 0) \in 0 .. 0
    BY <2>1, SelectedIs
  <2>3. QED BY <2>2
<1>3. 0 .. Selected(c.lo, c.n) - 1 = {}
  BY <1>2
<1>4. QED BY <1>1, <1>3 DEF IsCompacted

LEMMA CompactsAll ==
  ASSUME Inv
  PROVE  Compacts
<1>1. SUFFICES ASSUME Sane, NEW c \in tree, Settled(c) PROVE IsCompacted(c)
  BY DEF Compacts, Sane
<1>2. DataOf(buf, done) /\ InTree /\ Ordered /\ Roomy
  BY <1>1 DEF Inv
<1>3. PICK r : IsTree(tree, r)
  BY <1>2 DEF InTree
<1>4. Fits(c) /\ c \in Call /\ c.n \in Nat
  BY <1>3 DEF IsTree, Rooted, Fits, Call
<1>5. EndedIn(done, c)
  BY <1>1 DEF Settled, Ended, EndedIn
<1>6. ~ ConsumedIn(done, c)
  BY <1>1 DEF Settled, ConsumedIn, Children
<1>7. UnlockedIn(done, c)
  <2>1. PICK j : j \in Job(c)
    BY <1>4, JobIs
  <2>2. <<c, j>> \in done
    BY <1>5, <2>1 DEF EndedIn
  <2>3. Unlocked(c)
    BY <1>2, <2>2 DEF Ordered
  <2>4. QED BY <2>3 DEF Unlocked, UnlockedIn, Ended, EndedIn
<1>8. CompactIn(buf, c)
  <2>1. LeafOf(buf, done, c) /\ LevelOf(buf, done, c) /\ DOMAIN buf \subseteq Nat /\ Places(c) \subseteq DOMAIN buf
    BY <1>2 DEF DataOf, Roomy
  <2>2. QED BY <1>4, <1>5, <1>6, <1>7, <2>1, EndedCompact
<1>9. CASE c.n > 0
  BY <1>1, <1>4, <1>8, <1>9, CompactedWindow DEF Sane
<1>10. CASE c.n = 0
  BY <1>4, <1>10, CompactedNone
<1>11. QED BY <1>4, <1>9, <1>10

\* However the jobs interleave, a call that has ended and whose caller has not
\* started on its swaps has its records in its own places, the selected ones
\* from its offset on with wraparound; for any number of records and threads,
\* if no offset reaches the number of records of its call
\* (TightCompaction_v2.tcc:40-98, 155-228 and 284-420).
THEOREM CompactsHolds == Spec => []Compacts
<1>1. Inv => Compacts
  BY CompactsAll
<1>2. QED BY <1>1, TightInvariant, PTL

\* Jobs that may run at a time run on different threads of the whole call: no
\* dispatch finds its worker busy, for any number of records and threads
\* (TightCompaction_v2.tcc:188-202, 218-226 and 382-419).
THEOREM WorkersIdleHolds == Spec => []WorkersIdle
<1>1. Inv => WorkersIdle
  BY WorkersApart DEF Inv
<1>2. QED BY <1>1, TightInvariant, PTL


-----------------------------------------------------------------------------
(* A call as its caller sees it, whatever lies in its places.               *)

\* Array e, then b.
Through(b, e) == [p \in DOMAIN buf |-> b[e[p]]]
Untouched == [p \in DOMAIN buf |-> p]

LEMMA ThroughIs ==
  ASSUME NEW b \in Array, NEW e \in Array
  PROVE  Through(b, e) \in Array /\ \A p \in DOMAIN buf : Through(b, e)[p] = b[e[p]] /\ e[p] \in DOMAIN buf
<1>1. \A p \in DOMAIN buf : e[p] \in DOMAIN buf /\ b[e[p]] \in DOMAIN buf
  BY DEF Array
<1>2. QED BY <1>1 DEF Through, Array

\* Swaps look at the flags only, and so do not care what is swapped.
LEMMA SwapsThrough ==
  ASSUME DOMAIN buf \subseteq Nat, NEW c \in Held, NEW b \in Array, NEW e \in Array
  PROVE  SwapRange(Through(b, e), c, AllPairs(c)) = Through(b, SwapRange(e, c, AllPairs(c)))
<1>1. c \in Call /\ Places(c) \subseteq DOMAIN buf /\ AllPairs(c) \subseteq 0 .. Pairs(c) - 1
  BY DEF Held, AllPairs
<1>2. PICK d : d = Through(b, e)
  OBVIOUS
<1>3. d \in Array /\ \A p \in DOMAIN buf : d[p] = b[e[p]]
  BY <1>2, ThroughIs
<1>4. DOMAIN d = DOMAIN buf /\ DOMAIN e = DOMAIN buf
  BY <1>3 DEF Array
<1>5. /\ DOMAIN SwapRange(d, c, AllPairs(c)) = DOMAIN buf
      /\ \A p \in DOMAIN buf : SwapRange(d, c, AllPairs(c))[p] = d[Source(c, AllPairs(c), p)]
      /\ \A p \in DOMAIN buf : SwapRange(e, c, AllPairs(c))[p] = e[Source(c, AllPairs(c), p)]
  BY <1>1, <1>4, SwapRangeAt
<1>6. ASSUME NEW p \in DOMAIN buf PROVE Source(c, AllPairs(c), p) \in DOMAIN buf
  <2>1. p \in Int
    OBVIOUS
  <2>2. QED BY <1>1, <2>1, SourceStays
<1>7. \A p \in DOMAIN buf : SwapRange(d, c, AllPairs(c))[p] = b[SwapRange(e, c, AllPairs(c))[p]]
  BY <1>3, <1>5, <1>6
<1>8. SwapRange(d, c, AllPairs(c)) = [p \in DOMAIN buf |-> SwapRange(d, c, AllPairs(c))[p]]
  <2>1. SwapRange(d, c, AllPairs(c)) = [p \in DOMAIN d |-> SwapRange(d, c, AllPairs(c))[p]]
    BY DEF SwapRange
  <2>2. QED BY <1>4, <2>1
<1>9. QED BY <1>2, <1>7, <1>8 DEF Through

LEMMA SwapsHeld ==
  ASSUME DOMAIN buf \subseteq Nat, NEW c \in Held, NEW b \in Array
  PROVE  /\ SwapRange(b, c, AllPairs(c)) \in Array /\ SameRecords(SwapRange(b, c, AllPairs(c)), b, c)
         /\ \A p \in DOMAIN buf : p \notin Places(c) => SwapRange(b, c, AllPairs(c))[p] = b[p]
<1>1. c \in Call /\ Places(c) \subseteq DOMAIN buf /\ AllPairs(c) \subseteq 0 .. Pairs(c) - 1 /\ DOMAIN b = DOMAIN buf
  BY DEF Held, AllPairs, Array
<1>2. /\ SameRecords(SwapRange(b, c, AllPairs(c)), b, c)
      /\ \A p \in DOMAIN b : p \notin Places(c) => SwapRange(b, c, AllPairs(c))[p] = b[p]
      /\ StaysArray(SwapRange(b, c, AllPairs(c)), b)
  BY <1>1, SwapRangeKeeps
<1>3. QED BY <1>1, <1>2 DEF StaysArray, Array

\* What any call does, even one that overruns an offset, and what it does to b if it
\* does e to the untouched array.
Keeps(c, b) ==
  /\ Compacted[c][b] \in Array /\ SameRecords(Compacted[c][b], b, c)
  /\ \A p \in DOMAIN buf : p \notin Places(c) => Compacted[c][b][p] = b[p]
GoesThrough(c, b, e) == Compacted[c][Through(b, e)] = Through(b, Compacted[c][e])
Transparent(c) == \A b \in Array : Keeps(c, b) /\ \A e \in Array : GoesThrough(c, b, e)

LEMMA CompactedAt ==
  ASSUME DOMAIN buf \subseteq Nat, NEW c \in Held, NEW b \in Array
  PROVE  /\ IsBase(c) => Compacted[c][b] = SwapRange(b, c, AllPairs(c))
         /\ ~ IsBase(c) => Compacted[c][b] =
              SwapRange(Compacted[RightCall(c)][Compacted[LeftCall(c)][b]], c, AllPairs(c))
<1>1. Compacted[c][b] = OneThread(Compacted, c, b)
  BY CompactedIs
<1>2. QED BY <1>1 DEF OneThread, AllPairs

LEMMA TransparentBase ==
  ASSUME DOMAIN buf \subseteq Nat, NEW c \in Held, IsBase(c)
  PROVE  Transparent(c)
<1>1. ASSUME NEW b \in Array PROVE Keeps(c, b)
  <2>1. Compacted[c][b] = SwapRange(b, c, AllPairs(c))
    BY CompactedAt
  <2>2. QED BY <2>1, SwapsHeld DEF Keeps
<1>2. ASSUME NEW b \in Array, NEW e \in Array PROVE GoesThrough(c, b, e)
  <2>1. Through(b, e) \in Array
    BY ThroughIs
  <2>2. /\ Compacted[c][Through(b, e)] = SwapRange(Through(b, e), c, AllPairs(c))
        /\ Compacted[c][e] = SwapRange(e, c, AllPairs(c))
    BY <2>1, CompactedAt
  <2>3. QED BY <2>2, SwapsThrough DEF GoesThrough
<1>3. QED BY <1>1, <1>2 DEF Transparent

\* The records of a part of the places, and of all.
SameOn(d, b, P) == {d[p] : p \in P} = {b[p] : p \in P}

LEMMA RecordsJoin ==
  ASSUME NEW P, NEW L, L \subseteq P, NEW b, NEW d, SameOn(d, b, L), \A p \in P \ L : d[p] = b[p]
  PROVE  SameOn(d, b, P)
<1>0. {d[p] : p \in L} = {b[p] : p \in L}
  BY DEF SameOn
<1>1. ASSUME NEW p \in P PROVE d[p] \in {b[q] : q \in P} /\ b[p] \in {d[q] : q \in P}
  <2>1. CASE p \in L
    <3>1. d[p] \in {b[q] : q \in L} /\ b[p] \in {d[q] : q \in L}
      BY <1>0, <2>1
    <3>2. QED BY <3>1
  <2>2. CASE p \notin L
    BY <2>2
  <2>3. QED BY <2>1, <2>2
<1>2. QED BY <1>1 DEF SameOn

LEMMA TransparentLevel ==
  ASSUME DOMAIN buf \subseteq Nat, NEW c \in Held, ~ IsBase(c), Transparent(LeftCall(c)), Transparent(RightCall(c))
  PROVE  Transparent(c)
<1>1. PICK l \in Held, h \in Held : l = LeftCall(c) /\ h = RightCall(c)
  BY HeldHalves
<1>2. Transparent(l) /\ Transparent(h)
  BY <1>1
<1>3. Places(l) \subseteq Places(c) /\ Places(h) \subseteq Places(c)
  <2>1. c \in Call /\ c.n > 2 /\ c.n \in Nat /\ c.lo \in Nat
    BY DEF Held, IsBase, Call
  <2>2. HalvesAre(c)
    BY <2>1, Halved
  <2>3. PICK s \in Nat : 1 <= s /\ s < c.n /\ l.lo = c.lo /\ l.n = s /\ h.lo = c.lo + s /\ h.n = c.n - s
    <3>1. Split(c) \in Nat /\ 1 <= Split(c) /\ Split(c) < c.n
      BY <2>1, <2>2 DEF HalvesAre
    <3>2. QED BY <1>1, <2>2, <3>1 DEF HalvesAre
  <2>4. QED BY <2>1, <2>3 DEF Places
<1>4. ASSUME NEW b \in Array
      PROVE  /\ Compacted[l][b] \in Array /\ Compacted[h][Compacted[l][b]] \in Array
             /\ Compacted[c][b] = SwapRange(Compacted[h][Compacted[l][b]], c, AllPairs(c))
  <2>1. Compacted[l][b] \in Array
    BY <1>2 DEF Transparent, Keeps
  <2>2. Compacted[h][Compacted[l][b]] \in Array
    BY <1>2, <2>1 DEF Transparent, Keeps
  <2>3. QED BY <1>1, <2>1, <2>2, CompactedAt
<1>5. ASSUME NEW b \in Array PROVE Keeps(c, b)
  <2>1. PICK d, g : d = Compacted[l][b] /\ g = Compacted[h][d]
    OBVIOUS
  <2>2. d \in Array /\ g \in Array /\ Compacted[c][b] = SwapRange(g, c, AllPairs(c))
    BY <1>4, <2>1
  <2>3. SameRecords(d, b, l) /\ \A p \in DOMAIN buf : p \notin Places(l) => d[p] = b[p]
    BY <1>2, <2>1 DEF Transparent, Keeps
  <2>4. SameRecords(g, d, h) /\ \A p \in DOMAIN buf : p \notin Places(h) => g[p] = d[p]
    BY <1>2, <2>1, <2>2 DEF Transparent, Keeps
  <2>5. Places(c) \subseteq DOMAIN buf
    BY DEF Held
  <2>6. SameOn(d, b, Places(c))
    <3>0. SameOn(d, b, Places(l))
      BY <2>3 DEF SameRecords, SameOn
    <3>1. \A p \in Places(c) \ Places(l) : d[p] = b[p]
      BY <2>3, <2>5
    <3>2. QED BY <1>3, <3>0, <3>1, RecordsJoin
  <2>7. SameOn(g, d, Places(c))
    <3>0. SameOn(g, d, Places(h))
      BY <2>4 DEF SameRecords, SameOn
    <3>1. \A p \in Places(c) \ Places(h) : g[p] = d[p]
      BY <2>4, <2>5
    <3>2. QED BY <1>3, <3>0, <3>1, RecordsJoin
  <2>8. \A p \in DOMAIN buf : p \notin Places(c) => g[p] = b[p]
    BY <1>3, <2>3, <2>4
  <2>9. /\ SwapRange(g, c, AllPairs(c)) \in Array /\ SameRecords(SwapRange(g, c, AllPairs(c)), g, c)
        /\ \A p \in DOMAIN buf : p \notin Places(c) => SwapRange(g, c, AllPairs(c))[p] = g[p]
    BY <2>2, SwapsHeld
  <2>10. SameRecords(Compacted[c][b], b, c)
    BY <2>2, <2>6, <2>7, <2>9 DEF SameRecords, SameOn
  <2>11. QED BY <2>2, <2>8, <2>9, <2>10 DEF Keeps
<1>6. ASSUME NEW b \in Array, NEW e \in Array PROVE GoesThrough(c, b, e)
  <2>1. PICK d, g : d = Compacted[l][e] /\ g = Compacted[h][d]
    OBVIOUS
  <2>2. d \in Array /\ g \in Array /\ Compacted[c][e] = SwapRange(g, c, AllPairs(c))
    BY <1>4, <2>1
  <2>3. Through(b, e) \in Array
    BY ThroughIs
  <2>4. Compacted[l][Through(b, e)] = Through(b, d)
    BY <1>2, <2>1 DEF Transparent, GoesThrough
  <2>5. Compacted[h][Through(b, d)] = Through(b, g)
    BY <1>2, <2>1, <2>2 DEF Transparent, GoesThrough
  <2>6. Compacted[c][Through(b, e)] = SwapRange(Through(b, g), c, AllPairs(c))
    BY <1>4, <2>3, <2>4, <2>5
  <2>7. SwapRange(Through(b, g), c, AllPairs(c)) = Through(b, SwapRange(g, c, AllPairs(c)))
    BY <2>2, SwapsThrough
  <2>8. QED BY <2>2, <2>6, <2>7 DEF GoesThrough
<1>7. QED BY <1>5, <1>6 DEF Transparent

LEMMA AllTransparent ==
  ASSUME DOMAIN buf \subseteq Nat, NEW c \in Held
  PROVE  Transparent(c)
<1> DEFINE bad == {m \in Nat : \E d \in Held : d.n = m /\ ~ Transparent(d)}
<1>1. bad = {}
  <2>1. SUFFICES ASSUME bad # {} PROVE FALSE
    OBVIOUS
  <2>2. PICK m \in bad : \A k \in bad : m <= k
    <3>1. bad \subseteq Nat
      OBVIOUS
    <3>2. QED
      <4> HIDE DEF bad
      <4>1. QED BY <2>1, <3>1, LeastNumber
  <2>3. PICK d \in Held : d.n = m /\ ~ Transparent(d)
    BY <2>2
  <2>4. ~ IsBase(d)
    BY <2>3, TransparentBase
  <2>5. PICK l \in Held, h \in Held : l = LeftCall(d) /\ h = RightCall(d)
    BY <2>4, HeldHalves
  <2>6. l.n \in Nat /\ h.n \in Nat /\ l.n < m /\ h.n < m
    BY <2>3, <2>4, <2>5, HeldHalves
  <2>7. l.n \notin bad /\ h.n \notin bad
    BY <2>2, <2>6
  <2>8. Transparent(l) /\ Transparent(h)
    BY <2>6, <2>7
  <2>9. QED BY <2>3, <2>4, <2>5, <2>8, TransparentLevel
<1>2. c.n \in Nat
  BY DEF Held, Call
<1>3. QED BY <1>1, <1>2


\* The records of P are rearranged; those of the selected places come to L.
Rearranged(b, P) == b \in Array /\ SameOn(b, buf, P) /\ \A p \in DOMAIN buf : p \notin P => b[p] = buf[p]
Fetched(b, P, L) == {b[p] : p \in L} = {buf[p] : p \in selected \cap P}

LEMMA CompactionMoves ==
  ASSUME DOMAIN buf \subseteq Nat, buf \in Array, NEW c \in Held
  PROVE  Rearranged(Compacted[c][buf], Places(c))
<1>1. Keeps(c, buf)
  BY AllTransparent DEF Transparent
<1>2. QED BY <1>1 DEF Keeps, Rearranged, SameRecords, SameOn

LEMMA CompactionFetches ==
  ASSUME DOMAIN buf \subseteq Nat, buf \in Array, NEW c, Callable(c), c.offset = 0,
         NEW k \in Nat, k = Selected(c.lo, c.n), k <= c.n
  PROVE  Fetched(Compacted[c][buf], Places(c), c.lo .. c.lo + k - 1)
<1>1. c \in Held /\ c \in Call /\ Places(c) \subseteq DOMAIN buf
  BY DEF Callable, Held
<1>2. PICK e, b : e = Compacted[c][Untouched] /\ b = Compacted[c][buf]
  OBVIOUS
<1>3. Untouched \in Array /\ \A p \in DOMAIN buf : Untouched[p] = p
  BY DEF Untouched, Array
<1>4. e \in Array /\ CompactIn(e, c)
  <2>1. Fresh(Untouched, c)
    BY <1>1, <1>3 DEF Fresh
  <2>2. ThreadDone(c, Untouched)
    BY <1>3, <2>1, ThreadCompacts
  <2>3. QED BY <1>2, <2>2 DEF ThreadDone
<1>5. \A p \in DOMAIN buf : b[p] = buf[e[p]]
  <2>1. Through(buf, Untouched) = buf
    <3>1. buf = [p \in DOMAIN buf |-> buf[p]]
      BY DEF Array
    <3>2. QED BY <1>3, <3>1 DEF Through
  <2>2. GoesThrough(c, buf, Untouched)
    BY <1>1, <1>3, AllTransparent DEF Transparent
  <2>3. b = Through(buf, e)
    BY <1>2, <2>1, <2>2 DEF GoesThrough
  <2>4. QED BY <2>3 DEF Through
<1>6. PICK lo \in Nat, n \in Nat : lo = c.lo /\ n = c.n
  BY <1>1 DEF Call
<1>7. ASSUME NEW x \in 0 .. n - 1 PROVE e[lo + x] \in selected <=> x < k
  <2>1. IsSelected(e, c, x) <=> InWindow(c, x)
    BY <1>4, <1>6 DEF CompactIn
  <2>2. InWindow(c, x) <=> x < k
    BY <1>6 DEF InWindow, Window
  <2>3. QED BY <1>6, <2>1, <2>2 DEF IsSelected
<1>8. Places(c) = lo .. lo + n - 1
  BY <1>6 DEF Places
<1>9. \A p \in Places(c) : e[p] \in selected <=> p < lo + k
  <2>1. ASSUME NEW p \in lo .. lo + n - 1 PROVE e[p] \in selected <=> p < lo + k
    <3>1. p - lo \in 0 .. n - 1 /\ lo + (p - lo) = p /\ (p - lo < k <=> p < lo + k)
      OBVIOUS
    <3>2. QED BY <1>7, <3>1
  <2>2. QED BY <1>8, <2>1
<1>10. {e[p] : p \in Places(c)} = Places(c)
  BY <1>4 DEF CompactIn, Own
<1>11. ASSUME NEW p \in lo .. lo + k - 1 PROVE b[p] \in {buf[q] : q \in selected \cap Places(c)}
  <2>1. p \in Places(c) /\ p < lo + k
    BY <1>6, <1>8
  <2>2. e[p] \in selected /\ e[p] \in {e[q] : q \in Places(c)}
    BY <1>9, <2>1
  <2>3. e[p] \in selected \cap Places(c) /\ b[p] = buf[e[p]]
    BY <1>1, <1>5, <1>10, <2>1, <2>2
  <2>4. QED BY <2>3
<1>12. ASSUME NEW q \in selected \cap Places(c) PROVE buf[q] \in {b[p] : p \in lo .. lo + k - 1}
  <2>1. q \in {e[p] : p \in Places(c)}
    BY <1>10
  <2>2. PICK p \in Places(c) : q = e[p]
    BY <2>1
  <2>3. p \in lo .. lo + k - 1 /\ buf[q] = b[p]
    BY <1>1, <1>5, <1>8, <1>9, <2>2
  <2>4. QED BY <2>3
<1>13. QED BY <1>2, <1>6, <1>11, <1>12 DEF Fetched


-----------------------------------------------------------------------------
(* The order-preserving compaction as the shuffle sees it.                  *)

LEMMA RankIs ==
  ASSUME NEW S, S \subseteq Int, IsFiniteSet(S), NEW p \in S
  PROVE  /\ CountBelow(S, p) \in Nat /\ CountBelow(S, p) < Cardinality(S)
         /\ \A q \in S : q < p => CountBelow(S, q) < CountBelow(S, p)
<1>1. ASSUME NEW q \in S PROVE /\ {r \in S : r < q} \subseteq S \ {q} /\ IsFiniteSet({r \in S : r < q})
                               /\ CountBelow(S, q) \in Nat
  <2>1. IsFiniteSet({r \in S : r < q})
    BY FS_Subset
  <2>2. QED BY <2>1, FS_CardinalityType DEF CountBelow
<1>2. CountBelow(S, p) < Cardinality(S)
  <2>1. PICK R : R = {r \in S : r < p}
    OBVIOUS
  <2>2. R \in SUBSET S /\ R # S
    BY <1>1, <2>1
  <2>3. Cardinality(R) <= Cardinality(S) /\ Cardinality(R) # Cardinality(S)
    BY <2>2, FS_Subset
  <2>4. Cardinality(S) \in Nat /\ Cardinality(R) \in Nat
    BY <1>1, <2>1, FS_CardinalityType
  <2>5. QED BY <2>1, <2>3, <2>4 DEF CountBelow
<1>3. ASSUME NEW q \in S, q < p PROVE CountBelow(S, q) < CountBelow(S, p)
  <2>1. PICK R, Q : R = {r \in S : r < p} /\ Q = {r \in S : r < q}
    OBVIOUS
  <2>2. Q \in SUBSET R
    <3>1. \A r \in S : r < q => r < p
      BY <1>3
    <3>2. QED BY <2>1, <3>1
  <2>3. q \in R /\ q \notin Q
    BY <1>3, <2>1
  <2>4. IsFiniteSet(R)
    BY <1>1, <2>1
  <2>5. Cardinality(Q) <= Cardinality(R) /\ Cardinality(Q) # Cardinality(R)
    BY <2>2, <2>3, <2>4, FS_Subset
  <2>6. Cardinality(R) \in Nat /\ Cardinality(Q) \in Nat
    BY <1>1, <2>1 DEF CountBelow
  <2>7. QED BY <2>1, <2>5, <2>6 DEF CountBelow
<1>4. QED BY <1>1, <1>2, <1>3

\* GoalInOrder takes the places of c onto themselves, the marked ones to the front.
GoalsFill(c, k) ==
  /\ \A p \in Span(c) : GoalInOrder(c, p) \in Span(c) /\ (p \in selected <=> GoalInOrder(c, p) < c.lo + k)
  /\ \A p, q \in Span(c) : GoalInOrder(c, p) = GoalInOrder(c, q) => p = q
  /\ \A p \in Span(c) : \E q \in Span(c) : GoalInOrder(c, q) = p

LEMMA GoalsFillSpan ==
  ASSUME NEW c, c.lo \in Nat, c.n \in Nat, NEW k, k = Cardinality(selected \cap Span(c))
  PROVE  GoalsFill(c, k) /\ k \in Nat /\ k <= c.n /\ IsFiniteSet(Span(c))
<1>0. PICK lo \in Nat, n \in Nat : lo = c.lo /\ n = c.n
  OBVIOUS
<1>1. PICK P, M, O : lo = c.lo /\ n = c.n /\ P = Span(c) /\ M = selected \cap P /\ O = P \ selected
  BY <1>0
<1>2. P = lo .. lo + n - 1
  BY <1>1 DEF Span
<1>3. IsFiniteSet(P) /\ Cardinality(P) = n
  <2>1. lo \in Int /\ lo + n - 1 \in Int /\ (IF lo > lo + n - 1 THEN 0 ELSE (lo + n - 1) - lo + 1) = n
    OBVIOUS
  <2>2. QED BY <1>2, <2>1, FS_Interval
<1>4. IsFiniteSet(M) /\ IsFiniteSet(O) /\ M \subseteq Int /\ O \subseteq Int
  <2>1. M \in SUBSET P /\ O \in SUBSET P
    BY <1>1
  <2>2. IsFiniteSet(M) /\ IsFiniteSet(O)
    BY <1>3, <2>1, FS_Subset
  <2>3. QED BY <1>2, <2>1, <2>2
<1>5. k = Cardinality(M) /\ k \in Nat /\ Cardinality(O) = n - k /\ k <= n
  <2>1. Cardinality(M) \in Nat /\ Cardinality(O) \in Nat
    BY <1>4, FS_CardinalityType
  <2>2. O = P \ M /\ P \cap M = M
    BY <1>1
  <2>3. Cardinality(O) = n - Cardinality(M)
    BY <1>3, <2>2, FS_Difference
  <2>4. QED BY <1>1, <2>1, <2>3
<1>6. ASSUME NEW p \in M
      PROVE  /\ GoalInOrder(c, p) = lo + CountBelow(M, p)
             /\ GoalInOrder(c, p) \in P /\ GoalInOrder(c, p) < lo + k
  <2>1. GoalInOrder(c, p) = lo + CountBelow(M, p)
    BY <1>1 DEF GoalInOrder
  <2>2. CountBelow(M, p) \in Nat /\ CountBelow(M, p) < k
    BY <1>4, <1>5, RankIs
  <2>3. QED BY <1>2, <1>5, <2>1, <2>2
<1>7. ASSUME NEW p \in O
      PROVE  /\ GoalInOrder(c, p) = lo + (k + CountBelow(O, p))
             /\ GoalInOrder(c, p) \in P /\ ~ (GoalInOrder(c, p) < lo + k)
  <2>1. GoalInOrder(c, p) = lo + (k + CountBelow(O, p))
    BY <1>1, <1>5 DEF GoalInOrder
  <2>2. CountBelow(O, p) \in Nat /\ CountBelow(O, p) < n - k
    BY <1>4, <1>5, RankIs
  <2>3. QED BY <1>2, <1>5, <2>1, <2>2
<1>8. \A p \in P : p \in M \/ p \in O
  BY <1>1
<1>9. \A p \in P : GoalInOrder(c, p) \in P /\ (p \in selected <=> GoalInOrder(c, p) < lo + k)
  BY <1>1, <1>6, <1>7, <1>8
<1>10. ASSUME NEW p \in P, NEW q \in P, GoalInOrder(c, p) = GoalInOrder(c, q), p < q PROVE FALSE
  <2>1. p \in M <=> q \in M
    BY <1>1, <1>6, <1>7, <1>8, <1>10
  <2>2. CASE p \in M
    <3>1. /\ CountBelow(M, p) \in Nat /\ CountBelow(M, q) \in Nat /\ CountBelow(M, p) < CountBelow(M, q)
          /\ q \in M
      BY <1>4, <1>10, <2>1, <2>2, RankIs
    <3>2. lo + CountBelow(M, p) = lo + CountBelow(M, q)
      BY <1>6, <1>10, <2>2, <3>1
    <3>3. QED BY <3>1, <3>2
  <2>3. CASE p \in O
    <3>1. q \in O
      BY <1>1, <1>8, <2>1, <2>3
    <3>2. CountBelow(O, p) \in Nat /\ CountBelow(O, q) \in Nat /\ CountBelow(O, p) < CountBelow(O, q)
      BY <1>4, <1>10, <2>3, <3>1, RankIs
    <3>3. lo + (k + CountBelow(O, p)) = lo + (k + CountBelow(O, q))
      BY <1>7, <1>10, <2>3, <3>1
    <3>4. QED BY <1>5, <3>2, <3>3
  <2>4. QED BY <1>8, <2>2, <2>3
<1>11. \A p, q \in P : GoalInOrder(c, p) = GoalInOrder(c, q) => p = q
  <2>1. SUFFICES ASSUME NEW p \in P, NEW q \in P, GoalInOrder(c, p) = GoalInOrder(c, q), p # q PROVE FALSE
    OBVIOUS
  <2>2. p < q \/ q < p
    BY <1>2, <2>1
  <2>3. QED BY <1>10, <2>1, <2>2
<1>12. \A p \in P : \E q \in P : GoalInOrder(c, q) = p
  <2>1. PICK g \in [P -> P] : \A p \in P : g[p] = GoalInOrder(c, p)
    <3>1. [p \in P |-> GoalInOrder(c, p)] \in [P -> P]
      BY <1>9
    <3>2. QED BY <3>1
  <2>2. g \in Injection(P, P)
    <3>1. \A p, q \in P : g[p] = g[q] => p = q
      BY <1>11, <2>1
    <3>2. QED BY <3>1 DEF Injection, IsInjective
  <2>3. g \in Surjection(P, P)
    BY <1>3, <2>2, FS_Injection
  <2>4. QED BY <2>1, <2>3 DEF Surjection
<1>13. QED BY <1>1, <1>3, <1>5, <1>9, <1>11, <1>12 DEF GoalsFill

LEMMA InOrderMoves ==
  ASSUME NEW c, c.lo \in Nat, c.n \in Nat, Span(c) \subseteq DOMAIN buf, buf \in Array, NEW b \in InOrder(c),
         NEW k, k = Cardinality(selected \cap Span(c))
  PROVE  Rearranged(b, Span(c)) /\ Fetched(b, Span(c), c.lo .. c.lo + k - 1)
<1>0. PICK lo \in Nat, n \in Nat : lo = c.lo /\ n = c.n
  OBVIOUS
<1>1. PICK P : P = Span(c) /\ lo = c.lo /\ n = c.n /\ P = lo .. lo + n - 1
  BY <1>0 DEF Span
<1>2. /\ k \in Nat /\ k <= n
      /\ \A p \in P : GoalInOrder(c, p) \in P /\ (p \in selected <=> GoalInOrder(c, p) < lo + k)
      /\ \A p, q \in P : GoalInOrder(c, p) = GoalInOrder(c, q) => p = q
      /\ \A p \in P : \E q \in P : GoalInOrder(c, q) = p
  BY <1>1, GoalsFillSpan DEF GoalsFill
<1> DEFINE from(p) == CHOOSE r \in Span(c) : GoalInOrder(c, r) = p
<1>3. PICK others \in Orders(Span(c) \ selected) :
        b = [p \in DOMAIN buf |->
               IF p \in Span(c) THEN buf[IF from(p) \in selected THEN from(p) ELSE others[from(p)]]
               ELSE buf[p]]
  BY DEF InOrder
<1>4. PICK O : O = P \ selected
  OBVIOUS
<1>5. others \in [O -> O] /\ \A w \in O : \E v \in O : others[v] = w
  BY <1>1, <1>3, <1>4 DEF Orders
<1>6. \A p \in P : from(p) \in P /\ GoalInOrder(c, from(p)) = p /\ (from(p) \in selected <=> p < lo + k)
  <2>1. ASSUME NEW p \in P PROVE from(p) \in P /\ GoalInOrder(c, from(p)) = p
    <3>1. \E r \in Span(c) : GoalInOrder(c, r) = p
      BY <1>1, <1>2
    <3>2. from(p) \in Span(c) /\ GoalInOrder(c, from(p)) = p
      BY <3>1
    <3>3. QED BY <1>1, <3>2
  <2> HIDE DEF from
  <2>2. QED BY <1>2, <2>1
<1>7. \A q \in P : from(GoalInOrder(c, q)) = q
  BY <1>2, <1>6
<1> HIDE DEF from
<1>8. PICK W : W = [p \in P |-> IF from(p) \in selected THEN from(p) ELSE others[from(p)]]
  OBVIOUS
<1>9. \A p \in P : W[p] \in P /\ (W[p] \in selected <=> p < lo + k)
  <2>1. ASSUME NEW p \in P PROVE W[p] \in P /\ (W[p] \in selected <=> p < lo + k)
    <3>1. from(p) \in selected \/ from(p) \in O
      BY <1>4, <1>6
    <3>2. QED BY <1>4, <1>5, <1>6, <1>8, <3>1
  <2>2. QED BY <2>1
<1>10. ASSUME NEW q \in P PROVE \E p \in P : W[p] = q
  <2>1. CASE q \in selected
    <3>1. GoalInOrder(c, q) \in P /\ from(GoalInOrder(c, q)) = q
      BY <1>2, <1>7
    <3>2. W[GoalInOrder(c, q)] = q
      BY <1>8, <2>1, <3>1
    <3>3. QED BY <3>1, <3>2
  <2>2. CASE q \notin selected
    <3>1. q \in O
      BY <1>4, <2>2
    <3>2. PICK v \in O : others[v] = q
      BY <1>5, <3>1
    <3>3. v \in P /\ v \notin selected
      BY <1>4
    <3>4. GoalInOrder(c, v) \in P /\ from(GoalInOrder(c, v)) = v
      BY <1>2, <1>7, <3>3
    <3>5. W[GoalInOrder(c, v)] = q
      BY <1>8, <3>2, <3>3, <3>4
    <3>6. QED BY <3>4, <3>5
  <2>3. QED BY <2>1, <2>2
<1>11. /\ DOMAIN b = DOMAIN buf
       /\ \A p \in P : b[p] = buf[W[p]]
       /\ \A p \in DOMAIN buf : p \notin P => b[p] = buf[p]
  BY <1>1, <1>3, <1>8
<1>12. b \in Array
  <2>1. \A p \in DOMAIN buf : b[p] \in DOMAIN buf
    BY <1>1, <1>9, <1>11 DEF Array
  <2>2. b = [p \in DOMAIN buf |-> b[p]]
    BY <1>3
  <2>3. QED BY <2>1, <2>2 DEF Array
<1>13. SameOn(b, buf, P)
  <2>1. ASSUME NEW p \in P PROVE b[p] \in {buf[q] : q \in P} /\ buf[p] \in {b[q] : q \in P}
    <3>1. PICK q \in P : W[q] = p
      BY <1>10
    <3>2. b[p] = buf[W[p]] /\ W[p] \in P /\ buf[p] = b[q]
      BY <1>9, <1>11, <3>1
    <3>3. QED BY <3>2
  <2>2. QED BY <2>1 DEF SameOn
<1>14. Fetched(b, P, lo .. lo + k - 1)
  <2>1. ASSUME NEW p \in lo .. lo + k - 1 PROVE b[p] \in {buf[q] : q \in selected \cap P}
    <3>1. p \in P /\ p < lo + k
      BY <1>1, <1>2
    <3>2. b[p] = buf[W[p]] /\ W[p] \in selected \cap P
      BY <1>9, <1>11, <3>1
    <3>3. QED BY <3>2
  <2>2. ASSUME NEW q \in selected \cap P PROVE buf[q] \in {b[p] : p \in lo .. lo + k - 1}
    <3>1. PICK p \in P : W[p] = q
      BY <1>10
    <3>2. p < lo + k /\ b[p] = buf[q]
      BY <1>9, <1>11, <3>1
    <3>3. p \in lo .. lo + k - 1
      BY <1>1, <1>2, <3>2
    <3>4. QED BY <3>2, <3>3
  <2>3. QED BY <2>1, <2>2 DEF Fetched
<1>15. QED BY <1>1, <1>11, <1>12, <1>13, <1>14 DEF Rearranged


-----------------------------------------------------------------------------
(* The inductive invariant of RecursiveShuffle.                             *)

Frame ==
  [lo : Nat, n : Nat, nthreads : Nat, next : {"mark", "compact", "coin", "halves", "join"},
   left : SUBSET Nat]

Draw == [lo : Nat, n : Nat, left : SUBSET Nat, sound : BOOLEAN]

Team == 0 .. threads - 1

\* f is the k-th call on thread t.
At(t, k, f) == t \in Team /\ k \in 1 .. Len(stacks[t]) /\ f = stacks[t][k]

\* The threads that a call on thread t has for itself.
Crew(t, f) == t .. t + f.nthreads - 1

RightSpan(c) == c.lo + c.n \div 2 .. c.lo + c.n - 1

FrameOK(t, f) ==
  /\ f.n >= 2 /\ f.nthreads >= 1 /\ t + f.nthreads <= threads /\ f.lo + f.n <= Records
  /\ f.next = "coin" <=> f.n = 2
  /\ f.next = "join" => f.nthreads >= 2

KeptApart(t, f, u, g) ==
  /\ Span(f) \cap Span(g) = {}
  /\ Crew(t, f) \cap Crew(u, g) = {} \/ (t = u /\ f.nthreads = 1 /\ g.nthreads = 1)

\* A call that waits has given both halves away, each with its threads.
Awaits(t, f, u, g) ==
  /\ f.next = "join"
  /\ \/ Span(g) \subseteq RightSpan(f) /\ Crew(u, g) \subseteq t .. t + ThreadsRight(f) - 1
     \/ Span(g) \subseteq LeftSpan(f) /\ Crew(u, g) \subseteq LeftThread(t, f) .. t + f.nthreads - 1

Related(t, f, u, g) == KeptApart(t, f, u, g) \/ Awaits(t, f, u, g) \/ Awaits(u, g, t, f)

\* The parts whose records a call is still to rearrange.
Parts(f) ==
  IF f.next = "join" THEN {}
  ELSE IF f.next = "halves" THEN {LeftSpan(f), RightSpan(f)} ELSE {Span(f)}

\* A draw splits its records before this place.
Cut(d) == d.lo + d.n \div 2

\* The places before which a call, or one that it makes, is still to split.
Open(f) ==
  {b \in f.lo + 1 .. f.lo + f.n - 1 : f.next # "join" /\ (f.next = "halves" => b # Cut(f))}

MarkOK(f) ==
  f.next = "compact" =>
    /\ {buf[p] : p \in selected \cap Span(f)} = f.left
    /\ Cardinality(selected \cap Span(f)) = f.n \div 2

DrawOK(d) ==
  /\ d.n >= 2 /\ d.lo + d.n <= Records
  /\ d.sound => {buf[p] : p \in LeftSpan(d)} = d.left

\* No call rearranges records across a draw's left half, or splits there again.
ClearOf(d, f) ==
  /\ \A P \in Parts(f) : P \subseteq LeftSpan(d) \/ P \cap LeftSpan(d) = {}
  /\ Cut(d) \notin Open(f)

ShTypes ==
  /\ threads \in Nat \ {0} /\ stacks \in [Team -> Seq(Frame)]
  /\ Records \in Nat /\ DOMAIN buf = 0 .. Records - 1 /\ buf \in Array
  /\ selected \subseteq DOMAIN buf /\ drawn \subseteq Draw
  /\ outcome \in {"entered", "running", "unshuffled", "aborted"}

FramesFit == \A t \in Team, k \in Nat, f \in Frame : At(t, k, f) => FrameOK(t, f)

FramesApart ==
  \A t, u \in Team, k, l \in Nat, f, g \in Frame :
    At(t, k, f) /\ At(u, l, g) /\ <<t, k>> # <<u, l>> => Related(t, f, u, g)

Marks == \A t \in Team, k \in Nat, f \in Frame : At(t, k, f) => MarkOK(f)

DrawsStand == \A d \in drawn : DrawOK(d)

DrawsClear == \A d \in drawn : \A t \in Team, k \in Nat, f \in Frame : At(t, k, f) => ClearOf(d, f)

CutsDiffer == \A d, e \in drawn : Cut(d) = Cut(e) => d = e

StillCut(b) ==
  \/ \E d \in drawn : Cut(d) = b
  \/ \E t \in Team, k \in Nat, f \in Frame : At(t, k, f) /\ b \in Open(f)

AllCut == outcome = "running" => \A b \in 1 .. Records - 1 : StillCut(b)

AllThere == SameOn(buf, Untouched, DOMAIN buf)

Started ==
  /\ outcome \in {"entered", "unshuffled"} => buf = Untouched
  /\ outcome = "entered" => drawn = {} /\ \A t \in Team : stacks[t] = << >>

FramesInv == ShTypes /\ FramesFit /\ FramesApart /\ Marks
DrawsInv == DrawsStand /\ DrawsClear /\ CutsDiffer /\ AllCut /\ AllThere /\ Started
ShInv == FramesInv /\ DrawsInv

-----------------------------------------------------------------------------
(* Stacks.                                                                  *)

LEMMA FrontIs ==
  ASSUME NEW S, NEW s \in Seq(S), s # <<>>
  PROVE  /\ Front(s) \in Seq(S) /\ Len(Front(s)) = Len(s) - 1
         /\ \A i \in 1 .. Len(s) - 1 : Front(s)[i] = s[i]
<1>1. Len(s) \in Nat /\ Len(s) >= 1 /\ \A i \in 1 .. Len(s) : s[i] \in S
  OBVIOUS
<1>2. PICK n \in Nat : n = Len(s) - 1
  BY <1>1
<1>3. \A i \in 1 .. n : s[i] \in S
  BY <1>1, <1>2
<1>4. /\ SubSeq(s, 1, n) \in Seq(S) /\ Len(SubSeq(s, 1, n)) = IF 1 <= n THEN n - 1 + 1 ELSE 0
      /\ \A i \in 1 .. n - 1 + 1 : SubSeq(s, 1, n)[i] = s[1 + i - 1]
  BY <1>3, SubSeqProperties
<1>5. Front(s) = SubSeq(s, 1, n)
  BY <1>2 DEF Front
<1>6. \A i \in 1 .. n : SubSeq(s, 1, n)[i] = s[i]
  BY <1>4
<1>7. Len(SubSeq(s, 1, n)) = n
  BY <1>4
<1>8. QED BY <1>2, <1>4, <1>5, <1>6, <1>7

\* The last, l-th, call of thread t gives way to e, and the idle thread w, if it is
\* another, gets g.
GivesWay(t, l, e, w, g) ==
  /\ t \in Team /\ stacks[t] # << >> /\ l = Len(stacks[t]) /\ e \in Seq(Frame)
  /\ w \in Team /\ g \in Seq(Frame) /\ (w = t \/ stacks[w] = << >>)
  /\ stacks' = [u \in Team |-> IF u = t THEN Front(stacks[t]) \o e
                               ELSE IF u = w THEN g ELSE stacks[u]]

\* The calls there are afterwards: the others and those of E.
GaveWay(t, l, E) ==
  /\ stacks' \in [Team -> Seq(Frame)]
  /\ \A u \in Team, i \in Nat, c \in Frame :
       At(u, i, c)' <=> (At(u, i, c) /\ <<u, i>> # <<t, l>>) \/ <<u, i, c>> \in E

Puts(t, l, e, w, g, u, i, c) ==
  \/ u = t /\ \E j \in 1 .. Len(e) : i = l - 1 + j /\ c = e[j]
  \/ w # t /\ u = w /\ i \in 1 .. Len(g) /\ c = g[i]

LEMMA GivenWay ==
  ASSUME ShTypes, UNCHANGED threads, NEW t, NEW l, NEW e, NEW w, NEW g, GivesWay(t, l, e, w, g),
         NEW E, \A u \in Team, i \in Nat, c \in Frame : <<u, i, c>> \in E <=> Puts(t, l, e, w, g, u, i, c)
  PROVE  GaveWay(t, l, E)
<1>1. stacks \in [Team -> Seq(Frame)] /\ Team' = Team /\ t \in Team /\ w \in Team
  BY DEF ShTypes, Team, GivesWay
<1>2. PICK s : s = stacks[t]
  OBVIOUS
<1>3. s \in Seq(Frame) /\ s # << >> /\ e \in Seq(Frame) /\ g \in Seq(Frame) /\ l = Len(s)
  BY <1>1, <1>2 DEF GivesWay
<1>4. PICK h : h = Front(s)
  OBVIOUS
<1>5. h \in Seq(Frame) /\ Len(h) = l - 1 /\ (\A i \in 1 .. l - 1 : h[i] = s[i]) /\ l \in Nat \ {0}
  BY <1>3, <1>4, FrontIs
<1>6. PICK r : r = h \o e
  OBVIOUS
<1>7. PICK m \in Nat : m = Len(e)
  BY <1>3
<1>8. r \in Seq(Frame) /\ Len(r) = l - 1 + m
  BY <1>3, <1>5, <1>6, <1>7
<1>9. \A i \in 1 .. l - 1 + m : r[i] = IF i <= l - 1 THEN s[i] ELSE e[i - (l - 1)]
  BY <1>3, <1>5, <1>6, <1>7
<1>10. stacks'[t] = r /\ (w # t => stacks'[w] = g /\ stacks[w] = << >>)
       /\ \A u \in Team : u # t /\ u # w => stacks'[u] = stacks[u]
  BY <1>1, <1>2, <1>4, <1>6 DEF GivesWay
<1>11. stacks' \in [Team -> Seq(Frame)]
  BY <1>1, <1>2, <1>3, <1>4, <1>6, <1>8 DEF GivesWay
<1>12. ASSUME NEW u \in Team, NEW i \in Nat, NEW c \in Frame
       PROVE  At(u, i, c)' <=> (At(u, i, c) /\ <<u, i>> # <<t, l>>) \/ <<u, i, c>> \in E
  <2>1. At(u, i, c)' <=> i \in 1 .. Len(stacks'[u]) /\ c = stacks'[u][i]
    BY <1>1 DEF At
  <2>2. At(u, i, c) <=> i \in 1 .. Len(stacks[u]) /\ c = stacks[u][i]
    BY <1>1 DEF At
  <2>3. CASE u = t
    <3>1. At(u, i, c)' <=> i \in 1 .. l - 1 + m /\ c = r[i]
      BY <1>8, <1>10, <2>1, <2>3
    <3>2. At(u, i, c) <=> i \in 1 .. l /\ c = s[i]
      BY <1>2, <1>3, <2>2, <2>3
    <3>3. <<u, i, c>> \in E <=> \E j \in 1 .. m : i = l - 1 + j /\ c = e[j]
      BY <1>7, <2>3 DEF Puts
    <3>4. (\E j \in 1 .. m : i = l - 1 + j /\ c = e[j]) <=> i \in l .. l - 1 + m /\ c = e[i - (l - 1)]
      <4>1. ASSUME NEW j \in 1 .. m, i = l - 1 + j, c = e[j] PROVE i \in l .. l - 1 + m /\ c = e[i - (l - 1)]
        <5>1. j = i - (l - 1) /\ i \in l .. l - 1 + m
          BY <1>5, <4>1
        <5>2. QED BY <4>1, <5>1
      <4>2. ASSUME i \in l .. l - 1 + m, c = e[i - (l - 1)] PROVE \E j \in 1 .. m : i = l - 1 + j /\ c = e[j]
        <5>1. i - (l - 1) \in 1 .. m /\ i = l - 1 + (i - (l - 1))
          BY <1>5, <4>2
        <5>2. QED BY <4>2, <5>1
      <4>3. QED BY <4>1, <4>2
    <3>5. CASE i <= l - 1
      BY <1>5, <1>9, <2>3, <3>1, <3>2, <3>3, <3>4, <3>5
    <3>6. CASE ~ (i <= l - 1)
      BY <1>5, <1>9, <2>3, <3>1, <3>2, <3>3, <3>4, <3>6
    <3>7. QED BY <3>5, <3>6
  <2>4. CASE u # t /\ u = w
    <3>1. <<u, i, c>> \in E <=> i \in 1 .. Len(g) /\ c = g[i]
      BY <2>4 DEF Puts
    <3>2. ~ At(u, i, c)
      BY <1>10, <2>2, <2>4
    <3>3. QED BY <1>10, <2>1, <2>4, <3>1, <3>2
  <2>5. CASE u # t /\ u # w
    <3>1. <<u, i, c>> \notin E
      BY <2>5 DEF Puts
    <3>2. At(u, i, c)' <=> At(u, i, c)
      BY <1>10, <2>1, <2>2, <2>5
    <3>3. QED BY <2>5, <3>1, <3>2
  <2>6. QED BY <2>3, <2>4, <2>5
<1>13. QED BY <1>11, <1>12 DEF GaveWay


LEMMA TopIs ==
  ASSUME ShTypes, NEW t \in Team, stacks[t] # << >>
  PROVE  /\ Len(stacks[t]) \in Nat \ {0} /\ Top(t) \in Frame /\ At(t, Len(stacks[t]), Top(t))
<1>1. stacks[t] \in Seq(Frame) /\ stacks[t] # << >>
  BY DEF ShTypes
<1>2. Len(stacks[t]) \in Nat \ {0}
  BY <1>1
<1>3. Top(t) = stacks[t][Len(stacks[t])]
  BY DEF Top, Last
<1>4. QED BY <1>1, <1>2, <1>3 DEF At

LEMMA AtIs ==
  ASSUME ShTypes, NEW t \in Team, NEW k, NEW f, At(t, k, f)
  PROVE  k \in Nat \ {0} /\ f \in Frame /\ stacks[t] # << >>
<1>1. stacks[t] \in Seq(Frame) /\ k \in 1 .. Len(stacks[t]) /\ f = stacks[t][k]
  BY DEF ShTypes, At
<1>2. QED BY <1>1

-----------------------------------------------------------------------------
(* Calls that take another's place.                                         *)

\* A call c on thread u that takes the place of f on thread t, or a part of it.
HeirOf(t, f, u, c) ==
  /\ Span(c) \subseteq Span(f) /\ Crew(u, c) \subseteq Crew(t, f)
  /\ f.nthreads = 1 => u = t /\ c.nthreads = 1
  /\ FrameOK(u, c)
  /\ Open(c) \subseteq Open(f)
  /\ \A P \in Parts(c) : \E Q \in Parts(f) : P \subseteq Q

Heirs(t, f, E) ==
  \A u \in Team, i \in Nat, c \in Frame :
    <<u, i, c>> \in E => f.next # "join" /\ HeirOf(t, f, u, c)

HeirsApart(E) ==
  \A u, v \in Team, i, j \in Nat, c, d \in Frame :
    <<u, i, c>> \in E /\ <<v, j, d>> \in E /\ <<u, i>> # <<v, j>> => Related(u, c, v, d)

\* A call f on thread t gave way to its heirs E.
Passes(t, l, f, E) ==
  /\ t \in Team /\ l \in Nat /\ f \in Frame /\ At(t, l, f)
  /\ GaveWay(t, l, E) /\ Heirs(t, f, E)
  /\ threads' = threads /\ DOMAIN buf' = DOMAIN buf

LEMMA RelatedTwice ==
  ASSUME NEW t, NEW f, NEW u, NEW g
  PROVE  /\ Related(t, f, u, g) <=> Related(u, g, t, f)
         /\ Related(t, f, u, g)' <=> Related(t, f, u, g)
<1>1. Related(t, f, u, g) <=> Related(u, g, t, f)
  BY DEF Related, KeptApart
<1>2. Related(t, f, u, g)' <=> Related(t, f, u, g)
  BY DEF Related, KeptApart, Awaits, Span, Crew, RightSpan, LeftSpan, LeftThread, ThreadsRight
<1>3. QED BY <1>1, <1>2

LEMMA HeirRelated ==
  ASSUME NEW t, NEW f, NEW u, NEW c, NEW v, NEW g,
         HeirOf(t, f, u, c), f.next # "join", Related(t, f, v, g)
  PROVE  Related(u, c, v, g)
<1>1. Span(c) \subseteq Span(f) /\ Crew(u, c) \subseteq Crew(t, f)
      /\ (f.nthreads = 1 => u = t /\ c.nthreads = 1)
  BY DEF HeirOf
<1>2. CASE KeptApart(t, f, v, g)
  BY <1>1, <1>2 DEF KeptApart, Related
<1>3. CASE Awaits(v, g, t, f)
  BY <1>1, <1>3 DEF Awaits, Related
<1>4. CASE Awaits(t, f, v, g)
  BY <1>4 DEF Awaits
<1>5. QED BY <1>2, <1>3, <1>4 DEF Related

\* A call there is afterwards is one of before or an heir.
Former(t, l, u, i, c) == At(u, i, c) /\ <<u, i>> # <<t, l>>

LEMMA PassedOn ==
  ASSUME NEW t, NEW l, NEW f, NEW E, Passes(t, l, f, E)
  PROVE  /\ Team' = Team /\ Records' = Records
         /\ \A u \in Team, i \in Nat, c \in Frame :
              At(u, i, c)' <=> Former(t, l, u, i, c) \/ <<u, i, c>> \in E
BY DEF Passes, GaveWay, Former, Team, Records

LEMMA FitPasses ==
  ASSUME FramesFit, NEW t, NEW l, NEW f, NEW E, Passes(t, l, f, E)
  PROVE  FramesFit'
<1>1. Team' = Team /\ threads' = threads /\ Records' = Records
  BY PassedOn DEF Passes
<1>2. ASSUME NEW u \in Team, NEW i \in Nat, NEW c \in Frame, At(u, i, c)'
      PROVE  FrameOK(u, c)'
  <2>1. FrameOK(u, c)' <=> FrameOK(u, c)
    BY <1>1 DEF FrameOK
  <2>2. At(u, i, c) \/ <<u, i, c>> \in E
    BY <1>2, PassedOn DEF Former
  <2>3. FrameOK(u, c)
    BY <2>2 DEF FramesFit, Passes, Heirs, HeirOf
  <2>4. QED BY <2>1, <2>3
<1>3. Frame' = Frame
  BY DEF Frame
<1>4. QED BY <1>1, <1>2, <1>3 DEF FramesFit

LEMMA ApartPasses ==
  ASSUME FramesApart, NEW t, NEW l, NEW f, NEW E, Passes(t, l, f, E), HeirsApart(E)
  PROVE  FramesApart'
<1>1. Team' = Team /\ t \in Team /\ l \in Nat /\ f \in Frame /\ At(t, l, f)
  BY PassedOn DEF Passes
<1>2. ASSUME NEW u \in Team, NEW i \in Nat, NEW c \in Frame, <<u, i, c>> \in E,
             NEW v \in Team, NEW j \in Nat, NEW d \in Frame, Former(t, l, v, j, d)
      PROVE  Related(u, c, v, d) /\ Related(v, d, u, c)
  <2>1. Related(t, f, v, d)
    BY <1>1, <1>2 DEF FramesApart, Former
  <2>2. HeirOf(t, f, u, c) /\ f.next # "join"
    BY <1>2 DEF Passes, Heirs
  <2>3. QED BY <2>1, <2>2, HeirRelated, RelatedTwice
<1>3. ASSUME NEW u \in Team, NEW v \in Team, NEW i \in Nat, NEW j \in Nat, NEW c \in Frame, NEW d \in Frame,
             At(u, i, c)', At(v, j, d)', <<u, i>> # <<v, j>>
      PROVE  Related(u, c, v, d)'
  <2>1. /\ Former(t, l, u, i, c) \/ <<u, i, c>> \in E
        /\ Former(t, l, v, j, d) \/ <<v, j, d>> \in E
    BY <1>3, PassedOn
  <2>2. CASE Former(t, l, u, i, c) /\ Former(t, l, v, j, d)
    BY <1>3, <2>2, RelatedTwice DEF Former, FramesApart
  <2>3. CASE <<u, i, c>> \in E /\ <<v, j, d>> \in E
    BY <1>3, <2>3, RelatedTwice DEF HeirsApart
  <2>4. CASE <<u, i, c>> \in E /\ Former(t, l, v, j, d)
    BY <1>2, <2>4, RelatedTwice
  <2>5. CASE Former(t, l, u, i, c) /\ <<v, j, d>> \in E
    BY <1>2, <2>5, RelatedTwice
  <2>6. QED BY <2>1, <2>2, <2>3, <2>4, <2>5
<1>4. Frame' = Frame
  BY DEF Frame
<1>5. QED BY <1>1, <1>3, <1>4 DEF FramesApart

\* buf and the flags change only where f has its records.
Inside(f) ==
  \A p \in DOMAIN buf : p \notin Span(f) => buf'[p] = buf[p] /\ (p \in selected' <=> p \in selected)

LEMMA OthersApart ==
  ASSUME FramesApart, NEW t \in Team, NEW l \in Nat, NEW f \in Frame, At(t, l, f), f.next # "join",
         NEW v \in Team, NEW j \in Nat, NEW d \in Frame, Former(t, l, v, j, d), d.next # "join"
  PROVE  KeptApart(t, f, v, d)
BY DEF FramesApart, Former, Related, Awaits

LEMMA MarksPass ==
  ASSUME ShTypes, FramesApart, Marks, selected' \subseteq DOMAIN buf,
         NEW t, NEW l, NEW f, NEW E, Passes(t, l, f, E), Inside(f),
         f.next = "join" => UNCHANGED <<buf, selected>>,
         \A u \in Team, i \in Nat, c \in Frame : <<u, i, c>> \in E => MarkOK(c)'
  PROVE  Marks'
<1>1. Team' = Team /\ t \in Team /\ l \in Nat /\ f \in Frame /\ At(t, l, f)
  BY PassedOn DEF Passes
<1>2. ASSUME NEW v \in Team, NEW j \in Nat, NEW d \in Frame, Former(t, l, v, j, d)
      PROVE  MarkOK(d)'
  <2>1. MarkOK(d)
    BY <1>2 DEF Marks, Former
  <2>2. CASE f.next = "join"
    BY <2>1, <2>2 DEF MarkOK, Span
  <2>3. CASE d.next # "compact"
    BY <2>3 DEF MarkOK
  <2>4. CASE f.next # "join" /\ d.next = "compact"
    <3>1. Span(f) \cap Span(d) = {}
      BY <1>1, <1>2, <2>4, OthersApart DEF KeptApart
    <3>2. PICK S : S = Span(d)
      OBVIOUS
    <3>3. Span(d)' = S
      BY <3>2 DEF Span
    <3>4. selected' \cap S = selected \cap S
      BY <3>1, <3>2 DEF Inside, ShTypes
    <3>5. \A p \in selected \cap S : buf'[p] = buf[p]
      BY <3>1, <3>2 DEF Inside, ShTypes
    <3>6. {buf'[p] : p \in selected' \cap S} = {buf[p] : p \in selected \cap S}
      BY <3>4, <3>5
    <3>7. {buf[p] : p \in selected \cap S} = d.left /\ Cardinality(selected \cap S) = d.n \div 2
      BY <2>1, <2>4, <3>2 DEF MarkOK
    <3>8. QED BY <3>3, <3>4, <3>6, <3>7 DEF MarkOK
  <2>5. QED BY <2>2, <2>3, <2>4
<1>3. ASSUME NEW u \in Team, NEW i \in Nat, NEW c \in Frame, At(u, i, c)' PROVE MarkOK(c)'
  BY <1>2, <1>3, PassedOn
<1>4. Frame' = Frame
  BY DEF Frame
<1>5. QED BY <1>1, <1>3, <1>4 DEF Marks


-----------------------------------------------------------------------------
(* Draws.                                                                   *)

LEMMA PartRearranged ==
  ASSUME NEW b, NEW P, Rearranged(b, P), NEW L, P \subseteq L \/ P \cap L = {}, L \subseteq DOMAIN buf
  PROVE  SameOn(b, buf, L)
<1>1. /\ SameOn(b, buf, P) /\ \A p \in DOMAIN buf : p \notin P => b[p] = buf[p]
  BY DEF Rearranged
<1>2. CASE P \cap L = {}
  <2>1. \A p \in L : b[p] = buf[p]
    BY <1>1, <1>2
  <2>2. QED BY <2>1 DEF SameOn
<1>3. CASE P \subseteq L
  <2>1. ASSUME NEW p \in L PROVE b[p] \in {buf[q] : q \in L} /\ buf[p] \in {b[q] : q \in L}
    <3>1. CASE p \notin P
      BY <1>1, <3>1
    <3>2. CASE p \in P
      <4>1. b[p] \in {buf[q] : q \in P} /\ buf[p] \in {b[q] : q \in P}
        BY <1>1, <3>2 DEF SameOn
      <4>2. QED BY <1>3, <4>1
    <3>3. QED BY <3>1, <3>2
  <2>2. QED BY <2>1 DEF SameOn
<1>4. QED BY <1>2, <1>3

Known(d, f) ==
  /\ f.next \notin {"join", "halves"} /\ d.lo = f.lo /\ d.n = f.n /\ DrawOK(d)'

\* f draws D, at most once, rearranges at most one of its parts, and leaves what it
\* does not split to its heirs.
Draws(f, E, D) ==
  /\ drawn' = drawn \cup D /\ D \subseteq Draw /\ \A d, e \in D : d = e
  /\ \A d \in D : Known(d, f)
  /\ \A d \in D : \A u \in Team, i \in Nat, c \in Frame : <<u, i, c>> \in E => ClearOf(d, c)
  /\ \A b \in Open(f) : \/ \E d \in D : Cut(d) = b
                        \/ \E u \in Team, i \in Nat, c \in Frame : <<u, i, c>> \in E /\ b \in Open(c)
  /\ UNCHANGED buf \/ \E P \in Parts(f) : Rearranged(buf', P)

LEMMA HalfBounds ==
  \A n \in Nat : /\ n \div 2 \in Nat /\ n \div 2 <= n
                 /\ n >= 2 => n \div 2 >= 1 /\ n \div 2 < n /\ n - n \div 2 >= 1
                 /\ n >= 3 => n - n \div 2 >= 2
OBVIOUS

LEMMA DrawIs ==
  ASSUME NEW d \in Draw
  PROVE  /\ d.lo \in Nat /\ d.n \in Nat /\ Cut(d) \in Nat
         /\ LeftSpan(d) \subseteq Span(d) /\ LeftSpan(d) \subseteq Nat
         /\ d.n >= 2 => Cut(d) > d.lo /\ Cut(d) < d.lo + d.n
         /\ d.lo + d.n <= Records /\ Records \in Nat => Span(d) \subseteq 0 .. Records - 1
<1>1. PICK lo \in Nat, n \in Nat : lo = d.lo /\ n = d.n
  BY DEF Draw
<1>2. PICK h \in Nat : h = n \div 2 /\ h <= n /\ (n >= 2 => h >= 1 /\ h < n)
  BY HalfBounds
<1>3. Cut(d) = lo + h /\ LeftSpan(d) = lo .. lo + h - 1 /\ Span(d) = lo .. lo + n - 1
  BY <1>1, <1>2 DEF Cut, LeftSpan, Span
<1>4. LeftSpan(d) \subseteq Span(d) /\ LeftSpan(d) \subseteq Nat
  <2>1. lo .. lo + h - 1 \subseteq lo .. lo + n - 1 /\ lo .. lo + h - 1 \subseteq Nat
    BY <1>2
  <2>2. QED BY <1>3, <2>1
<1>5. d.n >= 2 => Cut(d) > d.lo /\ Cut(d) < d.lo + d.n
  <2>1. n >= 2 => lo + h > lo /\ lo + h < lo + n
    BY <1>2
  <2>2. QED BY <1>1, <1>3, <2>1
<1>6. d.lo + d.n <= Records /\ Records \in Nat => Span(d) \subseteq 0 .. Records - 1
  <2>1. \A r \in Nat : lo + n <= r => lo .. lo + n - 1 \subseteq 0 .. r - 1
    OBVIOUS
  <2>2. QED BY <1>1, <1>3, <2>1
<1>7. lo + h \in Nat
  BY <1>2
<1>8. QED BY <1>1, <1>3, <1>4, <1>5, <1>6, <1>7

LEMMA DrawRigid ==
  ASSUME NEW d, NEW f
  PROVE  /\ Cut(d)' = Cut(d) /\ LeftSpan(d)' = LeftSpan(d) /\ Open(f)' = Open(f)
         /\ ClearOf(d, f)' <=> ClearOf(d, f)
<1>1. Cut(d)' = Cut(d) /\ LeftSpan(d)' = LeftSpan(d) /\ Open(f)' = Open(f) /\ Parts(f)' = Parts(f)
  BY DEF Cut, LeftSpan, Open, Parts, RightSpan, Span
<1>2. QED BY <1>1 DEF ClearOf

LEMMA StandPasses ==
  ASSUME ShTypes, DrawsStand, DrawsClear, NEW t, NEW l, NEW f, NEW E, NEW D,
         Passes(t, l, f, E), Draws(f, E, D)
  PROVE  DrawsStand'
<1>1. Records' = Records /\ t \in Team /\ l \in Nat /\ f \in Frame /\ At(t, l, f)
  BY PassedOn DEF Passes
<1>2. ASSUME NEW d \in drawn PROVE DrawOK(d)'
  <2>1. d \in Draw /\ DrawOK(d) /\ ClearOf(d, f)
    BY <1>1 DEF ShTypes, DrawsStand, DrawsClear
  <2>2. LeftSpan(d) \subseteq DOMAIN buf
    BY <2>1, DrawIs DEF ShTypes, DrawOK
  <2>3. SameOn(buf', buf, LeftSpan(d))
    <3>1. CASE UNCHANGED buf
      BY <3>1 DEF SameOn
    <3>2. CASE \E P \in Parts(f) : Rearranged(buf', P)
      BY <2>1, <2>2, <3>2, PartRearranged DEF ClearOf
    <3>3. QED BY <3>1, <3>2 DEF Draws
  <2>4. {buf[p] : p \in LeftSpan(d)}' = {buf[p] : p \in LeftSpan(d)}
    BY <2>3, DrawRigid DEF SameOn
  <2>5. QED BY <1>1, <2>1, <2>4 DEF DrawOK
<1>3. ASSUME NEW d \in D PROVE DrawOK(d)'
  BY DEF Draws, Known
<1>4. QED BY <1>2, <1>3 DEF DrawsStand, Draws

LEMMA ClearPasses ==
  ASSUME ShTypes, FramesFit, FramesApart, DrawsClear, NEW t, NEW l, NEW f, NEW E, NEW D,
         Passes(t, l, f, E), Draws(f, E, D)
  PROVE  DrawsClear'
<1>1. Team' = Team /\ t \in Team /\ l \in Nat /\ f \in Frame /\ At(t, l, f) /\ FrameOK(t, f)
  BY PassedOn DEF Passes, FramesFit
<1>2. ASSUME NEW d \in drawn, NEW u \in Team, NEW i \in Nat, NEW c \in Frame, <<u, i, c>> \in E
      PROVE  ClearOf(d, c)
  <2>1. ClearOf(d, f)
    BY <1>1 DEF DrawsClear
  <2>2. Open(c) \subseteq Open(f) /\ \A P \in Parts(c) : \E Q \in Parts(f) : P \subseteq Q
    BY <1>2 DEF Passes, Heirs, HeirOf
  <2>3. QED BY <2>1, <2>2 DEF ClearOf
<1>3. ASSUME NEW d \in D, NEW v \in Team, NEW j \in Nat, NEW g \in Frame, Former(t, l, v, j, g)
      PROVE  ClearOf(d, g)
  <2>1. d \in Draw /\ d.lo = f.lo /\ d.n = f.n /\ f.next # "join" /\ f.n >= 2
    BY <1>1 DEF Draws, Known, FrameOK
  <2>2. CASE g.next = "join"
    BY <2>2 DEF ClearOf, Parts, Open
  <2>3. CASE g.next # "join"
    <3>1. Span(f) \cap Span(g) = {}
      BY <1>1, <1>3, <2>1, <2>3, OthersApart DEF KeptApart
    <3>2. Span(d) = Span(f)
      BY <2>1 DEF Span
    <3>3. LeftSpan(d) \subseteq Span(f) /\ Cut(d) \in Span(f)
      BY <2>1, <3>2, DrawIs DEF Span
    <3>4. PICK lo \in Nat, n \in Nat : lo = g.lo /\ n = g.n
      BY DEF Frame
    <3>5. \A P \in Parts(g) : P \subseteq Span(g)
      <4>1. n \div 2 \in Nat /\ n \div 2 <= n
        BY HalfBounds
      <4>2. PICK h \in Nat : h = n \div 2 /\ h <= n
        BY <4>1
      <4>3. Span(g) = lo .. lo + n - 1 /\ LeftSpan(g) = lo .. lo + h - 1 /\ RightSpan(g) = lo + h .. lo + n - 1
        BY <3>4, <4>2 DEF Span, LeftSpan, RightSpan
      <4>4. LeftSpan(g) \subseteq Span(g) /\ RightSpan(g) \subseteq Span(g)
        BY <4>2, <4>3
      <4>5. QED BY <4>4 DEF Parts
    <3>6. Open(g) \subseteq Span(g)
      <4>1. \A b \in lo + 1 .. lo + n - 1 : b \in lo .. lo + n - 1
        OBVIOUS
      <4>2. QED BY <3>4, <4>1 DEF Open, Span
    <3>7. QED BY <3>1, <3>3, <3>5, <3>6 DEF ClearOf
  <2>4. QED BY <2>2, <2>3
<1>4. ASSUME NEW d \in drawn', NEW u \in Team, NEW i \in Nat, NEW c \in Frame, At(u, i, c)'
      PROVE  ClearOf(d, c)
  <2>1. Former(t, l, u, i, c) \/ <<u, i, c>> \in E
    BY <1>4, PassedOn
  <2>2. CASE d \in drawn
    BY <1>2, <2>1, <2>2 DEF Former, DrawsClear
  <2>3. CASE d \in D
    BY <1>3, <2>1, <2>3 DEF Draws
  <2>4. QED BY <2>2, <2>3 DEF Draws
<1>5. Frame' = Frame
  BY DEF Frame
<1>6. QED BY <1>1, <1>4, <1>5, DrawRigid DEF DrawsClear

LEMMA CutsPass ==
  ASSUME ShTypes, FramesFit, DrawsClear, CutsDiffer, NEW t, NEW l, NEW f, NEW E, NEW D,
         Passes(t, l, f, E), Draws(f, E, D)
  PROVE  CutsDiffer'
<1>1. t \in Team /\ l \in Nat /\ f \in Frame /\ At(t, l, f) /\ FrameOK(t, f)
  BY DEF Passes, FramesFit
<1>2. ASSUME NEW d \in D PROVE Cut(d) \in Open(f)
  <2>1. d \in Draw /\ d.lo = f.lo /\ d.n = f.n /\ f.next \notin {"join", "halves"} /\ f.n >= 2
    BY <1>1 DEF Draws, Known, FrameOK
  <2>2. Cut(d) \in Nat /\ Cut(d) > f.lo /\ Cut(d) < f.lo + f.n /\ f.lo \in Nat /\ f.n \in Nat
    BY <2>1, DrawIs
  <2>3. Cut(d) \in f.lo + 1 .. f.lo + f.n - 1
    BY <2>2
  <2>4. QED BY <2>1, <2>3 DEF Open
<1>3. ASSUME NEW d \in D, NEW e \in drawn PROVE Cut(d) # Cut(e)
  BY <1>1, <1>2 DEF DrawsClear, ClearOf
<1>4. \A d, e \in drawn \cup D : Cut(d) = Cut(e) => d = e
  BY <1>3 DEF CutsDiffer, Draws
<1>5. \A d, e \in drawn' : Cut(d) = Cut(e) => d = e
  BY <1>4 DEF Draws
<1>6. QED BY <1>5, DrawRigid DEF CutsDiffer

LEMMA AllPasses ==
  ASSUME ShTypes, AllCut, outcome = "running", NEW t, NEW l, NEW f, NEW E, NEW D,
         Passes(t, l, f, E), Draws(f, E, D)
  PROVE  AllCut'
<1>1. Team' = Team /\ Records' = Records
  BY PassedOn
<1>2. ASSUME NEW b \in 1 .. Records - 1
      PROVE  \/ \E d \in drawn' : Cut(d) = b
             \/ \E u \in Team, i \in Nat, c \in Frame : At(u, i, c)' /\ b \in Open(c)
  <2>1. StillCut(b)
    BY <1>2 DEF AllCut
  <2>2. CASE \E d \in drawn : Cut(d) = b
    BY <2>2 DEF Draws
  <2>3. ASSUME NEW u \in Team, NEW i \in Nat, NEW c \in Frame, At(u, i, c), b \in Open(c)
        PROVE  \/ \E d \in drawn' : Cut(d) = b
               \/ \E v \in Team, j \in Nat, g \in Frame : At(v, j, g)' /\ b \in Open(g)
    <3>1. CASE <<u, i>> # <<t, l>>
      BY <2>3, <3>1, PassedOn DEF Former
    <3>2. CASE <<u, i>> = <<t, l>>
      <4>1. c = f
        BY <2>3, <3>2 DEF Passes, At
      <4>2. \/ \E d \in D : Cut(d) = b
            \/ \E v \in Team, j \in Nat, g \in Frame : <<v, j, g>> \in E /\ b \in Open(g)
        BY <2>3, <4>1 DEF Draws
      <4>3. QED BY <4>2, PassedOn DEF Draws
    <3>3. QED BY <3>1, <3>2
  <2>4. QED BY <2>1, <2>2, <2>3 DEF StillCut
<1>3. Frame' = Frame
  BY DEF Frame
<1>4. ASSUME NEW b \in 1 .. Records - 1 PROVE StillCut(b)'
  BY <1>1, <1>2, <1>3, DrawRigid DEF StillCut
<1>5. QED BY <1>1, <1>4 DEF AllCut

LEMMA ThereStays ==
  ASSUME ShTypes, FramesFit, AllThere, NEW t, NEW l, NEW f, NEW E, NEW D,
         Passes(t, l, f, E), Draws(f, E, D)
  PROVE  AllThere'
<1>1. t \in Team /\ l \in Nat /\ f \in Frame /\ At(t, l, f) /\ FrameOK(t, f) /\ DOMAIN buf' = DOMAIN buf
  BY DEF Passes, FramesFit
<1>2. ASSUME NEW P \in Parts(f) PROVE P \subseteq DOMAIN buf
  <2>1. PICK lo \in Nat, n \in Nat : lo = f.lo /\ n = f.n
    BY <1>1 DEF Frame
  <2>2. PICK h \in Nat : h = n \div 2 /\ h <= n
    BY HalfBounds
  <2>3. Span(f) = lo .. lo + n - 1 /\ LeftSpan(f) = lo .. lo + h - 1 /\ RightSpan(f) = lo + h .. lo + n - 1
    BY <2>1, <2>2 DEF Span, LeftSpan, RightSpan
  <2>4. DOMAIN buf = 0 .. Records - 1 /\ Records \in Nat /\ lo + n <= Records
    BY <1>1, <2>1 DEF ShTypes, FrameOK
  <2>5. Span(f) \subseteq DOMAIN buf /\ LeftSpan(f) \subseteq DOMAIN buf /\ RightSpan(f) \subseteq DOMAIN buf
    BY <2>2, <2>3, <2>4
  <2>6. QED BY <2>5 DEF Parts
<1>3. SameOn(buf', buf, DOMAIN buf)
  <2>1. CASE UNCHANGED buf
    BY <2>1 DEF SameOn
  <2>2. CASE \E P \in Parts(f) : Rearranged(buf', P)
    BY <1>2, <2>2, PartRearranged
  <2>3. QED BY <2>1, <2>2 DEF Draws
<1>4. Untouched' = Untouched
  BY <1>1 DEF Untouched
<1>5. QED BY <1>1, <1>3, <1>4 DEF AllThere, SameOn

LEMMA DrawsPass ==
  ASSUME ShInv, outcome = "running", outcome' \in {"running", "aborted"},
         NEW t, NEW l, NEW f, NEW E, NEW D, Passes(t, l, f, E), Draws(f, E, D)
  PROVE  DrawsInv'
<1>1. Started'
  BY DEF Started
<1>2. QED BY <1>1, StandPasses, ClearPasses, CutsPass, AllPasses, ThereStays DEF ShInv, FramesInv, DrawsInv


-----------------------------------------------------------------------------
(* Steps.                                                                   *)

LEMMA StepKeeps ==
  ASSUME ShInv, outcome = "running", outcome' = "running",
         NEW t, NEW l, NEW f, NEW E, NEW D, Passes(t, l, f, E), Draws(f, E, D), HeirsApart(E),
         Inside(f), selected' \subseteq DOMAIN buf, f.next = "join" => UNCHANGED <<buf, selected>>,
         \A u \in Team, i \in Nat, c \in Frame : <<u, i, c>> \in E => MarkOK(c)'
  PROVE  ShInv'
<1>1. /\ Team' = Team /\ Records' = Records /\ threads' = threads /\ DOMAIN buf' = DOMAIN buf
      /\ stacks' \in [Team -> Seq(Frame)]
  BY PassedOn DEF Passes, GaveWay
<1>2. ShTypes /\ FramesFit /\ FramesApart /\ Marks
  BY DEF ShInv, FramesInv
<1>3. Frame' = Frame /\ Draw' = Draw /\ Array' = Array
  BY <1>1 DEF Frame, Draw, Array
<1>4. buf' \in Array
  BY <1>2 DEF Draws, Rearranged, ShTypes
<1>5. ShTypes'
  BY <1>1, <1>2, <1>3, <1>4 DEF ShTypes, Draws
<1>6. DrawsInv'
  BY DrawsPass
<1>7. QED BY <1>2, <1>5, <1>6, FitPasses, ApartPasses, MarksPass DEF ShInv, FramesInv

\* Only the outcome changes, if anything does.
LEMMA OutcomeKeeps ==
  ASSUME ShInv, UNCHANGED <<threads, selected, buf, stacks, drawn>>,
         \/ outcome' = outcome
         \/ outcome' = "aborted"
         \/ outcome = "entered" /\ outcome' = "unshuffled"
  PROVE  ShInv'
<1>1. Team' = Team /\ Records' = Records /\ Frame' = Frame /\ Draw' = Draw /\ Array' = Array
      /\ Untouched' = Untouched
  BY DEF Team, Records, Frame, Draw, Array, Untouched
<1>2. \A u, i, c : At(u, i, c)' <=> At(u, i, c)
  BY <1>1 DEF At
<1>3. ShTypes' /\ Marks'
  BY <1>1, <1>2 DEF ShInv, FramesInv, ShTypes, Marks, MarkOK, Span
<1>4. FramesFit'
  BY <1>1, <1>2 DEF ShInv, FramesInv, FramesFit, FrameOK
<1>5. FramesApart'
  BY <1>1, <1>2, RelatedTwice DEF ShInv, FramesInv, FramesApart
<1>6. DrawsStand'
  BY <1>1, DrawRigid DEF ShInv, DrawsInv, DrawsStand, DrawOK
<1>7. DrawsClear'
  BY <1>1, <1>2, DrawRigid DEF ShInv, DrawsInv, DrawsClear
<1>8. CutsDiffer'
  BY DrawRigid DEF ShInv, DrawsInv, CutsDiffer
<1>9. AllCut'
  <2>1. \A b : StillCut(b)' <=> StillCut(b)
    BY <1>1, <1>2, DrawRigid DEF StillCut
  <2>2. QED BY <1>1, <2>1 DEF ShInv, DrawsInv, AllCut
<1>10. AllThere'
  BY <1>1 DEF ShInv, DrawsInv, AllThere, SameOn
<1>11. Started'
  BY <1>1 DEF ShInv, DrawsInv, Started
<1>12. QED BY <1>3, <1>4, <1>5, <1>6, <1>7, <1>8, <1>9, <1>10, <1>11 DEF ShInv, FramesInv, DrawsInv

LEMMA BecomesGives ==
  ASSUME ShTypes, NEW t \in Team, stacks[t] # << >>, NEW l, l = Len(stacks[t]),
         NEW e \in Seq(Frame), stacks' = Becomes(t, e)
  PROVE  GivesWay(t, l, e, t, e)
<1>1. stacks \in [Team -> Seq(Frame)]
  BY DEF ShTypes
<1>2. stacks' = [u \in Team |-> IF u = t THEN Front(stacks[t]) \o e ELSE stacks[u]]
  BY <1>1 DEF Becomes
<1>3. QED BY <1>2 DEF GivesWay

LEMMA NoneTakes ==
  ASSUME ShTypes, UNCHANGED threads, NEW t \in Team, stacks[t] # << >>, NEW l, l = Len(stacks[t]),
         stacks' = Becomes(t, << >>)
  PROVE  GaveWay(t, l, {})
<1>0. PICK e : e = << >>
  OBVIOUS
<1>1. e = << >> /\ e \in Seq(Frame)
  BY <1>0
<1>2. GivesWay(t, l, e, t, e)
  BY <1>1, BecomesGives
<1>3. \A u \in Team, i \in Nat, c \in Frame : <<u, i, c>> \in {} <=> Puts(t, l, e, t, e, u, i, c)
  <2>1. Len(e) = 0
    BY <1>1
  <2>2. QED BY <2>1 DEF Puts
<1>4. QED BY <1>2, <1>3, GivenWay

LEMMA OneTakes ==
  ASSUME ShTypes, UNCHANGED threads, NEW t \in Team, stacks[t] # << >>, NEW l, l = Len(stacks[t]),
         NEW a \in Frame, stacks' = Becomes(t, <<a>>)
  PROVE  GaveWay(t, l, {<<t, l, a>>})
<1>0. PICK e : e = <<a>>
  OBVIOUS
<1>1. e = <<a>> /\ e \in Seq(Frame) /\ Len(e) = 1 /\ e[1] = a
  BY <1>0
<1>2. GivesWay(t, l, e, t, e)
  BY <1>1, BecomesGives
<1>3. \A u \in Team, i \in Nat, c \in Frame : <<u, i, c>> \in {<<t, l, a>>} <=> Puts(t, l, e, t, e, u, i, c)
  <2>1. l \in Nat
    BY DEF ShTypes
  <2>2. \A i \in Nat : \A c : (\E j \in 1 .. 1 : i = l - 1 + j /\ c = e[j]) <=> i = l /\ c = a
    BY <1>1, <2>1
  <2>3. QED BY <1>1, <2>2 DEF Puts
<1>4. QED BY <1>2, <1>3, GivenWay

\* Two calls on thread t, and none or one on w.
LEMMA TwoTake ==
  ASSUME ShTypes, UNCHANGED threads, NEW t \in Team, stacks[t] # << >>, NEW l, l = Len(stacks[t]),
         NEW a \in Frame, NEW b \in Frame, NEW w, NEW g, GivesWay(t, l, <<a>> \o <<b>>, w, g)
  PROVE  /\ w = t \/ g = << >> => GaveWay(t, l, {<<t, l, a>>, <<t, l + 1, b>>})
         /\ \A d \in Frame : w # t /\ g = <<d>> =>
              GaveWay(t, l, {<<t, l, a>>, <<t, l + 1, b>>, <<w, 1, d>>})
<1>0. PICK e : e = <<a>> \o <<b>>
  OBVIOUS
<1>1. e = <<a>> \o <<b>> /\ e \in Seq(Frame) /\ Len(e) = 2 /\ e[1] = a /\ e[2] = b
  <2>1. <<a>> \in Seq(Frame) /\ <<b>> \in Seq(Frame) /\ Len(<<a>>) = 1 /\ Len(<<b>>) = 1
        /\ <<a>>[1] = a /\ <<b>>[1] = b
    OBVIOUS
  <2>2. PICK x, y : x = <<a>> /\ y = <<b>>
    OBVIOUS
  <2>3. x \in Seq(Frame) /\ y \in Seq(Frame) /\ Len(x) = 1 /\ Len(y) = 1 /\ x[1] = a /\ y[1] = b /\ e = x \o y
    BY <1>0, <2>1, <2>2
  <2>4. e \in Seq(Frame) /\ Len(e) = 2 /\ e[1] = a /\ e[2] = b
    <3>1. /\ x \o y \in Seq(Frame) /\ Len(x \o y) = Len(x) + Len(y)
          /\ \A i \in 1 .. Len(x) + Len(y) : (x \o y)[i] = IF i <= Len(x) THEN x[i] ELSE y[i - Len(x)]
      <4>1. x \in Seq(Frame) /\ y \in Seq(Frame)
        BY <2>3
      <4>2. QED BY <4>1, ConcatProperties
    <3>2. PICK m : m = Len(x)
      OBVIOUS
    <3>3. /\ e \in Seq(Frame) /\ Len(e) = 1 + 1 /\ m = 1
          /\ \A i \in 1 .. 1 + 1 : e[i] = IF i <= m THEN x[i] ELSE y[i - m]
      BY <2>3, <3>1, <3>2
    <3>4. e[1] = x[1] /\ e[2] = y[2 - 1] /\ 2 - 1 = 1
      BY <3>3
    <3>5. QED BY <2>3, <3>3, <3>4
  <2>5. QED BY <1>0, <2>4
<1>2. GivesWay(t, l, e, w, g)
  BY <1>1
<1>3. l \in Nat
  BY DEF ShTypes
<1>4. \A i \in Nat : \A c : (\E j \in 1 .. 2 : i = l - 1 + j /\ c = e[j]) <=> (i = l /\ c = a) \/ (i = l + 1 /\ c = b)
  <2>1. ASSUME NEW i \in Nat, NEW c
        PROVE (\E j \in 1 .. 2 : i = l - 1 + j /\ c = e[j]) <=> (i = l /\ c = a) \/ (i = l + 1 /\ c = b)
    <3>1. (\E j \in 1 .. 2 : i = l - 1 + j /\ c = e[j]) <=> (i = l - 1 + 1 /\ c = e[1]) \/ (i = l - 1 + 2 /\ c = e[2])
      <4>1. \A j \in 1 .. 2 : j = 1 \/ j = 2
        OBVIOUS
      <4>2. 1 \in 1 .. 2 /\ 2 \in 1 .. 2
        OBVIOUS
      <4>3. QED BY <4>1, <4>2
    <3>2. l - 1 + 1 = l /\ l - 1 + 2 = l + 1
      BY <1>3
    <3>3. QED BY <1>1, <3>1, <3>2
  <2>2. QED BY <2>1
<1>5. ASSUME w = t \/ g = << >> PROVE GaveWay(t, l, {<<t, l, a>>, <<t, l + 1, b>>})
  <2>1. w = t \/ Len(g) = 0
    BY <1>5
  <2>2. ASSUME NEW u \in Team, NEW i \in Nat, NEW c \in Frame
        PROVE  <<u, i, c>> \in {<<t, l, a>>, <<t, l + 1, b>>} <=> Puts(t, l, e, w, g, u, i, c)
    <3>2. Puts(t, l, e, w, g, u, i, c) <=> u = t /\ ((i = l /\ c = a) \/ (i = l + 1 /\ c = b))
      <4>1. ~ (w # t /\ u = w /\ i \in 1 .. Len(g) /\ c = g[i])
        BY <2>1
      <4>2. QED BY <1>1, <1>4, <4>1 DEF Puts
    <3>3. QED BY <3>2
  <2>3. QED BY <1>2, <2>2, GivenWay
<1>6. ASSUME NEW d \in Frame, w # t, g = <<d>>
      PROVE  GaveWay(t, l, {<<t, l, a>>, <<t, l + 1, b>>, <<w, 1, d>>})
  <2>1. Len(g) = 1 /\ g[1] = d
    BY <1>6
  <2>2. ASSUME NEW u \in Team, NEW i \in Nat, NEW c \in Frame
        PROVE  <<u, i, c>> \in {<<t, l, a>>, <<t, l + 1, b>>, <<w, 1, d>>} <=> Puts(t, l, e, w, g, u, i, c)
    <3>1. i \in 1 .. Len(g) /\ c = g[i] <=> i = 1 /\ c = d
      BY <2>1
    <3>2. Puts(t, l, e, w, g, u, i, c) <=>
            \/ u = t /\ ((i = l /\ c = a) \/ (i = l + 1 /\ c = b))
            \/ u = w /\ i = 1 /\ c = d
      <4>1. (\E j \in 1 .. Len(e) : i = l - 1 + j /\ c = e[j]) <=> (i = l /\ c = a) \/ (i = l + 1 /\ c = b)
        BY <1>1, <1>4
      <4>2. QED BY <1>6, <3>1, <4>1 DEF Puts
    <3>3. QED BY <3>2
  <2>3. QED BY <1>2, <2>2, GivenWay
<1>7. QED BY <1>5, <1>6


LEMMA DoesIs ==
  ASSUME ShInv, NEW t \in DOMAIN stacks, NEW what, Does(t, what), NEW f, f = Top(t), NEW l, l = Len(stacks[t])
  PROVE  /\ t \in Team /\ stacks[t] # << >> /\ l \in Nat \ {0} /\ outcome = "running"
         /\ f \in Frame /\ At(t, l, f) /\ FrameOK(t, f) /\ MarkOK(f) /\ f.next = what
         /\ \A d \in drawn : ClearOf(d, f)
<1>1. ShTypes /\ FramesFit /\ Marks /\ DrawsClear /\ t \in Team
  BY DEF ShInv, FramesInv, DrawsInv, ShTypes
<1>2. stacks[t] # << >> /\ outcome = "running" /\ f.next = what
  BY DEF Does, Running
<1>3. l \in Nat \ {0} /\ f \in Frame /\ At(t, l, f)
  BY <1>1, <1>2, TopIs
<1>4. QED BY <1>1, <1>2, <1>3 DEF FramesFit, Marks, DrawsClear

LEMMA SpanFits ==
  ASSUME ShTypes, NEW t \in Team, NEW f \in Frame, FrameOK(t, f)
  PROVE  /\ f.lo \in Nat /\ f.n \in Nat /\ f.nthreads \in Nat
         /\ Span(f) = f.lo .. f.lo + f.n - 1 /\ Span(f) \subseteq DOMAIN buf
<1>1. PICK lo \in Nat, n \in Nat : lo = f.lo /\ n = f.n
  BY DEF Frame
<1>2. PICK r \in Nat : r = Records
  BY DEF ShTypes
<1>3. lo + n <= r /\ DOMAIN buf = 0 .. r - 1
  BY <1>1, <1>2 DEF FrameOK, ShTypes
<1>4. lo .. lo + n - 1 \subseteq 0 .. r - 1
  BY <1>3
<1>5. QED BY <1>1, <1>3, <1>4 DEF Span, Frame

\* A call that goes on to its next step.
LEMMA NextHeir ==
  ASSUME NEW t, NEW f \in Frame, FrameOK(t, f), NEW c \in Frame,
         c.lo = f.lo, c.n = f.n, c.nthreads = f.nthreads,
         \/ f.next = "mark" /\ c.next = "compact"
         \/ f.next = "compact" /\ c.next = "halves"
         \/ f.next = "halves" /\ f.nthreads > 1 /\ c.next = "join"
  PROVE  HeirOf(t, f, t, c) /\ f.next # "join"
<1>1. Span(c) = Span(f) /\ Crew(t, c) = Crew(t, f) /\ LeftSpan(c) = LeftSpan(f) /\ RightSpan(c) = RightSpan(f)
  BY DEF Span, Crew, LeftSpan, RightSpan
<1>2. FrameOK(t, c)
  <2>1. f.nthreads > 1 => f.nthreads >= 2
    BY DEF Frame
  <2>2. QED BY <2>1 DEF FrameOK
<1>3. Open(c) \subseteq Open(f)
  BY DEF Open, Cut
<1>4. \A P \in Parts(c) : \E Q \in Parts(f) : P \subseteq Q
  <2>1. CASE f.next = "mark"
    BY <1>1, <2>1 DEF Parts
  <2>2. CASE f.next = "compact"
    <3>1. LeftSpan(c) \subseteq Span(f) /\ RightSpan(c) \subseteq Span(f)
      <4>1. PICK lo \in Nat, n \in Nat : lo = f.lo /\ n = f.n
        BY DEF Frame
      <4>2. PICK h \in Nat : h = n \div 2 /\ h <= n
        BY HalfBounds
      <4>3. lo .. lo + h - 1 \subseteq lo .. lo + n - 1 /\ lo + h .. lo + n - 1 \subseteq lo .. lo + n - 1
        BY <4>2
      <4>4. Span(f) = lo .. lo + n - 1 /\ LeftSpan(c) = lo .. lo + h - 1 /\ RightSpan(c) = lo + h .. lo + n - 1
        BY <4>1, <4>2 DEF Span, LeftSpan, RightSpan
      <4>5. QED BY <4>3, <4>4
    <3>2. Parts(f) = {Span(f)}
      BY <2>2 DEF Parts
    <3>3. Parts(c) = {LeftSpan(c), RightSpan(c)}
      BY <2>2 DEF Parts
    <3>4. QED BY <3>1, <3>2, <3>3
  <2>3. CASE f.next = "halves"
    BY <2>3 DEF Parts
  <2>4. QED BY <2>1, <2>2, <2>3
<1>5. QED BY <1>1, <1>2, <1>3, <1>4 DEF HeirOf

LEMMA OneHeir ==
  ASSUME ShInv, NEW t \in Team, NEW l \in Nat, NEW f \in Frame, At(t, l, f), FrameOK(t, f), NEW c \in Frame,
         c.lo = f.lo, c.n = f.n, c.nthreads = f.nthreads,
         (f.next = "mark" /\ c.next = "compact") \/ (f.next = "compact" /\ c.next = "halves"),
         l = Len(stacks[t]), stacks[t] # << >>, stacks' = Becomes(t, <<c>>), threads' = threads,
         DOMAIN buf' = DOMAIN buf
  PROVE  Passes(t, l, f, {<<t, l, c>>}) /\ HeirsApart({<<t, l, c>>})
<1>1. GaveWay(t, l, {<<t, l, c>>})
  BY OneTakes DEF ShInv, FramesInv
<1>2. Heirs(t, f, {<<t, l, c>>})
  BY NextHeir DEF Heirs
<1>3. HeirsApart({<<t, l, c>>})
  BY DEF HeirsApart
<1>4. QED BY <1>1, <1>2, <1>3 DEF Passes

LEMMA MarkKeeps ==
  ASSUME ShInv, NEW t \in DOMAIN stacks, MarkHalf(t)
  PROVE  ShInv'
<1>1. PICK f, l : f = Top(t) /\ l = Len(stacks[t])
  OBVIOUS
<1>2. /\ t \in Team /\ stacks[t] # << >> /\ l \in Nat \ {0} /\ outcome = "running"
      /\ f \in Frame /\ At(t, l, f) /\ FrameOK(t, f) /\ f.next = "mark"
  BY <1>1, DoesIs DEF MarkHalf
<1>3. ShTypes /\ UNCHANGED <<threads, buf, outcome, drawn>>
  BY DEF ShInv, FramesInv, MarkHalf
<1>4. Span(f) \subseteq DOMAIN buf /\ f.n \in Nat
  BY <1>2, <1>3, SpanFits
<1>5. PICK half \in kSubset(f.n \div 2, Span(f)) :
        /\ selected' = Marked(f, half)
        /\ stacks' = Becomes(t, <<[f EXCEPT !.next = "compact", !.left = {buf[p] : p \in half}]>>)
  BY <1>1 DEF MarkHalf
<1>6. half \subseteq Span(f) /\ Cardinality(half) = f.n \div 2
  BY <1>5 DEF kSubset
<1>7. PICK c : c = [f EXCEPT !.next = "compact", !.left = {buf[p] : p \in half}]
  OBVIOUS
<1>8. /\ c \in Frame /\ c.lo = f.lo /\ c.n = f.n /\ c.nthreads = f.nthreads /\ c.next = "compact"
      /\ c.left = {buf[p] : p \in half}
  <2>1. \A p \in half : buf[p] \in Nat
    BY <1>3, <1>4, <1>6 DEF ShTypes, Array
  <2>2. PICK S : S = {buf[p] : p \in half} /\ S \in SUBSET Nat
    BY <2>1
  <2>3. c = [f EXCEPT !.next = "compact", !.left = S]
    BY <1>7, <2>2
  <2>4. QED BY <1>2, <2>2, <2>3 DEF Frame
<1>9. PICK E : E = {<<t, l, c>>}
  OBVIOUS
<1>10. Passes(t, l, f, E) /\ HeirsApart(E)
  <2>1. stacks' = Becomes(t, <<c>>) /\ threads' = threads /\ DOMAIN buf' = DOMAIN buf /\ l \in Nat
    BY <1>2, <1>3, <1>5, <1>7
  <2>2. Passes(t, l, f, {<<t, l, c>>}) /\ HeirsApart({<<t, l, c>>})
    BY <1>1, <1>2, <1>8, <2>1, OneHeir
  <2>3. QED BY <1>9, <2>2
<1>11. Draws(f, E, {})
  <2>1. Open(c) = Open(f)
    BY <1>2, <1>8 DEF Open
  <2>2. \A b \in Open(f) : \E u \in Team, i \in Nat, d \in Frame : <<u, i, d>> \in E /\ b \in Open(d)
    BY <1>2, <1>8, <1>9, <2>1
  <2>3. QED BY <1>3, <2>2 DEF Draws
<1>12. selected' = (selected \ Span(f)) \cup half
  BY <1>5 DEF Marked
<1>13. Inside(f) /\ selected' \subseteq DOMAIN buf
  BY <1>3, <1>4, <1>6, <1>12 DEF Inside, ShTypes
<1>14. MarkOK(c)'
  <2>1. PICK S : S = Span(f)
    OBVIOUS
  <2>2. Span(c)' = S /\ selected' \cap S = half
    BY <1>6, <1>8, <1>12, <2>1 DEF Span
  <2>3. QED BY <1>3, <1>6, <1>8, <2>2 DEF MarkOK
<1>15. QED BY <1>2, <1>3, <1>9, <1>10, <1>11, <1>13, <1>14, StepKeeps


LEMMA CoinKeeps ==
  ASSUME ShInv, NEW t \in DOMAIN stacks, Coin(t)
  PROVE  ShInv'
<1>1. PICK f, l : f = Top(t) /\ l = Len(stacks[t])
  OBVIOUS
<1>2. /\ t \in Team /\ stacks[t] # << >> /\ l \in Nat \ {0} /\ outcome = "running"
      /\ f \in Frame /\ At(t, l, f) /\ FrameOK(t, f) /\ f.next = "coin"
      /\ \A d \in drawn : ClearOf(d, f)
  BY <1>1, DoesIs DEF Coin
<1>3. ShTypes /\ UNCHANGED <<threads, selected, outcome>>
  BY DEF ShInv, FramesInv, Coin
<1>4. Span(f) = f.lo .. f.lo + f.n - 1 /\ Span(f) \subseteq DOMAIN buf /\ f.lo \in Nat /\ f.n = 2
  BY <1>2, <1>3, SpanFits DEF FrameOK
<1>5. PICK a \in Nat : a = f.lo
  BY <1>4
<1>6. Span(f) = {a, a + 1} /\ a \in DOMAIN buf /\ a + 1 \in DOMAIN buf
  <2>1. a .. a + 2 - 1 = {a, a + 1}
    OBVIOUS
  <2>2. QED BY <1>4, <1>5, <2>1
<1>7. PICK first, second :
        /\ (first = buf[a] /\ second = buf[a + 1]) \/ (first = buf[a + 1] /\ second = buf[a])
        /\ buf' = [buf EXCEPT ![a] = first, ![a + 1] = second]
        /\ drawn' = drawn \cup {[lo |-> a, n |-> 2, left |-> {first}, sound |-> TRUE]}
  <2>1. PICK swap \in BOOLEAN :
          /\ buf' = [buf EXCEPT ![a] = IF swap THEN buf[a + 1] ELSE buf[a],
                                ![a + 1] = IF swap THEN buf[a] ELSE buf[a + 1]]
          /\ drawn' = drawn \cup {[lo |-> a, n |-> 2, left |-> {IF swap THEN buf[a + 1] ELSE buf[a]},
                                   sound |-> TRUE]}
    BY <1>1, <1>5 DEF Coin
  <2>2. CASE swap
    BY <2>1, <2>2
  <2>3. CASE ~ swap
    BY <2>1, <2>3
  <2>4. QED BY <2>2, <2>3
<1>8. PICK d : d = [lo |-> a, n |-> 2, left |-> {first}, sound |-> TRUE]
  OBVIOUS
<1>9. buf \in [DOMAIN buf -> DOMAIN buf] /\ DOMAIN buf \subseteq Nat
  BY <1>3 DEF ShTypes, Array
<1>10. /\ buf' \in [DOMAIN buf -> DOMAIN buf] /\ buf'[a] = first /\ buf'[a + 1] = second
       /\ \A p \in DOMAIN buf : p \notin {a, a + 1} => buf'[p] = buf[p]
  BY <1>6, <1>7, <1>9
<1>11. Rearranged(buf', Span(f))
  <2>1. SameOn(buf', buf, {a, a + 1})
    BY <1>7, <1>10 DEF SameOn
  <2>2. QED BY <1>6, <1>10, <2>1 DEF Rearranged, Array
<1>12. d \in Draw /\ d.lo = f.lo /\ d.n = f.n /\ d.left = {first}
  <2>1. first \in Nat
    BY <1>6, <1>7, <1>9
  <2>2. QED BY <1>4, <1>5, <1>8, <2>1 DEF Draw
<1>13. LeftSpan(d) = {a} /\ Cut(d) = a + 1
  <2>1. 2 \div 2 = 1 /\ a .. a + 1 - 1 = {a}
    OBVIOUS
  <2>2. QED BY <1>8, <2>1 DEF LeftSpan, Cut
<1>14. Records' = Records /\ DOMAIN buf' = DOMAIN buf
  BY <1>10 DEF Records
<1>15. Known(d, f)
  <2>1. {buf'[p] : p \in LeftSpan(d)} = {first}
    BY <1>10, <1>13
  <2>2. d.n >= 2 /\ d.lo + d.n <= Records
    BY <1>2, <1>12 DEF FrameOK
  <2>3. DrawOK(d)'
    BY <1>12, <1>14, <2>1, <2>2, DrawRigid DEF DrawOK
  <2>4. QED BY <1>2, <1>12, <2>3 DEF Known
<1>16. Draws(f, {}, {d})
  <2>1. \A b \in Open(f) : Cut(d) = b
    <3>1. \A b \in a + 1 .. a + 2 - 1 : b = a + 1
      OBVIOUS
    <3>2. QED BY <1>4, <1>5, <1>13, <3>1 DEF Open
  <2>2. Span(f) \in Parts(f)
    BY <1>2 DEF Parts
  <2>3. drawn' = drawn \cup {d}
    BY <1>7, <1>8
  <2>4. QED BY <1>11, <1>12, <1>15, <2>1, <2>2, <2>3 DEF Draws
<1>17. Passes(t, l, f, {}) /\ HeirsApart({})
  <2>1. GaveWay(t, l, {})
    BY <1>1, <1>2, <1>3, NoneTakes DEF Coin
  <2>2. QED BY <1>2, <1>3, <1>14, <2>1 DEF Passes, Heirs, HeirsApart
<1>18. Inside(f) /\ selected' \subseteq DOMAIN buf
  BY <1>3, <1>6, <1>10 DEF Inside, ShTypes
<1>19. outcome' = "running" /\ f.next # "join"
  BY <1>2, <1>3
<1>20. \A u \in Team, i \in Nat, c \in Frame : <<u, i, c>> \in {} => MarkOK(c)'
  OBVIOUS
<1>21. QED BY <1>2, <1>16, <1>17, <1>18, <1>19, <1>20, StepKeeps

LEMMA CompactKeeps ==
  ASSUME ShInv, NEW t \in DOMAIN stacks, Compact(t)
  PROVE  ShInv'
<1>1. PICK f, l : f = Top(t) /\ l = Len(stacks[t])
  OBVIOUS
<1>2. /\ t \in Team /\ stacks[t] # << >> /\ l \in Nat \ {0} /\ outcome = "running"
      /\ f \in Frame /\ At(t, l, f) /\ FrameOK(t, f) /\ MarkOK(f) /\ f.next = "compact"
  BY <1>1, DoesIs DEF Compact
<1>3. ShTypes /\ UNCHANGED <<threads, selected>>
  BY DEF ShInv, FramesInv, Compact
<1>4. CASE ~ IsLeaf(Compaction(t)) /\ ~ pool
  BY <1>3, <1>4, OutcomeKeeps DEF Compact
<1>5. CASE ~ (~ IsLeaf(Compaction(t)) /\ ~ pool)
  <2>1. PICK e : e = Compaction(t)
    OBVIOUS
  <2>2. /\ buf' \in (IF method = "M1" THEN InOrder(f) ELSE {Compacted[e][buf]})
        /\ drawn' = drawn \cup {[lo |-> f.lo, n |-> f.n, left |-> f.left, sound |-> Sound(t)]}
        /\ stacks' = Becomes(t, <<[f EXCEPT !.next = "halves"]>>)
        /\ outcome' = "running"
    BY <1>1, <1>2, <1>5, <2>1 DEF Compact
  <2>3. /\ f.lo \in Nat /\ f.n \in Nat /\ f.nthreads \in Nat /\ f.n >= 2 /\ f.nthreads >= 1 /\ f.left \in SUBSET Nat
        /\ Span(f) = f.lo .. f.lo + f.n - 1 /\ Span(f) \subseteq DOMAIN buf
        /\ DOMAIN buf \subseteq Nat /\ buf \in Array
    <3>1. f.n >= 2 /\ f.nthreads >= 1 /\ f.left \in SUBSET Nat
      BY <1>2 DEF FrameOK, Frame
    <3>2. DOMAIN buf \subseteq Nat /\ buf \in Array
      BY <1>3 DEF ShTypes
    <3>3. QED BY <1>2, <1>3, <3>1, <3>2, SpanFits
  <2>4. PICK k \in Nat : k = f.n \div 2 /\ k <= f.n /\ k >= 1 /\ k < f.n
    BY <2>3, HalfBounds
  <2>5. k = Cardinality(selected \cap Span(f)) /\ f.left = {buf[p] : p \in selected \cap Span(f)}
    BY <1>2, <2>4 DEF MarkOK
  <2>6. Rearranged(buf', Span(f)) /\ (Sound(t) => Fetched(buf', Span(f), f.lo .. f.lo + k - 1))
    <3>1. CASE method = "M1"
      BY <2>2, <2>3, <2>5, <3>1, InOrderMoves
    <3>2. CASE method # "M1"
      <4>1. buf' = Compacted[e][buf]
        BY <2>2, <3>2
      <4>2. e = [pow |-> FALSE, lo |-> f.lo, n |-> f.n, offset |-> 0, nthreads |-> f.nthreads, thread |-> t]
        BY <1>1, <2>1 DEF Compaction, Whole
      <4>3. e \in Call /\ t \in Nat
        BY <1>2, <2>3, <4>2 DEF Call, Team
      <4>4. Places(e) = Span(f) /\ Selected(e.lo, e.n) = k /\ e.lo = f.lo /\ e.n = f.n
        BY <2>3, <2>5, <4>2 DEF Places, Selected
      <4>5. e \in Held
        BY <2>3, <4>3, <4>4 DEF Held
      <4>6. Rearranged(buf', Span(f))
        BY <2>3, <4>1, <4>4, <4>5, CompactionMoves
      <4>7. ASSUME Sound(t) PROVE Fetched(buf', Span(f), f.lo .. f.lo + k - 1)
        <5>1. Fits(e)
          BY <2>3, <4>2, <4>3 DEF Fits
        <5>2. SaneBelow(e)
          BY <2>1, <3>2, <4>7 DEF Sound, SaneBelow
        <5>3. Callable(e) /\ e.offset = 0
          BY <4>2, <4>5, <5>1, <5>2 DEF Callable
        <5>4. QED BY <2>3, <2>4, <4>1, <4>4, <5>3, CompactionFetches
      <4>8. QED BY <4>6, <4>7
    <3>3. QED BY <3>1, <3>2
  <2>7. PICK c : c = [f EXCEPT !.next = "halves"]
    OBVIOUS
  <2>8. c \in Frame /\ c.lo = f.lo /\ c.n = f.n /\ c.nthreads = f.nthreads /\ c.next = "halves"
    BY <1>2, <2>7 DEF Frame
  <2>9. PICK s \in BOOLEAN : s <=> Sound(t)
    OBVIOUS
  <2>10. PICK d : d = [lo |-> f.lo, n |-> f.n, left |-> f.left, sound |-> s]
    OBVIOUS
  <2>11. drawn' = drawn \cup {d}
    <3>1. s = Sound(t)
      BY <2>9 DEF Sound
    <3>2. QED BY <2>2, <2>10, <3>1
  <2>12. d \in Draw /\ d.lo = f.lo /\ d.n = f.n /\ d.left = f.left /\ (d.sound <=> Sound(t))
    BY <2>3, <2>9, <2>10 DEF Draw
  <2>13. DOMAIN buf' = DOMAIN buf /\ Records' = Records
    BY <2>6 DEF Rearranged, Array, Records
  <2>14. LeftSpan(d) = f.lo .. f.lo + k - 1 /\ LeftSpan(c) = LeftSpan(d) /\ Cut(c) = Cut(d)
         /\ RightSpan(c) = f.lo + k .. f.lo + f.n - 1
    BY <2>4, <2>8, <2>12 DEF LeftSpan, Cut, RightSpan
  <2>15. Known(d, f)
    <3>1. Sound(t) => {buf'[p] : p \in LeftSpan(d)} = d.left
      BY <2>5, <2>6, <2>12, <2>14 DEF Fetched
    <3>2. d.n >= 2 /\ d.lo + d.n <= Records
      BY <1>2, <2>12 DEF FrameOK
    <3>3. DrawOK(d)'
      BY <2>12, <2>13, <3>1, <3>2, DrawRigid DEF DrawOK
    <3>4. QED BY <1>2, <2>12, <3>3 DEF Known
  <2>16. ClearOf(d, c)
    <3>1. RightSpan(c) \cap LeftSpan(d) = {}
      BY <2>3, <2>4, <2>14
    <3>2. Parts(c) = {LeftSpan(c), RightSpan(c)} /\ Cut(d) \notin Open(c)
      BY <2>8, <2>14 DEF Parts, Open
    <3>3. QED BY <2>14, <3>1, <3>2 DEF ClearOf
  <2>17. PICK E : E = {<<t, l, c>>}
    OBVIOUS
  <2>18. Passes(t, l, f, E) /\ HeirsApart(E)
    <3>1. stacks' = Becomes(t, <<c>>) /\ threads' = threads /\ l \in Nat
      BY <1>2, <1>3, <2>2, <2>7
    <3>2. Passes(t, l, f, {<<t, l, c>>}) /\ HeirsApart({<<t, l, c>>})
      BY <1>1, <1>2, <2>8, <2>13, <3>1, OneHeir
    <3>3. QED BY <2>17, <3>2
  <2>19. Draws(f, E, {d})
    <3>1. \A b \in Open(f) : Cut(d) = b \/ b \in Open(c)
      BY <2>8, <2>14 DEF Open
    <3>2. \A b \in Open(f) : \/ \E z \in {d} : Cut(z) = b
                             \/ \E u \in Team, i \in Nat, z \in Frame : <<u, i, z>> \in E /\ b \in Open(z)
      BY <1>2, <2>8, <2>17, <3>1
    <3>3. \A u \in Team, i \in Nat, z \in Frame : <<u, i, z>> \in E => ClearOf(d, z)
      BY <2>16, <2>17
    <3>4. Span(f) \in Parts(f)
      BY <1>2 DEF Parts
    <3>5. QED BY <2>6, <2>11, <2>12, <2>15, <3>2, <3>3, <3>4 DEF Draws
  <2>20. Inside(f) /\ selected' \subseteq DOMAIN buf
    BY <1>3, <2>6 DEF Inside, ShTypes, Rearranged
  <2>21. \A u \in Team, i \in Nat, z \in Frame : <<u, i, z>> \in E => MarkOK(z)'
    BY <2>8, <2>17 DEF MarkOK
  <2>22. f.next # "join"
    BY <1>2
  <2>23. QED BY <1>2, <2>2, <2>18, <2>19, <2>20, <2>21, <2>22, StepKeeps
<1>6. QED BY <1>4, <1>5


\* The two halves of a call.
LEMMA PartsAre ==
  ASSUME threads \in Nat, Records \in Nat, NEW t \in Nat, NEW f \in Frame, FrameOK(t, f), f.next = "halves"
  PROVE  /\ RightPart(f) \in Frame /\ HeirOf(t, f, t, RightPart(f))
         /\ RightPart(f).n >= 2 /\ Span(RightPart(f)) = RightSpan(f)
         /\ Crew(t, RightPart(f)) = t .. t + ThreadsRight(f) - 1
         /\ LeftPart(f) \in Frame /\ Span(LeftPart(f)) = LeftSpan(f)
         /\ f.nthreads = 1 /\ LeftPart(f).n > 1 => HeirOf(t, f, t, LeftPart(f))
         /\ f.nthreads > 1 /\ LeftPart(f).n > 1 => HeirOf(t, f, LeftThread(t, f), LeftPart(f))
         /\ f.nthreads > 1 => /\ Crew(LeftThread(t, f), LeftPart(f)) = LeftThread(t, f) .. t + f.nthreads - 1
                              /\ LeftThread(t, f) \in t + 1 .. t + f.nthreads - 1
                              /\ LeftThread(t, f) = t + ThreadsRight(f)
         /\ LeftSpan(f) \cap RightSpan(f) = {}
         /\ RightPart(f).next # "compact" /\ LeftPart(f).next # "compact"
         /\ f.nthreads = 1 => LeftPart(f).nthreads = 1 /\ RightPart(f).nthreads = 1
         /\ Open(f) \subseteq Open(RightPart(f)) \cup Open(LeftPart(f))
         /\ LeftPart(f).n <= 1 => Open(LeftPart(f)) = {}
<1>1. PICK lo \in Nat, n \in Nat, m \in Nat : lo = f.lo /\ n = f.n /\ m = f.nthreads
  BY DEF Frame
<1>2. n >= 3 /\ m >= 1 /\ t + m <= threads /\ lo + n <= Records /\ f.next = "halves"
  BY <1>1 DEF FrameOK
<1>3. PICK h \in Nat, r \in Nat : h = n \div 2 /\ r = n - n \div 2 /\ h >= 1 /\ h + r = n /\ r >= 2
  <2>1. n \div 2 \in Nat /\ n - n \div 2 \in Nat /\ n \div 2 >= 1 /\ n \div 2 + (n - n \div 2) = n /\ n - n \div 2 >= 2
    BY <1>2, HalfBounds
  <2>2. QED BY <2>1
<1>4. PICK a \in Nat, b \in Nat :
        /\ a = ThreadsLeft(f) /\ b = ThreadsRight(f) /\ a >= 1 /\ b >= 1
        /\ m = 1 => a = 1 /\ b = 1
        /\ m > 1 => a + b = m
  <2>1. CASE m = 1
    BY <1>1, <2>1 DEF ThreadsLeft, ThreadsRight
  <2>2. CASE m > 1
    <3>1. m \div 2 \in Nat /\ m - m \div 2 \in Nat /\ m \div 2 >= 1 /\ m - m \div 2 >= 1 /\ m \div 2 + (m - m \div 2) = m
      BY <2>2, HalfBounds
    <3>2. ThreadsLeft(f) = m \div 2 /\ ThreadsRight(f) = m - m \div 2
      BY <1>1, <2>2 DEF ThreadsLeft, ThreadsRight
    <3>3. QED BY <2>2, <3>1, <3>2
  <2>3. QED BY <1>2, <2>1, <2>2
<1>5. PICK x, y : x = RightPart(f) /\ y = LeftPart(f)
  OBVIOUS
<1>6. /\ x.lo = lo + h /\ x.n = r /\ x.nthreads = b /\ x.next = IF r = 2 THEN "coin" ELSE "mark"
      /\ y.lo = lo /\ y.n = h /\ y.nthreads = a /\ y.next = IF h = 2 THEN "coin" ELSE "mark"
      /\ x \in Frame /\ y \in Frame
  <2>1. x = [lo |-> lo + h, n |-> r, nthreads |-> b, next |-> IF r = 2 THEN "coin" ELSE "mark", left |-> {}]
    BY <1>1, <1>3, <1>4, <1>5 DEF RightPart, Part
  <2>2. y = [lo |-> lo, n |-> h, nthreads |-> a, next |-> IF h = 2 THEN "coin" ELSE "mark", left |-> {}]
    BY <1>1, <1>3, <1>4, <1>5 DEF LeftPart, Part
  <2>3. QED BY <2>1, <2>2 DEF Frame
<1>7. /\ Span(f) = lo .. lo + n - 1 /\ LeftSpan(f) = lo .. lo + h - 1 /\ RightSpan(f) = lo + h .. lo + n - 1
      /\ Span(x) = (lo + h) .. (lo + h) + r - 1 /\ Span(y) = lo .. lo + h - 1
  BY <1>1, <1>3, <1>6 DEF Span, LeftSpan, RightSpan
<1>8. (lo + h) + r - 1 = lo + n - 1 /\ Span(x) = RightSpan(f) /\ Span(y) = LeftSpan(f)
  <2>1. (lo + h) + r - 1 = lo + n - 1
    BY <1>3
  <2>2. QED BY <1>7, <2>1
<1>9. RightSpan(f) \subseteq Span(f) /\ LeftSpan(f) \subseteq Span(f) /\ LeftSpan(f) \cap RightSpan(f) = {}
  <2>1. /\ lo + h .. lo + n - 1 \subseteq lo .. lo + n - 1 /\ lo .. lo + h - 1 \subseteq lo .. lo + n - 1
        /\ (lo .. lo + h - 1) \cap (lo + h .. lo + n - 1) = {}
    BY <1>3
  <2>2. QED BY <1>7, <2>1
<1>10. Crew(t, f) = t .. t + m - 1 /\ Crew(t, x) = t .. t + b - 1 /\ \A w : Crew(w, y) = w .. w + a - 1
  BY <1>1, <1>6 DEF Crew
<1>11. b <= m /\ (m = 1 => a = 1 /\ b = 1)
  BY <1>2, <1>4
<1>12. Crew(t, x) \subseteq Crew(t, f)
  <2>1. t .. t + b - 1 \subseteq t .. t + m - 1
    BY <1>11
  <2>2. QED BY <1>10, <2>1
<1>13. LeftThread(t, f) = t + b
  BY <1>4 DEF LeftThread
<1>14. ASSUME m > 1 PROVE /\ Crew(t + b, y) = t + b .. t + m - 1 /\ Crew(t + b, y) \subseteq Crew(t, f)
                          /\ t + b \in t + 1 .. t + m - 1 /\ (t + b) + a = t + m
  <2>1. (t + b) + a = t + m /\ (t + b) + a - 1 = t + m - 1
    BY <1>4, <1>14
  <2>2. Crew(t + b, y) = t + b .. t + m - 1
    BY <1>10, <2>1
  <2>3. t + b .. t + m - 1 \subseteq t .. t + m - 1
    OBVIOUS
  <2>4. t + b \in t + 1 .. t + m - 1
    BY <1>4, <1>14
  <2>5. QED BY <1>10, <2>1, <2>2, <2>3, <2>4
<1>15. ASSUME m = 1 PROVE Crew(t, y) = Crew(t, f)
  BY <1>4, <1>10, <1>15
<1>16. Open(f) = {p \in lo + 1 .. lo + n - 1 : p # lo + h}
  BY <1>1, <1>2, <1>3 DEF Open, Cut
<1>17. Open(x) = (lo + h) + 1 .. (lo + h) + r - 1 /\ Open(y) = lo + 1 .. lo + h - 1
  BY <1>6 DEF Open
<1>18. Open(x) \subseteq Open(f) /\ Open(y) \subseteq Open(f) /\ Open(f) \subseteq Open(x) \cup Open(y)
       /\ (h <= 1 => Open(y) = {})
  <2>1. ASSUME NEW p \in (lo + h) + 1 .. (lo + h) + r - 1 PROVE p \in lo + 1 .. lo + n - 1 /\ p # lo + h
    BY <1>3
  <2>2. ASSUME NEW p \in lo + 1 .. lo + h - 1 PROVE p \in lo + 1 .. lo + n - 1 /\ p # lo + h
    BY <1>3
  <2>3. ASSUME NEW p \in lo + 1 .. lo + n - 1, p # lo + h
        PROVE  p \in lo + 1 .. lo + h - 1 \/ p \in (lo + h) + 1 .. (lo + h) + r - 1
    BY <1>3, <2>3
  <2>4. h <= 1 => lo + 1 .. lo + h - 1 = {}
    OBVIOUS
  <2>5. QED BY <1>16, <1>17, <2>1, <2>2, <2>3, <2>4
<1>19. Parts(x) = {RightSpan(f)} /\ Parts(y) = {LeftSpan(f)} /\ Parts(f) = {LeftSpan(f), RightSpan(f)}
  BY <1>2, <1>6, <1>8 DEF Parts
<1>20. HeirOf(t, f, t, x)
  <2>1. FrameOK(t, x)
    <3>1. r >= 2 /\ b >= 1 /\ t + b <= threads /\ (lo + h) + r <= Records
      <4>1. (lo + h) + r = lo + n /\ t + b <= t + m
        BY <1>3, <1>11
      <4>2. t + b <= threads
        BY <1>2, <4>1
      <4>3. (lo + h) + r <= Records
        BY <1>2, <4>1
      <4>4. QED BY <1>3, <1>4, <4>2, <4>3
    <3>2. QED BY <1>6, <3>1 DEF FrameOK
  <2>2. QED BY <1>1, <1>6, <1>8, <1>9, <1>11, <1>12, <1>18, <1>19, <2>1 DEF HeirOf
<1>21. ASSUME h > 1, NEW w \in Nat, w + a <= t + m, Crew(w, y) \subseteq Crew(t, f),
              m = 1 => w = t
       PROVE  HeirOf(t, f, w, y)
  <2>1. FrameOK(w, y)
    <3>1. h >= 2 /\ a >= 1 /\ w + a <= threads /\ lo + h <= Records
      <4>1. lo + h <= lo + n
        BY <1>3
      <4>2. w + a <= threads
        BY <1>2, <1>21
      <4>3. lo + h <= Records
        BY <1>2, <4>1
      <4>4. QED BY <1>4, <1>21, <4>2, <4>3
    <3>2. QED BY <1>6, <3>1 DEF FrameOK
  <2>2. QED BY <1>1, <1>6, <1>8, <1>9, <1>11, <1>18, <1>19, <1>21, <2>1 DEF HeirOf
<1>22. m = 1 /\ h > 1 => HeirOf(t, f, t, y)
  BY <1>11, <1>15, <1>21
<1>23. m > 1 /\ h > 1 => HeirOf(t, f, LeftThread(t, f), y)
  <2>1. ASSUME m > 1, h > 1 PROVE HeirOf(t, f, t + b, y)
    <3>1. t + b \in Nat /\ (t + b) + a <= t + m /\ m # 1
      BY <1>14, <2>1
    <3>2. QED BY <1>14, <1>21, <2>1, <3>1
  <2>2. QED BY <1>13, <2>1
<1>24. m > 1 => /\ Crew(LeftThread(t, f), y) = LeftThread(t, f) .. t + m - 1
                /\ LeftThread(t, f) \in t + 1 .. t + m - 1
  BY <1>13, <1>14
<1>25. LeftThread(t, f) = t + ThreadsRight(f) /\ Crew(t, x) = t .. t + ThreadsRight(f) - 1
  BY <1>4, <1>10, <1>13
<1>26. x.next # "compact" /\ y.next # "compact"
  BY <1>6
<1>27. QED BY <1>1, <1>3, <1>5, <1>6, <1>8, <1>9, <1>11, <1>18, <1>20, <1>22, <1>23, <1>24, <1>25, <1>26


\* The frames of the left part.
LEMMA LeftFrames ==
  ASSUME NEW c \in Frame
  PROVE  /\ Frames(c) \in Seq(Frame)
         /\ c.n <= 1 => Frames(c) = << >>
         /\ ~ (c.n <= 1) => Frames(c) = <<c>>
BY DEF Frames

LEMMA HalvesKeep ==
  ASSUME ShInv, NEW t \in DOMAIN stacks, Halves(t)
  PROVE  ShInv'
<1>1. PICK f, l : f = Top(t) /\ l = Len(stacks[t])
  OBVIOUS
<1>2. /\ t \in Team /\ stacks[t] # << >> /\ l \in Nat \ {0} /\ outcome = "running"
      /\ f \in Frame /\ At(t, l, f) /\ FrameOK(t, f) /\ f.next = "halves"
  BY <1>1, DoesIs DEF Halves
<1>3. ShTypes /\ UNCHANGED <<threads, selected, buf, outcome, drawn>> /\ threads \in Nat /\ Records \in Nat
      /\ t \in Nat /\ f.nthreads = 1
  <2>1. f.nthreads <= 1 /\ f.nthreads >= 1 /\ f.nthreads \in Nat
    BY <1>1, <1>2 DEF Halves, FrameOK, Frame
  <2>2. f.nthreads = 1
    BY <2>1
  <2>3. QED BY <1>2, <2>2 DEF ShInv, FramesInv, Halves, ShTypes, Team
<1>4. PICK x, y : x = RightPart(f) /\ y = LeftPart(f)
  OBVIOUS
<1>5. /\ x \in Frame /\ HeirOf(t, f, t, x) /\ ~ (x.n <= 1) /\ y \in Frame
      /\ ~ (y.n <= 1) => HeirOf(t, f, t, y)
      /\ Span(x) = RightSpan(f) /\ Span(y) = LeftSpan(f) /\ LeftSpan(f) \cap RightSpan(f) = {}
      /\ x.next # "compact" /\ y.next # "compact" /\ x.nthreads = 1 /\ y.nthreads = 1
      /\ Open(f) \subseteq Open(x) \cup Open(y) /\ (y.n <= 1 => Open(y) = {})
  <2>1. x.n \in Nat /\ y.n \in Nat /\ x.n >= 2 /\ x \in Frame /\ y \in Frame
    BY <1>2, <1>3, <1>4, PartsAre DEF Frame
  <2>2. ~ (x.n <= 1) /\ (~ (y.n <= 1) => y.n > 1)
    BY <2>1
  <2>3. QED BY <1>2, <1>3, <1>4, <2>1, <2>2, PartsAre
<1>6. stacks' = Becomes(t, <<x>> \o Frames(y))
  BY <1>1, <1>4, <1>5, LeftFrames DEF Halves
<1>7. \E E : /\ GaveWay(t, l, E) /\ <<t, l, x>> \in E
             /\ \A z \in E : z = <<t, l, x>> \/ (z = <<t, l + 1, y>> /\ ~ (y.n <= 1))
             /\ ~ (y.n <= 1) => <<t, l + 1, y>> \in E
  <2>1. CASE y.n <= 1
    <3>1. <<x>> \o Frames(y) = <<x>>
      <4>1. Frames(y) = << >>
        BY <1>5, <2>1, LeftFrames
      <4>2. <<x>> \in Seq(Frame)
        BY <1>5
      <4>3. QED BY <4>1, <4>2, ConcatEmptySeq
    <3>2. GaveWay(t, l, {<<t, l, x>>})
      BY <1>1, <1>2, <1>3, <1>5, <1>6, <3>1, OneTakes
    <3>3. QED BY <2>1, <3>2
  <2>2. CASE ~ (y.n <= 1)
    <3>1. <<x>> \o Frames(y) = <<x>> \o <<y>>
      BY <1>5, <2>2, LeftFrames
    <3>2. <<x>> \o <<y>> \in Seq(Frame)
      <4>1. <<x>> \in Seq(Frame) /\ <<y>> \in Seq(Frame)
        BY <1>5
      <4>2. QED BY <4>1, ConcatProperties
    <3>3. stacks' = Becomes(t, <<x>> \o <<y>>)
      BY <1>6, <3>1
    <3>4. GivesWay(t, l, <<x>> \o <<y>>, t, <<x>> \o <<y>>)
      BY <1>1, <1>2, <1>3, <3>2, <3>3, BecomesGives
    <3>5. GaveWay(t, l, {<<t, l, x>>, <<t, l + 1, y>>})
      BY <1>1, <1>2, <1>3, <1>5, <3>4, TwoTake
    <3>6. QED BY <2>2, <3>5
  <2>3. QED BY <2>1, <2>2
<1>8. PICK E : /\ GaveWay(t, l, E) /\ <<t, l, x>> \in E
               /\ \A z \in E : z = <<t, l, x>> \/ (z = <<t, l + 1, y>> /\ ~ (y.n <= 1))
               /\ ~ (y.n <= 1) => <<t, l + 1, y>> \in E
  BY <1>7
<1>9. \A u \in Team, i \in Nat, c \in Frame : <<u, i, c>> \in E =>
        u = t /\ ((i = l /\ c = x) \/ (i = l + 1 /\ c = y /\ ~ (y.n <= 1)))
  BY <1>8
<1>10. Passes(t, l, f, E)
  <2>1. Heirs(t, f, E)
    BY <1>2, <1>5, <1>9 DEF Heirs
  <2>2. QED BY <1>2, <1>3, <1>8, <2>1 DEF Passes
<1>11. HeirsApart(E)
  <2>1. Related(t, x, t, y)
    BY <1>5 DEF Related, KeptApart
  <2>2. QED BY <1>9, <2>1, RelatedTwice DEF HeirsApart
<1>12. Draws(f, E, {})
  <2>1. ASSUME NEW b \in Open(f)
        PROVE  \E u \in Team, i \in Nat, c \in Frame : <<u, i, c>> \in E /\ b \in Open(c)
    <3>1. l \in Nat /\ l + 1 \in Nat
      BY <1>2
    <3>2. CASE b \in Open(x)
      BY <1>2, <1>5, <1>8, <3>1, <3>2
    <3>3. CASE b \in Open(y)
      BY <1>2, <1>5, <1>8, <3>1, <3>3
    <3>4. QED BY <1>5, <3>2, <3>3
  <2>2. QED BY <1>3, <2>1 DEF Draws
<1>13. Inside(f) /\ selected' \subseteq DOMAIN buf
  BY <1>3 DEF Inside, ShTypes
<1>14. \A u \in Team, i \in Nat, c \in Frame : <<u, i, c>> \in E => MarkOK(c)'
  BY <1>5, <1>9 DEF MarkOK
<1>15. f.next # "join" /\ outcome' = "running"
  BY <1>2, <1>3
<1>16. QED BY <1>2, <1>10, <1>11, <1>12, <1>13, <1>14, <1>15, StepKeeps

\* A call's other threads are idle while it runs.
LEMMA CrewIdle ==
  ASSUME ShInv, NEW t \in Team, NEW l \in Nat, NEW f \in Frame, At(t, l, f), f.next # "join",
         NEW w \in Team, w \in Crew(t, f), w # t
  PROVE  stacks[w] = << >>
<1>1. SUFFICES ASSUME stacks[w] # << >> PROVE FALSE
  OBVIOUS
<1>2. ShTypes /\ FramesFit /\ FramesApart
  BY DEF ShInv, FramesInv
<1>3. PICK k \in Nat, g \in Frame : At(w, k, g)
  BY <1>1, <1>2, TopIs
<1>4. Related(t, f, w, g)
  BY <1>2, <1>3 DEF FramesApart
<1>5. t \in Nat /\ w \in Nat /\ t < w
  <2>1. t \in Nat /\ w \in Nat
    BY DEF Team
  <2>2. t <= w
    BY DEF Crew
  <2>3. QED BY <2>1, <2>2
<1>6. PICK m \in Nat, p \in Nat : m = f.nthreads /\ p = g.nthreads
  BY DEF Frame
<1>7. m >= 1 /\ p >= 1
  BY <1>2, <1>3, <1>6 DEF FramesFit, FrameOK
<1>8. w \in Crew(w, g) /\ t \in Crew(t, f)
  BY <1>5, <1>6, <1>7 DEF Crew
<1>9. ~ KeptApart(t, f, w, g)
  BY <1>8 DEF KeptApart
<1>10. ~ Awaits(w, g, t, f)
  <2>1. SUFFICES ASSUME Awaits(w, g, t, f) PROVE FALSE
    OBVIOUS
  <2>2. CASE Crew(t, f) \subseteq w .. w + ThreadsRight(g) - 1
    BY <1>5, <1>8, <2>2
  <2>3. CASE Crew(t, f) \subseteq LeftThread(w, g) .. w + g.nthreads - 1
    <3>1. PICK r \in Nat : r = ThreadsRight(g)
      <4>1. p - p \div 2 \in Nat
        BY HalfBounds
      <4>2. ThreadsRight(g) \in Nat
        BY <1>6, <4>1 DEF ThreadsRight
      <4>3. QED BY <4>2
    <3>2. t \in w + r .. w + p - 1
      BY <1>6, <1>8, <2>3, <3>1 DEF LeftThread
    <3>3. QED BY <1>5, <3>2
  <2>4. QED BY <2>1, <2>2, <2>3 DEF Awaits
<1>11. QED BY <1>4, <1>9, <1>10 DEF Related, Awaits

LEMMA DispatchKeeps ==
  ASSUME ShInv, NEW t \in DOMAIN stacks, Dispatch(t)
  PROVE  ShInv'
<1>1. PICK f, l : f = Top(t) /\ l = Len(stacks[t])
  OBVIOUS
<1>2. /\ t \in Team /\ stacks[t] # << >> /\ l \in Nat \ {0} /\ outcome = "running"
      /\ f \in Frame /\ At(t, l, f) /\ FrameOK(t, f) /\ f.next = "halves"
  BY <1>1, DoesIs DEF Dispatch
<1>3. ShTypes /\ UNCHANGED <<threads, selected, buf, drawn>> /\ threads \in Nat /\ Records \in Nat
      /\ t \in Nat /\ f.nthreads > 1 /\ f.nthreads \in Nat /\ t + f.nthreads <= threads
  <2>1. ShTypes /\ UNCHANGED <<threads, selected, buf, drawn>> /\ f.nthreads > 1
    BY <1>1 DEF ShInv, FramesInv, Dispatch
  <2>2. threads \in Nat /\ Records \in Nat /\ t \in Nat
    BY <1>2, <2>1 DEF ShTypes, Team
  <2>3. f.nthreads \in Nat /\ t + f.nthreads <= threads
    BY <1>2 DEF FrameOK, Frame
  <2>4. QED BY <2>1, <2>2, <2>3
<1>4. CASE ~ pool
  BY <1>1, <1>4, OutcomeKeeps DEF Dispatch
<1>5. CASE pool
  <2>1. PICK w, x, y, j : w = LeftThread(t, f) /\ x = RightPart(f) /\ y = LeftPart(f) /\ j = [f EXCEPT !.next = "join"]
    OBVIOUS
  <2>2. /\ x \in Frame /\ HeirOf(t, f, t, x) /\ ~ (x.n <= 1) /\ y \in Frame
        /\ ~ (y.n <= 1) => HeirOf(t, f, w, y)
        /\ Span(x) = RightSpan(f) /\ Span(y) = LeftSpan(f) /\ LeftSpan(f) \cap RightSpan(f) = {}
        /\ Crew(t, x) = t .. t + ThreadsRight(f) - 1 /\ Crew(w, y) = w .. t + f.nthreads - 1
        /\ w \in t + 1 .. t + f.nthreads - 1 /\ w = t + ThreadsRight(f)
        /\ x.next # "compact" /\ y.next # "compact"
        /\ Open(f) \subseteq Open(x) \cup Open(y) /\ (y.n <= 1 => Open(y) = {})
    <3>1. x.n \in Nat /\ y.n \in Nat /\ x.n >= 2 /\ x \in Frame /\ y \in Frame
      BY <1>2, <1>3, <2>1, PartsAre DEF Frame
    <3>2. ~ (x.n <= 1) /\ (~ (y.n <= 1) => y.n > 1)
      BY <3>1
    <3>3. QED BY <1>2, <1>3, <2>1, <3>1, <3>2, PartsAre
  <2>3. w \in Team /\ w # t /\ w \in Crew(t, f)
    BY <1>3, <2>2 DEF Team, Crew
  <2>4. stacks[w] = << >>
    BY <1>2, <2>3, CrewIdle
  <2>5. j \in Frame /\ j.lo = f.lo /\ j.n = f.n /\ j.nthreads = f.nthreads /\ j.next = "join"
    BY <1>2, <2>1 DEF Frame
  <2>6. HeirOf(t, f, t, j)
    BY <1>2, <1>3, <2>5, NextHeir
  <2>7. stacks' = [Becomes(t, <<j>> \o <<x>>) EXCEPT ![w] = Frames(y)] /\ outcome' = "running"
    <3>1. Frames(x) = <<x>>
      BY <2>2, LeftFrames
    <3>2. QED BY <1>1, <1>2, <1>5, <2>1, <3>1 DEF Dispatch
  <2>8. GivesWay(t, l, <<j>> \o <<x>>, w, Frames(y))
    <3>1. <<j>> \o <<x>> \in Seq(Frame)
      <4>1. <<j>> \in Seq(Frame) /\ <<x>> \in Seq(Frame)
        BY <2>2, <2>5
      <4>2. QED BY <4>1, ConcatProperties
    <3>2. PICK e, g : e = <<j>> \o <<x>> /\ g = Frames(y) /\ e \in Seq(Frame) /\ g \in Seq(Frame)
      BY <2>2, <3>1, LeftFrames
    <3>3. stacks \in [Team -> Seq(Frame)]
      BY <1>3 DEF ShTypes
    <3>4. stacks' = [[stacks EXCEPT ![t] = Front(@) \o e] EXCEPT ![w] = g]
      BY <2>7, <3>2 DEF Becomes
    <3>5. stacks' = [u \in Team |-> IF u = t THEN Front(stacks[t]) \o e ELSE IF u = w THEN g ELSE stacks[u]]
      BY <2>3, <3>3, <3>4
    <3>6. GivesWay(t, l, e, w, g)
      BY <1>1, <1>2, <2>3, <2>4, <3>2, <3>5 DEF GivesWay
    <3>7. QED BY <3>2, <3>6
  <2>9. \E E : /\ GaveWay(t, l, E) /\ <<t, l, j>> \in E /\ <<t, l + 1, x>> \in E
               /\ \A z \in E : \/ z = <<t, l, j>> \/ z = <<t, l + 1, x>>
                               \/ z = <<w, 1, y>> /\ ~ (y.n <= 1)
               /\ ~ (y.n <= 1) => <<w, 1, y>> \in E
    <3>1. CASE y.n <= 1
      <4>1. GaveWay(t, l, {<<t, l, j>>, <<t, l + 1, x>>})
        BY <1>1, <1>2, <1>3, <2>2, <2>5, <2>8, <3>1, LeftFrames, TwoTake
      <4>2. QED BY <3>1, <4>1
    <3>2. CASE ~ (y.n <= 1)
      <4>1. GaveWay(t, l, {<<t, l, j>>, <<t, l + 1, x>>, <<w, 1, y>>})
        BY <1>1, <1>2, <1>3, <2>2, <2>3, <2>5, <2>8, <3>2, LeftFrames, TwoTake
      <4>2. QED BY <3>2, <4>1
    <3>3. QED BY <3>1, <3>2
  <2>10. PICK E : /\ GaveWay(t, l, E) /\ <<t, l, j>> \in E /\ <<t, l + 1, x>> \in E
                  /\ \A z \in E : \/ z = <<t, l, j>> \/ z = <<t, l + 1, x>>
                                  \/ z = <<w, 1, y>> /\ ~ (y.n <= 1)
                  /\ ~ (y.n <= 1) => <<w, 1, y>> \in E
    BY <2>9
  <2>11. \A u \in Team, i \in Nat, c \in Frame : <<u, i, c>> \in E =>
           \/ u = t /\ i = l /\ c = j
           \/ u = t /\ i = l + 1 /\ c = x
           \/ u = w /\ i = 1 /\ c = y /\ ~ (y.n <= 1)
    BY <2>10
  <2>12. Passes(t, l, f, E)
    <3>1. Heirs(t, f, E)
      BY <1>2, <2>2, <2>6, <2>11 DEF Heirs
    <3>2. QED BY <1>2, <1>3, <2>10, <3>1 DEF Passes
  <2>13. HeirsApart(E)
    <3>1. RightSpan(j) = RightSpan(f) /\ LeftSpan(j) = LeftSpan(f) /\ ThreadsRight(j) = ThreadsRight(f)
          /\ LeftThread(t, j) = w
      BY <2>1, <2>5 DEF RightSpan, LeftSpan, ThreadsRight, LeftThread
    <3>2. Related(t, j, t, x)
      BY <2>2, <2>5, <3>1 DEF Related, Awaits
    <3>3. Related(t, j, w, y)
      BY <2>2, <2>5, <3>1 DEF Related, Awaits
    <3>4. Related(t, x, w, y)
      <4>1. PICK b \in Nat : w = t + b /\ b = ThreadsRight(f)
        <5>1. w - t \in Nat /\ w = t + (w - t)
          BY <1>3, <2>2
        <5>2. ThreadsRight(f) \in Nat
          <6>1. f.nthreads - f.nthreads \div 2 \in Nat
            BY <1>3, HalfBounds
          <6>2. QED BY <6>1 DEF ThreadsRight
        <5>3. QED BY <2>2, <5>2
      <4>2. Crew(t, x) = t .. t + b - 1 /\ Crew(w, y) = t + b .. t + f.nthreads - 1
        BY <2>2, <4>1
      <4>3. Crew(t, x) \cap Crew(w, y) = {}
        <5>1. PICK m \in Nat : m = f.nthreads
          BY <1>3
        <5>2. (t .. t + b - 1) \cap (t + b .. t + m - 1) = {}
          BY <1>3, <4>1
        <5>3. QED BY <4>2, <5>1, <5>2
      <4>4. QED BY <2>2, <4>3 DEF Related, KeptApart
    <3>5. QED BY <2>11, <3>2, <3>3, <3>4, RelatedTwice DEF HeirsApart
  <2>14. Draws(f, E, {})
    <3>1. ASSUME NEW b \in Open(f)
          PROVE  \E u \in Team, i \in Nat, c \in Frame : <<u, i, c>> \in E /\ b \in Open(c)
      <4>1. l + 1 \in Nat /\ 1 \in Nat
        BY <1>2
      <4>2. CASE b \in Open(x)
        BY <1>2, <2>2, <2>10, <4>1, <4>2
      <4>3. CASE b \in Open(y)
        BY <2>2, <2>3, <2>10, <4>1, <4>3
      <4>4. QED BY <2>2, <4>2, <4>3
    <3>2. QED BY <1>3, <3>1 DEF Draws
  <2>15. Inside(f) /\ selected' \subseteq DOMAIN buf
    BY <1>3 DEF Inside, ShTypes
  <2>16. \A u \in Team, i \in Nat, c \in Frame : <<u, i, c>> \in E => MarkOK(c)'
    BY <2>2, <2>5, <2>11 DEF MarkOK
  <2>17. f.next # "join"
    BY <1>2
  <2>18. QED BY <1>2, <2>7, <2>12, <2>13, <2>14, <2>15, <2>16, <2>17, StepKeeps
<1>6. QED BY <1>4, <1>5

LEMMA JoinKeeps ==
  ASSUME ShInv, NEW t \in DOMAIN stacks, Join(t)
  PROVE  ShInv'
<1>1. PICK f, l : f = Top(t) /\ l = Len(stacks[t])
  OBVIOUS
<1>2. /\ t \in Team /\ stacks[t] # << >> /\ l \in Nat \ {0} /\ outcome = "running"
      /\ f \in Frame /\ At(t, l, f) /\ FrameOK(t, f) /\ f.next = "join"
  BY <1>1, DoesIs DEF Join
<1>3. ShTypes /\ UNCHANGED <<threads, selected, buf, outcome, drawn>>
  BY DEF ShInv, FramesInv, Join
<1>4. GaveWay(t, l, {})
  BY <1>1, <1>2, <1>3, NoneTakes DEF Join
<1>5. Passes(t, l, f, {}) /\ HeirsApart({})
  BY <1>2, <1>3, <1>4 DEF Passes, Heirs, HeirsApart
<1>6. Draws(f, {}, {})
  <2>1. Open(f) = {}
    BY <1>2 DEF Open
  <2>2. QED BY <1>3, <2>1 DEF Draws
<1>7. Inside(f) /\ selected' \subseteq DOMAIN buf /\ outcome' = "running"
  BY <1>2, <1>3 DEF Inside, ShTypes
<1>8. UNCHANGED <<buf, selected>> /\ \A u \in Team, i \in Nat, c \in Frame : <<u, i, c>> \in {} => MarkOK(c)'
  BY <1>3
<1>9. QED BY <1>2, <1>5, <1>6, <1>7, <1>8, StepKeeps


LEMMA EnterKeeps ==
  ASSUME ShInv, ShuffleAssumption, Enter
  PROVE  ShInv'
<1>1. /\ ShTypes /\ outcome = "entered" /\ outcome' = "running" /\ drawn = {} /\ buf = Untouched
      /\ (\A t \in Team : stacks[t] = << >>) /\ UNCHANGED <<threads, selected, buf, drawn>>
  BY DEF ShInv, FramesInv, DrawsInv, Started, Enter
<1>2. PICK n \in Nat, m \in Nat \ {0} : n = Records /\ m = threads
  BY <1>1 DEF ShTypes
<1>3. PICK c : c = Part(0, n, m)
  OBVIOUS
<1>4. /\ c \in Frame /\ c.lo = 0 /\ c.n = n /\ c.nthreads = m /\ c.next = IF n = 2 THEN "coin" ELSE "mark"
  BY <1>2, <1>3 DEF Part, Frame
<1>5. stacks' = [stacks EXCEPT ![0] = Frames(c)] /\ 0 \in Team
  BY <1>2, <1>3 DEF Enter, Team
<1>6. PICK g : g = Frames(c)
  OBVIOUS
<1>7. g \in Seq(Frame) /\ (n <= 1 => g = << >>) /\ (~ (n <= 1) => g = <<c>>)
  BY <1>4, <1>6, LeftFrames
<1>8. /\ Team' = Team /\ Records' = Records /\ Frame' = Frame /\ Draw' = Draw /\ Array' = Array
      /\ Untouched' = Untouched
  BY <1>1 DEF Team, Records, Frame, Draw, Array, Untouched
<1>9. stacks' \in [Team -> Seq(Frame)] /\ stacks'[0] = g /\ \A u \in Team : u # 0 => stacks'[u] = << >>
  BY <1>1, <1>5, <1>6, <1>7 DEF ShTypes
<1>10. ASSUME NEW u \in Team, NEW i \in Nat, NEW d \in Frame
       PROVE  At(u, i, d)' <=> u = 0 /\ i = 1 /\ d = c /\ ~ (n <= 1)
  <2>1. At(u, i, d)' <=> i \in 1 .. Len(stacks'[u]) /\ d = stacks'[u][i]
    BY <1>8 DEF At
  <2>2. CASE u # 0
    BY <1>9, <2>1, <2>2
  <2>3. CASE u = 0 /\ n <= 1
    BY <1>7, <1>9, <2>1, <2>3
  <2>4. CASE u = 0 /\ ~ (n <= 1)
    <3>1. g = <<c>> /\ Len(g) = 1 /\ g[1] = c
      BY <1>7, <2>4
    <3>2. At(u, i, d)' <=> i \in 1 .. Len(g) /\ d = g[i]
      BY <1>9, <2>1, <2>4
    <3>3. QED BY <2>4, <3>1, <3>2
  <2>5. QED BY <2>2, <2>3, <2>4
<1>11. ShTypes'
  BY <1>1, <1>8, <1>9 DEF ShTypes
<1>12. FramesFit'
  <2>1. ASSUME ~ (n <= 1) PROVE FrameOK(0, c)'
    <3>1. n >= 2 /\ m >= 1 /\ 0 + m <= m /\ 0 + n <= n /\ (IF n = 2 THEN "coin" ELSE "mark") # "join"
      BY <1>2, <2>1
    <3>2. QED BY <1>1, <1>2, <1>4, <1>8, <3>1 DEF FrameOK
  <2>2. QED BY <1>8, <1>10, <2>1 DEF FramesFit
<1>13. FramesApart'
  BY <1>8, <1>10 DEF FramesApart
<1>14. Marks'
  BY <1>4, <1>8, <1>10 DEF Marks, MarkOK
<1>15. DrawsStand' /\ DrawsClear' /\ CutsDiffer'
  BY <1>1 DEF DrawsStand, DrawsClear, CutsDiffer
<1>16. AllCut'
  <2>1. ASSUME NEW b \in 1 .. n - 1 PROVE StillCut(b)'
    <3>1. ~ (n <= 1)
      BY <1>2, <2>1
    <3>2. At(0, 1, c)' /\ 0 \in Team
      BY <1>4, <1>5, <1>10, <3>1
    <3>3. b \in 0 + 1 .. 0 + n - 1 /\ (IF n = 2 THEN "coin" ELSE "mark") \notin {"join", "halves"}
      BY <1>2, <2>1
    <3>4. b \in Open(c)
      BY <1>4, <3>3 DEF Open
    <3>5. QED BY <1>4, <1>8, <3>2, <3>4, DrawRigid DEF StillCut
  <2>2. QED BY <1>2, <1>8, <2>1 DEF AllCut
<1>17. AllThere' /\ Started'
  BY <1>1, <1>8 DEF ShInv, DrawsInv, AllThere, SameOn, Started
<1>18. QED BY <1>11, <1>12, <1>13, <1>14, <1>15, <1>16, <1>17 DEF ShInv, FramesInv, DrawsInv

LEMMA ShInvInit == ShuffleInit => ShInv
<1>1. SUFFICES ASSUME ShuffleInit PROVE ShInv
  OBVIOUS
<1>2. PICK m \in Nat \ {0} : m = threads
  <2>1. threads \in 1 .. 1 \/ threads \in 1 .. MaxThreads
    BY <1>1 DEF ShuffleInit
  <2>2. threads \in Nat \ {0}
    BY <2>1, CompactAssumption
  <2>3. QED BY <2>2
<1>3. PICK n \in Nat : buf = [p \in 0 .. n - 1 |-> p]
  <2>1. PICK n \in (IF method = "M1" THEN 1 ELSE 0) .. MaxRecords : buf = [p \in 0 .. n - 1 |-> p]
    BY <1>1 DEF ShuffleInit
  <2>2. n \in Nat
    BY <2>1, ShuffleAssumption
  <2>3. QED BY <2>1, <2>2
<1>4. DOMAIN buf = 0 .. n - 1 /\ buf \in [0 .. n - 1 -> 0 .. n - 1] /\ Records = n
  <2>1. Cardinality(0 .. n - 1) = n
    <3>1. 0 \in Int /\ n - 1 \in Int /\ (IF 0 > n - 1 THEN 0 ELSE (n - 1) - 0 + 1) = n
      OBVIOUS
    <3>2. QED BY <3>1, FS_Interval
  <2>2. DOMAIN buf = 0 .. n - 1 /\ buf \in [0 .. n - 1 -> 0 .. n - 1]
    BY <1>3
  <2>3. QED BY <2>1, <2>2 DEF Records
<1>5. stacks = [t \in Team |-> << >>] /\ selected = {} /\ outcome = "entered" /\ drawn = {}
  BY <1>1 DEF ShuffleInit, Team
<1>6. \A t, k, f : ~ At(t, k, f)
  BY <1>5 DEF At
<1>7. ShTypes
  BY <1>2, <1>4, <1>5 DEF ShTypes, Array
<1>8. FramesFit /\ FramesApart /\ Marks
  BY <1>6 DEF FramesFit, FramesApart, Marks
<1>9. DrawsStand /\ DrawsClear /\ CutsDiffer /\ AllCut
  BY <1>5 DEF DrawsStand, DrawsClear, CutsDiffer, AllCut
<1>10. buf = Untouched
  BY <1>3, <1>4 DEF Untouched
<1>11. AllThere /\ Started
  BY <1>5, <1>10 DEF AllThere, SameOn, Started
<1>12. QED BY <1>7, <1>8, <1>9, <1>11 DEF ShInv, FramesInv, DrawsInv

LEMMA ShInvNext == ShInv /\ [ShuffleNext]_shuffle_vars => ShInv'
<1>1. SUFFICES ASSUME ShInv, [ShuffleNext]_shuffle_vars PROVE ShInv'
  OBVIOUS
<1>2. CASE Enter
  BY <1>1, <1>2, EnterKeeps, ShuffleAssumption
<1>3. CASE AcquireFails
  <2>1. outcome = "entered" /\ (outcome' = "unshuffled" \/ outcome' = "aborted")
        /\ UNCHANGED <<threads, selected, buf, stacks, drawn>>
    BY <1>3 DEF AcquireFails
  <2>2. QED BY <1>1, <2>1, OutcomeKeeps
<1>4. ASSUME NEW t \in DOMAIN stacks,
             MarkHalf(t) \/ Coin(t) \/ Compact(t) \/ Halves(t) \/ Dispatch(t) \/ Join(t)
      PROVE  ShInv'
  BY <1>1, <1>4, MarkKeeps, CoinKeeps, CompactKeeps, HalvesKeep, DispatchKeeps, JoinKeeps
<1>5. CASE UNCHANGED shuffle_vars
  BY <1>1, <1>5, OutcomeKeeps DEF shuffle_vars, shuffle_own, vars
<1>6. QED BY <1>1, <1>2, <1>3, <1>4, <1>5 DEF ShuffleNext

\* The inductive invariant of the recursive shuffle.  The calls that are on the
\* threads' stacks have, in pairs, records and threads of their own, but for those
\* that one of them waits for; the flags of a call that is to be compacted are half
\* of its own; every draw still has what it drew in its left half, and no call
\* rearranges records across it; and the places where the records are or will be
\* split are all of them, each once (RecursiveShuffle.tcc:62-128).
THEOREM ShuffleInvariant == ShuffleSpec => []ShInv
<1>1. QED BY ShInvInit, ShInvNext, PTL DEF ShuffleSpec

\* The calls that run on two threads at a time share no record and no flag, and a
\* half is given only to an idle thread of the shuffle's (RecursiveShuffle.tcc:100-120).
THEOREM SpansApartHolds == ShuffleSpec => []SpansApart
<1>1. ShInv => SpansApart
  <2>1. SUFFICES ASSUME ShInv, NEW t \in DOMAIN stacks, Running(t)
                 PROVE  /\ \A u \in DOMAIN stacks \ {t} :
                             (Running(u) /\ Top(t).next # "join" /\ Top(u).next # "join") =>
                                Span(Top(t)) \cap Span(Top(u)) = {}
                        /\ Does(t, "halves") /\ Top(t).nthreads > 1 =>
                             /\ LeftThread(t, Top(t)) \in DOMAIN stacks
                             /\ stacks[LeftThread(t, Top(t))] = << >>
    BY DEF SpansApart
  <2>2. ShTypes /\ FramesFit /\ FramesApart /\ DOMAIN stacks = Team /\ stacks[t] # << >>
    BY <2>1 DEF ShInv, FramesInv, ShTypes, Running
  <2>3. PICK f \in Frame, l \in Nat : f = Top(t) /\ At(t, l, f)
    BY <2>1, <2>2, TopIs
  <2>4. ASSUME NEW u \in DOMAIN stacks \ {t}, Running(u), Top(t).next # "join", Top(u).next # "join"
        PROVE  Span(Top(t)) \cap Span(Top(u)) = {}
    <3>1. u \in Team /\ u # t /\ stacks[u] # << >>
      BY <2>2, <2>4 DEF Running
    <3>2. PICK g \in Frame, k \in Nat : g = Top(u) /\ At(u, k, g)
      BY <2>2, <3>1, TopIs
    <3>3. Related(t, f, u, g)
      BY <2>1, <2>2, <2>3, <3>1, <3>2 DEF FramesApart
    <3>4. QED BY <2>3, <2>4, <3>2, <3>3 DEF Related, Awaits, KeptApart
  <2>5. ASSUME Does(t, "halves"), f.nthreads > 1
        PROVE  LeftThread(t, f) \in Team /\ stacks[LeftThread(t, f)] = << >>
    <3>1. f.next = "halves" /\ FrameOK(t, f)
      BY <2>1, <2>2, <2>3, <2>5 DEF Does, FramesFit
    <3>2. threads \in Nat /\ Records \in Nat /\ t \in Nat /\ f.nthreads \in Nat /\ t + f.nthreads <= threads
      BY <2>1, <2>2, <3>1 DEF ShTypes, Team, FrameOK, Frame
    <3>3. LeftThread(t, f) \in t + 1 .. t + f.nthreads - 1
      BY <2>5, <3>1, <3>2, PartsAre
    <3>4. LeftThread(t, f) \in Team /\ LeftThread(t, f) # t /\ LeftThread(t, f) \in Crew(t, f)
      BY <3>2, <3>3 DEF Team, Crew
    <3>5. QED BY <2>1, <2>2, <2>3, <3>1, <3>4, CrewIdle
  <2>6. QED BY <2>2, <2>3, <2>4, <2>5
<1>2. QED BY <1>1, ShuffleInvariant, PTL

\* As many draws as there are places to split at.
LEMMA DrawsCounted ==
  ASSUME ShTypes, DrawsStand, CutsDiffer, Records > 0,
         \A b \in 1 .. Records - 1 : \E d \in drawn : Cut(d) = b
  PROVE  Cardinality(drawn) = Records - 1
<1>1. PICK n \in Nat : n = Records /\ n > 0
  BY DEF ShTypes
<1>2. IsFiniteSet(1 .. n - 1) /\ Cardinality(1 .. n - 1) = n - 1
  <2>1. 1 \in Int /\ n - 1 \in Int /\ (IF 1 > n - 1 THEN 0 ELSE (n - 1) - 1 + 1) = n - 1
    BY <1>1
  <2>2. QED BY <2>1, FS_Interval
<1>3. \A d \in drawn : Cut(d) \in 1 .. n - 1
  <2>1. ASSUME NEW d \in drawn PROVE Cut(d) \in 1 .. n - 1
    <3>1. d \in Draw /\ d.n >= 2 /\ d.lo + d.n <= n
      BY <1>1 DEF ShTypes, DrawsStand, DrawOK
    <3>2. Cut(d) \in Nat /\ Cut(d) > d.lo /\ Cut(d) < d.lo + d.n /\ d.lo \in Nat /\ d.n \in Nat
      BY <3>1, DrawIs
    <3>3. QED BY <3>1, <3>2
  <2>2. QED BY <2>1
<1>4. PICK g \in [1 .. n - 1 -> drawn] : \A b \in 1 .. n - 1 : Cut(g[b]) = b
  <2>1. PICK g : g = [b \in 1 .. n - 1 |-> CHOOSE d \in drawn : Cut(d) = b]
    OBVIOUS
  <2>2. \A b \in 1 .. n - 1 : g[b] \in drawn /\ Cut(g[b]) = b
    BY <1>1, <2>1
  <2>3. g \in [1 .. n - 1 -> drawn]
    BY <2>1, <2>2
  <2>4. QED BY <2>2, <2>3
<1>5. g \in Surjection(1 .. n - 1, drawn)
  <2>1. \A d \in drawn : \E b \in 1 .. n - 1 : g[b] = d
    BY <1>3, <1>4 DEF CutsDiffer
  <2>2. QED BY <1>4, <2>1 DEF Surjection
<1>6. g \in Injection(1 .. n - 1, drawn)
  <2>1. \A a, b \in 1 .. n - 1 : g[a] = g[b] => a = b
    BY <1>4
  <2>2. QED BY <1>4, <2>1 DEF Injection, IsInjective
<1>7. Cardinality(drawn) = Cardinality(1 .. n - 1)
  BY <1>2, <1>5, <1>6, FS_Surjection
<1>8. QED BY <1>1, <1>2, <1>7

\* When a shuffle ends, whatever the threads' order, every split of its records has
\* drawn once and has on its left exactly what it drew, unless its compaction overran
\* an offset; a shuffle that could not start has moved nothing
\* (RecursiveShuffle.tcc:9-39, 62-128 and 133-163).
THEOREM DrawsDecideOrderHolds == ShuffleSpec => []DrawsDecideOrder
<1>1. ShInv => DrawsDecideOrder
  <2>1. SUFFICES ASSUME ShInv PROVE DrawsDecideOrder
    OBVIOUS
  <2>2. ShTypes /\ DrawsStand /\ CutsDiffer /\ AllCut /\ AllThere /\ Started /\ DOMAIN stacks = Team
    BY <2>1 DEF ShInv, FramesInv, DrawsInv, ShTypes
  <2>3. outcome = "unshuffled" => \A p \in DOMAIN buf : buf[p] = p
    <3>1. \A p \in DOMAIN buf : Untouched[p] = p
      BY DEF Untouched
    <3>2. QED BY <2>2, <3>1 DEF Started
  <2>4. {buf[p] : p \in DOMAIN buf} = DOMAIN buf
    BY <2>2 DEF AllThere, SameOn, Untouched
  <2>5. \A d \in drawn : d.sound => {buf[p] : p \in LeftSpan(d)} = d.left
    BY <2>2 DEF DrawsStand, DrawOK
  <2>6. ASSUME ShuffleEnded, Records > 0 PROVE Cardinality(drawn) = Records - 1
    <3>1. outcome = "running" /\ \A t \in Team : stacks[t] = << >>
      BY <2>2, <2>6 DEF ShuffleEnded
    <3>2. \A t \in Team : \A k, f : ~ At(t, k, f)
      BY <3>1 DEF At
    <3>3. \A b \in 1 .. Records - 1 : \E d \in drawn : Cut(d) = b
      BY <2>2, <3>1, <3>2 DEF AllCut, StillCut
    <3>4. QED BY <2>2, <2>6, <3>3, DrawsCounted
  <2>7. QED BY <2>3, <2>4, <2>5, <2>6 DEF DrawsDecideOrder
<1>2. QED BY <1>1, ShuffleInvariant, PTL

-----------------------------------------------------------------------------
(* The order-preserving compaction by itself.                               *)

LEMMA HopSolved ==
  \E f \in [Nat -> Nat] : \A e \in Nat : f[e] = IF e = 0 THEN 1 ELSE 2 * f[e - 1]
<1> DEFINE H == [e \in Nat |-> [g \in [Nat -> Nat] |-> IF e = 0 THEN 1 ELSE 2 * g[e - 1]]]
           mu == [e \in Nat |-> e]
<1>1. mu \in [Nat -> Nat]
  OBVIOUS
<1>2. H \in [Nat -> [[Nat -> Nat] -> Nat]]
  <2>1. ASSUME NEW e \in Nat, NEW g \in [Nat -> Nat]
        PROVE  (IF e = 0 THEN 1 ELSE 2 * g[e - 1]) \in Nat
    <3>1. CASE e = 0
      BY <3>1
    <3>2. CASE e # 0
      <4>1. e - 1 \in Nat
        BY <3>2
      <4>2. g[e - 1] \in Nat
        BY <4>1
      <4>3. QED BY <3>2, <4>2
    <3>3. QED BY <3>1, <3>2
  <2>2. QED BY <2>1
<1>3. Descends(H, Nat, Nat, mu)
  <2>1. ASSUME NEW e \in Nat, NEW g \in [Nat -> Nat], NEW h \in [Nat -> Nat],
               AgreeBelow(g, h, Nat, mu, mu[e])
        PROVE  H[e][g] = H[e][h]
    <3>1. CASE e = 0
      BY <3>1
    <3>2. CASE e # 0
      <4>1. e - 1 \in Nat /\ e - 1 < e
        BY <3>2
      <4>2. g[e - 1] = h[e - 1]
        BY <2>1, <4>1 DEF AgreeBelow
      <4>3. QED BY <3>2, <4>2
    <3>3. QED BY <3>1, <3>2
  <2>2. QED BY <2>1 DEF Descends
<1>4. \E f \in [Nat -> Nat] : \A e \in Nat : f[e] = H[e][f]
  <2> HIDE DEF H, mu
  <2>1. Recursion(H, Nat, Nat, mu)
    BY <1>1, <1>2, <1>3 DEF Recursion
  <2>2. QED BY <2>1, RecursionSolved
<1>5. QED BY <1>4

LEMMA HopDoubles ==
  ASSUME NEW e \in Nat
  PROVE  Hop[0] = 1 /\ Hop[e + 1] = 2 * Hop[e]
<1>1. PICK f \in [Nat -> Nat] : \A k \in Nat : f[k] = IF k = 0 THEN 1 ELSE 2 * f[k - 1]
  BY HopSolved
<1>2. f = [k \in Nat |-> IF k = 0 THEN 1 ELSE 2 * f[k - 1]]
  BY <1>1
<1>3. Hop = [k \in Nat |-> IF k = 0 THEN 1 ELSE 2 * Hop[k - 1]]
  BY <1>2 DEF Hop
<1>4. e + 1 \in Nat /\ e + 1 # 0 /\ (e + 1) - 1 = e
  OBVIOUS
<1>5. Hop[e + 1] = 2 * Hop[e]
  BY <1>3, <1>4
<1>6. Hop[0] = 1
  BY <1>3
<1>7. QED BY <1>5, <1>6

\* 2^e is above e.
LEMMA HopFits ==
  ASSUME NEW e \in Nat
  PROVE  Hop[e] \in Nat /\ Hop[e] >= 1 /\ Hop[e] > e
<1> DEFINE bad == {k \in Nat : ~ (Hop[k] \in Nat /\ Hop[k] > k)}
<1>1. bad = {}
  <2>1. SUFFICES ASSUME bad # {} PROVE FALSE
    OBVIOUS
  <2>2. PICK k \in bad : \A j \in bad : k <= j
    <3>1. bad \subseteq Nat
      OBVIOUS
    <3>2. QED
      <4> HIDE DEF bad
      <4>1. QED BY <2>1, <3>1, LeastNumber
  <2>3. k # 0
    BY <2>2, HopDoubles
  <2>4. PICK j \in Nat : k = j + 1 /\ j < k
    <3>1. k - 1 \in Nat /\ k = (k - 1) + 1 /\ k - 1 < k
      BY <2>2, <2>3
    <3>2. QED BY <3>1
  <2>5. Hop[j] \in Nat /\ Hop[j] > j
    BY <2>2, <2>4
  <2>6. Hop[k] = 2 * Hop[j]
    BY <2>4, HopDoubles
  <2>7. QED BY <2>2, <2>4, <2>5, <2>6
<1>2. Hop[e] \in Nat /\ Hop[e] > e
  BY <1>1
<1>3. QED BY <1>2

LEMMA LogFits ==
  ASSUME NEW n \in Nat
  PROVE  calculatelog2(n) \in Nat /\ n <= Hop[calculatelog2(n)]
<1> DEFINE enough == {e \in Nat : n <= Hop[e]}
<1>1. PICK e \in enough : \A d \in enough : e <= d
  <2>1. enough \subseteq Nat /\ n \in enough
    BY HopFits
  <2>2. QED
    <3> HIDE DEF enough
    <3>1. QED BY <2>1, LeastNumber
<1>2. e \in Nat /\ n <= Hop[e]
  BY <1>1
<1>3. e <= n
  BY <1>1, HopFits
<1>4. ASSUME NEW d \in 0 .. e - 1 PROVE Hop[d] < n
  <2>1. d \in Nat /\ ~ (e <= d)
    BY <1>2
  <2>2. d \notin enough
    BY <1>1, <2>1
  <2>3. QED BY <2>1, <2>2, HopFits
<1>5. \E k \in 0 .. n : n <= Hop[k] /\ \A d \in 0 .. k - 1 : Hop[d] < n
  BY <1>2, <1>3, <1>4
<1>6. calculatelog2(n) \in 0 .. n /\ n <= Hop[calculatelog2(n)]
  <2> DEFINE P(k) == n <= Hop[k] /\ \A d \in 0 .. k - 1 : Hop[d] < n
  <2>1. \E k \in 0 .. n : P(k)
    BY <1>5
  <2>2. calculatelog2(n) = CHOOSE k \in 0 .. n : P(k)
    BY DEF calculatelog2
  <2>3. calculatelog2(n) \in 0 .. n /\ P(calculatelog2(n))
    <3> HIDE DEF P
    <3>1. QED BY <2>1, <2>2
  <2>4. QED BY <2>3
<1>7. QED BY <1>6

\* Multiples, whose quotients are kept out of sight.
Multiple(d, m) == \E k \in Nat : d = k * m

LEMMA MultipleOver ==
  ASSUME NEW k \in Nat, NEW m \in Nat, m # 0
  PROVE  (k * m) \div m = k
OBVIOUS

LEMMA Parity ==
  ASSUME NEW k \in Nat
  PROVE  \E j \in Nat : (k = 2 * j /\ k % 2 = 0) \/ (k = 2 * j + 1 /\ k % 2 = 1)
<1>1. PICK j \in Nat : k = 2 * j \/ k = 2 * j + 1
  <2>1. k \div 2 \in Nat /\ (k = 2 * (k \div 2) \/ k = 2 * (k \div 2) + 1)
    OBVIOUS
  <2>2. QED BY <2>1
<1>2. k = 2 * j => k % 2 = 0
  OBVIOUS
<1>3. k = 2 * j + 1 => k % 2 = 1
  OBVIOUS
<1>4. QED BY <1>1, <1>2, <1>3

LEMMA MultipleBit ==
  ASSUME NEW m \in Nat, m >= 1, NEW d \in Nat, Multiple(d, m),
         NEW bit, bit = ((d \div m) % 2) * m
  PROVE  \/ bit = 0 /\ Multiple(d, 2 * m)
         \/ bit = m /\ d - m \in Nat /\ Multiple(d - m, 2 * m)
<1>1. PICK k \in Nat : d = k * m
  BY DEF Multiple
<1>2. d \div m = k
  <2>1. (k * m) \div m = k
    BY MultipleOver
  <2>2. QED BY <1>1, <2>1
<1>3. PICK j \in Nat : (k = 2 * j /\ k % 2 = 0) \/ (k = 2 * j + 1 /\ k % 2 = 1)
  BY Parity
<1>4. CASE k = 2 * j /\ k % 2 = 0
  <2>1. bit = 0
    BY <1>2, <1>4
  <2>2. (2 * j) * m = j * (2 * m)
    OBVIOUS
  <2>3. QED BY <1>1, <1>4, <2>1, <2>2 DEF Multiple
<1>5. CASE k = 2 * j + 1 /\ k % 2 = 1
  <2>1. bit = m
    BY <1>2, <1>5
  <2>2. (2 * j + 1) * m = j * (2 * m) + m /\ j * (2 * m) \in Nat
    OBVIOUS
  <2>3. d - m = j * (2 * m)
    BY <1>1, <1>5, <2>2
  <2>4. QED BY <2>1, <2>2, <2>3 DEF Multiple
<1>6. QED BY <1>3, <1>4, <1>5

LEMMA MultipleBelow ==
  ASSUME NEW m \in Nat, m >= 1, NEW d \in Nat, Multiple(d, m), d < m
  PROVE  d = 0
<1>1. PICK k \in Nat : d = k * m
  BY DEF Multiple
<1>2. CASE k = 0
  BY <1>1, <1>2
<1>3. CASE k # 0
  <2>1. PICK j \in Nat : k = j + 1
    <3>1. k - 1 \in Nat /\ k = (k - 1) + 1
      BY <1>3
    <3>2. QED BY <3>1
  <2>2. (j + 1) * m = j * m + m /\ j * m \in Nat
    OBVIOUS
  <2>3. QED BY <1>1, <2>1, <2>2
<1>4. QED BY <1>2, <1>3

LEMMA MultiplesApart ==
  ASSUME NEW m \in Nat, m >= 1, NEW a \in Nat, NEW b \in Nat, Multiple(a, m), Multiple(b, m), a < b
  PROVE  b - a >= m
<1>1. PICK k \in Nat, j \in Nat : a = k * m /\ b = j * m
  BY DEF Multiple
<1>2. CASE k >= j
  <2>1. PICK h \in Nat : k = j + h
    <3>1. k - j \in Nat /\ k = j + (k - j)
      BY <1>2
    <3>2. QED BY <3>1
  <2>2. (j + h) * m = j * m + h * m /\ h * m \in Nat /\ j * m \in Nat
    OBVIOUS
  <2>3. QED BY <1>1, <2>1, <2>2
<1>3. CASE ~ (k >= j)
  <2>1. PICK h \in Nat : j = k + h + 1
    <3>1. j - k - 1 \in Nat /\ j = k + (j - k - 1) + 1
      BY <1>3
    <3>2. QED BY <3>1
  <2>2. (k + h + 1) * m = k * m + h * m + m /\ h * m \in Nat /\ k * m \in Nat
    OBVIOUS
  <2>3. QED BY <1>1, <2>1, <2>2
<1>4. QED BY <1>2, <1>3

\* Selected records keep their order, and come no further apart.
LEMMA GoalsApart ==
  ASSUME NEW x \in Nat, NEW y \in Nat, x \in selected, x < y
  PROVE  /\ Goal(x) \in Nat /\ Goal(y) \in Nat
         /\ Goal(x) < Goal(y) /\ Goal(y) - Goal(x) <= y - x
<1>1. /\ Goal(x) \in Nat /\ Goal(y) \in Nat /\ Selected(x, y - x) \in Nat
      /\ Selected(x, y - x) <= y - x /\ Goal(y) = Goal(x) + Selected(x, y - x)
  <2>1. x \in 0 .. y /\ 0 \in Nat /\ 0 + x = x
    OBVIOUS
  <2>2. /\ Selected(0, y) \in 0 .. y /\ Selected(0, x) \in 0 .. x
        /\ Selected(0 + x, y - x) \in 0 .. y - x
        /\ Selected(0, y) = Selected(0, x) + Selected(0 + x, y - x)
    BY <2>1, SelectedIs
  <2>3. QED BY <2>1, <2>2 DEF Goal
<1>2. Selected(x, y - x) >= 1
  <2>1. y - x \in Nat /\ 1 \in 0 .. y - x
    OBVIOUS
  <2>2. /\ Selected(x, 1) \in 0 .. 1 /\ Selected(x + 1, (y - x) - 1) \in 0 .. (y - x) - 1
        /\ Selected(x, y - x) = Selected(x, 1) + Selected(x + 1, (y - x) - 1)
    BY <2>1, SelectedIs
  <2>3. Selected(x, 1) = 1
    <3>1. selected \cap (x .. x + 1 - 1) = {x}
      OBVIOUS
    <3>2. QED BY <3>1, FS_Singleton DEF Selected
  <2>4. QED BY <2>2, <2>3
<1>3. QED BY <1>1, <1>2

-----------------------------------------------------------------------------
(* The records on their way, in arrays b and d of records and distances;    *)
(* m is the distance of the level's comparators.                            *)

\* The record at p has come by less than m, and what it still has to go is left to
\* the levels from m on.
Way(b, d, p, m) ==
  IF b[p] \in selected
  THEN /\ d[p] <= p /\ p - d[p] = Goal(b[p]) /\ Multiple(d[p], m)
       /\ p <= b[p] /\ b[p] < p + m
  ELSE d[p] = 0

\* Before pair i, the records below i + m have the level behind them.
Stride(i, m, p) == IF p < i + m THEN 2 * m ELSE m

AllOnWay(b, d, n, i, m) == \A p \in 0 .. n - 1 : Way(b, d, p, Stride(i, m, p))

Distinct(b, n) == \A p, q \in 0 .. n - 1 : b[p] = b[q] => p = q

Shape(b, d, n) ==
  /\ b \in [0 .. n - 1 -> 0 .. n - 1] /\ d \in [0 .. n - 1 -> Nat]
  /\ selected \subseteq 0 .. n - 1 /\ Distinct(b, n)

\* Of two records that a pair would swap, one is not selected.
LEMMA NoConflict ==
  ASSUME NEW n \in Nat, NEW b, NEW d, Shape(b, d, n), NEW m \in Nat, m >= 1,
         NEW i \in Nat, i + m < n,
         Way(b, d, i, 2 * m), Way(b, d, i + m, m),
         b[i + m] \in selected, d[i + m] - m \in Nat, Multiple(d[i + m] - m, 2 * m)
  PROVE  b[i] \notin selected
<1>1. SUFFICES ASSUME b[i] \in selected PROVE FALSE
  OBVIOUS
<1>2. i \in 0 .. n - 1 /\ i + m \in 0 .. n - 1 /\ i # i + m
  OBVIOUS
<1>3. PICK x \in Nat, y \in Nat, s \in Nat, t \in Nat : x = b[i + m] /\ y = b[i] /\ s = d[i + m] - m /\ t = d[i]
  <2>1. b[i + m] \in 0 .. n - 1 /\ b[i] \in 0 .. n - 1 /\ d[i] \in Nat
    BY <1>2 DEF Shape
  <2>2. b[i + m] \in Nat /\ b[i] \in Nat
    BY <2>1
  <2>3. QED BY <2>1, <2>2
<1>4. d[i + m] = s + m
  <2>1. d[i + m] \in Nat
    BY <1>2 DEF Shape
  <2>2. QED BY <1>3, <2>1
<1>5. /\ x # y /\ x \in selected /\ y \in selected
      /\ (i + m) - (s + m) = Goal(x) /\ i + m <= x /\ x < (i + m) + m
      /\ i - t = Goal(y) /\ i <= y /\ y < i + 2 * m
      /\ Multiple(s, 2 * m) /\ Multiple(t, 2 * m)
  <2>1. x # y
    BY <1>2, <1>3 DEF Shape, Distinct
  <2>2. QED BY <1>1, <1>3, <1>4, <2>1 DEF Way
<1>6. Goal(x) = i - s
  BY <1>5
<1>7. 2 * m \in Nat /\ 2 * m >= 1
  OBVIOUS
<1>8. CASE x < y
  <2>1. Goal(x) \in Nat /\ Goal(y) \in Nat /\ Goal(x) < Goal(y) /\ Goal(y) - Goal(x) <= y - x
    BY <1>5, <1>8, GoalsApart
  <2>2. t < s /\ s - t <= y - x
    BY <1>5, <1>6, <2>1
  <2>3. s - t >= 2 * m
    BY <1>5, <1>7, <2>2, MultiplesApart
  <2>4. QED BY <1>5, <2>2, <2>3
<1>9. CASE y < x
  <2>1. Goal(x) \in Nat /\ Goal(y) \in Nat /\ Goal(y) < Goal(x) /\ Goal(x) - Goal(y) <= x - y
    BY <1>5, <1>9, GoalsApart
  <2>2. s < t /\ t - s <= x - y
    BY <1>5, <1>6, <2>1
  <2>3. t - s >= 2 * m
    BY <1>5, <1>7, <2>2, MultiplesApart
  <2>4. QED BY <1>5, <2>2, <2>3
<1>10. QED BY <1>5, <1>8, <1>9

\* What one pair of process_TCN makes of b and d.
Swapped(b, d, i, m, b1, d1) ==
  LET bit == ((d[i + m] \div m) % 2) * m
  IN IF bit > 0
     THEN /\ b1 = [b EXCEPT ![i] = b[i + m], ![i + m] = b[i]]
          /\ d1 = [d EXCEPT ![i] = d[i + m] - bit, ![i + m] = 0]
     ELSE b1 = b /\ d1 = d

LEMMA OswapKeeps ==
  ASSUME NEW n \in Nat, NEW b, NEW d, Shape(b, d, n), NEW m \in Nat, m >= 1,
         NEW i \in Nat, i + m < n, AllOnWay(b, d, n, i, m),
         NEW b1, NEW d1, Swapped(b, d, i, m, b1, d1)
  PROVE  Shape(b1, d1, n) /\ AllOnWay(b1, d1, n, i + 1, m)
<1>1. i \in 0 .. n - 1 /\ i + m \in 0 .. n - 1 /\ i # i + m
  OBVIOUS
<1>2. Way(b, d, i, 2 * m) /\ Way(b, d, i + m, m)
  <2>1. Stride(i, m, i) = 2 * m /\ Stride(i, m, i + m) = m
    BY DEF Stride
  <2>2. QED BY <1>1, <2>1 DEF AllOnWay
<1>3. PICK bit : bit = ((d[i + m] \div m) % 2) * m
  OBVIOUS
<1>4. d[i + m] \in Nat /\ b[i] \in 0 .. n - 1 /\ b[i + m] \in 0 .. n - 1
  BY <1>1 DEF Shape
<1>5. ASSUME NEW p \in 0 .. n - 1, p # i + m PROVE Way(b, d, p, Stride(i + 1, m, p))
  <2>1. Stride(i + 1, m, p) = Stride(i, m, p)
    BY <1>5 DEF Stride
  <2>2. QED BY <2>1 DEF AllOnWay
<1>6. Stride(i + 1, m, i + m) = 2 * m /\ Stride(i + 1, m, i) = 2 * m
  BY DEF Stride
<1>7. Multiple(d[i + m], m)
  <2>1. CASE b[i + m] \in selected
    BY <1>2, <2>1 DEF Way
  <2>2. CASE b[i + m] \notin selected
    <3>1. d[i + m] = 0
      BY <1>2, <2>2 DEF Way
    <3>2. 0 = 0 * m
      OBVIOUS
    <3>3. QED BY <3>1, <3>2 DEF Multiple
  <2>3. QED BY <2>1, <2>2
<1>8. \/ bit = 0 /\ Multiple(d[i + m], 2 * m)
      \/ bit = m /\ d[i + m] - m \in Nat /\ Multiple(d[i + m] - m, 2 * m)
  BY <1>3, <1>4, <1>7, MultipleBit
<1>9. CASE bit = 0 /\ Multiple(d[i + m], 2 * m)
  <2>1. b1 = b /\ d1 = d
    BY <1>3, <1>9 DEF Swapped
  <2>2. Way(b, d, i + m, 2 * m)
    BY <1>2, <1>4, <1>9 DEF Way
  <2>3. AllOnWay(b, d, n, i + 1, m)
    BY <1>5, <1>6, <2>2 DEF AllOnWay
  <2>4. QED BY <2>1, <2>3
<1>10. CASE bit = m /\ d[i + m] - m \in Nat /\ Multiple(d[i + m] - m, 2 * m)
  <2>1. /\ b1 = [b EXCEPT ![i] = b[i + m], ![i + m] = b[i]]
        /\ d1 = [d EXCEPT ![i] = d[i + m] - m, ![i + m] = 0]
    BY <1>3, <1>10 DEF Swapped
  <2>2. b[i + m] \in selected
    <3>1. d[i + m] # 0
      BY <1>4, <1>10
    <3>2. QED BY <1>2, <3>1 DEF Way
  <2>3. b[i] \notin selected
    BY <1>2, <1>10, <2>2, NoConflict
  <2>4. /\ b1[i] = b[i + m] /\ b1[i + m] = b[i] /\ d1[i] = d[i + m] - m /\ d1[i + m] = 0
        /\ \A p \in 0 .. n - 1 : p # i /\ p # i + m => b1[p] = b[p] /\ d1[p] = d[p]
    BY <1>1, <2>1 DEF Shape
  <2>5. Shape(b1, d1, n)
    <3>1. b1 \in [0 .. n - 1 -> 0 .. n - 1] /\ d1 \in [0 .. n - 1 -> Nat]
      BY <1>1, <1>4, <1>10, <2>1 DEF Shape
    <3>2. Distinct(b1, n)
      <4> DEFINE source(p) == IF p = i THEN i + m ELSE IF p = i + m THEN i ELSE p
      <4>1. \A p \in 0 .. n - 1 : source(p) \in 0 .. n - 1 /\ b1[p] = b[source(p)]
        BY <1>1, <2>4
      <4>2. \A p, q \in 0 .. n - 1 : source(p) = source(q) => p = q
        BY <1>1
      <4>3. \A p, q \in 0 .. n - 1 : b[p] = b[q] => p = q
        BY DEF Shape, Distinct
      <4>4. QED
        <5> HIDE DEF source
        <5>1. QED BY <4>1, <4>2, <4>3 DEF Distinct
    <3>3. QED BY <3>1, <3>2 DEF Shape
  <2>6. Way(b1, d1, i, 2 * m)
    <3>1. /\ d[i + m] <= i + m /\ (i + m) - d[i + m] = Goal(b[i + m])
          /\ i + m <= b[i + m] /\ b[i + m] < (i + m) + m
      BY <1>2, <2>2 DEF Way
    <3>2. /\ d[i + m] - m <= i /\ i - (d[i + m] - m) = Goal(b[i + m])
          /\ i <= b[i + m] /\ b[i + m] < i + 2 * m
      BY <1>4, <3>1
    <3>3. QED BY <1>10, <2>2, <2>4, <3>2 DEF Way
  <2>7. Way(b1, d1, i + m, 2 * m)
    BY <2>3, <2>4 DEF Way
  <2>8. ASSUME NEW p \in 0 .. n - 1, p # i, p # i + m PROVE Way(b1, d1, p, Stride(i + 1, m, p))
    <3>1. Way(b, d, p, Stride(i + 1, m, p)) /\ b1[p] = b[p] /\ d1[p] = d[p]
      BY <1>5, <2>4, <2>8
    <3>2. QED BY <3>1 DEF Way
  <2>9. AllOnWay(b1, d1, n, i + 1, m)
    BY <1>6, <2>6, <2>7, <2>8 DEF AllOnWay
  <2>10. QED BY <2>5, <2>9
<1>11. QED BY <1>8, <1>9, <1>10

\* With the last pair the level is done: a record that no pair of the next has
\* second is below its comparators, and has nowhere to go.
LEMMA LevelKeeps ==
  ASSUME NEW n \in Nat, NEW b, NEW d, Shape(b, d, n), NEW m \in Nat, m >= 1,
         NEW i \in Nat, i + m >= n, AllOnWay(b, d, n, i, m)
  PROVE  AllOnWay(b, d, n, 0, 2 * m)
<1>1. ASSUME NEW p \in 0 .. n - 1 PROVE Way(b, d, p, Stride(0, 2 * m, p))
  <2>1. Way(b, d, p, 2 * m)
    <3>1. Stride(i, m, p) = 2 * m
      BY DEF Stride
    <3>2. QED BY <3>1 DEF AllOnWay
  <2>2. CASE p < 2 * m
    <3>1. Stride(0, 2 * m, p) = 2 * (2 * m)
      BY <2>2 DEF Stride
    <3>2. CASE b[p] \in selected
      <4>1. /\ d[p] <= p /\ p - d[p] = Goal(b[p]) /\ Multiple(d[p], 2 * m)
            /\ p <= b[p] /\ b[p] < p + 2 * m /\ d[p] \in Nat /\ b[p] \in 0 .. n - 1
        BY <2>1, <3>2 DEF Way, Shape
      <4>2. d[p] = 0
        <5>1. d[p] < 2 * m /\ 2 * m \in Nat /\ 2 * m >= 1
          BY <2>2, <4>1
        <5>2. QED BY <4>1, <5>1, MultipleBelow
      <4>3. Multiple(d[p], 2 * (2 * m))
        <5>1. 0 = 0 * (2 * (2 * m))
          OBVIOUS
        <5>2. QED BY <4>2, <5>1 DEF Multiple
      <4>4. b[p] < p + 2 * (2 * m)
        BY <4>1
      <4>5. QED BY <3>1, <3>2, <4>1, <4>3, <4>4 DEF Way
    <3>3. CASE b[p] \notin selected
      BY <2>1, <3>3 DEF Way
    <3>4. QED BY <3>2, <3>3
  <2>3. CASE ~ (p < 2 * m)
    <3>1. Stride(0, 2 * m, p) = 2 * m
      BY <2>3 DEF Stride
    <3>2. QED BY <2>1, <3>1
  <2>4. QED BY <2>2, <2>3
<1>2. QED BY <1>1 DEF AllOnWay

\* A level whose comparators reach across the array has nothing left to do.
LEMMA WayEnds ==
  ASSUME NEW n \in Nat, NEW b, NEW d, Shape(b, d, n), NEW m \in Nat, m >= n, m >= 1,
         NEW i \in Nat, AllOnWay(b, d, n, i, m), NEW p \in 0 .. n - 1, b[p] \in selected
  PROVE  p = Goal(b[p])
<1>1. Stride(i, m, p) = 2 * m
  BY DEF Stride
<1>2. d[p] <= p /\ p - d[p] = Goal(b[p]) /\ Multiple(d[p], 2 * m) /\ d[p] \in Nat
  BY <1>1 DEF AllOnWay, Way, Shape
<1>3. d[p] = 0
  <2>1. d[p] < 2 * m /\ 2 * m \in Nat /\ 2 * m >= 1
    BY <1>2
  <2>2. QED BY <1>2, <2>1, MultipleBelow
<1>4. QED BY <1>2, <1>3

-----------------------------------------------------------------------------
(* The network as a whole.                                                  *)

\* The records, the comparators' reach and every record on its way.
OrderInv ==
  \E n \in Nat :
    /\ n = N /\ Shape(buf, LS_distance, n) /\ level \in Nat /\ fop_index \in Nat
    /\ AllOnWay(buf, LS_distance, n, fop_index, Hop[level])

LEMMA Counted ==
  ASSUME NEW n \in Nat
  PROVE  Cardinality(0 .. n - 1) = n /\ IsFiniteSet(0 .. n - 1)
<1>1. 0 \in Int /\ n - 1 \in Int /\ (IF 0 > n - 1 THEN 0 ELSE (n - 1) - 0 + 1) = n
  OBVIOUS
<1>2. QED BY <1>1, FS_Interval

LEMMA ShapeCounts ==
  ASSUME NEW n \in Nat, NEW b, NEW d, Shape(b, d, n)
  PROVE  DOMAIN b = 0 .. n - 1 /\ Cardinality(DOMAIN b) = n
BY Counted DEF Shape

\* The definitions of OrderCompact, at the next state.
LEMMA WayStays ==
  ASSUME UNCHANGED selected, NEW b, NEW d, NEW n, NEW i, NEW m
  PROVE  /\ Shape(b, d, n)' <=> Shape(b, d, n)
         /\ AllOnWay(b, d, n, i, m)' <=> AllOnWay(b, d, n, i, m)
BY DEF Shape, AllOnWay, Way, Distinct, Stride, Goal, Selected, Multiple

LEMMA OrderInvInit ==
  ASSUME Garbage = {0}, OrderInit
  PROVE  OrderInv
<1>1. PICK n \in MinN .. MaxN : \E garbage \in [0 .. n - 1 -> Garbage] :
        /\ selected \in SUBSET (0 .. n - 1)
        /\ buf = [p \in 0 .. n - 1 |-> p]
        /\ LS_distance = [k \in 0 .. n - 1 |-> IF k \in selected THEN k - Selected(0, k)
                                               ELSE garbage[k]]
  BY DEF OrderInit
<1>2. PICK garbage \in [0 .. n - 1 -> Garbage] :
        /\ selected \in SUBSET (0 .. n - 1)
        /\ buf = [p \in 0 .. n - 1 |-> p]
        /\ LS_distance = [k \in 0 .. n - 1 |-> IF k \in selected THEN k - Selected(0, k)
                                               ELSE garbage[k]]
  BY <1>1
<1>3. n \in Nat /\ level = 0 /\ fop_index = 0 /\ Hop[0] = 1
  BY CompactAssumption, HopDoubles DEF OrderInit
<1>4. ASSUME NEW p \in 0 .. n - 1
      PROVE  /\ Selected(0, p) \in 0 .. p
             /\ LS_distance[p] = IF p \in selected THEN p - Selected(0, p) ELSE 0
             /\ LS_distance[p] \in Nat
  <2>1. p \in 0 .. p /\ p \in Nat /\ 0 \in Nat
    OBVIOUS
  <2>2. Selected(0, p) \in 0 .. p
    BY <2>1, SelectedIs
  <2>3. garbage[p] = 0
    OBVIOUS
  <2>4. LS_distance[p] = IF p \in selected THEN p - Selected(0, p) ELSE 0
    BY <1>2, <2>3
  <2>5. QED BY <2>2, <2>4
<1>5. Shape(buf, LS_distance, n)
  <2>1. LS_distance \in [0 .. n - 1 -> Nat]
    BY <1>2, <1>4
  <2>2. QED BY <1>2, <2>1 DEF Shape, Distinct
<1>6. ASSUME NEW p \in 0 .. n - 1 PROVE Way(buf, LS_distance, p, Stride(0, 1, p))
  <2>1. buf[p] = p
    BY <1>2
  <2>2. CASE p \in selected
    <3>1. /\ LS_distance[p] <= p /\ p - LS_distance[p] = Goal(p) /\ LS_distance[p] \in Nat
      BY <1>4, <2>2 DEF Goal
    <3>2. Multiple(LS_distance[p], Stride(0, 1, p))
      <4>1. CASE p < 1
        <5>1. LS_distance[p] = 0 * Stride(0, 1, p)
          BY <3>1, <4>1 DEF Stride
        <5>2. QED BY <5>1 DEF Multiple
      <4>2. CASE ~ (p < 1)
        <5>1. LS_distance[p] = LS_distance[p] * Stride(0, 1, p)
          BY <3>1, <4>2 DEF Stride
        <5>2. QED BY <3>1, <5>1 DEF Multiple
      <4>3. QED BY <4>1, <4>2
    <3>3. p <= p /\ p < p + Stride(0, 1, p)
      BY DEF Stride
    <3>4. QED BY <2>1, <2>2, <3>1, <3>2, <3>3 DEF Way
  <2>3. CASE p \notin selected
    BY <1>4, <2>1, <2>3 DEF Way
  <2>4. QED BY <2>2, <2>3
<1>7. AllOnWay(buf, LS_distance, n, fop_index, Hop[level])
  BY <1>3, <1>6 DEF AllOnWay
<1>8. n = N
  BY <1>3, <1>5, ShapeCounts DEF N
<1>9. QED BY <1>3, <1>5, <1>7, <1>8 DEF OrderInv

LEMMA OrderInvNext ==
  ASSUME OrderInv, [OrderNext]_order_vars
  PROVE  OrderInv'
<1>1. PICK n \in Nat :
        /\ n = N /\ Shape(buf, LS_distance, n) /\ level \in Nat /\ fop_index \in Nat
        /\ AllOnWay(buf, LS_distance, n, fop_index, Hop[level])
  BY DEF OrderInv
<1>2. PICK m \in Nat, i \in Nat : m = Hop[level] /\ i = fop_index /\ m >= 1
  BY <1>1, HopFits
<1>3. ASSUME NEW b, NEW d, b = buf', d = LS_distance', UNCHANGED selected,
             Shape(b, d, n), level' \in Nat, fop_index' \in Nat,
             AllOnWay(b, d, n, fop_index', Hop[level'])
      PROVE  OrderInv'
  <2>1. PICK k \in Nat, j \in Nat : k = level' /\ j = fop_index'
    BY <1>3
  <2>2. Shape(b, d, n)' /\ AllOnWay(b, d, n, j, Hop[k])'
    <3>1. PICK h : h = Hop[k]
      OBVIOUS
    <3>2. Hop[k]' = Hop[k]
      BY DEF Hop
    <3>3. AllOnWay(b, d, n, j, h)'
      BY <1>3, <2>1, <3>1, WayStays
    <3>4. Shape(b, d, n)'
      BY <1>3, WayStays
    <3>5. QED BY <3>1, <3>3, <3>4
  <2>3. DOMAIN b = 0 .. n - 1 /\ Cardinality(DOMAIN b) = n
    BY <1>3, ShapeCounts
  <2>4. N' = n
    BY <1>3, <2>3 DEF N
  <2>5. QED BY <1>3, <2>1, <2>2, <2>4 DEF OrderInv
<1>4. CASE Oswap
  <2>1. /\ fop_index < num_oswaps /\ fop_index' = fop_index + 1 /\ UNCHANGED <<level, selected>>
        /\ Swapped(buf, LS_distance, i, m, buf', LS_distance')
    BY <1>2, <1>4 DEF Oswap, Swapped, MoveDist
  <2>2. i + m < n
    BY <1>1, <1>2, <2>1 DEF num_oswaps
  <2>3. PICK b, d : b = buf' /\ d = LS_distance'
    OBVIOUS
  <2>4. Shape(b, d, n) /\ AllOnWay(b, d, n, i + 1, m)
    BY <1>1, <1>2, <2>1, <2>2, <2>3, OswapKeeps
  <2>5. QED BY <1>1, <1>2, <1>3, <2>1, <2>3, <2>4
<1>5. CASE NextLevel
  <2>1. fop_index >= num_oswaps /\ fop_index' = 0 /\ level' = level + 1
        /\ UNCHANGED <<selected, buf, LS_distance>>
    BY <1>5 DEF NextLevel, vars
  <2>2. i + m >= n
    BY <1>1, <1>2, <2>1 DEF num_oswaps
  <2>3. AllOnWay(buf, LS_distance, n, 0, 2 * m)
    BY <1>1, <1>2, <2>2, LevelKeeps
  <2>4. Hop[level'] = 2 * m
    BY <1>1, <1>2, <2>1, HopDoubles
  <2>5. PICK b, d : b = buf /\ d = LS_distance
    OBVIOUS
  <2>6. Shape(b, d, n) /\ AllOnWay(b, d, n, 0, 2 * m)
    BY <1>1, <2>3, <2>5
  <2>7. QED BY <1>1, <1>3, <2>1, <2>4, <2>5, <2>6
<1>6. CASE UNCHANGED order_vars
  <2>1. UNCHANGED <<selected, buf, LS_distance, level, fop_index>>
    BY <1>6 DEF order_vars, vars, order_own
  <2>2. PICK b, d : b = buf /\ d = LS_distance
    OBVIOUS
  <2>3. Shape(b, d, n) /\ AllOnWay(b, d, n, i, m)
    BY <1>1, <1>2, <2>2
  <2>4. QED BY <1>1, <1>2, <1>3, <2>1, <2>2, <2>3
<1>7. QED BY <1>4, <1>5, <1>6 DEF OrderNext

\* Over a cleared array, every record of the order-preserving network is at every
\* moment at the place to which the bits of its distance so far have taken it, and
\* two selected ones never meet (TightCompaction_v2.tcc:429-462).
THEOREM OrderInvariant ==
  ASSUME Garbage = {0}
  PROVE  OrderSpec => []OrderInv
<1>1. OrderInit => OrderInv
  BY OrderInvInit
<1>2. OrderInv /\ [OrderNext]_order_vars => OrderInv'
  BY OrderInvNext
<1>3. QED BY <1>1, <1>2, PTL DEF OrderSpec

\* The network ends with all records, the selected ones in front and in their order, if
\* the array of distances is cleared, however many records there are and whichever are
\* selected (TightCompaction_v2.tcc:467-484).
THEOREM RealBlocksInOrderHolds ==
  ASSUME Garbage = {0}
  PROVE  OrderSpec => []RealBlocksInOrder
<1>1. OrderInv => RealBlocksInOrder
  <2> SUFFICES ASSUME OrderInv PROVE RealBlocksInOrder
    OBVIOUS
  <2>1. PICK n \in Nat :
          /\ n = N /\ Shape(buf, LS_distance, n) /\ level \in Nat /\ fop_index \in Nat
          /\ AllOnWay(buf, LS_distance, n, fop_index, Hop[level])
    BY DEF OrderInv
  <2>2. SUFFICES ASSUME level = calculatelog2(N)
                 PROVE  /\ {buf[p] : p \in DOMAIN buf} = DOMAIN buf
                        /\ \A p \in DOMAIN buf : buf[p] \in selected => p = Goal(buf[p])
    BY DEF RealBlocksInOrder
  <2>3. DOMAIN buf = 0 .. n - 1
    BY <2>1, ShapeCounts
  <2>4. PICK m \in Nat : m = Hop[level] /\ m >= n /\ m >= 1
    BY <2>1, <2>2, LogFits, HopFits
  <2>5. \A p \in DOMAIN buf : buf[p] \in selected => p = Goal(buf[p])
    BY <2>1, <2>3, <2>4, WayEnds
  <2>6. {buf[p] : p \in DOMAIN buf} = DOMAIN buf
    <3>1. PICK P : P = 0 .. n - 1 /\ IsFiniteSet(P)
      BY Counted
    <3>2. buf \in Injection(P, P)
      BY <2>1, <3>1 DEF Shape, Distinct, Injection, IsInjective
    <3>3. buf \in Surjection(P, P)
      BY <3>1, <3>2, FS_Injection
    <3>4. QED BY <2>3, <3>1, <3>3 DEF Surjection
  <2>7. QED BY <2>5, <2>6
<1>2. QED BY <1>1, OrderInvariant, PTL

=============================================================================
