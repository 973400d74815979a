------------------------------ MODULE SumProofs ------------------------------
(***************************************************************************)
(* What MapThenSumSet computes: the sum of a function over a finite set,   *)
(* in whatever order it takes the elements.  The totals of ForkTree and of *)
(* MemoryTracker are such sums, and FfosRun counts samples by one.  Then   *)
(* the number of controls of a fork, OFRQuota's ControlCount: that the     *)
(* recursive function is defined, and a number.                            *)
(*                                                                         *)
(* A sum's recursion is over the subsets of the set.  Induction is by the  *)
(* least number of a set of counterexamples.                               *)
(***************************************************************************)
EXTENDS OFRQuota, FiniteSetsExt, FiniteSetTheorems, WellFoundedInduction, TLAPS

\* The sum of f over S.
Total(f, S) == MapThenSumSet(LAMBDA x : f[x], S)

\* The element that the recursion takes out of a set.
Chosen(s) == CHOOSE x \in s : TRUE

\* g satisfies the recursion of Total(f, S).
SumOf(g, f, S) ==
  \A s \in SUBSET S : g[s] = IF s = {} THEN 0 ELSE f[Chosen(s)] + g[s \ {Chosen(s)}]

\* The same for the subsets of S of at most n elements.
Sums(g, f, S, n) ==
  \A s \in SUBSET S : Cardinality(s) <= n =>
    g[s] = IF s = {} THEN 0 ELSE f[Chosen(s)] + g[s \ {Chosen(s)}]

\* A set of numbers has a least one.
LEMMA LeastNumber ==
  ASSUME NEW T, T \subseteq Nat, T # {}
  PROVE  \E m \in T : \A k \in T : m <= k
<1>1. PICK m \in T : \A k \in T : ~ (<<k, m>> \in OpToRel(<, Nat))
  BY NatLessThanWellFounded, WFMin
<1>2. \A k \in T : ~ (k < m)
  BY <1>1 DEF OpToRel
<1>3. QED BY <1>2

\* Of finite sets there is a smallest one.
LEMMA SmallestSet ==
  ASSUME NEW B, B # {}, \A s \in B : IsFiniteSet(s)
  PROVE  \E s \in B : \A t \in B : Cardinality(s) <= Cardinality(t)
<1> DEFINE sizes == {Cardinality(s) : s \in B}
<1>1. sizes \subseteq Nat /\ sizes # {}
  BY FS_CardinalityType
<1>2. PICK m \in sizes : \A k \in sizes : m <= k
  <2> HIDE DEF sizes
  <2>1. QED BY <1>1, LeastNumber
<1>3. QED BY <1>2

LEMMA TakeFirst ==
  ASSUME NEW s, IsFiniteSet(s), s # {}
  PROVE  /\ Chosen(s) \in s /\ IsFiniteSet(s \ {Chosen(s)})
         /\ Cardinality(s) \in Nat /\ Cardinality(s \ {Chosen(s)}) = Cardinality(s) - 1
<1>1. Chosen(s) \in s
  BY DEF Chosen
<1>2. QED BY <1>1, FS_RemoveElement, FS_CardinalityType

Solvable(f, S, n) == \E g : g = [s \in SUBSET S |-> g[s]] /\ Sums(g, f, S, n)

\* A function that is right for the smaller sets can be made right for the next size.
LEMMA SumsExtend ==
  ASSUME NEW S, IsFiniteSet(S), NEW f, NEW n \in Nat, n # 0, Solvable(f, S, n - 1)
  PROVE  Solvable(f, S, n)
<1>1. PICK h : Sums(h, f, S, n - 1)
  BY DEF Solvable
<1>2. \A s \in SUBSET S : IsFiniteSet(s) /\ Cardinality(s) \in Nat
  BY FS_Subset, FS_CardinalityType
<1> DEFINE g == [s \in SUBSET S |->
                   IF Cardinality(s) < n THEN h[s] ELSE f[Chosen(s)] + h[s \ {Chosen(s)}]]
<1>3. ASSUME NEW s \in SUBSET S, Cardinality(s) <= n
      PROVE  g[s] = IF s = {} THEN 0 ELSE f[Chosen(s)] + g[s \ {Chosen(s)}]
  <2>1. Cardinality(s) \in Nat /\ (Cardinality(s) < n => Cardinality(s) <= n - 1)
    BY <1>2
  <2>2. Cardinality(s) < n => h[s] = IF s = {} THEN 0 ELSE f[Chosen(s)] + h[s \ {Chosen(s)}]
    BY <1>1, <2>1 DEF Sums
  <2>3. CASE s = {}
    <3>1. Cardinality(s) < n
      BY <2>3, FS_EmptySet
    <3>2. QED BY <2>2, <2>3, <3>1
  <2>4. CASE s # {}
    <3>1. Cardinality(s \ {Chosen(s)}) = Cardinality(s) - 1
      BY <1>2, <2>4, TakeFirst
    <3>2. g[s \ {Chosen(s)}] = h[s \ {Chosen(s)}]
      BY <1>3, <2>1, <3>1
    <3>3. g[s] = f[Chosen(s)] + h[s \ {Chosen(s)}]
      BY <2>2, <2>4
    <3>4. QED BY <2>4, <3>2, <3>3
  <2>5. QED BY <2>3, <2>4
<1>4. g = [s \in SUBSET S |-> g[s]]
  OBVIOUS
<1> HIDE DEF g
<1>5. Sums(g, f, S, n)
  BY <1>3 DEF Sums
<1>6. QED BY <1>4, <1>5 DEF Solvable

\* There is a function that satisfies the recursion.
LEMMA SumsExist ==
  ASSUME NEW S, IsFiniteSet(S), NEW f
  PROVE  \A n \in Nat : Solvable(f, S, n)
<1> DEFINE bad == {n \in Nat : ~ Solvable(f, S, n)}
<1>1. SUFFICES ASSUME bad # {} PROVE FALSE
  OBVIOUS
<1>2. PICK n \in bad : \A k \in bad : n <= k
  BY <1>1, LeastNumber
<1>3. n \in Nat /\ ~ Solvable(f, S, n)
  BY <1>2
<1>4. n = 0
  <2>1. SUFFICES ASSUME n # 0 PROVE FALSE
    OBVIOUS
  <2>2. n - 1 \in Nat /\ n - 1 \notin bad
    BY <1>2, <1>3, <2>1
  <2>3. QED BY <1>3, <2>1, <2>2, SumsExtend
<1>5. Solvable(f, S, 0)
  <2> DEFINE g == [s \in SUBSET S |-> 0]
  <2>1. \A s \in SUBSET S : Cardinality(s) <= 0 => s = {}
    BY FS_Subset, FS_CardinalityType, FS_EmptySet
  <2>2. Sums(g, f, S, 0)
    BY <2>1 DEF Sums
  <2>3. g = [s \in SUBSET S |-> g[s]]
    OBVIOUS
  <2> HIDE DEF g
  <2>4. QED BY <2>2, <2>3 DEF Solvable
<1>6. QED BY <1>3, <1>4, <1>5

\* The recursion of the library's definition.
LEMMA TotalIsSums ==
  ASSUME NEW S, IsFiniteSet(S), NEW f
  PROVE  \E g : Total(f, S) = g[S] /\ SumOf(g, f, S)
<1> DEFINE rec(g) == [s \in SUBSET S |-> IF s = {} THEN 0
                                         ELSE f[Chosen(s)] + g[s \ {Chosen(s)}]]
           iter == CHOOSE g : g = rec(g)
<1>1. Total(f, S) = iter[S]
  BY DEF Total, MapThenSumSet, MapThenFoldSet, Chosen
<1>2. \E g : g = rec(g)
  <2>1. Cardinality(S) \in Nat /\ \A s \in SUBSET S : Cardinality(s) <= Cardinality(S)
    BY FS_CardinalityType, FS_Subset
  <2>2. PICK g : g = [s \in SUBSET S |-> g[s]] /\ Sums(g, f, S, Cardinality(S))
    BY <2>1, SumsExist DEF Solvable
  <2>3. g = rec(g)
    BY <2>1, <2>2 DEF Sums
  <2>4. QED BY <2>3
<1>3. iter = rec(iter)
  BY <1>2
<1> HIDE DEF iter
<1>4. QED BY <1>1, <1>3 DEF SumOf

Same(f, h, T) == \A x \in T : f[x] = h[x]

\* Two such functions, over sets S and U and of summands f and h, agree where the
\* sets and the summands do.
LEMMA SumsAgree ==
  ASSUME NEW S, NEW U, NEW f, NEW h, NEW g, NEW e, NEW T, IsFiniteSet(T),
         T \subseteq S, T \subseteq U, Same(f, h, T), SumOf(g, f, S), SumOf(e, h, U)
  PROVE  g[T] = e[T]
<1> DEFINE bad == {s \in SUBSET T : g[s] # e[s]}
<1>1. SUFFICES ASSUME bad # {} PROVE FALSE
  OBVIOUS
<1>2. \A s \in SUBSET T : IsFiniteSet(s) /\ Cardinality(s) \in Nat
  BY FS_Subset, FS_CardinalityType
<1>3. PICK s \in bad : \A t \in bad : Cardinality(s) <= Cardinality(t)
  <2>1. \A t \in bad : IsFiniteSet(t)
    BY <1>2
  <2> HIDE DEF bad
  <2>2. QED BY <1>1, <2>1, SmallestSet
<1>4. s \in SUBSET T /\ g[s] # e[s]
  BY <1>3
<1>5. s # {}
  BY <1>4 DEF SumOf
<1>6. /\ Chosen(s) \in s /\ Cardinality(s) \in Nat
      /\ Cardinality(s \ {Chosen(s)}) = Cardinality(s) - 1
  BY <1>2, <1>4, <1>5, TakeFirst
<1>7. s \ {Chosen(s)} \in bad
  BY <1>4, <1>5, <1>6 DEF SumOf, Same
<1> HIDE DEF bad
<1>8. QED BY <1>3, <1>6, <1>7

\* The element taken first makes no difference.
LEMMA SumsTakeAny ==
  ASSUME NEW S, IsFiniteSet(S), NEW f \in [S -> Int], NEW g, NEW T \in SUBSET S, NEW y \in T,
         SumOf(g, f, S)
  PROVE  g[T] \in Int /\ g[T \ {y}] \in Int /\ g[T] = f[y] + g[T \ {y}]
<1> DEFINE good(s) == g[s] \in Int /\ \A x \in s : g[s] = f[x] + g[s \ {x}]
           bad == {s \in SUBSET S : ~ good(s)}
<1>1. \A s \in SUBSET S : IsFiniteSet(s) /\ Cardinality(s) \in Nat
  BY FS_Subset, FS_CardinalityType
<1>2. ASSUME bad # {} PROVE FALSE
  <2>1. \A s \in bad : IsFiniteSet(s)
    BY <1>1
  <2>2. PICK s \in bad : \A t \in bad : Cardinality(s) <= Cardinality(t)
    <3> HIDE DEF bad
    <3>1. QED BY <1>2, <2>1, SmallestSet
  <2>3. s \in SUBSET S /\ ~ good(s)
    BY <2>2
  <2>4. \A t \in SUBSET S : t \notin bad => good(t)
    OBVIOUS
  <2>5. \A x \in s : good(s \ {x})
    <3>1. SUFFICES ASSUME NEW x \in s PROVE s \ {x} \notin bad
      BY <2>3, <2>4
    <3>2. Cardinality(s \ {x}) = Cardinality(s) - 1
      BY <1>1, <2>3, FS_RemoveElement
    <3> HIDE DEF bad
    <3>3. QED BY <1>1, <2>2, <2>3, <3>2
  <2>6. good(s)
    <3>1. CASE s = {}
      <4>1. g[s] = 0
        BY <2>3, <3>1 DEF SumOf
      <4> HIDE DEF bad
      <4>2. \A x \in s : FALSE
        BY <3>1
      <4>3. QED BY <4>1, <4>2
    <3>2. CASE s # {}
      <4> DEFINE x == Chosen(s)
      <4>1. x \in s
        BY <3>2 DEF Chosen
      <4> HIDE DEF x
      <4>2. g[s] = f[x] + g[s \ {x}]
        BY <2>3, <3>2 DEF x, SumOf
      <4>3. f[x] \in Int /\ g[s \ {x}] \in Int
        BY <2>3, <2>5, <4>1
      <4>4. ASSUME NEW z \in s, z # x PROVE g[s] = f[z] + g[s \ {z}]
        <5> DEFINE r == (s \ {z}) \ {x}
        <5>1. /\ g[s \ {x}] = f[z] + g[(s \ {x}) \ {z}]
              /\ g[s \ {z}] = f[x] + g[r]
              /\ f[z] \in Int /\ g[s \ {z}] \in Int
          BY <2>3, <2>5, <4>1, <4>4
        <5>2. (s \ {x}) \ {z} = r
          OBVIOUS
        <5>3. g[r] \in Int
          <6>1. good(s \ {z}) /\ x \in s \ {z}
            BY <2>5, <4>1, <4>4
          <6>2. r \notin bad
            <7>1. Cardinality(r) < Cardinality(s)
              <8>1. /\ IsFiniteSet(s \ {z}) /\ Cardinality(s \ {z}) = Cardinality(s) - 1
                    /\ Cardinality(s) \in Nat
                BY <1>1, <2>3, <4>4, FS_RemoveElement
              <8>2. Cardinality(r) = Cardinality(s \ {z}) - 1
                BY <4>1, <4>4, <8>1, FS_RemoveElement
              <8>3. QED BY <8>1, <8>2
            <7>2. r \in SUBSET S /\ Cardinality(r) \in Nat
              BY <1>1, <2>3
            <7> HIDE DEF bad, r
            <7>3. QED BY <1>1, <2>2, <2>3, <7>1, <7>2
          <6>3. r \in SUBSET S
            BY <2>3
          <6>4. QED BY <2>4, <6>2, <6>3
        <5> HIDE DEF r, good, bad
        <5>4. g[s \ {x}] = f[z] + g[r]
          BY <5>1, <5>2
        <5>5. QED BY <4>2, <4>3, <5>1, <5>3, <5>4
      <4>5. g[s] \in Int
        BY <4>2, <4>3
      <4>6. \A z \in s : g[s] = f[z] + g[s \ {z}]
        BY <4>2, <4>4
      <4>7. QED BY <4>5, <4>6
    <3>3. QED BY <3>1, <3>2
  <2>7. QED BY <2>3, <2>6
<1>3. good(T) /\ good(T \ {y})
  BY <1>2
<1>4. QED BY <1>3

-----------------------------------------------------------------------------
(* What the proofs about totals use.                                        *)

LEMMA TotalEmpty ==
  ASSUME NEW f
  PROVE  Total(f, {}) = 0
<1>1. PICK g : Total(f, {}) = g[{}] /\ SumOf(g, f, {})
  BY FS_EmptySet, TotalIsSums
<1>2. QED BY <1>1 DEF SumOf

LEMMA TotalSame ==
  ASSUME NEW S, IsFiniteSet(S), NEW f, NEW h, \A x \in S : f[x] = h[x]
  PROVE  Total(f, S) = Total(h, S)
<1>1. PICK g : Total(f, S) = g[S] /\ SumOf(g, f, S)
  BY TotalIsSums
<1>2. PICK e : Total(h, S) = e[S] /\ SumOf(e, h, S)
  BY TotalIsSums
<1>3. S \subseteq S /\ SumOf(g, f, S) /\ SumOf(e, h, S)
  BY <1>1, <1>2
<1>4. Same(f, h, S)
  BY DEF Same
<1>5. g[S] = e[S]
  BY <1>3, <1>4, SumsAgree
<1>6. QED BY <1>1, <1>2, <1>5

\* Any element can be taken out first.
LEMMA TotalRemove ==
  ASSUME NEW S, IsFiniteSet(S), NEW f, \A x \in S : f[x] \in Int, NEW y \in S
  PROVE  /\ Total(f, S) \in Int /\ Total(f, S \ {y}) \in Int
         /\ Total(f, S) = f[y] + Total(f, S \ {y})
<1> DEFINE h == [x \in S |-> f[x]]
<1>1. h \in [S -> Int] /\ \A x \in S : h[x] = f[x]
  OBVIOUS
<1> HIDE DEF h
<1>2. PICK g : Total(h, S) = g[S] /\ SumOf(g, h, S)
  BY TotalIsSums
<1>3. IsFiniteSet(S \ {y})
  BY FS_Subset
<1>4. PICK e : Total(h, S \ {y}) = e[S \ {y}] /\ SumOf(e, h, S \ {y})
  BY <1>3, TotalIsSums
<1>5. g[S \ {y}] = e[S \ {y}]
  BY <1>2, <1>3, <1>4, SumsAgree DEF Same
<1>6. g[S] \in Int /\ g[S \ {y}] \in Int /\ g[S] = h[y] + g[S \ {y}]
  BY <1>1, <1>2, SumsTakeAny
<1>7. Total(f, S) = Total(h, S) /\ Total(f, S \ {y}) = Total(h, S \ {y})
  BY <1>1, <1>3, TotalSame
<1>8. QED BY <1>1, <1>2, <1>4, <1>5, <1>6, <1>7

LEMMA TotalType ==
  ASSUME NEW S, IsFiniteSet(S), NEW f, \A x \in S : f[x] \in Int
  PROVE  Total(f, S) \in Int
<1>1. CASE S = {}
  BY <1>1, TotalEmpty
<1>2. CASE S # {}
  BY <1>2, TotalRemove
<1>3. QED BY <1>1, <1>2

\* The summands f and h of S are numbers and agree but for that of y.
OnlyAt(f, h, S, y) ==
  \A x \in S : f[x] \in Int /\ h[x] \in Int /\ (x # y => h[x] = f[x])

\* A change of one summand changes the total by as much.
LEMMA TotalChange ==
  ASSUME NEW S, IsFiniteSet(S), NEW f, NEW h, NEW y \in S, OnlyAt(f, h, S, y)
  PROVE  Total(h, S) = Total(f, S) + h[y] - f[y]
<1>1. /\ Total(f, S \ {y}) \in Int
      /\ Total(f, S) = f[y] + Total(f, S \ {y}) /\ Total(h, S) = h[y] + Total(h, S \ {y})
      /\ f[y] \in Int /\ h[y] \in Int
  BY TotalRemove DEF OnlyAt
<1>2. Total(h, S \ {y}) = Total(f, S \ {y})
  <2>1. IsFiniteSet(S \ {y})
    BY FS_Subset
  <2>2. QED BY <2>1, TotalSame DEF OnlyAt
<1>3. QED BY <1>1, <1>2

LEMMA TotalZero ==
  ASSUME NEW S, IsFiniteSet(S), NEW f, \A x \in S : f[x] = 0
  PROVE  Total(f, S) = 0
<1>1. PICK g : Total(f, S) = g[S] /\ SumOf(g, f, S)
  BY TotalIsSums
<1> DEFINE e == [s \in SUBSET S |-> 0]
<1>2. SumOf(e, f, S)
  <2>1. SUFFICES ASSUME NEW s \in SUBSET S, s # {}
                 PROVE  e[s] = f[Chosen(s)] + e[s \ {Chosen(s)}]
    BY DEF SumOf
  <2>2. Chosen(s) \in S
    BY <2>1 DEF Chosen
  <2>3. QED BY <2>1, <2>2
<1>3. e[S] = 0
  OBVIOUS
<1> HIDE DEF e
<1>4. g[S] = e[S]
  BY <1>1, <1>2, SumsAgree DEF Same
<1>5. QED BY <1>1, <1>3, <1>4

LEMMA TotalNat ==
  ASSUME NEW S, IsFiniteSet(S), NEW f, \A x \in S : f[x] \in Nat
  PROVE  Total(f, S) \in Nat
<1> DEFINE bad == {s \in SUBSET S : Total(f, s) \notin Nat}
<1>1. SUFFICES ASSUME bad # {} PROVE FALSE
  OBVIOUS
<1>2. \A s \in SUBSET S : IsFiniteSet(s) /\ Cardinality(s) \in Nat
  BY FS_Subset, FS_CardinalityType
<1>3. PICK s \in bad : \A t \in bad : Cardinality(s) <= Cardinality(t)
  <2>1. \A t \in bad : IsFiniteSet(t)
    BY <1>2
  <2> HIDE DEF bad
  <2>2. QED BY <1>1, <2>1, SmallestSet
<1>4. s \in SUBSET S /\ Total(f, s) \notin Nat
  BY <1>3
<1>5. s # {}
  BY <1>4, TotalEmpty
<1>6. PICK x : x \in s
  BY <1>5
<1>7. s \ {x} \notin bad
  <2>1. Cardinality(s \ {x}) = Cardinality(s) - 1
    BY <1>2, <1>4, <1>6, FS_RemoveElement
  <2> HIDE DEF bad
  <2>2. QED BY <1>2, <1>3, <1>4, <2>1
<1>8. f[x] \in Nat /\ \A z \in s : f[z] \in Int
  BY <1>4, <1>6
<1>9. Total(f, s) = f[x] + Total(f, s \ {x})
  BY <1>2, <1>4, <1>6, <1>8, TotalRemove
<1>10. Total(f, s \ {x}) \in Nat
  BY <1>4, <1>7
<1>11. QED BY <1>4, <1>8, <1>9, <1>10

-----------------------------------------------------------------------------
(* The number of controls is defined.                                       *)

Recounted(g) ==
  [m \in Nat |->
    [left \in Nat |->
       IF left = 0 \/ left = m THEN 0
       ELSE IF m = 2 THEN 1
       ELSE m \div 2 + g[Ceil(m)][Ceil(left)] + g[m \div 2][left - Ceil(left)]]]

\* Of less than two records there are no controls.
CountRow(g, m) == IF m < 2 THEN [left \in Nat |-> 0] ELSE Recounted(g)[m]

UpTo(g, m) == \A k \in 0 .. m : g[k] = CountRow(g, k)

LEMMA RowSame ==
  ASSUME NEW g, NEW h, NEW m \in Nat, \A k \in 0 .. m - 1 : g[k] = h[k]
  PROVE  CountRow(g, m) = CountRow(h, m)
<1>1. CASE m < 2
  BY <1>1 DEF CountRow
<1>2. CASE ~ (m < 2)
  <2>1. Ceil(m) \in 0 .. m - 1 \/ m = 2
    BY <1>2 DEF Ceil
  <2>2. m \div 2 \in 0 .. m - 1
    BY <1>2
  <2>3. m # 2 => g[Ceil(m)] = h[Ceil(m)]
    BY <2>1
  <2>4. g[m \div 2] = h[m \div 2]
    BY <2>2
  <2>5. Recounted(g)[m] = Recounted(h)[m]
    BY <2>3, <2>4 DEF Recounted
  <2>6. QED BY <1>2, <2>5 DEF CountRow
<1>3. QED BY <1>1, <1>2

LEMMA RowsExist == \A m \in Nat : \E g : UpTo(g, m)
<1> DEFINE bad == {m \in Nat : ~ \E g : UpTo(g, m)}
<1>1. SUFFICES ASSUME bad # {} PROVE FALSE
  OBVIOUS
<1>2. PICK m \in bad : \A k \in bad : m <= k
  BY <1>1, LeastNumber
<1>3. m # 0
  <2> DEFINE g == [k \in {0} |-> [left \in Nat |-> 0]]
  <2>1. UpTo(g, 0)
    BY DEF UpTo, CountRow
  <2>2. QED BY <2>1
<1>4. m - 1 \in Nat /\ ~ (m <= m - 1)
  BY <1>3
<1>5. PICK g : UpTo(g, m - 1)
  BY <1>2, <1>4
<1> DEFINE h == [k \in 0 .. m |-> IF k = m THEN CountRow(g, m) ELSE g[k]]
<1>6. \A k \in 0 .. m - 1 : g[k] = h[k] /\ k \in Nat /\ k # m
  BY <1>4
<1>7. ASSUME NEW k \in 0 .. m PROVE h[k] = CountRow(h, k)
  <2>1. CASE k = m
    <3>1. h[k] = CountRow(g, m)
      BY <2>1
    <3> HIDE DEF h
    <3>2. QED BY <1>6, <2>1, <3>1, RowSame
  <2>2. CASE k # m
    <3>1. k \in 0 .. m - 1 /\ h[k] = g[k]
      BY <1>4, <2>2
    <3>2. \A i \in 0 .. k - 1 : i \in 0 .. m - 1
      BY <3>1
    <3> HIDE DEF h
    <3>3. CountRow(g, k) = CountRow(h, k)
      BY <1>6, <3>1, <3>2, RowSame
    <3>4. QED BY <1>5, <3>1, <3>3 DEF UpTo
  <2>3. QED BY <2>1, <2>2
<1>8. UpTo(h, m)
  BY <1>7 DEF UpTo
<1>9. QED BY <1>2, <1>8

LEMMA RowsAgree ==
  ASSUME NEW g, NEW h, NEW a \in Nat, NEW b \in Nat, UpTo(g, a), UpTo(h, b)
  PROVE  \A m \in Nat : m <= a /\ m <= b => g[m] = h[m]
<1> DEFINE bad == {m \in Nat : m <= a /\ m <= b /\ g[m] # h[m]}
<1>1. SUFFICES ASSUME bad # {} PROVE FALSE
  OBVIOUS
<1>2. PICK m \in bad : \A k \in bad : m <= k
  BY <1>1, LeastNumber
<1>3. \A k \in 0 .. m - 1 : k \in Nat /\ k <= a /\ k <= b /\ ~ (m <= k)
  OBVIOUS
<1>4. \A k \in 0 .. m - 1 : g[k] = h[k]
  BY <1>2, <1>3
<1>5. m \in Nat /\ m \in 0 .. a /\ m \in 0 .. b
  OBVIOUS
<1>6. g[m] = CountRow(g, m) /\ h[m] = CountRow(h, m)
  BY <1>5 DEF UpTo
<1>7. g[m] = h[m]
  BY <1>4, <1>5, <1>6, RowSame
<1>8. QED BY <1>7

LEMMA CountsExist == \E f : f = Recounted(f)
<1> DEFINE G(m) == CHOOSE g : UpTo(g, m)
           f == [m \in Nat |-> G(m)[m]]
<1>1. \A m \in Nat : UpTo(G(m), m)
  BY RowsExist
<1> HIDE DEF G
<1>2. ASSUME NEW m \in Nat PROVE f[m] = CountRow(f, m)
  <2>1. ASSUME NEW k \in 0 .. m - 1 PROVE G(m)[k] = f[k]
    <3>1. k \in Nat /\ k <= m
      OBVIOUS
    <3>2. G(m)[k] = G(k)[k]
      BY <1>1, <3>1, RowsAgree
    <3>3. QED BY <3>1, <3>2
  <2>2. f[m] = G(m)[m] /\ G(m)[m] = CountRow(G(m), m)
    <3>1. m \in 0 .. m
      OBVIOUS
    <3>2. QED BY <1>1, <3>1 DEF UpTo
  <2> HIDE DEF f
  <2>3. CountRow(G(m), m) = CountRow(f, m)
    BY <2>1, RowSame
  <2>4. QED BY <2>2, <2>3
<1>3. ASSUME NEW m \in Nat PROVE f[m] = Recounted(f)[m]
  <2>1. CASE ~ (m < 2)
    BY <1>2, <2>1 DEF CountRow
  <2>2. CASE m < 2
    <3>1. f[m] = [left \in Nat |-> 0]
      BY <1>2, <2>2 DEF CountRow
    <3>2. f[0] = [left \in Nat |-> 0] /\ f[1] = [left \in Nat |-> 0]
      <4>1. 0 < 2 /\ 1 < 2 /\ 0 \in Nat /\ 1 \in Nat
        OBVIOUS
      <4> HIDE DEF f
      <4>2. \A k \in Nat : k < 2 => CountRow(f, k) = [left \in Nat |-> 0]
        BY DEF CountRow
      <4>3. QED BY <1>2, <4>1, <4>2
    <3> HIDE DEF f
    <3>3. m \div 2 = 0 /\ Ceil(m) = m
      BY <2>2 DEF Ceil
    <3>4. \A left \in Nat : Ceil(left) \in Nat /\ left - Ceil(left) \in Nat
      BY DEF Ceil
    <3>5. \A left \in Nat : Recounted(f)[m][left] = 0
      <4>1. SUFFICES ASSUME NEW left \in Nat PROVE Recounted(f)[m][left] = 0
        OBVIOUS
      <4>2. Recounted(f)[m][left] =
              IF left = 0 \/ left = m THEN 0 ELSE IF m = 2 THEN 1
              ELSE m \div 2 + f[Ceil(m)][Ceil(left)] + f[m \div 2][left - Ceil(left)]
        BY DEF Recounted
      <4>3. f[Ceil(m)][Ceil(left)] = 0 /\ f[m \div 2][left - Ceil(left)] = 0
        BY <3>1, <3>2, <3>3, <3>4
      <4>4. m \div 2 + f[Ceil(m)][Ceil(left)] + f[m \div 2][left - Ceil(left)] = 0
        BY <3>3, <4>3
      <4>5. QED BY <2>2, <4>2, <4>4
    <3>6. Recounted(f)[m] = [left \in Nat |-> Recounted(f)[m][left]]
      BY DEF Recounted
    <3>7. QED BY <3>1, <3>5, <3>6
  <2>3. QED BY <2>1, <2>2
<1>4. f = Recounted(f)
  <2>1. f = [m \in Nat |-> f[m]]
    OBVIOUS
  <2>2. Recounted(f) = [m \in Nat |-> Recounted(f)[m]]
    BY DEF Recounted
  <2> HIDE DEF f
  <2>3. QED BY <1>3, <2>1, <2>2
<1>5. QED BY <1>4

LEMMA ControlCountIs ==
  ASSUME NEW m \in Nat, NEW left \in Nat
  PROVE  ControlCount[m][left] =
           IF left = 0 \/ left = m THEN 0 ELSE IF m = 2 THEN 1
           ELSE m \div 2 + ControlCount[Ceil(m)][Ceil(left)] + ControlCount[m \div 2][left - Ceil(left)]
<1> DEFINE iter == CHOOSE f : f = Recounted(f)
<1>1. iter = Recounted(iter)
  BY CountsExist
<1>2. ControlCount = iter
  BY DEF ControlCount, Recounted, SplitCapacities
<1> HIDE DEF iter
<1>3. ControlCount = Recounted(ControlCount)
  BY <1>1, <1>2
<1>4. \A c : Recounted(c)[m][left] =
           IF left = 0 \/ left = m THEN 0 ELSE IF m = 2 THEN 1
           ELSE m \div 2 + c[Ceil(m)][Ceil(left)] + c[m \div 2][left - Ceil(left)]
  BY DEF Recounted
<1>5. ControlCount[m][left] = Recounted(ControlCount)[m][left]
  BY <1>3
<1>6. QED BY <1>4, <1>5

LEMMA ControlCountType == \A m \in Nat : \A left \in 0 .. m : ControlCount[m][left] \in Nat
<1> DEFINE good(m) == \A left \in 0 .. m : ControlCount[m][left] \in Nat
           bad == {m \in Nat : ~ good(m)}
<1>1. SUFFICES ASSUME bad # {} PROVE FALSE
  OBVIOUS
<1>2. PICK m \in bad : \A k \in bad : m <= k
  BY <1>1, LeastNumber
<1>3. \A k \in Nat : k < m => good(k)
  BY <1>2
<1>4. PICK left \in 0 .. m : ControlCount[m][left] \notin Nat
  BY <1>2
<1> HIDE DEF bad
<1>5. left \in Nat /\ m \in Nat
  BY <1>2 DEF bad
<1>6. left # 0 /\ left # m /\ m # 2
  BY <1>4, <1>5, ControlCountIs
<1>7. /\ Ceil(m) \in Nat /\ Ceil(m) < m /\ Ceil(left) \in 0 .. Ceil(m)
      /\ m \div 2 \in Nat /\ m \div 2 < m /\ left - Ceil(left) \in 0 .. m \div 2
  BY <1>5, <1>6 DEF Ceil
<1>8. /\ ControlCount[Ceil(m)][Ceil(left)] \in Nat
      /\ ControlCount[m \div 2][left - Ceil(left)] \in Nat
  BY <1>3, <1>7
<1>9. QED BY <1>4, <1>5, <1>6, <1>7, <1>8, ControlCountIs

=============================================================================
