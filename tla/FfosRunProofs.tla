--------------------------- MODULE FfosRunProofs ---------------------------
(***************************************************************************)
(* Proofs about FfosRun.                                                   *)
(***************************************************************************)
EXTENDS MCFfosRun, SumProofs, SequenceTheorems

-----------------------------------------------------------------------------
(* How a node is divided.                                                   *)

Edge == [start : Nat, count : Nat]

\* The edges share out k samples, in order.
ShareOut(edges, k) ==
  /\ edges \in Seq(Edge) /\ Len(edges) >= 1
  /\ \A i \in 1 .. Len(edges) : edges[i].count >= 1 /\ edges[i].start + edges[i].count <= k
  /\ \A i, j \in 1 .. Len(edges) : i < j => edges[i].start + edges[i].count <= edges[j].start
  /\ \A x \in 0 .. k - 1 : \E i \in 1 .. Len(edges) :
       edges[i].start <= x /\ x < edges[i].start + edges[i].count

EndOf(edge) == edge.start + edge.count

LEMMA FrontierShares ==
  ASSUME NEW frontier \in Seq(Edge), NEW n \in Nat, NEW m \in Nat, NEW k \in Nat \ {0},
         frontier # <<>>, FrontierOK(frontier, n, m, k)
  PROVE  ShareOut(frontier, k)
<1> DEFINE L == Len(frontier)
<1>1. /\ L \in Nat /\ L >= 1 /\ DOMAIN frontier = 1 .. L
      /\ \A i \in 1 .. L : frontier[i].start \in Nat /\ frontier[i].count \in Nat
  <2>1. L \in Nat /\ L >= 1 /\ DOMAIN frontier = 1 .. L /\ \A i \in 1 .. L : frontier[i] \in Edge
    OBVIOUS
  <2>2. \A e \in Edge : e.start \in Nat /\ e.count \in Nat
    BY DEF Edge
  <2>3. QED BY <2>1, <2>2
<1>2. /\ \A i \in 1 .. L : frontier[i].count >= 1
      /\ \A i \in 1 .. L : frontier[i].start = IF i = 1 THEN 0 ELSE EndOf(frontier[i - 1])
      /\ EndOf(frontier[L]) = k
  <2>1. /\ \A i \in 1 .. L : frontier[i].count > 0
        /\ \A i \in 1 .. L : frontier[i].start = IF i = 1 THEN 0
                               ELSE frontier[i - 1].start + frontier[i - 1].count
        /\ Last(frontier).start + Last(frontier).count = k
    BY <1>1 DEF FrontierOK
  <2>2. Last(frontier) = frontier[L]
    BY DEF Last
  <2>3. QED BY <1>1, <2>1, <2>2 DEF EndOf
<1>3. \A i \in 1 .. L : EndOf(frontier[i]) \in Nat
  BY <1>1 DEF EndOf
<1> DEFINE bad == {d \in Nat : \E i \in 1 .. L : i + d + 1 \in 1 .. L
                                 /\ ~ (EndOf(frontier[i]) <= frontier[i + d + 1].start)}
<1>4. bad = {}
  <2>1. SUFFICES ASSUME bad # {} PROVE FALSE
    OBVIOUS
  <2>2. PICK d \in bad : \A e \in bad : d <= e
    BY <2>1, LeastNumber
  <2>3. d \in Nat
    OBVIOUS
  <2>4. PICK i \in 1 .. L : i + d + 1 \in 1 .. L
                            /\ ~ (EndOf(frontier[i]) <= frontier[i + d + 1].start)
    OBVIOUS
  <2>5. d # 0
    BY <1>1, <1>2, <1>3, <2>4
  <2>6. i + (d - 1) + 1 \in 1 .. L /\ d - 1 \in Nat /\ ~ (d <= d - 1)
    BY <1>1, <2>3, <2>4, <2>5
  <2>7. d - 1 \notin bad
    BY <2>2, <2>6
  <2> HIDE DEF L
  <2>8. EndOf(frontier[i]) <= frontier[i + (d - 1) + 1].start
    BY <2>4, <2>6, <2>7
  <2>9. i + (d - 1) + 1 = i + d /\ i + d + 1 - 1 = i + d /\ i + d + 1 # 1
    BY <1>1, <2>3, <2>4
  <2>10. frontier[i + d + 1].start = EndOf(frontier[i + d])
    BY <1>2, <2>4, <2>9
  <2>11. frontier[i + d].start <= EndOf(frontier[i + d])
    BY <1>1, <2>6, <2>9 DEF EndOf
  <2>12. QED BY <1>1, <1>3, <2>4, <2>6, <2>8, <2>9, <2>10, <2>11
<1>5. ASSUME NEW i \in 1 .. L, NEW j \in 1 .. L, i < j
      PROVE  EndOf(frontier[i]) <= frontier[j].start
  <2>1. j - i - 1 \in Nat /\ i + (j - i - 1) + 1 = j
    BY <1>1, <1>5
  <2>2. j - i - 1 \notin bad
    BY <1>4
  <2> HIDE DEF L
  <2>3. QED BY <2>1, <2>2
<1>6. ASSUME NEW i \in 1 .. L PROVE EndOf(frontier[i]) <= k
  <2>1. CASE i = L
    BY <1>1, <1>2, <2>1
  <2>2. CASE i < L
    <3>1. EndOf(frontier[i]) <= frontier[L].start
      BY <1>1, <1>5, <2>2
    <3>2. QED BY <1>1, <1>2, <1>3, <3>1 DEF EndOf
  <2>3. L \in Nat
    BY <1>1
  <2> HIDE DEF L, bad
  <2>4. i = L \/ i < L
    BY <2>3
  <2>5. QED BY <2>1, <2>2, <2>4
<1>7. ASSUME NEW x \in 0 .. k - 1
      PROVE  \E i \in 1 .. L : frontier[i].start <= x /\ x < EndOf(frontier[i])
  <2> DEFINE after == {i \in 1 .. L : x < EndOf(frontier[i])}
  <2>1. L \in after /\ after \subseteq Nat
    BY <1>1, <1>2
  <2>2. PICK i \in after : \A j \in after : i <= j
    BY <2>1, LeastNumber
  <2>3. i \in 1 .. L /\ x < EndOf(frontier[i])
    OBVIOUS
  <2>4. i = 1 => frontier[i].start <= x
    BY <1>2, <2>3
  <2>5. i # 1 => frontier[i].start <= x
    <3>1. SUFFICES ASSUME i # 1 PROVE frontier[i].start <= x
      OBVIOUS
    <3>2. i - 1 \in 1 .. L /\ ~ (i <= i - 1)
      BY <1>1, <2>3, <3>1
    <3>3. i - 1 \notin after
      BY <2>2, <3>2
    <3>4. ~ (x < EndOf(frontier[i - 1]))
      BY <3>2, <3>3
    <3>5. QED BY <1>2, <1>3, <2>3, <3>1, <3>2, <3>4
  <2>6. QED BY <2>3, <2>4, <2>5
<1>8. QED BY <1>1, <1>2, <1>5, <1>6, <1>7 DEF ShareOut, EndOf

LEMMA HalvesShare ==
  ASSUME NEW k \in Nat, k > 1
  PROVE  /\ ShareOut(Halves(k), k) /\ Len(Halves(k)) = 2
         /\ Halves(k)[1] = [start |-> 0, count |-> k \div 2]
         /\ Halves(k)[2] = [start |-> k \div 2, count |-> k - k \div 2]
         /\ \A i \in 1 .. 2 : Halves(k)[i].count <= Ceil(k)
         /\ Ceil(k) < k /\ Ceil(k) \in Nat
<1> DEFINE h == k \div 2
<1>1. h \in Nat /\ h >= 1 /\ k - h \in Nat /\ k - h >= h /\ k - h <= Ceil(k) /\ Ceil(k) < k
      /\ Ceil(k) \in Nat
  BY DEF Ceil
<1>2. Halves(k) = <<[start |-> 0, count |-> h], [start |-> h, count |-> k - h]>>
  BY DEF Halves
<1> HIDE DEF h
<1> DEFINE e == Halves(k)
<1>3. /\ e \in Seq(Edge) /\ Len(e) = 2 /\ e[1] = [start |-> 0, count |-> h]
      /\ e[2] = [start |-> h, count |-> k - h]
  BY <1>1, <1>2 DEF Edge
<1> HIDE DEF e
<1>4. ShareOut(e, k)
  BY <1>1, <1>3 DEF ShareOut
<1>5. \A i \in 1 .. 2 : e[i].count <= Ceil(k)
  BY <1>1, <1>3
<1>6. QED BY <1>1, <1>3, <1>4, <1>5 DEF e, h

\* The parts of a node's samples, of its pieces.
Division(frontier, m, p) ==
  IF Fork(p.n, m, p.k) THEN Halves(p.k) ELSE Edges(frontier, p.k)

FrontierFits(frontier, n, m, k) ==
  frontier \in Seq(Edge) /\ (frontier # <<>> => FrontierOK(frontier, n, m, k))

LEMMA DivisionShares ==
  ASSUME NEW p, NEW m \in Nat, p.k \in Nat \ {0}, p.n \in Nat, NEW frontier,
         FrontierFits(frontier, p.n, m, p.k)
  PROVE  /\ ShareOut(Division(frontier, m, p), p.k)
         /\ (frontier = <<>> \/ Fork(p.n, m, p.k)) /\ p.k > 1 =>
              \A i \in DOMAIN Division(frontier, m, p) :
                Division(frontier, m, p)[i].count <= Ceil(p.k)
         /\ Fork(p.n, m, p.k) => Len(Division(frontier, m, p)) = 2
<1>1. CASE Fork(p.n, m, p.k) \/ (p.k # 1 /\ frontier = <<>>)
  <2>1. Division(frontier, m, p) = Halves(p.k) /\ p.k > 1
    BY <1>1 DEF Division, Edges, Fork
  <2> DEFINE e == Halves(p.k)
  <2>2. ShareOut(e, p.k) /\ Len(e) = 2 /\ \A i \in 1 .. 2 : e[i].count <= Ceil(p.k)
    BY <2>1, HalvesShare
  <2> HIDE DEF e
  <2>3. DOMAIN e = 1 .. 2
    BY <2>2 DEF ShareOut
  <2>4. QED BY <2>1, <2>2, <2>3 DEF e
<1>2. CASE ~ Fork(p.n, m, p.k) /\ p.k = 1
  <2> DEFINE e == Division(frontier, m, p)
  <2>1. e = <<[start |-> 0, count |-> 1]>>
    BY <1>2 DEF Division, Edges
  <2>2. e \in Seq(Edge) /\ Len(e) = 1 /\ e[1].start = 0 /\ e[1].count = 1
    BY <2>1 DEF Edge
  <2> HIDE DEF e
  <2>3. ShareOut(e, p.k)
    BY <1>2, <2>2 DEF ShareOut
  <2>4. QED BY <1>2, <2>3 DEF e
<1>3. CASE ~ Fork(p.n, m, p.k) /\ p.k # 1 /\ frontier # <<>>
  <2>1. Division(frontier, m, p) = frontier
    BY <1>3 DEF Division, Edges
  <2>2. ShareOut(frontier, p.k)
    BY <1>3, FrontierShares DEF FrontierFits
  <2>3. QED BY <1>3, <2>1, <2>2
<1>4. QED BY <1>1, <1>2, <1>3

LEMMA Times ==
  ASSUME NEW m \in Nat, NEW a \in Nat, NEW b \in Nat
  PROVE  /\ m * a \in Nat /\ m * (a + b) = m * a + m * b
         /\ a <= b => m * a <= m * b /\ m * (b - a) = m * b - m * a
<1>1. m * a \in Nat /\ m * (a + b) = m * a + m * b
  OBVIOUS
<1>2. ASSUME a <= b PROVE m * a <= m * b /\ m * (b - a) = m * b - m * a
  <2>1. PICK d \in Nat : b = a + d
    <3>1. b - a \in Nat /\ b = a + (b - a)
      BY <1>2
    <3>2. QED BY <3>1
  <2>2. m * b = m * a + m * d /\ m * d \in Nat /\ b - a = d /\ m * a \in Nat
    BY <2>1
  <2>3. m * (b - a) = m * d
    BY <2>2
  <2> DEFINE x == m * a
             y == m * b
             z == m * d
  <2>4. y = x + z /\ x \in Nat /\ z \in Nat /\ m * (b - a) = z
    BY <2>2, <2>3
  <2> HIDE DEF x, y, z
  <2>5. x <= y /\ z = y - x
    BY <2>4
  <2>6. QED BY <2>4, <2>5 DEF x, y, z
<1>3. QED BY <1>1, <1>2

\* What a node, or a piece of one, is: it has the samples from s on.
Sound(p, m, s, top) ==
  /\ p.k \in Nat \ {0} /\ p.n \in Nat /\ m <= p.n /\ p.parent_n \in Nat
  /\ s \in Nat /\ p.output = m * s /\ s + p.k <= top

PieceRecord == [n : Nat, k : Nat, output : Nat, parent_n : Nat]

\* The pieces of a node that is no leaf: p's n, k and output are given.
PiecesFollow(q, e, n, m, k, output) ==
  /\ DOMAIN q = DOMAIN e
  /\ \A i \in DOMAIN e :
       /\ q[i].k = e[i].count /\ q[i].output = output + m * e[i].start
       /\ q[i].n = NodeCapacity(n, m, e[i].count)
       /\ q[i] = Piece(q[i].n, q[i].k, q[i].output, q[i].parent_n)
       /\ q[i].parent_n = IF Fork(n, m, k) THEN 0 ELSE n

LEMMA PiecesAre ==
  ASSUME NEW p, NEW m \in Nat \ {0}, p.k \in Nat \ {0}, p.n \in Nat, p.output \in Nat,
         NEW frontier, FrontierFits(frontier, p.n, m, p.k), ~ Leaf(p.n, m, p.k)
  PROVE  PiecesFollow(Pieces(frontier, m, p), Division(frontier, m, p), p.n, m, p.k, p.output)
<1> DEFINE n == p.n
           k == p.k
<1>1. CASE Fork(n, m, k)
  <2> DEFINE h == k \div 2
             left == m * h
             e == Halves(k)
  <2>1. k > 1 /\ n = m * k /\ h \in Nat /\ h <= k /\ k - h \in Nat
    BY <1>1 DEF Fork
  <2>2. /\ DOMAIN e = 1 .. 2 /\ e[1].start = 0 /\ e[1].count = h
        /\ e[2].start = h /\ e[2].count = k - h
    <3>1. /\ Len(e) = 2 /\ e[1] = [start |-> 0, count |-> h]
          /\ e[2] = [start |-> h, count |-> k - h] /\ e \in Seq(Edge)
      BY <2>1, HalvesShare DEF ShareOut
    <3> HIDE DEF e
    <3>2. QED BY <3>1
  <2>3. Pieces(frontier, m, p) = <<Piece(left, h, p.output, 0),
                                   Piece(n - left, k - h, p.output + left, 0)>>
    BY <1>1 DEF Pieces, ForkPieces
  <2>4. Division(frontier, m, p) = e
    BY <1>1 DEF Division
  <2>5. m * 0 = 0 /\ p.output + m * 0 = p.output
    OBVIOUS
  <2>6. NodeCapacity(n, m, h) = left /\ NodeCapacity(n, m, k - h) = n - left
    <3>1. left <= m * k /\ m * (k - h) = m * k - left /\ left \in Nat /\ m * k \in Nat
      BY <2>1, Times
    <3> HIDE DEF left, h
    <3>2. n - left <= n /\ m * (k - h) = n - left /\ left <= n /\ n \in Nat
      BY <2>1, <3>1
    <3> HIDE DEF n
    <3>3. Smaller(n, left) = left /\ Smaller(n, n - left) = n - left
      BY <2>1, <3>1, <3>2 DEF Smaller
    <3>4. QED BY <3>2, <3>3 DEF NodeCapacity, left
  <2> HIDE DEF e, left, h
  <2> DEFINE q == <<Piece(left, h, p.output, 0), Piece(n - left, k - h, p.output + left, 0)>>
  <2>7. /\ DOMAIN q = 1 .. 2 /\ q[1] = Piece(left, h, p.output, 0)
        /\ q[2] = Piece(n - left, k - h, p.output + left, 0)
    OBVIOUS
  <2> HIDE DEF q
  <2>8. PiecesFollow(q, e, n, m, k, p.output)
    <3>1. q[1].n = left /\ q[1].k = h /\ q[1].output = p.output /\ q[1].parent_n = 0
      BY <2>7 DEF Piece
    <3>2. q[2].n = n - left /\ q[2].k = k - h /\ q[2].output = p.output + left /\ q[2].parent_n = 0
      BY <2>7 DEF Piece
    <3>3. m * e[2].start = left
      BY <2>2 DEF left
    <3>4. m * e[1].start = 0
      BY <2>2, <2>5
    <3> HIDE DEF n, k
    <3>5. /\ q[1].k = e[1].count /\ q[1].output = p.output + m * e[1].start
          /\ q[1].n = NodeCapacity(n, m, e[1].count)
      BY <2>2, <2>5, <2>6, <3>1, <3>4
    <3>6. /\ q[2].k = e[2].count /\ q[2].output = p.output + m * e[2].start
          /\ q[2].n = NodeCapacity(n, m, e[2].count)
      BY <2>2, <2>6, <3>2, <3>3
    <3>7. \A i \in 1 .. 2 : i = 1 \/ i = 2
      OBVIOUS
    <3>8. \A i \in DOMAIN e : i = 1 \/ i = 2
      BY <2>2, <3>7
    <3>9. q[1] = Piece(q[1].n, q[1].k, q[1].output, q[1].parent_n)
      BY <2>7, <3>1
    <3>10. q[2] = Piece(q[2].n, q[2].k, q[2].output, q[2].parent_n)
      BY <2>7, <3>2
    <3>11. ASSUME NEW i \in DOMAIN e
           PROVE /\ q[i].k = e[i].count /\ q[i].output = p.output + m * e[i].start
                 /\ q[i].n = NodeCapacity(n, m, e[i].count)
                 /\ q[i] = Piece(q[i].n, q[i].k, q[i].output, q[i].parent_n)
                 /\ q[i].parent_n = 0
      <4>1. CASE i = 1
        BY <4>1, <3>1, <3>5, <3>9
      <4>2. CASE i = 2
        BY <4>2, <3>2, <3>6, <3>10
      <4>3. QED BY <3>8, <4>1, <4>2
    <3>12. DOMAIN q = DOMAIN e
      BY <2>2, <2>7
    <3>13. QED BY <1>1, <3>11, <3>12 DEF PiecesFollow
  <2>9. QED BY <2>3, <2>4, <2>8 DEF q
<1>2. CASE ~ Fork(n, m, k)
  <2> DEFINE e == Edges(frontier, k)
             q == Pieces(frontier, m, p)
  <2>1. Division(frontier, m, p) = e
    BY <1>2 DEF Division
  <2>2. q = [i \in DOMAIN e |-> Piece(NodeCapacity(n, m, e[i].count), e[i].count,
                                       p.output + m * e[i].start, n)]
    BY <1>2 DEF Pieces, FilterPieces
  <2> HIDE DEF q, e
  <2>3. DOMAIN q = DOMAIN e
    BY <2>2
  <2>4. ASSUME NEW i \in DOMAIN e
        PROVE  /\ q[i].k = e[i].count /\ q[i].output = p.output + m * e[i].start
               /\ q[i].n = NodeCapacity(n, m, e[i].count)
               /\ q[i] = Piece(q[i].n, q[i].k, q[i].output, q[i].parent_n)
               /\ q[i].parent_n = n
    <3>1. q[i] = Piece(NodeCapacity(n, m, e[i].count), e[i].count, p.output + m * e[i].start, n)
      BY <2>2
    <3> HIDE DEF n
    <3>2. /\ q[i].n = NodeCapacity(n, m, e[i].count) /\ q[i].k = e[i].count
          /\ q[i].output = p.output + m * e[i].start /\ q[i].parent_n = n
      BY <3>1 DEF Piece
    <3>3. QED BY <3>1, <3>2
  <2>5. PiecesFollow(q, e, n, m, k, p.output)
    BY <1>2, <2>3, <2>4 DEF PiecesFollow
  <2>6. QED BY <2>1, <2>5 DEF q
<1>3. QED BY <1>1, <1>2

\* Every piece is sound, and has no more than its part of the records.
LEMMA PiecesSound ==
  ASSUME NEW p, NEW m \in Nat \ {0}, NEW s, NEW top \in Nat, Sound(p, m, s, top),
         NEW frontier, FrontierFits(frontier, p.n, m, p.k), ~ Leaf(p.n, m, p.k),
         NEW i \in DOMAIN Pieces(frontier, m, p)
  PROVE  /\ Sound(Pieces(frontier, m, p)[i], m, s + Division(frontier, m, p)[i].start, top)
         /\ Pieces(frontier, m, p)[i] \in PieceRecord
         /\ Pieces(frontier, m, p)[i].n <= m * Pieces(frontier, m, p)[i].k
         /\ Division(frontier, m, p)[i].start + Pieces(frontier, m, p)[i].k <= p.k
<1> DEFINE q == Pieces(frontier, m, p)
           e == Division(frontier, m, p)
           c == NodeCapacity(p.n, m, e[i].count)
<1>1. /\ p.k \in Nat \ {0} /\ p.n \in Nat /\ m <= p.n /\ s \in Nat /\ p.output = m * s
      /\ s + p.k <= top /\ p.output \in Nat
  BY DEF Sound
<1>2. PiecesFollow(q, e, p.n, m, p.k, p.output) /\ ShareOut(e, p.k)
  BY <1>1, PiecesAre, DivisionShares
<1> HIDE DEF q, e
<1>3. i \in DOMAIN e /\ i \in 1 .. Len(e)
  BY <1>2 DEF PiecesFollow, ShareOut, q
<1>4. e[i] \in Edge /\ e[i].count >= 1 /\ e[i].start + e[i].count <= p.k
  BY <1>2, <1>3 DEF ShareOut
<1>5. e[i].start \in Nat /\ e[i].count \in Nat
  BY <1>4 DEF Edge
<1>6. /\ q[i].k = e[i].count /\ q[i].output = p.output + m * e[i].start /\ q[i].n = c
      /\ q[i] = Piece(q[i].n, q[i].k, q[i].output, q[i].parent_n)
      /\ q[i].parent_n \in Nat
  BY <1>1, <1>2, <1>3 DEF PiecesFollow
<1>7. c \in Nat /\ m <= c /\ c <= m * e[i].count
  <2>1. m * 1 <= m * e[i].count /\ m * e[i].count \in Nat /\ m * 1 = m
    BY <1>4, <1>5, Times
  <2> DEFINE x == m * e[i].count
  <2> HIDE DEF x
  <2>2. m <= x /\ x \in Nat
    BY <2>1 DEF x
  <2>3. Smaller(p.n, x) \in Nat /\ m <= Smaller(p.n, x) /\ Smaller(p.n, x) <= x
    BY <1>1, <2>2 DEF Smaller
  <2>4. QED BY <2>3 DEF NodeCapacity, x
<1>8. q[i].output = m * (s + e[i].start) /\ q[i].output \in Nat
  <2>1. m * (s + e[i].start) = m * s + m * e[i].start /\ m * s \in Nat /\ m * e[i].start \in Nat
    BY <1>1, <1>5, Times
  <2>2. QED BY <1>1, <1>6, <2>1
<1> HIDE DEF c
<1>9. s + e[i].start \in Nat /\ s + e[i].start + q[i].k <= top
  BY <1>1, <1>4, <1>5, <1>6
<1>10. q[i].k \in Nat \ {0} /\ q[i].n \in Nat /\ m <= q[i].n
  BY <1>4, <1>5, <1>6, <1>7
<1>11. Sound(q[i], m, s + e[i].start, top)
  BY <1>6, <1>8, <1>9, <1>10 DEF Sound
<1>12. q[i] \in PieceRecord
  BY <1>6, <1>8, <1>10 DEF PieceRecord, Piece
<1>13. q[i].n <= m * q[i].k /\ e[i].start + q[i].k <= p.k
  BY <1>4, <1>6, <1>7
<1>14. QED BY <1>11, <1>12, <1>13 DEF q, e

LEMMA PiecesSequence ==
  ASSUME NEW p, NEW m \in Nat \ {0}, NEW s, NEW top \in Nat, Sound(p, m, s, top),
         NEW frontier, FrontierFits(frontier, p.n, m, p.k)
  PROVE  /\ Pieces(frontier, m, p) \in Seq(PieceRecord)
         /\ ~ Leaf(p.n, m, p.k) =>
              /\ Len(Pieces(frontier, m, p)) = Len(Division(frontier, m, p))
              /\ Len(Pieces(frontier, m, p)) >= 1
         /\ Leaf(p.n, m, p.k) => Pieces(frontier, m, p) = <<>>
<1> DEFINE q == Pieces(frontier, m, p)
           e == Division(frontier, m, p)
<1>1. CASE Leaf(p.n, m, p.k)
  BY <1>1 DEF Pieces
<1>2. CASE ~ Leaf(p.n, m, p.k)
  <2>1. /\ p.k \in Nat \ {0} /\ p.n \in Nat /\ p.output \in Nat
    BY DEF Sound
  <2>2. q = [i \in DOMAIN q |-> q[i]]
    <3>1. CASE Fork(p.n, m, p.k)
      BY <1>2, <3>1 DEF Pieces, ForkPieces
    <3>2. CASE ~ Fork(p.n, m, p.k)
      BY <1>2, <3>2 DEF Pieces, FilterPieces
    <3>3. QED BY <3>1, <3>2
  <2>3. DOMAIN q = DOMAIN e /\ ShareOut(e, p.k)
    BY <1>2, <2>1, PiecesAre, DivisionShares DEF PiecesFollow
  <2>4. \A i \in DOMAIN q : q[i] \in PieceRecord
    BY <1>2, PiecesSound
  <2> HIDE DEF q, e
  <2>5. DOMAIN e = 1 .. Len(e) /\ Len(e) \in Nat /\ Len(e) >= 1
    BY <2>3 DEF ShareOut
  <2>6. q \in Seq(PieceRecord) /\ Len(q) = Len(e)
    BY <2>2, <2>3, <2>4, <2>5
  <2>7. QED BY <1>2, <2>5, <2>6 DEF q, e
<1>3. QED BY <1>1, <1>2

-----------------------------------------------------------------------------
(* The plan while it is made.                                               *)

NodeRecord == [n : Nat, k : Nat, output : Nat, metadata : Nat, filter : BOOLEAN,
               position : Nat, parent_n : Nat]
ForkRecord == [offset : Nat, count : Nat]
CallRecord == [parent : Nat, index : Nat, piece : PieceRecord]

Child(a, i) == ChildrenOf(a)[i]
FrontierAt(id) == IF id = 1 THEN shape.frontier ELSE <<>>
PiecesOf(id) == Pieces(FrontierAt(id), shape.m, Node(id))

ShapeInv ==
  /\ shape.n \in Nat \ {0} /\ shape.m \in Nat \ {0} /\ shape.k \in Nat \ {0}
  /\ shape.threads \in Nat \ {0} /\ shape.m <= shape.n /\ shape.frontier \in Seq(Edge)

PlanTypes ==
  /\ plan.nodes \in Seq(NodeRecord)
  /\ plan.children \in Seq(Seq(Nat)) /\ Len(plan.children) = Len(plan.nodes)
  /\ plan.forks \in Seq(ForkRecord) /\ plan.swo \in Nat /\ plan.ofr \in Nat
  /\ todo \in Seq(CallRecord)

\* Nodes, and the calls still to be made, are sound.
NodeInv ==
  /\ \A id \in Nodes :
       /\ \E s \in Nat : Sound(Node(id), shape.m, s, shape.k)
       /\ DOMAIN ChildrenOf(id) = DOMAIN PiecesOf(id)
       /\ Node(id).filter = Filters(Node(id))
  /\ \A q \in DOMAIN todo : \E s \in Nat : Sound(todo[q].piece, shape.m, s, shape.k)

RootCall == Call(0, 0, Piece(shape.n, shape.k, 0, 0))

\* Before the first node there is the call for it.
RootInv ==
  IF Nodes = {} THEN todo = <<RootCall>>
  ELSE /\ Node(1).n = shape.n /\ Node(1).k = shape.k /\ Node(1).output = 0
       /\ Node(1).parent_n = 0
       /\ FrontierOK(shape.frontier, shape.n, shape.m, shape.k)

IsPiece(id, p) ==
  Node(id).n = p.n /\ Node(id).k = p.k /\ Node(id).output = p.output /\ Node(id).parent_n = p.parent_n

\* A child is pending or a later node.
ChildInv ==
  \A a \in Nodes : \A i \in DOMAIN ChildrenOf(a) :
    IF Child(a, i) = 0 THEN \E q \in DOMAIN todo : todo[q] = Call(a, i, PiecesOf(a)[i])
    ELSE /\ Child(a, i) \in Nodes /\ a < Child(a, i)
         /\ IsPiece(Child(a, i), PiecesOf(a)[i])

\* The calls are for different pending children.
TodoInv ==
  Nodes # {} =>
    /\ \A q \in DOMAIN todo :
         /\ todo[q].parent \in Nodes
         /\ todo[q].index \in DOMAIN ChildrenOf(todo[q].parent)
         /\ Child(todo[q].parent, todo[q].index) = 0
         /\ todo[q].piece = PiecesOf(todo[q].parent)[todo[q].index]
    /\ \A q, r \in DOMAIN todo :
         todo[q].parent = todo[r].parent /\ todo[q].index = todo[r].index => q = r

\* Every node but the first has one parent.
ParentInv ==
  \A b \in Nodes : b # 1 => \E a \in Nodes : \E i \in DOMAIN ChildrenOf(a) : Child(a, i) = b
OneParent ==
  \A a, b \in Nodes : \A i \in DOMAIN ChildrenOf(a), j \in DOMAIN ChildrenOf(b) :
    Child(a, i) # 0 /\ Child(a, i) = Child(b, j) => a = b /\ i = j

\* The spans of the forks on the OFR tape follow one another.
OfrFrom(a) == plan.forks[Node(a).metadata].offset
OfrTo(a) == plan.forks[Node(a).metadata].offset + plan.forks[Node(a).metadata].count
ForkSpans ==
  /\ \A a \in Nodes : IsFork(a) => Node(a).metadata \in DOMAIN plan.forks /\ OfrTo(a) <= plan.ofr
  /\ \A a, b \in Nodes : IsFork(a) /\ IsFork(b) /\ a < b => OfrTo(a) <= OfrFrom(b)
  /\ \A x \in Nat : x < plan.ofr => \E a \in Nodes : IsFork(a) /\ OfrFrom(a) <= x /\ x < OfrTo(a)

\* And those of the edges on the SWO tape.
SwoTo(a) == Node(a).position + (IF Node(a).filter THEN Node(a).parent_n ELSE 0)
EdgeSpans ==
  /\ \A a \in Nodes : SwoTo(a) <= plan.swo
  /\ \A a, b \in Nodes : a < b => SwoTo(a) <= Node(b).position
  /\ \A x \in Nat : x < plan.swo => \E a \in Nodes : Node(a).position <= x /\ x < SwoTo(a)

Has(p, m, top, j) == \E s \in Nat : Sound(p, m, s, top) /\ s <= j /\ j < s + p.k

\* Every sample has its leaf, or is among those of a call.
CoverInv ==
  \A j \in Nat : j < shape.k =>
    \/ \E id \in Nodes : IsLeaf(id) /\ Has(Node(id), shape.m, shape.k, j)
    \/ \E q \in DOMAIN todo : Has(todo[q].piece, shape.m, shape.k, j)

PlanInv ==
  /\ PlanTypes /\ NodeInv /\ RootInv /\ ChildInv /\ TodoInv /\ ParentInv /\ OneParent
  /\ ForkSpans /\ EdgeSpans /\ CoverInv

\* A step of the plan: the call c adds the node b.
Added(c, b, q) ==
  /\ shape' = shape
  /\ Nodes = 1 .. b - 1 /\ Nodes' = 1 .. b
  /\ \A a \in 1 .. b - 1 :
       /\ Node(a)' = Node(a) /\ DOMAIN ChildrenOf(a)' = DOMAIN ChildrenOf(a)
       /\ \A i \in DOMAIN ChildrenOf(a) :
            Child(a, i)' = IF a = c.parent /\ i = c.index THEN b ELSE Child(a, i)
  /\ Node(b)' = [n |-> c.piece.n, k |-> c.piece.k, output |-> c.piece.output,
                 metadata |-> IF Fork(c.piece.n, shape.m, c.piece.k) THEN Len(plan.forks) + 1 ELSE 0,
                 filter |-> Filters(c.piece), position |-> plan.swo,
                 parent_n |-> c.piece.parent_n]
  /\ ChildrenOf(b)' = [i \in DOMAIN q |-> 0]
  /\ plan'.forks = IF Fork(c.piece.n, shape.m, c.piece.k)
                   THEN Append(plan.forks, [offset |-> plan.ofr, count |-> Gates(shape.m, c.piece)])
                   ELSE plan.forks
  /\ plan'.swo = plan.swo + FilterBits(c.piece)
  /\ plan'.ofr = plan.ofr + Gates(shape.m, c.piece)

LEMMA PlanNodeIs ==
  ASSUME PlanTypes, PlanNode,
         NEW c, c = Head(todo), NEW b, b = Len(plan.nodes) + 1,
         NEW q, q = Pieces(FrontierOf(c), shape.m, c.piece)
  PROVE  Added(c, b, q)
<1> DEFINE fork == Fork(c.piece.n, shape.m, c.piece.k)
           node == [n |-> c.piece.n, k |-> c.piece.k, output |-> c.piece.output,
                    metadata |-> IF fork THEN Len(plan.forks) + 1 ELSE 0,
                    filter |-> Filters(c.piece), position |-> plan.swo,
                    parent_n |-> c.piece.parent_n]
           linked == [a \in DOMAIN plan.children |->
                        IF a # c.parent THEN plan.children[a]
                        ELSE [plan.children[a] EXCEPT ![c.index] = b]]
           none == [i \in DOMAIN q |-> 0]
<1>1. /\ todo # <<>> /\ shape' = shape
      /\ plan' = Add(plan, FrontierOf(c), shape.m, c)
  BY DEF PlanNode
<1>2. /\ plan'.nodes = Append(plan.nodes, node)
      /\ plan'.children = Append(linked, none)
      /\ plan'.forks = IF fork THEN Append(plan.forks, [offset |-> plan.ofr, count |-> Gates(shape.m, c.piece)])
                       ELSE plan.forks
      /\ plan'.swo = plan.swo + FilterBits(c.piece)
      /\ plan'.ofr = plan.ofr + Gates(shape.m, c.piece)
  BY <1>1 DEF Add
<1> HIDE DEF node, none, fork
<1>3. b \in Nat /\ b - 1 \in Nat /\ Nodes = 1 .. b - 1 /\ DOMAIN plan.children = 1 .. b - 1
  BY DEF PlanTypes, Nodes
<1>4. /\ DOMAIN plan'.nodes = 1 .. b /\ plan'.nodes[b] = node
      /\ \A a \in 1 .. b - 1 : plan'.nodes[a] = plan.nodes[a]
  BY <1>2, <1>3 DEF PlanTypes
<1>5. linked = [a \in 1 .. b - 1 |-> IF a # c.parent THEN plan.children[a]
                                ELSE [plan.children[a] EXCEPT ![c.index] = b]]
  BY <1>3
<1>6. \A a \in 1 .. b - 1 : plan.children[a] \in Seq(Nat)
  BY <1>3 DEF PlanTypes
<1> DEFINE T == {linked[a] : a \in 1 .. b - 1}
<1>7. linked \in Seq(T) /\ Len(linked) = b - 1
  <2>1. linked \in [1 .. b - 1 -> T]
    BY <1>5
  <2> HIDE DEF linked, T
  <2>2. QED BY <1>3, <2>1
<1> HIDE DEF linked, T
<1>8. /\ Append(linked, none)[b] = none
      /\ \A a \in 1 .. b - 1 : Append(linked, none)[a] = linked[a]
  BY <1>3, <1>7
<1>9. ASSUME NEW a \in 1 .. b - 1
      PROVE  /\ DOMAIN linked[a] = DOMAIN plan.children[a]
             /\ \A i \in DOMAIN plan.children[a] :
                  linked[a][i] = IF a = c.parent /\ i = c.index THEN b ELSE plan.children[a][i]
  <2>1. CASE a # c.parent
    BY <1>5, <2>1
  <2>2. CASE a = c.parent
    <3>1. linked[a] = [plan.children[a] EXCEPT ![c.index] = b]
      BY <1>5, <2>2
    <3> DEFINE f == plan.children[a]
    <3>2. f = [i \in DOMAIN f |-> f[i]]
      BY <1>6
    <3> HIDE DEF f
    <3>3. linked[a] = [f EXCEPT ![c.index] = b]
      BY <3>1 DEF f
    <3>4. DOMAIN linked[a] = DOMAIN f /\ \A i \in DOMAIN f : linked[a][i] = IF i = c.index THEN b ELSE f[i]
      BY <3>2, <3>3
    <3>5. QED BY <2>2, <3>4 DEF f
  <2>3. QED BY <2>1, <2>2
<1>10. b - 1 \in Nat
  BY <1>3
<1>11. Nodes' = 1 .. b
  BY <1>4 DEF Nodes
<1>12. \A a \in 1 .. b - 1 :
        /\ Node(a)' = Node(a) /\ DOMAIN ChildrenOf(a)' = DOMAIN ChildrenOf(a)
        /\ \A i \in DOMAIN ChildrenOf(a) :
             Child(a, i)' = IF a = c.parent /\ i = c.index THEN b ELSE Child(a, i)
  <2>1. SUFFICES ASSUME NEW a \in 1 .. b - 1
                 PROVE  /\ Node(a)' = Node(a) /\ DOMAIN ChildrenOf(a)' = DOMAIN ChildrenOf(a)
                        /\ \A i \in DOMAIN ChildrenOf(a) :
                             Child(a, i)' = IF a = c.parent /\ i = c.index THEN b
                                            ELSE Child(a, i)
    OBVIOUS
  <2>2. ChildrenOf(a)' = linked[a] /\ ChildrenOf(a) = plan.children[a]
    BY <1>2, <1>8 DEF ChildrenOf
  <2>3. Node(a)' = Node(a)
    BY <1>4 DEF Node
  <2>4. QED BY <1>9, <2>2, <2>3 DEF Child
<1>13. Node(b)' = node /\ ChildrenOf(b)' = none
  BY <1>2, <1>4, <1>8 DEF Node, ChildrenOf
<1>14. QED BY <1>1, <1>2, <1>3, <1>10, <1>11, <1>12, <1>13 DEF Added, node, none, fork

\* What is known of the call that a step of the plan makes.
CallKnown(c, b, q) ==
  /\ b \in Nat \ {0} /\ c \in CallRecord
  /\ \E s \in Nat : Sound(c.piece, shape.m, s, shape.k)
  /\ q = Pieces(IF b = 1 THEN shape.frontier ELSE <<>>, shape.m, c.piece)
  /\ FrontierFits(IF b = 1 THEN shape.frontier ELSE <<>>, c.piece.n, shape.m, c.piece.k)
  /\ FrontierOK(shape.frontier, shape.n, shape.m, shape.k)
  /\ q \in Seq(PieceRecord)
  /\ b = 1 => c = RootCall /\ Len(todo) = 1
  /\ b # 1 => /\ c.parent \in Nodes /\ c.index \in DOMAIN ChildrenOf(c.parent)
              /\ Child(c.parent, c.index) = 0
              /\ c.piece = PiecesOf(c.parent)[c.index]

\* The calls after it: its own, and those that were waiting.
NextTodo(c, b, q) ==
  /\ todo \in Seq(CallRecord) /\ Len(todo) >= 1 /\ todo[1] = c
  /\ todo' \in Seq(CallRecord) /\ Len(todo') = Len(q) + (Len(todo) - 1)
  /\ \A i \in 1 .. Len(q) : todo'[i] = Call(b, i, q[i])
  /\ \A i \in 2 .. Len(todo) : todo'[Len(q) + (i - 1)] = todo[i]

LEMMA NextTodoType ==
  ASSUME NEW c, NEW b, NEW q, NextTodo(c, b, q)
  PROVE  todo' \in Seq(CallRecord)
BY DEF NextTodo

Adding(c, b, q) ==
  ShapeInv /\ PlanInv /\ Added(c, b, q) /\ CallKnown(c, b, q) /\ NextTodo(c, b, q)

LEMMA RootPieceSound ==
  ASSUME ShapeInv
  PROVE  Sound(Piece(shape.n, shape.k, 0, 0), shape.m, 0, shape.k) /\ RootCall \in CallRecord
<1>1. shape.m * 0 = 0
  BY DEF ShapeInv
<1>2. Piece(shape.n, shape.k, 0, 0) \in PieceRecord
  BY DEF ShapeInv, Piece, PieceRecord
<1>3. RootCall \in CallRecord
  BY <1>2 DEF RootCall, Call, CallRecord
<1>4. QED BY <1>1, <1>3 DEF Sound, Piece, ShapeInv

LEMMA CallIsKnown ==
  ASSUME ShapeInv, PlanInv, PlanNode, NEW c, c = Head(todo), NEW b, b = Len(plan.nodes) + 1,
         NEW q, q = Pieces(FrontierOf(c), shape.m, c.piece)
  PROVE  CallKnown(c, b, q)
<1>1. b \in Nat \ {0} /\ Nodes = 1 .. b - 1 /\ todo \in Seq(CallRecord)
  BY DEF PlanInv, PlanTypes, Nodes
<1>2. todo # <<>> /\ FrontierOK(shape.frontier, shape.n, shape.m, shape.k)
  BY DEF PlanNode
<1>3. c \in CallRecord /\ 1 \in DOMAIN todo /\ c = todo[1]
  BY <1>1, <1>2
<1>4. \E s \in Nat : Sound(c.piece, shape.m, s, shape.k)
  BY <1>3 DEF PlanInv, NodeInv
<1>5. CASE b = 1
  <2>1. todo = <<RootCall>>
    BY <1>1, <1>5 DEF PlanInv, RootInv
  <2>2. c = RootCall /\ Len(todo) = 1
    BY <1>3, <2>1
  <2>3. c.parent = 0 /\ c.piece = Piece(shape.n, shape.k, 0, 0)
    BY <2>2 DEF RootCall, Call
  <2>4. c.piece.n = shape.n /\ c.piece.k = shape.k
    BY <2>3 DEF Piece
  <2>5. FrontierOf(c) = shape.frontier
    BY <2>3 DEF FrontierOf
  <2>6. FrontierFits(shape.frontier, c.piece.n, shape.m, c.piece.k)
    BY <1>2, <2>4 DEF FrontierFits, ShapeInv
  <2>7. q \in Seq(PieceRecord)
    BY <1>4, <2>5, <2>6, PiecesSequence DEF ShapeInv
  <2>8. QED BY <1>1, <1>2, <1>3, <1>4, <1>5, <2>2, <2>5, <2>6, <2>7 DEF CallKnown
<1>6. CASE b # 1
  <2>1. 1 \in Nodes
    BY <1>1, <1>6
  <2>2. /\ c.parent \in Nodes /\ c.index \in DOMAIN ChildrenOf(c.parent)
        /\ Child(c.parent, c.index) = 0 /\ c.piece = PiecesOf(c.parent)[c.index]
    BY <1>3, <2>1 DEF PlanInv, TodoInv
  <2>3. FrontierOf(c) = <<>>
    BY <1>1, <2>2 DEF FrontierOf
  <2>4. FrontierFits(<<>>, c.piece.n, shape.m, c.piece.k)
    BY DEF FrontierFits
  <2>5. q \in Seq(PieceRecord)
    BY <1>4, <2>3, <2>4, PiecesSequence DEF ShapeInv
  <2>6. QED BY <1>1, <1>2, <1>3, <1>4, <1>6, <2>2, <2>3, <2>4, <2>5 DEF CallKnown
<1>7. QED BY <1>5, <1>6

\* r is w and then t.
Appends(r, w, t, S) ==
  /\ r \in Seq(S) /\ Len(r) = Len(w) + Len(t)
  /\ \A i \in 1 .. Len(w) : r[i] = w[i]
  /\ \A i \in 1 .. Len(t) : r[Len(w) + i] = t[i]

LEMMA Appended ==
  ASSUME NEW S, NEW w \in Seq(S), NEW t \in Seq(S)
  PROVE  Appends(w \o t, w, t, S)
<1>1. Len(w) \in Nat /\ Len(t) \in Nat
  OBVIOUS
<1>2. /\ w \o t \in Seq(S) /\ Len(w \o t) = Len(w) + Len(t)
      /\ \A i \in 1 .. Len(w) + Len(t) : (w \o t)[i] = IF i <= Len(w) THEN w[i] ELSE t[i - Len(w)]
  OBVIOUS
<1>3. \A i \in 1 .. Len(w) : (w \o t)[i] = w[i]
  BY <1>1, <1>2
<1>4. ASSUME NEW i \in 1 .. Len(t) PROVE (w \o t)[Len(w) + i] = t[i]
  BY <1>1, <1>2
<1>5. QED BY <1>2, <1>3, <1>4 DEF Appends

LEMMA TodoIsNext ==
  ASSUME PlanTypes, PlanNode, NEW c, c = Head(todo), NEW b, b = Len(plan.nodes) + 1,
         NEW q, q = Pieces(FrontierOf(c), shape.m, c.piece), q \in Seq(PieceRecord)
  PROVE  NextTodo(c, b, q)
<1> DEFINE t == Tail(todo)
           w == CallsFor(b, q)
<1>1. todo \in Seq(CallRecord) /\ todo # <<>> /\ b \in Nat
  BY DEF PlanTypes, PlanNode
<1>2. todo' = w \o t
  BY DEF PlanNode
<1>3. Len(todo) >= 1 /\ todo[1] = c /\ Len(todo) \in Nat
  BY <1>1
<1>4. t \in Seq(CallRecord) /\ Len(t) = Len(todo) - 1 /\ \A i \in 1 .. Len(t) : t[i] = todo[i + 1]
  BY <1>1, HeadTailProperties
<1>5. w \in Seq(CallRecord) /\ Len(w) = Len(q) /\ \A i \in 1 .. Len(q) : w[i] = Call(b, i, q[i])
  <2>1. Len(q) \in Nat /\ DOMAIN q = 1 .. Len(q) /\ \A i \in 1 .. Len(q) : q[i] \in PieceRecord
    OBVIOUS
  <2>2. w = [i \in 1 .. Len(q) |-> Call(b, i, q[i])]
    BY <2>1 DEF CallsFor
  <2>3. \A i \in 1 .. Len(q) : Call(b, i, q[i]) \in CallRecord
    BY <1>1, <2>1 DEF Call, CallRecord
  <2> HIDE DEF w
  <2>4. w \in [1 .. Len(q) -> CallRecord] /\ \A i \in 1 .. Len(q) : w[i] = Call(b, i, q[i])
    BY <2>2, <2>3
  <2>5. QED BY <2>1, <2>4
<1> HIDE DEF t, w
<1>6. Appends(todo', w, t, CallRecord)
  BY <1>2, <1>4, <1>5, Appended
<1>7. Len(q) \in Nat
  OBVIOUS
<1>8. \A i \in 1 .. Len(q) : todo'[i] = Call(b, i, q[i])
  BY <1>5, <1>6 DEF Appends
<1>9. ASSUME NEW i \in 2 .. Len(todo) PROVE todo'[Len(q) + (i - 1)] = todo[i]
  <2>1. PICK y \in Nat : y = i - 1
    BY <1>3
  <2>2. y \in 1 .. Len(t) /\ y + 1 = i
    BY <1>3, <1>4, <2>1
  <2>3. todo'[Len(w) + y] = t[y] /\ t[y] = todo[y + 1]
    BY <1>4, <1>6, <2>2 DEF Appends
  <2>4. QED BY <1>5, <2>1, <2>2, <2>3
<1>10. todo' \in Seq(CallRecord) /\ Len(todo') = Len(q) + (Len(todo) - 1)
  BY <1>4, <1>5, <1>6 DEF Appends
<1>11. QED BY <1>1, <1>3, <1>8, <1>9, <1>10 DEF NextTodo

LEMMA PlanNodeAdds ==
  ASSUME ShapeInv, PlanInv, PlanNode, NEW c, c = Head(todo), NEW b, b = Len(plan.nodes) + 1,
         NEW q, q = Pieces(FrontierOf(c), shape.m, c.piece)
  PROVE  Adding(c, b, q)
<1>1. PlanTypes
  BY DEF PlanInv
<1>2. CallKnown(c, b, q)
  BY CallIsKnown
<1>3. Added(c, b, q)
  BY <1>1, PlanNodeIs
<1>4. q \in Seq(PieceRecord)
  BY <1>2 DEF CallKnown
<1>5. NextTodo(c, b, q)
  BY <1>1, <1>4, TodoIsNext
<1>6. QED BY <1>2, <1>3, <1>5 DEF Adding

LEMMA PiecesSame ==
  ASSUME NEW f, NEW m, NEW p, NEW r, p.n = r.n, p.k = r.k, p.output = r.output
  PROVE  Pieces(f, m, p) = Pieces(f, m, r)
BY DEF Pieces, ForkPieces, FilterPieces

\* What a step of the plan leaves, and what it adds.
Kept(c, b, q) ==
  /\ \A a \in Nodes : /\ PiecesOf(a)' = PiecesOf(a)
                      /\ IsFork(a)' = IsFork(a) /\ IsLeaf(a)' = IsLeaf(a)
  /\ PiecesOf(b)' = q
  /\ IsFork(b)' = Fork(c.piece.n, shape.m, c.piece.k)
  /\ IsLeaf(b)' = Leaf(c.piece.n, shape.m, c.piece.k)
  /\ IsPiece(b, c.piece)'

LEMMA NodesKept ==
  ASSUME NEW c, NEW b, NEW q, Adding(c, b, q)
  PROVE  Kept(c, b, q)
<1>1. Added(c, b, q) /\ CallKnown(c, b, q)
  BY DEF Adding
<1>2. shape' = shape /\ Nodes = 1 .. b - 1 /\ b \in Nat \ {0}
  BY <1>1 DEF Added, CallKnown
<1>3. ASSUME NEW a \in Nodes
      PROVE  PiecesOf(a)' = PiecesOf(a) /\ IsFork(a)' = IsFork(a) /\ IsLeaf(a)' = IsLeaf(a)
  <2>1. Node(a)' = Node(a)
    BY <1>1, <1>2 DEF Added
  <2>2. QED BY <1>2, <2>1 DEF PiecesOf, FrontierAt, IsFork, IsLeaf
<1>4. /\ Node(b)'.n = c.piece.n /\ Node(b)'.k = c.piece.k /\ Node(b)'.output = c.piece.output
      /\ Node(b)'.parent_n = c.piece.parent_n
  BY <1>1 DEF Added
<1>5. PiecesOf(b)' = q
  <2>1. FrontierAt(b)' = IF b = 1 THEN shape.frontier ELSE <<>>
    BY <1>2 DEF FrontierAt
  <2>2. PiecesOf(b)' = Pieces(IF b = 1 THEN shape.frontier ELSE <<>>, shape.m, Node(b)')
    BY <1>2, <2>1 DEF PiecesOf
  <2>3. Pieces(IF b = 1 THEN shape.frontier ELSE <<>>, shape.m, Node(b)')
          = Pieces(IF b = 1 THEN shape.frontier ELSE <<>>, shape.m, c.piece)
    BY <1>4, PiecesSame
  <2>4. QED BY <1>1, <2>2, <2>3 DEF CallKnown
<1>6. /\ IsFork(b)' = Fork(c.piece.n, shape.m, c.piece.k)
      /\ IsLeaf(b)' = Leaf(c.piece.n, shape.m, c.piece.k) /\ IsPiece(b, c.piece)'
  BY <1>2, <1>4 DEF IsFork, IsLeaf, IsPiece
<1>7. QED BY <1>3, <1>5, <1>6 DEF Kept

LEMMA TodoSplit ==
  ASSUME NEW c, NEW b, NEW q, Adding(c, b, q), NEW r \in DOMAIN todo'
  PROVE  \/ r \in 1 .. Len(q) /\ todo'[r] = Call(b, r, q[r])
         \/ \E i \in 2 .. Len(todo) : r = Len(q) + (i - 1) /\ todo'[r] = todo[i]
<1>1. NextTodo(c, b, q) /\ q \in Seq(PieceRecord)
  BY DEF Adding, CallKnown
<1>2. Len(q) \in Nat /\ Len(todo) \in Nat /\ Len(todo) >= 1 /\ r \in 1 .. Len(q) + (Len(todo) - 1)
  BY <1>1 DEF NextTodo
<1>3. CASE r <= Len(q)
  BY <1>1, <1>2, <1>3 DEF NextTodo
<1>4. CASE ~ (r <= Len(q))
  <2>1. PICK i \in 2 .. Len(todo) : i = r - Len(q) + 1
    BY <1>2, <1>4
  <2>2. r = Len(q) + (i - 1)
    BY <1>2, <2>1
  <2>3. todo'[r] = todo[i]
    BY <1>1, <2>2 DEF NextTodo
  <2>4. QED BY <2>2, <2>3
<1>5. QED BY <1>3, <1>4

\* The waiting calls keep waiting.
LEMMA TodoKept ==
  ASSUME NEW c, NEW b, NEW q, Adding(c, b, q), NEW i \in DOMAIN todo, i # 1
  PROVE  \E r \in DOMAIN todo' : todo'[r] = todo[i]
<1>1. NextTodo(c, b, q) /\ q \in Seq(PieceRecord)
  BY DEF Adding, CallKnown
<1>2. Len(q) \in Nat /\ Len(todo) \in Nat /\ i \in 2 .. Len(todo)
  BY <1>1 DEF NextTodo
<1>3. PICK r \in Nat : r = Len(q) + (i - 1)
  BY <1>2
<1>4. todo'[r] = todo[i]
  BY <1>1, <1>2, <1>3 DEF NextTodo
<1>5. r \in DOMAIN todo'
  BY <1>1, <1>2, <1>3 DEF NextTodo
<1>6. QED BY <1>4, <1>5

\* And the calls of the node are made.
LEMMA TodoMade ==
  ASSUME NEW c, NEW b, NEW q, Adding(c, b, q), NEW i \in DOMAIN q
  PROVE  i \in DOMAIN todo' /\ todo'[i] = Call(b, i, q[i])
<1>1. NextTodo(c, b, q) /\ q \in Seq(PieceRecord)
  BY DEF Adding, CallKnown
<1>2. Len(q) \in Nat /\ Len(todo) \in Nat /\ Len(todo) >= 1 /\ i \in 1 .. Len(q)
  BY <1>1 DEF NextTodo
<1>3. QED BY <1>1, <1>2 DEF NextTodo

LEMMA GatesType ==
  ASSUME ShapeInv, NEW p \in PieceRecord
  PROVE  Gates(shape.m, p) \in Nat
<1>1. p.n \in Nat /\ p.k \in Nat /\ shape.m \in Nat
  BY DEF PieceRecord, ShapeInv
<1>2. CASE ~ Fork(p.n, shape.m, p.k)
  BY <1>2 DEF Gates
<1>3. CASE Fork(p.n, shape.m, p.k)
  <2>1. p.n = shape.m * p.k /\ p.k \div 2 \in Nat /\ p.k \div 2 <= p.k
    BY <1>1, <1>3 DEF Fork
  <2>2. shape.m * (p.k \div 2) \in Nat /\ shape.m * (p.k \div 2) <= p.n
    BY <1>1, <2>1, Times
  <2> DEFINE x == shape.m * (p.k \div 2)
  <2> HIDE DEF x
  <2>3. x \in 0 .. p.n
    BY <1>1, <2>2 DEF x
  <2>4. ControlCount[p.n][x] \in Nat
    BY <1>1, <2>3, ControlCountType
  <2>5. QED BY <1>3, <2>4 DEF Gates, x
<1>4. QED BY <1>2, <1>3

LEMMA PlanTypesKept ==
  ASSUME NEW c, NEW b, NEW q, Adding(c, b, q), PlanNode, c = Head(todo), b = Len(plan.nodes) + 1,
         q = Pieces(FrontierOf(c), shape.m, c.piece)
  PROVE  PlanTypes'
<1>1. PlanTypes /\ CallKnown(c, b, q) /\ NextTodo(c, b, q) /\ ShapeInv
  BY DEF Adding, PlanInv
<1> DEFINE fork == Fork(c.piece.n, shape.m, c.piece.k)
           node == [n |-> c.piece.n, k |-> c.piece.k, output |-> c.piece.output,
                    metadata |-> IF fork THEN Len(plan.forks) + 1 ELSE 0,
                    filter |-> Filters(c.piece), position |-> plan.swo,
                    parent_n |-> c.piece.parent_n]
           linked == [a \in DOMAIN plan.children |->
                        IF a # c.parent THEN plan.children[a]
                        ELSE [plan.children[a] EXCEPT ![c.index] = b]]
           none == [i \in DOMAIN q |-> 0]
           span == [offset |-> plan.ofr, count |-> Gates(shape.m, c.piece)]
<1>2. c.piece \in PieceRecord /\ b \in Nat /\ b - 1 \in Nat /\ b - 1 = Len(plan.nodes)
  BY <1>1 DEF CallKnown, CallRecord, PlanTypes
<1>3. /\ c.piece.n \in Nat /\ c.piece.k \in Nat /\ c.piece.output \in Nat /\ c.piece.parent_n \in Nat
  BY <1>2 DEF PieceRecord
<1>4. Gates(shape.m, c.piece) \in Nat
  BY <1>1, <1>2, GatesType
<1>5. plan' = Add(plan, FrontierOf(c), shape.m, c)
  BY DEF PlanNode
<1>6. /\ plan'.nodes = Append(plan.nodes, node)
      /\ plan'.children = Append(linked, none)
      /\ plan'.forks = IF fork THEN Append(plan.forks, span) ELSE plan.forks
      /\ plan'.swo = plan.swo + FilterBits(c.piece)
      /\ plan'.ofr = plan.ofr + Gates(shape.m, c.piece)
  BY <1>5 DEF Add
<1>7. node \in NodeRecord
  <2>1. Filters(c.piece) \in BOOLEAN
    BY <1>3 DEF Filters
  <2>2. Len(plan.forks) \in Nat /\ plan.swo \in Nat
    BY <1>1 DEF PlanTypes
  <2>3. QED BY <1>3, <2>1, <2>2 DEF NodeRecord
<1>8. none \in Seq(Nat) /\ Len(none) = Len(q)
  BY <1>1 DEF CallKnown
<1>9. linked \in Seq(Seq(Nat)) /\ Len(linked) = b - 1
  <2>1. plan.children \in Seq(Seq(Nat)) /\ Len(plan.children) = b - 1
    BY <1>1, <1>2 DEF PlanTypes
  <2>2. ASSUME NEW a \in 1 .. b - 1 PROVE linked[a] \in Seq(Nat)
    <3>1. plan.children[a] \in Seq(Nat) /\ a \in DOMAIN plan.children
      BY <2>1, <2>2
    <3> DEFINE f == plan.children[a]
    <3> HIDE DEF f
    <3>2. [f EXCEPT ![c.index] = b] \in Seq(Nat)
      <4>1. f \in [1 .. Len(f) -> Nat] /\ Len(f) \in Nat
        BY <3>1 DEF f
      <4>2. [f EXCEPT ![c.index] = b] \in [1 .. Len(f) -> Nat]
        BY <1>2, <4>1
      <4>3. QED BY <4>1, <4>2
    <3>3. QED BY <3>1, <3>2 DEF f
  <2>3. linked = [a \in 1 .. b - 1 |-> linked[a]]
    BY <2>1
  <2> HIDE DEF linked
  <2>4. linked \in [1 .. b - 1 -> Seq(Nat)]
    BY <2>2, <2>3
  <2>5. QED BY <1>2, <2>4
<1>10. span \in ForkRecord /\ plan.forks \in Seq(ForkRecord)
  BY <1>1, <1>4 DEF ForkRecord, PlanTypes
<1>11. FilterBits(c.piece) \in Nat
  BY <1>3 DEF FilterBits
<1> HIDE DEF node, linked, none, span
<1>12. plan'.nodes \in Seq(NodeRecord) /\ Len(plan'.nodes) = b
  BY <1>1, <1>2, <1>6, <1>7 DEF PlanTypes
<1>13. plan'.children \in Seq(Seq(Nat)) /\ Len(plan'.children) = b
  BY <1>2, <1>6, <1>8, <1>9
<1>14. plan'.forks \in Seq(ForkRecord)
  BY <1>6, <1>10
<1>15. plan'.swo \in Nat /\ plan'.ofr \in Nat
  <2>1. plan.swo \in Nat /\ plan.ofr \in Nat
    BY <1>1 DEF PlanTypes
  <2>2. plan.swo + FilterBits(c.piece) \in Nat
    BY <1>11, <2>1
  <2>3. plan.ofr + Gates(shape.m, c.piece) \in Nat
    BY <1>4, <2>1
  <2>4. QED BY <1>6, <2>2, <2>3
<1>16. todo' \in Seq(CallRecord)
  BY <1>1, NextTodoType
<1>17. QED BY <1>12, <1>13, <1>14, <1>15, <1>16 DEF PlanTypes

LEMMA NodeInvKept ==
  ASSUME NEW c, NEW b, NEW q, Adding(c, b, q)
  PROVE  NodeInv'
<1>1. NodeInv /\ CallKnown(c, b, q) /\ NextTodo(c, b, q) /\ Added(c, b, q) /\ ShapeInv
  BY DEF Adding, PlanInv
<1>2. Kept(c, b, q)
  BY NodesKept
<1>3. shape' = shape /\ Nodes = 1 .. b - 1 /\ Nodes' = 1 .. b /\ b \in Nat \ {0}
  BY <1>1 DEF Added, CallKnown
<1>4. ASSUME NEW a \in Nodes
      PROVE  /\ \E s \in Nat : Sound(Node(a)', shape'.m, s, shape'.k)
             /\ DOMAIN ChildrenOf(a)' = DOMAIN PiecesOf(a)'
             /\ Node(a)'.filter = Filters(Node(a)')
  <2>1. Node(a)' = Node(a) /\ DOMAIN ChildrenOf(a)' = DOMAIN ChildrenOf(a)
    BY <1>1, <1>3 DEF Added
  <2>2. PiecesOf(a)' = PiecesOf(a)
    BY <1>2 DEF Kept
  <2>3. /\ \E s \in Nat : Sound(Node(a), shape.m, s, shape.k)
        /\ DOMAIN ChildrenOf(a) = DOMAIN PiecesOf(a)
        /\ Node(a).filter = Filters(Node(a))
    BY <1>1 DEF NodeInv
  <2>4. QED BY <1>3, <2>1, <2>2, <2>3
<1>5. /\ \E s \in Nat : Sound(Node(b)', shape'.m, s, shape'.k)
      /\ DOMAIN ChildrenOf(b)' = DOMAIN PiecesOf(b)'
      /\ Node(b)'.filter = Filters(Node(b)')
  <2>1. /\ Node(b)'.n = c.piece.n /\ Node(b)'.k = c.piece.k /\ Node(b)'.output = c.piece.output
        /\ Node(b)'.parent_n = c.piece.parent_n /\ Node(b)'.filter = Filters(c.piece)
        /\ DOMAIN ChildrenOf(b)' = DOMAIN q
    BY <1>1 DEF Added
  <2>2. \E s \in Nat : Sound(c.piece, shape.m, s, shape.k)
    BY <1>1 DEF CallKnown
  <2>3. PiecesOf(b)' = q
    BY <1>2 DEF Kept
  <2>4. QED BY <1>3, <2>1, <2>2, <2>3 DEF Sound, Filters
<1>6. ASSUME NEW r \in DOMAIN todo'
      PROVE  \E s \in Nat : Sound(todo'[r].piece, shape'.m, s, shape'.k)
  <2>1. CASE r \in 1 .. Len(q) /\ todo'[r] = Call(b, r, q[r])
    <3> DEFINE f == IF b = 1 THEN shape.frontier ELSE <<>>
    <3>1. PICK s \in Nat : Sound(c.piece, shape.m, s, shape.k)
      BY <1>1 DEF CallKnown
    <3>2. q = Pieces(f, shape.m, c.piece) /\ FrontierFits(f, c.piece.n, shape.m, c.piece.k)
          /\ q \in Seq(PieceRecord) /\ shape.m \in Nat \ {0} /\ shape.k \in Nat
      BY <1>1 DEF CallKnown, ShapeInv
    <3> HIDE DEF f
    <3>3. ~ Leaf(c.piece.n, shape.m, c.piece.k) /\ r \in DOMAIN q
      <4>1. r \in DOMAIN q
        BY <2>1, <3>2
      <4>2. QED BY <4>1, <3>2 DEF Pieces
    <3>4. Sound(q[r], shape.m, s + Division(f, shape.m, c.piece)[r].start, shape.k)
      BY <3>1, <3>2, <3>3, PiecesSound
    <3>5. s + Division(f, shape.m, c.piece)[r].start \in Nat
      BY <3>4 DEF Sound
    <3>6. todo'[r].piece = q[r]
      BY <2>1 DEF Call
    <3>7. QED BY <1>3, <3>4, <3>5, <3>6
  <2>2. CASE \E i \in 2 .. Len(todo) : r = Len(q) + (i - 1) /\ todo'[r] = todo[i]
    <3>1. PICK i \in 2 .. Len(todo) : todo'[r] = todo[i]
      BY <2>2
    <3>2. i \in DOMAIN todo
      BY <1>1 DEF NextTodo
    <3>3. QED BY <1>1, <1>3, <3>1, <3>2 DEF NodeInv
  <2>3. QED BY <2>1, <2>2, TodoSplit
<1>7. \A a \in Nodes' : a \in Nodes \/ a = b
  BY <1>3
<1>8. QED BY <1>4, <1>5, <1>6, <1>7 DEF NodeInv

LEMMA RootInvKept ==
  ASSUME NEW c, NEW b, NEW q, Adding(c, b, q)
  PROVE  RootInv'
<1>1. RootInv /\ CallKnown(c, b, q) /\ Added(c, b, q) /\ ShapeInv
  BY DEF Adding, PlanInv
<1>2. shape' = shape /\ Nodes = 1 .. b - 1 /\ Nodes' = 1 .. b /\ b \in Nat \ {0}
  BY <1>1 DEF Added, CallKnown
<1>3. 1 \in Nodes' /\ FrontierOK(shape'.frontier, shape'.n, shape'.m, shape'.k)
  BY <1>1, <1>2 DEF CallKnown
<1>4. CASE b = 1
  <2>1. c.piece = Piece(shape.n, shape.k, 0, 0)
    BY <1>1, <1>4 DEF CallKnown, RootCall, Call
  <2>2. c.piece.n = shape.n /\ c.piece.k = shape.k /\ c.piece.output = 0 /\ c.piece.parent_n = 0
    BY <2>1 DEF Piece
  <2>3. QED BY <1>1, <1>2, <1>3, <1>4, <2>2 DEF RootInv, Added
<1>5. CASE b # 1
  <2>1. 1 \in Nodes
    BY <1>2, <1>5
  <2>2. Node(1)' = Node(1)
    BY <1>1, <1>2, <2>1 DEF Added
  <2>3. QED BY <1>1, <1>2, <1>3, <2>1, <2>2 DEF RootInv
<1>6. QED BY <1>4, <1>5

LEMMA ChildInvKept ==
  ASSUME NEW c, NEW b, NEW q, Adding(c, b, q)
  PROVE  ChildInv'
<1>1. ChildInv /\ CallKnown(c, b, q) /\ NextTodo(c, b, q) /\ Added(c, b, q) /\ ShapeInv
  BY DEF Adding, PlanInv
<1>2. Kept(c, b, q)
  BY NodesKept
<1>3. Nodes = 1 .. b - 1 /\ Nodes' = 1 .. b /\ b \in Nat \ {0}
  BY <1>1 DEF Added, CallKnown
<1>4. ASSUME NEW a \in Nodes, NEW i \in DOMAIN ChildrenOf(a)
      PROVE  IF Child(a, i)' = 0 THEN \E r \in DOMAIN todo' : todo'[r] = Call(a, i, PiecesOf(a)'[i])
             ELSE /\ Child(a, i)' \in Nodes' /\ a < Child(a, i)'
                  /\ IsPiece(Child(a, i), PiecesOf(a)[i])'
  <2>1. Child(a, i)' = IF a = c.parent /\ i = c.index THEN b ELSE Child(a, i)
    BY <1>1, <1>3 DEF Added
  <2>2. PiecesOf(a)' = PiecesOf(a)
    BY <1>2 DEF Kept
  <2>3. CASE a = c.parent /\ i = c.index
    <3>1. Child(a, i)' = b /\ b # 0 /\ a < b /\ b \in Nodes' /\ b # 1
      BY <1>3, <2>1, <2>3
    <3>2. c.piece = PiecesOf(a)[i]
      BY <1>1, <2>3, <3>1 DEF CallKnown
    <3>3. IsPiece(b, c.piece)'
      BY <1>2 DEF Kept
    <3>4. IsPiece(Child(a, i), PiecesOf(a)[i])'
      BY <2>2, <3>1, <3>2, <3>3 DEF IsPiece, Node
    <3>5. QED BY <3>1, <3>4
  <2>4. CASE ~ (a = c.parent /\ i = c.index) /\ Child(a, i) = 0
    <3>1. PICK j \in DOMAIN todo : todo[j] = Call(a, i, PiecesOf(a)[i])
      BY <1>1, <2>4 DEF ChildInv
    <3>2. j # 1
      <4>1. todo[j].parent = a /\ todo[j].index = i
        BY <3>1 DEF Call
      <4>2. QED BY <1>1, <2>4, <4>1 DEF NextTodo
    <3>3. \E r \in DOMAIN todo' : todo'[r] = todo[j]
      BY <3>2, TodoKept
    <3>4. QED BY <2>1, <2>2, <2>4, <3>1, <3>3
  <2>5. CASE ~ (a = c.parent /\ i = c.index) /\ Child(a, i) # 0
    <3> DEFINE d == Child(a, i)
    <3>1. d \in Nodes /\ a < d /\ IsPiece(d, PiecesOf(a)[i])
      BY <1>1, <2>5 DEF ChildInv
    <3>2. Child(a, i)' = d /\ d # 0
      BY <2>1, <2>5
    <3>3. Node(d)' = Node(d)
      <4> HIDE DEF d
      <4>1. PICK e \in 1 .. b - 1 : e = d
        BY <1>3, <3>1
      <4>2. Node(e)' = Node(e)
        BY <1>1 DEF Added
      <4>3. Child(a, i)' = e /\ Child(a, i) = e
        BY <3>2, <4>1 DEF d
      <4>4. QED BY <4>2, <4>3 DEF Node, d
    <3>4. IsPiece(Child(a, i), PiecesOf(a)[i])'
      BY <2>2, <3>1, <3>2, <3>3 DEF IsPiece
    <3>5. d \in Nodes'
      BY <1>3, <3>1
    <3>6. QED BY <3>1, <3>2, <3>4, <3>5
  <2>6. QED BY <2>3, <2>4, <2>5
<1>5. ASSUME NEW i \in DOMAIN q
      PROVE  Child(b, i)' = 0 /\ \E r \in DOMAIN todo' : todo'[r] = Call(b, i, PiecesOf(b)'[i])
  <2>1. Child(b, i)' = 0
    BY <1>1 DEF Added, Child
  <2>2. PiecesOf(b)' = q
    BY <1>2 DEF Kept
  <2>3. QED BY <2>1, <2>2, TodoMade
<1>6. DOMAIN ChildrenOf(b)' = DOMAIN q /\ \A a \in Nodes : DOMAIN ChildrenOf(a)' = DOMAIN ChildrenOf(a)
  BY <1>1, <1>3 DEF Added
<1>7. \A a \in Nodes' : a \in Nodes \/ a = b
  BY <1>3
<1>8. SUFFICES ASSUME NEW a \in Nodes', NEW i \in DOMAIN ChildrenOf(a)'
      PROVE  IF Child(a, i)' = 0 THEN \E r \in DOMAIN todo' : todo'[r] = Call(a, i, PiecesOf(a)'[i])
             ELSE /\ Child(a, i)' \in Nodes' /\ a < Child(a, i)'
                  /\ IsPiece(Child(a, i), PiecesOf(a)[i])'
  BY DEF ChildInv
<1>9. CASE a \in Nodes
  BY <1>4, <1>6, <1>9
<1>10. CASE a = b
  BY <1>5, <1>6, <1>10
<1>11. QED BY <1>7, <1>9, <1>10

LEMMA TodoInvKept ==
  ASSUME NEW c, NEW b, NEW q, Adding(c, b, q)
  PROVE  TodoInv'
<1>1. TodoInv /\ CallKnown(c, b, q) /\ NextTodo(c, b, q) /\ Added(c, b, q) /\ ShapeInv
  BY DEF Adding, PlanInv
<1>2. Kept(c, b, q)
  BY NodesKept
<1>3. Nodes = 1 .. b - 1 /\ Nodes' = 1 .. b /\ b \in Nat \ {0} /\ q \in Seq(PieceRecord)
  BY <1>1 DEF Added, CallKnown
<1>4. /\ todo \in Seq(CallRecord) /\ Len(todo) \in Nat /\ Len(todo) >= 1 /\ Len(q) \in Nat
      /\ DOMAIN todo = 1 .. Len(todo) /\ DOMAIN q = 1 .. Len(q)
  BY <1>1, <1>3 DEF NextTodo
<1>5. \A i \in 2 .. Len(todo) : b # 1 /\ 1 \in Nodes
  BY <1>1, <1>3, <1>4 DEF CallKnown
<1> DEFINE old(r, i) == i \in 2 .. Len(todo) /\ r = Len(q) + (i - 1) /\ todo'[r] = todo[i]
           made(r) == r \in 1 .. Len(q) /\ todo'[r] = Call(b, r, q[r])
           waits(r, a) == \E j \in DOMAIN ChildrenOf(a)' :
                            /\ todo'[r].parent = a /\ todo'[r].index = j
                            /\ Child(a, j)' = 0 /\ todo'[r].piece = PiecesOf(a)'[j]
<1>6. \A r \in DOMAIN todo' : made(r) \/ \E i \in 2 .. Len(todo) : old(r, i)
  BY TodoSplit
<1>7. ASSUME NEW r \in DOMAIN todo', made(r)
      PROVE  /\ todo'[r].parent = b /\ todo'[r].index = r /\ r \in DOMAIN ChildrenOf(b)'
             /\ Child(b, r)' = 0 /\ todo'[r].piece = PiecesOf(b)'[r]
  <2>1. todo'[r].parent = b /\ todo'[r].index = r /\ todo'[r].piece = q[r]
    BY <1>7 DEF Call
  <2>2. r \in DOMAIN ChildrenOf(b)' /\ Child(b, r)' = 0
    BY <1>1, <1>4, <1>7 DEF Added, Child
  <2>3. PiecesOf(b)' = q
    BY <1>2 DEF Kept
  <2>4. QED BY <2>1, <2>2, <2>3
<1>8. ASSUME NEW r \in DOMAIN todo', NEW i \in 2 .. Len(todo), old(r, i)
      PROVE  \E a \in Nodes : waits(r, a)
  <2>1. PICK e : e = todo[i]
    OBVIOUS
  <2>2. todo'[r] = e /\ i \in DOMAIN todo /\ i # 1 /\ 1 \in DOMAIN todo
    BY <1>4, <1>8, <2>1
  <2>3. /\ e.parent \in Nodes /\ e.index \in DOMAIN ChildrenOf(e.parent) /\ Child(e.parent, e.index) = 0
        /\ e.piece = PiecesOf(e.parent)[e.index]
    BY <1>1, <1>5, <2>1, <2>2 DEF TodoInv
  <2>4. ~ (e.parent = c.parent /\ e.index = c.index)
    <3>1. ~ (todo[i].parent = todo[1].parent /\ todo[i].index = todo[1].index)
      BY <1>1, <1>5, <2>2 DEF TodoInv
    <3>2. QED BY <1>1, <2>1, <3>1 DEF NextTodo
  <2>5. PICK a \in Nodes : a = e.parent
    BY <2>3
  <2>6. PICK j \in DOMAIN ChildrenOf(a) : j = e.index
    BY <2>3, <2>5
  <2>7. Child(a, j)' = 0 /\ DOMAIN ChildrenOf(a)' = DOMAIN ChildrenOf(a)
    BY <1>1, <1>3, <2>3, <2>4, <2>5, <2>6 DEF Added
  <2>8. PiecesOf(a)' = PiecesOf(a)
    BY <1>2 DEF Kept
  <2>9. todo'[r].parent = a /\ todo'[r].index = j /\ todo'[r].piece = PiecesOf(a)[j]
    BY <2>2, <2>3, <2>5, <2>6
  <2>10. QED BY <2>7, <2>8, <2>9
<1>9. ASSUME NEW r \in DOMAIN todo', NEW s \in DOMAIN todo',
             todo'[r].parent = todo'[s].parent, todo'[r].index = todo'[s].index
      PROVE  r = s
  <2>1. CASE made(r) /\ made(s)
    BY <1>7, <1>9, <2>1
  <2>2. CASE (\E i \in 2 .. Len(todo) : old(r, i)) /\ (\E i \in 2 .. Len(todo) : old(s, i))
    <3>1. PICK i \in 2 .. Len(todo) : old(r, i)
      BY <2>2
    <3>2. PICK j \in 2 .. Len(todo) : old(s, j)
      BY <2>2
    <3>3. todo[i].parent = todo[j].parent /\ todo[i].index = todo[j].index
      BY <1>9, <3>1, <3>2
    <3>4. i = j
      BY <1>1, <1>4, <1>5, <3>3 DEF TodoInv
    <3>5. QED BY <3>1, <3>2, <3>4
  <2>3. ASSUME NEW x \in DOMAIN todo', NEW y \in DOMAIN todo', made(x),
               \E i \in 2 .. Len(todo) : old(y, i)
        PROVE  todo'[x].parent # todo'[y].parent
    <3>1. PICK i \in 2 .. Len(todo) : old(y, i)
      BY <2>3
    <3>2. todo'[x].parent = b
      BY <1>7, <2>3
    <3>3. todo'[y].parent \in Nodes
      BY <1>8, <3>1
    <3>4. b \notin Nodes
      BY <1>3
    <3>5. QED BY <3>2, <3>3, <3>4
  <2>4. QED BY <1>6, <1>9, <2>1, <2>2, <2>3
<1>10. ASSUME NEW r \in DOMAIN todo'
       PROVE  \E a \in Nodes' : waits(r, a)
  <2>1. CASE made(r)
    <3>1. /\ todo'[r].parent = b /\ todo'[r].index = r /\ r \in DOMAIN ChildrenOf(b)'
          /\ Child(b, r)' = 0 /\ todo'[r].piece = PiecesOf(b)'[r] /\ b \in Nodes'
      BY <1>3, <1>7, <2>1
    <3>2. QED BY <3>1
  <2>2. CASE \E i \in 2 .. Len(todo) : old(r, i)
    BY <1>3, <1>8, <2>2
  <2>3. QED BY <1>6, <2>1, <2>2
<1> HIDE DEF old, made
<1>11. ASSUME NEW r \in DOMAIN todo'
       PROVE  /\ todo'[r].parent \in Nodes'
              /\ todo'[r].index \in DOMAIN plan'.children[todo'[r].parent]
              /\ plan'.children[todo'[r].parent][todo'[r].index] = 0
              /\ todo'[r].piece = Pieces(IF todo'[r].parent = 1 THEN shape'.frontier ELSE <<>>, shape'.m,
                                         plan'.nodes[todo'[r].parent])[todo'[r].index]
  BY <1>10 DEF Child, ChildrenOf, PiecesOf, Node, FrontierAt
<1>12. QED BY <1>9, <1>11 DEF TodoInv, Child, ChildrenOf, PiecesOf, Node, FrontierAt

LEMMA ParentInvKept ==
  ASSUME NEW c, NEW b, NEW q, Adding(c, b, q)
  PROVE  ParentInv'
<1>1. ParentInv /\ ChildInv /\ CallKnown(c, b, q) /\ Added(c, b, q)
  BY DEF Adding, PlanInv
<1>2. Nodes = 1 .. b - 1 /\ Nodes' = 1 .. b /\ b \in Nat \ {0}
  BY <1>1 DEF Added, CallKnown
<1>3. ASSUME NEW d \in Nodes', d # 1
      PROVE  \E a \in Nodes' : \E i \in DOMAIN ChildrenOf(a)' : Child(a, i)' = d
  <2>1. CASE d = b
    <3>1. PICK a \in Nodes : a = c.parent
      BY <1>1, <1>3, <2>1 DEF CallKnown
    <3>2. PICK i \in DOMAIN ChildrenOf(a) : i = c.index
      BY <1>1, <1>3, <2>1, <3>1 DEF CallKnown
    <3>3. Child(a, i)' = b /\ DOMAIN ChildrenOf(a)' = DOMAIN ChildrenOf(a) /\ a \in Nodes'
      BY <1>1, <1>2, <3>1, <3>2 DEF Added
    <3>4. QED BY <2>1, <3>3
  <2>2. CASE d # b
    <3>1. d \in Nodes
      BY <1>2, <2>2
    <3>2. PICK a \in Nodes : \E i \in DOMAIN ChildrenOf(a) : Child(a, i) = d
      BY <1>1, <1>3, <3>1 DEF ParentInv
    <3>3. PICK i \in DOMAIN ChildrenOf(a) : Child(a, i) = d
      BY <3>2
    <3>4. d # 0
      BY <1>2, <3>1
    <3>5. ~ (a = c.parent /\ i = c.index)
      <4>1. SUFFICES ASSUME a = c.parent, i = c.index PROVE FALSE
        OBVIOUS
      <4>2. b # 1
        BY <1>2
      <4>3. Child(a, i) = 0
        BY <1>1, <4>1, <4>2 DEF CallKnown
      <4>4. QED BY <3>3, <3>4, <4>3
    <3>6. Child(a, i)' = d /\ DOMAIN ChildrenOf(a)' = DOMAIN ChildrenOf(a) /\ a \in Nodes'
      BY <1>1, <1>2, <3>3, <3>5 DEF Added
    <3>7. QED BY <3>6
  <2>3. QED BY <2>1, <2>2
<1>4. QED BY <1>3 DEF ParentInv

LEMMA OneParentKept ==
  ASSUME NEW c, NEW b, NEW q, Adding(c, b, q)
  PROVE  OneParent'
<1>1. OneParent /\ ChildInv /\ CallKnown(c, b, q) /\ Added(c, b, q)
  BY DEF Adding, PlanInv
<1>2. Nodes = 1 .. b - 1 /\ Nodes' = 1 .. b /\ b \in Nat \ {0}
  BY <1>1 DEF Added, CallKnown
<1> DEFINE made(a, i) == a = c.parent /\ i = c.index
<1>3. ASSUME NEW a \in Nodes', NEW i \in DOMAIN ChildrenOf(a)', Child(a, i)' # 0
      PROVE  /\ a \in Nodes /\ i \in DOMAIN ChildrenOf(a)
             /\ made(a, i) => Child(a, i)' = b
             /\ ~ made(a, i) => Child(a, i)' = Child(a, i) /\ Child(a, i) \in Nodes
  <2>1. a # b
    BY <1>1, <1>3 DEF Added, Child
  <2>2. a \in Nodes
    BY <1>2, <2>1
  <2>3. i \in DOMAIN ChildrenOf(a)
    BY <1>1, <1>2, <2>2 DEF Added
  <2>4. Child(a, i)' = IF made(a, i) THEN b ELSE Child(a, i)
    BY <1>1, <1>2, <2>2, <2>3 DEF Added
  <2>5. ~ made(a, i) => Child(a, i) \in Nodes
    BY <1>1, <1>3, <2>2, <2>3, <2>4 DEF ChildInv
  <2>6. QED BY <2>2, <2>3, <2>4, <2>5
<1>4. b \notin Nodes
  BY <1>2
<1>5. ASSUME NEW a \in Nodes', NEW d \in Nodes', NEW i \in DOMAIN ChildrenOf(a)',
             NEW j \in DOMAIN ChildrenOf(d)', Child(a, i)' # 0, Child(a, i)' = Child(d, j)'
      PROVE  a = d /\ i = j
  <2>1. CASE made(a, i) /\ made(d, j)
    BY <2>1
  <2>2. CASE ~ made(a, i) /\ ~ made(d, j)
    <3>1. /\ a \in Nodes /\ i \in DOMAIN ChildrenOf(a) /\ Child(a, i)' = Child(a, i)
          /\ d \in Nodes /\ j \in DOMAIN ChildrenOf(d) /\ Child(d, j)' = Child(d, j)
      BY <1>3, <1>5, <2>2
    <3>2. Child(a, i) # 0 /\ Child(a, i) = Child(d, j)
      BY <1>5, <3>1
    <3>3. QED BY <1>1, <3>1, <3>2 DEF OneParent
  <2>3. CASE made(a, i) /\ ~ made(d, j)
    <3>1. Child(a, i)' = b /\ Child(d, j)' \in Nodes
      BY <1>3, <1>5, <2>3
    <3>2. QED BY <1>4, <1>5, <3>1
  <2>4. CASE ~ made(a, i) /\ made(d, j)
    <3>1. Child(d, j)' = b /\ Child(a, i)' \in Nodes
      BY <1>3, <1>5, <2>4
    <3>2. QED BY <1>4, <1>5, <3>1
  <2> HIDE DEF made
  <2>5. QED BY <2>1, <2>2, <2>3, <2>4
<1>6. QED BY <1>5 DEF OneParent

LEMMA ForkSpansKept ==
  ASSUME NEW c, NEW b, NEW q, Adding(c, b, q)
  PROVE  ForkSpans'
<1>1. PlanTypes /\ ForkSpans /\ CallKnown(c, b, q) /\ Added(c, b, q) /\ ShapeInv
  BY DEF Adding, PlanInv
<1>2. Kept(c, b, q)
  BY NodesKept
<1>3. Nodes = 1 .. b - 1 /\ Nodes' = 1 .. b /\ b \in Nat \ {0}
  BY <1>1 DEF Added, CallKnown
<1> DEFINE fork == Fork(c.piece.n, shape.m, c.piece.k)
           g == Gates(shape.m, c.piece)
           span == [offset |-> plan.ofr, count |-> g]
           L == Len(plan.forks)
<1>4. g \in Nat
  BY <1>1, GatesType DEF CallKnown, CallRecord
<1>5. plan.forks \in Seq(ForkRecord) /\ plan.ofr \in Nat /\ L \in Nat /\ DOMAIN plan.forks = 1 .. L
  BY <1>1 DEF PlanTypes
<1>6. span \in ForkRecord
  BY <1>4, <1>5 DEF ForkRecord
<1>7. plan'.forks = IF fork THEN Append(plan.forks, span) ELSE plan.forks
  BY <1>1 DEF Added
<1>8. plan'.ofr = plan.ofr + g /\ Node(b)'.metadata = IF fork THEN L + 1 ELSE 0
  BY <1>1 DEF Added
<1>9. IsFork(b)' = fork /\ \A a \in Nodes : IsFork(a)' = IsFork(a)
  BY <1>2 DEF Kept
<1>10. ~ fork => g = 0
  BY DEF Gates
<1> HIDE DEF fork, g, L
<1>11. /\ \A x \in 1 .. L : x \in DOMAIN plan'.forks /\ plan'.forks[x] = plan.forks[x]
       /\ fork => L + 1 \in DOMAIN plan'.forks /\ plan'.forks[L + 1] = span
  <2>1. CASE fork
    <3>1. plan'.forks = Append(plan.forks, span)
      BY <1>7, <2>1
    <3> HIDE DEF span
    <3>2. L = Len(plan.forks)
      BY DEF L
    <3>3. QED BY <1>5, <1>6, <3>1, <3>2
  <2>2. CASE ~ fork
    BY <1>5, <1>7, <2>2
  <2>3. QED BY <2>1, <2>2
<1>12. ASSUME NEW a \in Nodes, IsFork(a)
       PROVE  /\ Node(a)'.metadata \in DOMAIN plan'.forks
              /\ OfrTo(a)' = OfrTo(a) /\ OfrFrom(a)' = OfrFrom(a)
              /\ OfrTo(a) <= plan.ofr /\ OfrTo(a) \in Nat /\ OfrFrom(a) \in Nat
  <2>1. Node(a)' = Node(a)
    BY <1>1, <1>3 DEF Added
  <2>2. Node(a).metadata \in 1 .. L /\ OfrTo(a) <= plan.ofr
    BY <1>1, <1>5, <1>12 DEF ForkSpans
  <2>3. plan.forks[Node(a).metadata] \in ForkRecord
    BY <1>5, <2>2
  <2>4. OfrTo(a) \in Nat /\ OfrFrom(a) \in Nat
    BY <2>3 DEF ForkRecord, OfrTo, OfrFrom
  <2>5. /\ Node(a).metadata \in DOMAIN plan'.forks
        /\ plan'.forks[Node(a).metadata] = plan.forks[Node(a).metadata]
    BY <1>11, <2>2
  <2>6. OfrTo(a)' = OfrTo(a) /\ OfrFrom(a)' = OfrFrom(a)
    BY <2>1, <2>5 DEF OfrTo, OfrFrom
  <2>7. QED BY <2>1, <2>2, <2>4, <2>5, <2>6
<1>13. ASSUME fork
       PROVE  /\ Node(b)'.metadata \in DOMAIN plan'.forks
              /\ OfrFrom(b)' = plan.ofr /\ OfrTo(b)' = plan.ofr + g
  BY <1>8, <1>11, <1>13 DEF OfrFrom, OfrTo
<1>14. ASSUME NEW a \in Nodes', IsFork(a)'
       PROVE  Node(a)'.metadata \in DOMAIN plan'.forks /\ OfrTo(a)' <= plan'.ofr
  <2>1. CASE a \in Nodes
    BY <1>4, <1>5, <1>8, <1>9, <1>12, <1>14, <2>1
  <2>2. CASE a = b
    BY <1>4, <1>5, <1>8, <1>9, <1>13, <1>14, <2>2
  <2>3. QED BY <1>3, <2>1, <2>2
<1>15. ASSUME NEW a \in Nodes', NEW d \in Nodes', IsFork(a)', IsFork(d)', a < d
       PROVE  OfrTo(a)' <= OfrFrom(d)'
  <2>1. a \in Nodes /\ IsFork(a)
    BY <1>3, <1>9, <1>15
  <2>2. OfrTo(a)' = OfrTo(a) /\ OfrTo(a) <= plan.ofr
    BY <1>12, <2>1
  <2>3. CASE d \in Nodes
    <3>1. IsFork(d) /\ OfrFrom(d)' = OfrFrom(d)
      BY <1>9, <1>12, <1>15, <2>3
    <3>2. OfrTo(a) <= OfrFrom(d)
      BY <1>1, <1>15, <2>1, <2>3, <3>1 DEF ForkSpans
    <3>3. QED BY <2>2, <3>1, <3>2
  <2>4. CASE d = b
    <3>1. OfrFrom(d)' = plan.ofr
      BY <1>9, <1>13, <1>15, <2>4
    <3>2. QED BY <2>2, <3>1
  <2>5. QED BY <1>3, <2>3, <2>4
<1>16. ASSUME NEW x \in Nat, x < plan'.ofr
       PROVE  \E a \in Nodes' : IsFork(a)' /\ OfrFrom(a)' <= x /\ x < OfrTo(a)'
  <2>1. CASE x < plan.ofr
    <3>1. PICK a \in Nodes : IsFork(a) /\ OfrFrom(a) <= x /\ x < OfrTo(a)
      BY <1>1, <2>1 DEF ForkSpans
    <3>2. a \in Nodes' /\ IsFork(a)' /\ OfrFrom(a)' = OfrFrom(a) /\ OfrTo(a)' = OfrTo(a)
      BY <1>3, <1>9, <1>12, <3>1
    <3>3. QED BY <3>1, <3>2
  <2>2. CASE ~ (x < plan.ofr)
    <3>1. fork /\ plan.ofr <= x /\ x < plan.ofr + g
      BY <1>4, <1>5, <1>8, <1>10, <1>16, <2>2
    <3>2. b \in Nodes' /\ IsFork(b)' /\ OfrFrom(b)' = plan.ofr /\ OfrTo(b)' = plan.ofr + g
      BY <1>3, <1>9, <1>13, <3>1
    <3>3. QED BY <3>1, <3>2
  <2>3. QED BY <2>1, <2>2
<1>17. QED BY <1>14, <1>15, <1>16 DEF ForkSpans

LEMMA EdgeSpansKept ==
  ASSUME NEW c, NEW b, NEW q, Adding(c, b, q)
  PROVE  EdgeSpans'
<1>1. PlanTypes /\ EdgeSpans /\ CallKnown(c, b, q) /\ Added(c, b, q) /\ ShapeInv
  BY DEF Adding, PlanInv
<1>2. Nodes = 1 .. b - 1 /\ Nodes' = 1 .. b /\ b \in Nat \ {0}
  BY <1>1 DEF Added, CallKnown
<1> DEFINE w == FilterBits(c.piece)
<1>3. c.piece.n \in Nat /\ c.piece.parent_n \in Nat
  <2>1. c.piece \in PieceRecord
    BY <1>1 DEF CallKnown, CallRecord
  <2>2. QED BY <2>1 DEF PieceRecord
<1>4. w \in Nat /\ plan.swo \in Nat /\ plan'.swo = plan.swo + w
  BY <1>1, <1>3 DEF Added, PlanTypes, FilterBits
<1>5. Node(b)'.position = plan.swo /\ SwoTo(b)' = plan.swo + w
  BY <1>1 DEF Added, SwoTo, FilterBits
<1>6. ASSUME NEW a \in Nodes
      PROVE  /\ Node(a)' = Node(a) /\ SwoTo(a)' = SwoTo(a)
             /\ SwoTo(a) \in Nat /\ Node(a).position \in Nat /\ SwoTo(a) <= plan.swo
  <2>1. Node(a)' = Node(a)
    BY <1>1, <1>2 DEF Added
  <2>2. Node(a) \in NodeRecord
    BY <1>1 DEF PlanTypes, Node, Nodes
  <2>3. Node(a).position \in Nat /\ Node(a).parent_n \in Nat
    BY <2>2 DEF NodeRecord
  <2>4. QED BY <1>1, <2>1, <2>3 DEF SwoTo, EdgeSpans
<1> HIDE DEF w
<1>7. ASSUME NEW a \in Nodes' PROVE SwoTo(a)' <= plan'.swo
  <2>1. CASE a \in Nodes
    BY <1>4, <1>6, <2>1
  <2>2. CASE a = b
    BY <1>4, <1>5, <2>2
  <2>3. QED BY <1>2, <2>1, <2>2
<1>8. ASSUME NEW a \in Nodes', NEW d \in Nodes', a < d PROVE SwoTo(a)' <= Node(d)'.position
  <2>1. a \in Nodes
    BY <1>2, <1>8
  <2>2. CASE d \in Nodes
    BY <1>1, <1>6, <1>8, <2>1, <2>2 DEF EdgeSpans
  <2>3. CASE d = b
    BY <1>5, <1>6, <2>1, <2>3
  <2>4. QED BY <1>2, <2>2, <2>3
<1>9. ASSUME NEW x \in Nat, x < plan'.swo
      PROVE  \E a \in Nodes' : Node(a)'.position <= x /\ x < SwoTo(a)'
  <2>1. CASE x < plan.swo
    <3>1. PICK a \in Nodes : Node(a).position <= x /\ x < SwoTo(a)
      BY <1>1, <2>1 DEF EdgeSpans
    <3>2. a \in Nodes' /\ Node(a)' = Node(a) /\ SwoTo(a)' = SwoTo(a)
      BY <1>2, <1>6
    <3>3. QED BY <3>1, <3>2
  <2>2. CASE ~ (x < plan.swo)
    <3>1. plan.swo <= x /\ x < plan.swo + w /\ b \in Nodes'
      BY <1>2, <1>4, <1>9, <2>2
    <3>2. QED BY <1>5, <3>1
  <2>3. QED BY <2>1, <2>2
<1>10. QED BY <1>7, <1>8, <1>9 DEF EdgeSpans

LEMMA CoverInvKept ==
  ASSUME NEW c, NEW b, NEW q, Adding(c, b, q)
  PROVE  CoverInv'
<1>1. CoverInv /\ CallKnown(c, b, q) /\ NextTodo(c, b, q) /\ Added(c, b, q) /\ ShapeInv
  BY DEF Adding, PlanInv
<1>2. Kept(c, b, q)
  BY NodesKept
<1>3. shape' = shape /\ Nodes = 1 .. b - 1 /\ Nodes' = 1 .. b /\ b \in Nat \ {0}
  BY <1>1 DEF Added, CallKnown
<1>4. SUFFICES ASSUME NEW j \in Nat, j < shape.k
               PROVE  \/ \E id \in Nodes' : IsLeaf(id)' /\ Has(Node(id)', shape.m, shape.k, j)
                      \/ \E r \in DOMAIN todo' : Has(todo'[r].piece, shape.m, shape.k, j)
  BY <1>3 DEF CoverInv
<1>5. CASE \E id \in Nodes : IsLeaf(id) /\ Has(Node(id), shape.m, shape.k, j)
  <2>1. PICK id \in Nodes : IsLeaf(id) /\ Has(Node(id), shape.m, shape.k, j)
    BY <1>5
  <2>2. id \in Nodes' /\ Node(id)' = Node(id)
    BY <1>1, <1>3 DEF Added
  <2>3. IsLeaf(id)' = IsLeaf(id)
    BY <1>2 DEF Kept
  <2>4. QED BY <2>1, <2>2, <2>3
<1>6. CASE \E r \in DOMAIN todo : r # 1 /\ Has(todo[r].piece, shape.m, shape.k, j)
  <2>1. PICK r \in DOMAIN todo : r # 1 /\ Has(todo[r].piece, shape.m, shape.k, j)
    BY <1>6
  <2>2. \E i \in DOMAIN todo' : todo'[i] = todo[r]
    BY <2>1, TodoKept
  <2>3. QED BY <2>1, <2>2
<1>7. CASE Has(c.piece, shape.m, shape.k, j)
  <2>1. PICK s \in Nat : Sound(c.piece, shape.m, s, shape.k) /\ s <= j /\ j < s + c.piece.k
    BY <1>7 DEF Has
  <2>2. CASE Leaf(c.piece.n, shape.m, c.piece.k)
    <3>1. b \in Nodes' /\ IsLeaf(b)'
      BY <1>2, <1>3, <2>2 DEF Kept
    <3>2. /\ Node(b)'.n = c.piece.n /\ Node(b)'.k = c.piece.k
          /\ Node(b)'.output = c.piece.output /\ Node(b)'.parent_n = c.piece.parent_n
      BY <1>1 DEF Added
    <3>3. Has(Node(b)', shape.m, shape.k, j)
      BY <2>1, <3>2 DEF Has, Sound
    <3>4. QED BY <3>1, <3>3
  <2>3. CASE ~ Leaf(c.piece.n, shape.m, c.piece.k)
    <3> DEFINE f == IF b = 1 THEN shape.frontier ELSE <<>>
               e == Division(f, shape.m, c.piece)
    <3>1. /\ q = Pieces(f, shape.m, c.piece) /\ FrontierFits(f, c.piece.n, shape.m, c.piece.k)
          /\ shape.m \in Nat \ {0} /\ shape.k \in Nat
      BY <1>1 DEF CallKnown, ShapeInv
    <3> HIDE DEF f
    <3>2. /\ c.piece.k \in Nat \ {0} /\ c.piece.n \in Nat /\ c.piece.output \in Nat
      BY <1>1, <2>1, Times DEF Sound, ShapeInv
    <3>3. ShareOut(e, c.piece.k)
      BY <3>1, <3>2, DivisionShares
    <3>4. PiecesFollow(q, e, c.piece.n, shape.m, c.piece.k, c.piece.output)
      BY <2>3, <3>1, <3>2, PiecesAre
    <3>5. \A i \in DOMAIN q : Sound(q[i], shape.m, s + e[i].start, shape.k)
      BY <2>1, <2>3, <3>1, PiecesSound
    <3> HIDE DEF e
    <3>6. j - s \in 0 .. c.piece.k - 1
      BY <2>1, <3>2
    <3>7. PICK i \in 1 .. Len(e) : e[i].start <= j - s /\ j - s < e[i].start + e[i].count
      BY <3>3, <3>6 DEF ShareOut
    <3>8. e[i] \in Edge /\ i \in DOMAIN e
      BY <3>3, <3>7 DEF ShareOut
    <3>9. e[i].start \in Nat /\ e[i].count \in Nat
      BY <3>8 DEF Edge
    <3>10. i \in DOMAIN q /\ q[i].k = e[i].count
      BY <3>4, <3>8 DEF PiecesFollow
    <3>11. Sound(q[i], shape.m, s + e[i].start, shape.k)
      BY <3>5, <3>10
    <3>12. s + e[i].start \in Nat /\ s + e[i].start <= j /\ j < s + e[i].start + q[i].k
      BY <2>1, <3>7, <3>9, <3>10
    <3>13. Has(q[i], shape.m, shape.k, j)
      BY <3>11, <3>12 DEF Has
    <3>14. i \in DOMAIN todo' /\ todo'[i] = Call(b, i, q[i])
      BY <3>10, TodoMade
    <3>15. QED BY <3>13, <3>14 DEF Call
  <2>4. QED BY <2>2, <2>3
<1>8. \/ \E id \in Nodes : IsLeaf(id) /\ Has(Node(id), shape.m, shape.k, j)
      \/ \E r \in DOMAIN todo : Has(todo[r].piece, shape.m, shape.k, j)
  BY <1>1, <1>4 DEF CoverInv
<1>9. todo[1] = c
  BY <1>1 DEF NextTodo
<1>10. QED BY <1>5, <1>6, <1>7, <1>8, <1>9

LEMMA PlanStep ==
  ASSUME ShapeInv, PlanInv, PlanNode
  PROVE  ShapeInv' /\ PlanInv'
<1>1. PICK c : c = Head(todo)
  OBVIOUS
<1>2. PICK b : b = Len(plan.nodes) + 1
  OBVIOUS
<1>3. PICK q : q = Pieces(FrontierOf(c), shape.m, c.piece)
  OBVIOUS
<1>4. Adding(c, b, q)
  BY <1>1, <1>2, <1>3, PlanNodeAdds
<1>5. PlanTypes'
  BY <1>1, <1>2, <1>3, <1>4, PlanTypesKept
<1>6. NodeInv' /\ RootInv' /\ ChildInv' /\ TodoInv'
  BY <1>4, NodeInvKept, RootInvKept, ChildInvKept, TodoInvKept
<1>7. ParentInv' /\ OneParent'
  BY <1>4, ParentInvKept, OneParentKept
<1>8. ForkSpans' /\ EdgeSpans' /\ CoverInv'
  BY <1>4, ForkSpansKept, EdgeSpansKept, CoverInvKept
<1>9. ShapeInv'
  BY DEF PlanNode, ShapeInv
<1>10. QED BY <1>5, <1>6, <1>7, <1>8, <1>9 DEF PlanInv

LEMMA Quotient ==
  ASSUME NEW a \in Nat, NEW d \in Nat \ {0}
  PROVE  a \div d \in Nat /\ a % d \in Nat
OBVIOUS

LEMMA FrontierType ==
  ASSUME NEW n \in Nat \ {0}, NEW m \in Nat \ {0}, NEW k \in Nat \ {0}, m <= n
  PROVE  Frontier(n, m, k) \in Seq(Edge)
<1> DEFINE d == n \div m
           nodes == CeilDiv(k, d)
           base == k \div nodes
           larger == k % nodes
<1>1. d \in Nat \ {0}
  BY DEF d
<1> HIDE DEF d
<1>2. nodes \in Nat \ {0}
  <2>1. k \div d \in Nat /\ k % d \in Nat
    BY <1>1, Quotient
  <2>2. k \div d # 0 \/ k % d # 0
    BY <1>1
  <2>3. QED BY <2>1, <2>2 DEF CeilDiv, nodes
<1> HIDE DEF nodes
<1>3. base \in Nat /\ larger \in Nat
  BY <1>2, Quotient
<1> HIDE DEF base, larger
<1> DEFINE start(v) == (v - 1) * base + Smaller(v - 1, larger)
           count(v) == base + (IF v <= larger THEN 1 ELSE 0)
           f == [v \in 1 .. nodes |-> [start |-> start(v), count |-> count(v)]]
<1>4. ASSUME NEW v \in 1 .. nodes PROVE start(v) \in Nat /\ count(v) \in Nat
  <2>1. v - 1 \in Nat
    BY <1>2
  <2>2. (v - 1) * base \in Nat
    BY <1>3, <2>1
  <2>3. Smaller(v - 1, larger) \in Nat
    BY <1>3, <2>1 DEF Smaller
  <2>4. QED BY <1>3, <2>2, <2>3
<1>5. Frontier(n, m, k) = f
  BY DEF Frontier, d, nodes, base, larger
<1> HIDE DEF start, count
<1>6. \A v \in 1 .. nodes : [start |-> start(v), count |-> count(v)] \in Edge
  BY <1>4 DEF Edge
<1>7. f \in [1 .. nodes -> Edge]
  BY <1>6
<1> HIDE DEF f
<1>8. QED BY <1>2, <1>5, <1>7

LEMMA InitPlan ==
  ASSUME Init
  PROVE  ShapeInv /\ PlanInv
<1>1. PICK n \in 1 .. MaxN, k \in 1 .. MaxK :
        \E m \in 1 .. n :
          \E f \in Frontiers(n, m, k),
             threads \in IF n < MinBlocks THEN {1} ELSE 1 .. Smaller(k, MaxThreads) :
            /\ shape = [n |-> n, m |-> m, k |-> k, frontier |-> f, threads |-> threads]
            /\ todo = <<Call(0, 0, Piece(n, k, 0, 0))>>
  BY DEF Init
<1>2. PICK m \in 1 .. n :
        \E f \in Frontiers(n, m, k),
           threads \in IF n < MinBlocks THEN {1} ELSE 1 .. Smaller(k, MaxThreads) :
          /\ shape = [n |-> n, m |-> m, k |-> k, frontier |-> f, threads |-> threads]
          /\ todo = <<Call(0, 0, Piece(n, k, 0, 0))>>
  BY <1>1
<1>3. PICK f \in Frontiers(n, m, k),
           threads \in IF n < MinBlocks THEN {1} ELSE 1 .. Smaller(k, MaxThreads) :
          /\ shape = [n |-> n, m |-> m, k |-> k, frontier |-> f, threads |-> threads]
          /\ todo = <<Call(0, 0, Piece(n, k, 0, 0))>>
  BY <1>2
<1>4. /\ n \in Nat \ {0} /\ m \in Nat \ {0} /\ k \in Nat \ {0} /\ m <= n
  OBVIOUS
<1>5. threads \in Nat \ {0}
  <2>1. Smaller(k, MaxThreads) \in Nat
    BY RunAssumption DEF Smaller
  <2>2. threads = 1 \/ threads \in 1 .. Smaller(k, MaxThreads)
    BY RunAssumption
  <2>3. QED BY <2>1, <2>2
<1>6. f \in Seq(Edge)
  <2>1. Frontier(n, m, k) \in Seq(Edge)
    BY <1>4, FrontierType
  <2>2. <<>> \in Seq(Edge)
    OBVIOUS
  <2>3. f = <<>> \/ f = Frontier(n, m, k) \/ f \in Seq([start : Nat, count : Nat])
    BY DEF Frontiers
  <2>4. QED BY <2>1, <2>2, <2>3 DEF Edge
<1>7. ShapeInv
  BY <1>3, <1>4, <1>5, <1>6 DEF ShapeInv
<1>8. todo = <<RootCall>> /\ plan = NoPlan
  BY <1>3 DEF RootCall, Init
<1>9. Sound(Piece(shape.n, shape.k, 0, 0), shape.m, 0, shape.k) /\ RootCall \in CallRecord
  BY <1>7, RootPieceSound
<1>10. DOMAIN todo = {1} /\ todo[1] = RootCall /\ todo \in Seq(CallRecord)
  BY <1>8, <1>9
<1>11. todo[1].piece = Piece(shape.n, shape.k, 0, 0)
  BY <1>10 DEF RootCall, Call
<1>12. plan.nodes = <<>> /\ plan.children = <<>> /\ plan.forks = <<>> /\ plan.swo = 0 /\ plan.ofr = 0
  BY <1>8 DEF NoPlan
<1>13. Nodes = {}
  BY <1>12 DEF Nodes
<1>14. PlanTypes
  BY <1>10, <1>12 DEF PlanTypes
<1>15. NodeInv
  BY <1>9, <1>10, <1>11, <1>13 DEF NodeInv
<1>16. RootInv /\ ChildInv /\ TodoInv /\ ParentInv /\ OneParent
  BY <1>8, <1>13 DEF RootInv, ChildInv, TodoInv, ParentInv, OneParent
<1>17. ForkSpans /\ EdgeSpans
  BY <1>12, <1>13 DEF ForkSpans, EdgeSpans
<1>18. CoverInv
  <2>1. SUFFICES ASSUME NEW j \in Nat, j < shape.k
                 PROVE  Has(todo[1].piece, shape.m, shape.k, j)
    BY <1>10 DEF CoverInv
  <2>2. todo[1].piece.k = shape.k /\ shape.k \in Nat
    BY <1>7, <1>11 DEF Piece, ShapeInv
  <2>3. 0 <= j /\ j < 0 + todo[1].piece.k
    BY <2>1, <2>2
  <2>4. QED BY <1>9, <1>11, <2>3 DEF Has
<1>19. QED BY <1>7, <1>14, <1>15, <1>16, <1>17, <1>18 DEF PlanInv

-----------------------------------------------------------------------------
(* The depth of the workspaces.                                             *)

DepthFrom(g, k) == IF k <= 1 THEN 2 ELSE 1 + g[Ceil(k)]
Deep(g, m) == \A k \in 0 .. m : g[k] \in Nat /\ g[k] = DepthFrom(g, k)

LEMMA Halving ==
  ASSUME NEW k \in Nat, k > 1
  PROVE  Ceil(k) \in Nat /\ Ceil(k) < k /\ Ceil(k) >= 1
BY DEF Ceil

LEMMA DeepExists == \A m \in Nat : \E g : Deep(g, m)
<1> DEFINE bad == {m \in Nat : ~ \E g : Deep(g, m)}
<1>1. SUFFICES ASSUME bad # {} PROVE FALSE
  OBVIOUS
<1>2. PICK m \in bad : \A k \in bad : m <= k
  BY <1>1, LeastNumber
<1>3. CASE m = 0
  <2> DEFINE g == [k \in {0} |-> 2]
  <2>1. g[0] = 2 /\ \A k \in 0 .. 0 : k = 0
    OBVIOUS
  <2> HIDE DEF g
  <2>2. Deep(g, 0)
    BY <2>1 DEF Deep, DepthFrom
  <2>3. QED BY <1>3, <2>2
<1>4. CASE m # 0
  <2>1. m - 1 \in Nat /\ ~ (m <= m - 1)
    BY <1>4
  <2>2. PICK g : Deep(g, m - 1)
    BY <1>2, <2>1
  <2> DEFINE h == [k \in 0 .. m |-> IF k = m THEN DepthFrom(g, m) ELSE g[k]]
  <2>3. /\ h[m] = DepthFrom(g, m)
        /\ \A k \in 0 .. m - 1 : h[k] = g[k]
    OBVIOUS
  <2> HIDE DEF h
  <2>4. ASSUME NEW k \in 0 .. m PROVE DepthFrom(h, k) = DepthFrom(g, k)
    <3>1. k > 1 => Ceil(k) \in 0 .. m - 1
      BY <2>1, Halving
    <3>2. QED BY <2>3, <3>1 DEF DepthFrom
  <2>5. DepthFrom(g, m) \in Nat
    <3>1. m > 1 => Ceil(m) \in 0 .. m - 1
      BY <2>1, Halving
    <3>2. QED BY <2>1, <2>2, <3>1 DEF DepthFrom, Deep
  <2>6. ASSUME NEW k \in 0 .. m PROVE h[k] \in Nat /\ h[k] = DepthFrom(h, k)
    <3>1. CASE k = m
      BY <2>3, <2>4, <2>5, <3>1
    <3>2. CASE k # m
      <4>1. k \in 0 .. m - 1
        BY <3>2
      <4>2. QED BY <2>2, <2>3, <2>4, <4>1 DEF Deep
    <3>3. QED BY <3>1, <3>2
  <2>7. Deep(h, m)
    BY <2>6 DEF Deep
  <2>8. QED BY <2>7
<1>5. QED BY <1>3, <1>4

LEMMA DeepAgree ==
  ASSUME NEW g, NEW h, NEW a \in Nat, NEW b \in Nat, Deep(g, a), Deep(h, b)
  PROVE  \A k \in Nat : k <= a /\ k <= b => g[k] = h[k]
<1> DEFINE bad == {k \in Nat : k <= a /\ k <= b /\ g[k] # h[k]}
<1>1. SUFFICES ASSUME bad # {} PROVE FALSE
  OBVIOUS
<1>2. PICK k \in bad : \A j \in bad : k <= j
  BY <1>1, LeastNumber
<1>3. k \in Nat /\ k <= a /\ k <= b /\ g[k] # h[k]
  OBVIOUS
<1>4. g[k] = DepthFrom(g, k) /\ h[k] = DepthFrom(h, k)
  BY <1>3 DEF Deep
<1>5. k > 1 => g[Ceil(k)] = h[Ceil(k)]
  <2>1. SUFFICES ASSUME k > 1 PROVE g[Ceil(k)] = h[Ceil(k)]
    OBVIOUS
  <2>2. Ceil(k) \in Nat /\ Ceil(k) < k
    BY <1>3, <2>1, Halving
  <2>3. ~ (k <= Ceil(k)) /\ Ceil(k) <= a /\ Ceil(k) <= b
    BY <1>3, <2>2
  <2>4. Ceil(k) \notin bad
    BY <1>2, <2>3
  <2>5. QED BY <2>2, <2>3, <2>4
<1>6. DepthFrom(g, k) = DepthFrom(h, k)
  BY <1>3, <1>5 DEF DepthFrom
<1>7. QED BY <1>3, <1>4, <1>6

LEMMA DepthIs ==
  ASSUME NEW k \in Nat
  PROVE  WorkspaceDepth[k] \in Nat /\ WorkspaceDepth[k] = DepthFrom(WorkspaceDepth, k)
<1> DEFINE G(m) == CHOOSE g : Deep(g, m)
           f == [m \in Nat |-> G(m)[m]]
           eq(h) == h = [m \in Nat |-> IF m <= 1 THEN 2 ELSE 1 + h[Ceil(m)]]
<1>1. \A m \in Nat : Deep(G(m), m)
  BY DeepExists
<1> HIDE DEF G
<1>2. ASSUME NEW m \in Nat PROVE f[m] \in Nat /\ f[m] = DepthFrom(f, m)
  <2>1. G(m)[m] \in Nat /\ G(m)[m] = DepthFrom(G(m), m) /\ f[m] = G(m)[m]
    BY <1>1 DEF Deep
  <2>2. m > 1 => f[Ceil(m)] = G(m)[Ceil(m)]
    <3>1. SUFFICES ASSUME m > 1 PROVE f[Ceil(m)] = G(m)[Ceil(m)]
      OBVIOUS
    <3>2. PICK c \in Nat : c = Ceil(m) /\ c < m
      BY <3>1, Halving
    <3>3. Deep(G(c), c) /\ Deep(G(m), m)
      BY <1>1
    <3>4. G(c)[c] = G(m)[c]
      BY <3>2, <3>3, DeepAgree
    <3>5. f[c] = G(c)[c]
      OBVIOUS
    <3>6. QED BY <3>2, <3>4, <3>5
  <2> HIDE DEF f
  <2>3. DepthFrom(f, m) = DepthFrom(G(m), m)
    BY <2>2 DEF DepthFrom
  <2>4. QED BY <2>1, <2>3
<1>3. eq(f)
  <2>1. \A m \in Nat : f[m] = IF m <= 1 THEN 2 ELSE 1 + f[Ceil(m)]
    BY <1>2 DEF DepthFrom
  <2>2. f = [m \in Nat |-> f[m]]
    OBVIOUS
  <2> HIDE DEF f
  <2>3. QED BY <2>1, <2>2
<1> HIDE DEF f
<1>4. WorkspaceDepth = CHOOSE h : eq(h)
  BY DEF WorkspaceDepth
<1>5. eq(WorkspaceDepth)
  BY <1>3, <1>4
<1>6. \A m \in Nat : WorkspaceDepth[m] = DepthFrom(WorkspaceDepth, m)
  BY <1>5 DEF DepthFrom
<1> HIDE DEF eq
<1>7. \A m \in Nat : f[m] = WorkspaceDepth[m]
  <2> DEFINE bad == {m \in Nat : f[m] # WorkspaceDepth[m]}
  <2>1. SUFFICES ASSUME bad # {} PROVE FALSE
    OBVIOUS
  <2>2. PICK m \in bad : \A j \in bad : m <= j
    BY <2>1, LeastNumber
  <2>3. m > 1 => f[Ceil(m)] = WorkspaceDepth[Ceil(m)]
    <3>1. SUFFICES ASSUME m > 1 PROVE f[Ceil(m)] = WorkspaceDepth[Ceil(m)]
      OBVIOUS
    <3>2. Ceil(m) \in Nat /\ ~ (m <= Ceil(m))
      BY <3>1, Halving
    <3>3. Ceil(m) \notin bad
      BY <2>2, <3>2
    <3>4. QED BY <3>2, <3>3
  <2>4. f[m] = DepthFrom(f, m) /\ WorkspaceDepth[m] = DepthFrom(WorkspaceDepth, m)
    BY <1>2, <1>6
  <2>5. DepthFrom(f, m) = DepthFrom(WorkspaceDepth, m)
    BY <2>3 DEF DepthFrom
  <2>6. QED BY <2>4, <2>5
<1>8. QED BY <1>2, <1>6, <1>7

LEMMA DepthGrows ==
  ASSUME NEW k \in Nat, NEW j \in Nat, j <= k
  PROVE  WorkspaceDepth[j] <= WorkspaceDepth[k] /\ WorkspaceDepth[k] >= 2
<1> DEFINE good(c) == WorkspaceDepth[c] >= 2
                      /\ \A i \in Nat : i <= c => WorkspaceDepth[i] <= WorkspaceDepth[c]
           bad == {c \in Nat : ~ good(c)}
<1>1. SUFFICES ASSUME bad # {} PROVE FALSE
  BY DEF bad
<1>2. PICK c \in bad : \A i \in bad : c <= i
  BY <1>1, LeastNumber
<1>3. c \in Nat /\ ~ good(c)
  OBVIOUS
<1>4. \A i \in Nat : i < c => good(i)
  <2>1. \A i \in Nat : i < c => ~ (c <= i)
    BY <1>3
  <2>2. QED BY <1>2, <2>1
<1>5. \A i \in Nat : WorkspaceDepth[i] \in Nat /\ WorkspaceDepth[i] = DepthFrom(WorkspaceDepth, i)
  BY DepthIs
<1>6. CASE c <= 1
  <2>1. \A i \in Nat : i <= 1 => WorkspaceDepth[i] = 2
    BY <1>5 DEF DepthFrom
  <2>2. QED BY <1>3, <1>6, <2>1
<1>7. CASE c > 1
  <2>1. Ceil(c) \in Nat /\ Ceil(c) < c /\ WorkspaceDepth[c] = 1 + WorkspaceDepth[Ceil(c)]
    BY <1>3, <1>5, <1>7, Halving DEF DepthFrom
  <2>2. good(Ceil(c))
    BY <1>4, <2>1
  <2>3. ASSUME NEW i \in Nat, i <= c PROVE WorkspaceDepth[i] <= WorkspaceDepth[c]
    <3>1. CASE i <= 1
      <4>1. WorkspaceDepth[i] = 2
        BY <1>5, <3>1 DEF DepthFrom
      <4>2. QED BY <1>5, <2>1, <2>2, <4>1
    <3>2. CASE i > 1
      <4>1. Ceil(i) \in Nat /\ Ceil(i) <= Ceil(c)
        BY <1>3, <2>3, <3>2 DEF Ceil
      <4>2. WorkspaceDepth[i] = 1 + WorkspaceDepth[Ceil(i)]
        BY <1>5, <3>2 DEF DepthFrom
      <4>3. WorkspaceDepth[Ceil(i)] <= WorkspaceDepth[Ceil(c)]
        BY <2>2, <4>1
      <4>4. QED BY <1>5, <2>1, <4>1, <4>2, <4>3
    <3>3. QED BY <3>1, <3>2
  <2>4. WorkspaceDepth[c] >= 2
    BY <1>5, <2>1, <2>2
  <2>5. QED BY <1>3, <2>3, <2>4
<1>8. QED BY <1>3, <1>6, <1>7

-----------------------------------------------------------------------------
(* What the calls rely on of a plan that is made.                           *)

LEMMA SpanWithin ==
  ASSUME NEW m \in Nat, NEW s \in Nat, NEW k \in Nat, NEW d \in Nat, NEW c \in Nat, d + c <= k
  PROVE  Span(m * (s + d), m * c) \subseteq Span(m * s, m * k)
<1>1. /\ m * (s + d) = m * s + m * d /\ m * (d + c) = m * d + m * c /\ m * (d + c) <= m * k
      /\ m * s \in Nat /\ m * d \in Nat /\ m * c \in Nat /\ m * k \in Nat
  BY Times
<1> DEFINE x == m * s
           y == m * d
           z == m * c
           w == m * k
<1>2. m * (s + d) = x + y /\ y + z <= w /\ x \in Nat /\ y \in Nat /\ z \in Nat /\ w \in Nat
  BY <1>1
<1> HIDE DEF x, y, z, w
<1>3. Span(x + y, z) \subseteq Span(x, w)
  BY <1>2 DEF Span
<1>4. QED BY <1>2, <1>3 DEF x, z, w

LEMMA SpansDisjoint ==
  ASSUME NEW m \in Nat, NEW s \in Nat, NEW k \in Nat, NEW t \in Nat, NEW c \in Nat, s + k <= t
  PROVE  Span(m * s, m * k) \cap Span(m * t, m * c) = {}
<1>1. /\ m * (s + k) = m * s + m * k /\ m * (s + k) <= m * t
      /\ m * s \in Nat /\ m * k \in Nat /\ m * t \in Nat /\ m * c \in Nat
  BY Times
<1> DEFINE x == m * s
           y == m * k
           z == m * t
           w == m * c
<1>2. x + y <= z /\ x \in Nat /\ y \in Nat /\ z \in Nat /\ w \in Nat
  BY <1>1
<1> HIDE DEF x, y, z, w
<1>3. Span(x, y) \cap Span(z, w) = {}
  BY <1>2 DEF Span
<1>4. QED BY <1>3 DEF x, y, z, w

Made == ShapeInv /\ PlanInv /\ todo = <<>>

\* A child finds room for its workspaces below its parent's, has a slice of its
\* parent's, and if it gets a single sample of a filter is a leaf.
ChildFits(a, b) ==
  /\ b \in Nodes /\ a < b /\ Slice(b) \subseteq Slice(a)
  /\ ~ IsLeaf(b) => WorkspaceDepth[Node(b).k] + (IF a = 1 THEN 0 ELSE 1) <= WorkspaceDepth[Node(a).k]
  /\ ~ IsFork(a) /\ Node(b).k = 1 => IsLeaf(b)
  /\ IsFork(a) => ~ Node(b).filter

SiblingsApart(a) ==
  \A i, j \in DOMAIN ChildrenOf(a) : i # j => Slice(Child(a, i)) \cap Slice(Child(a, j)) = {}

ChildCount(a) ==
  /\ ChildrenOf(a) \in Seq(Nat) /\ Len(ChildrenOf(a)) \in Nat
  /\ DOMAIN ChildrenOf(a) = 1 .. Len(ChildrenOf(a))
  /\ IsLeaf(a) => Len(ChildrenOf(a)) = 0
  /\ ~ IsLeaf(a) => Len(ChildrenOf(a)) >= 1
  /\ IsFork(a) => Len(ChildrenOf(a)) = 2 /\ ~ IsLeaf(a)

LEMMA MadeNodes ==
  ASSUME Made
  PROVE  1 \in Nodes /\ Nodes \subseteq Nat \ {0} /\ Node(1).k = shape.k /\ ~ Node(1).filter
<1>1. Nodes # {}
  <2>1. todo # <<RootCall>>
    BY DEF Made
  <2>2. QED BY <2>1 DEF Made, PlanInv, RootInv
<1>2. Len(plan.nodes) \in Nat /\ Nodes = 1 .. Len(plan.nodes)
  BY DEF Made, PlanInv, PlanTypes, Nodes
<1>3. 1 \in Nodes
  BY <1>1, <1>2
<1>4. Node(1).k = shape.k /\ Node(1).parent_n = 0
  BY <1>1 DEF Made, PlanInv, RootInv
<1>5. Node(1).n \in Nat /\ Node(1).filter = Filters(Node(1))
  BY <1>3 DEF Made, PlanInv, NodeInv, Sound
<1>6. ~ Node(1).filter
  <2>1. ~ (Node(1).n < Node(1).parent_n)
    BY <1>4, <1>5
  <2>2. Filters(Node(1)) = FALSE
    BY <2>1 DEF Filters
  <2>3. QED BY <1>5, <2>2
<1>7. QED BY <1>2, <1>3, <1>4, <1>6

LEMMA MadeFrontier ==
  ASSUME Made, NEW a \in Nodes
  PROVE  /\ FrontierFits(FrontierAt(a), Node(a).n, shape.m, Node(a).k)
         /\ a # 1 => FrontierAt(a) = <<>>
<1>1. CASE a = 1
  <2>1. FrontierAt(a) = shape.frontier
    BY <1>1 DEF FrontierAt
  <2>2. Nodes # {}
    OBVIOUS
  <2>3. Node(a).n = shape.n /\ Node(a).k = shape.k /\ FrontierOK(shape.frontier, shape.n, shape.m, shape.k)
    BY <1>1, <2>2 DEF Made, PlanInv, RootInv
  <2>4. QED BY <1>1, <2>1, <2>3 DEF FrontierFits, Made, ShapeInv
<1>2. CASE a # 1
  BY <1>2 DEF FrontierAt, FrontierFits
<1>3. QED BY <1>1, <1>2

LEMMA MadeChildCount ==
  ASSUME Made, NEW a \in Nodes
  PROVE  ChildCount(a)
<1>1. PICK s \in Nat : Sound(Node(a), shape.m, s, shape.k)
  BY DEF Made, PlanInv, NodeInv
<1>2. shape.m \in Nat \ {0} /\ shape.k \in Nat
  BY DEF Made, ShapeInv
<1>3. FrontierFits(FrontierAt(a), Node(a).n, shape.m, Node(a).k)
  BY MadeFrontier
<1> DEFINE q == PiecesOf(a)
<1>4. /\ q \in Seq(PieceRecord)
      /\ ~ IsLeaf(a) => Len(q) = Len(Division(FrontierAt(a), shape.m, Node(a))) /\ Len(q) >= 1
      /\ IsLeaf(a) => q = <<>>
  BY <1>1, <1>2, <1>3, PiecesSequence DEF PiecesOf, IsLeaf
<1>5. DOMAIN ChildrenOf(a) = DOMAIN q
  BY DEF Made, PlanInv, NodeInv
<1>6. ChildrenOf(a) \in Seq(Nat)
  BY DEF Made, PlanInv, PlanTypes, Nodes, ChildrenOf
<1> HIDE DEF q
<1>7. Len(ChildrenOf(a)) = Len(q)
  BY <1>4, <1>5, <1>6
<1>8. IsFork(a) => Len(q) = 2 /\ ~ IsLeaf(a)
  <2>1. SUFFICES ASSUME IsFork(a) PROVE Len(q) = 2 /\ ~ IsLeaf(a)
    OBVIOUS
  <2>2. ~ IsLeaf(a)
    BY <1>1, <2>1 DEF IsFork, IsLeaf, Fork, Leaf, Sound
  <2>3. Node(a).k \in Nat \ {0} /\ Node(a).n \in Nat
    BY <1>1 DEF Sound
  <2>4. Len(Division(FrontierAt(a), shape.m, Node(a))) = 2
    BY <1>2, <1>3, <2>1, <2>3, DivisionShares DEF IsFork
  <2>5. QED BY <1>4, <2>2, <2>4
<1>9. Len(ChildrenOf(a)) \in Nat /\ DOMAIN ChildrenOf(a) = 1 .. Len(ChildrenOf(a))
  BY <1>6
<1>10. IsLeaf(a) => Len(ChildrenOf(a)) = 0
  BY <1>4, <1>7
<1>11. QED BY <1>4, <1>6, <1>7, <1>8, <1>9, <1>10 DEF ChildCount

\* Where a child is among its parent's samples.
Within(a, i, s, e) ==
  /\ ShareOut(e, Node(a).k) /\ i \in DOMAIN e
  /\ Child(a, i) \in Nodes /\ a < Child(a, i)
  /\ e[i].start \in Nat /\ Node(Child(a, i)).k = e[i].count
  /\ e[i].start + e[i].count <= Node(a).k
  /\ Sound(Node(Child(a, i)), shape.m, s + e[i].start, shape.k)
  /\ Node(Child(a, i)).n = NodeCapacity(Node(a).n, shape.m, e[i].count)
  /\ Node(Child(a, i)).parent_n = IF IsFork(a) THEN 0 ELSE Node(a).n
  /\ Node(Child(a, i)).filter = Filters(Node(Child(a, i)))

LEMMA MadeChild ==
  ASSUME Made, NEW a \in Nodes, NEW i \in DOMAIN ChildrenOf(a), NEW s \in Nat,
         Sound(Node(a), shape.m, s, shape.k)
  PROVE  Within(a, i, s, Division(FrontierAt(a), shape.m, Node(a)))
<1> DEFINE b == Child(a, i)
           q == PiecesOf(a)
           e == Division(FrontierAt(a), shape.m, Node(a))
<1>1. b \in Nodes /\ a < b /\ IsPiece(b, q[i])
  <2>1. DOMAIN todo = {}
    BY DEF Made
  <2>2. ChildInv
    BY DEF Made, PlanInv
  <2>3. QED BY <2>1, <2>2 DEF ChildInv
<1>2. shape.m \in Nat \ {0} /\ shape.k \in Nat
  BY DEF Made, ShapeInv
<1>3. FrontierFits(FrontierAt(a), Node(a).n, shape.m, Node(a).k)
  BY MadeFrontier
<1>4. i \in DOMAIN q
  BY DEF Made, PlanInv, NodeInv
<1>5. ~ Leaf(Node(a).n, shape.m, Node(a).k)
  <2>1. q # <<>>
    BY <1>4
  <2>2. QED BY <2>1 DEF PiecesOf, Pieces
<1>6. Node(a).k \in Nat \ {0} /\ Node(a).n \in Nat /\ Node(a).output \in Nat
  BY <1>2, Times DEF Sound
<1>7. PiecesFollow(q, e, Node(a).n, shape.m, Node(a).k, Node(a).output)
  BY <1>2, <1>3, <1>5, <1>6, PiecesAre DEF PiecesOf
<1>8. Sound(q[i], shape.m, s + e[i].start, shape.k) /\ e[i].start + q[i].k <= Node(a).k
  BY <1>2, <1>3, <1>4, <1>5, PiecesSound DEF PiecesOf
<1>9. ShareOut(e, Node(a).k)
  BY <1>2, <1>3, <1>6, DivisionShares
<1> HIDE DEF e, q
<1>11. i \in DOMAIN e /\ q[i].k = e[i].count /\ q[i].n = NodeCapacity(Node(a).n, shape.m, e[i].count)
       /\ q[i].parent_n = IF Fork(Node(a).n, shape.m, Node(a).k) THEN 0 ELSE Node(a).n
  BY <1>4, <1>7 DEF PiecesFollow
<1>12. e[i].start \in Nat
  <2>1. e[i] \in Edge
    BY <1>9, <1>11 DEF ShareOut
  <2>2. QED BY <2>1 DEF Edge
<1>13. /\ Node(b).n = q[i].n /\ Node(b).k = q[i].k /\ Node(b).output = q[i].output
       /\ Node(b).parent_n = q[i].parent_n
  BY <1>1 DEF IsPiece
<1>14. Sound(Node(b), shape.m, s + e[i].start, shape.k)
  BY <1>8, <1>13 DEF Sound
<1>15. Node(b).filter = Filters(Node(b))
  BY <1>1 DEF Made, PlanInv, NodeInv
<1> HIDE DEF b
<1>16. QED BY <1>1, <1>8, <1>9, <1>11, <1>12, <1>13, <1>14, <1>15 DEF Within, IsFork, b, e

LEMMA MadeChildFits ==
  ASSUME Made, NEW a \in Nodes, NEW i \in DOMAIN ChildrenOf(a)
  PROVE  ChildFits(a, Child(a, i))
<1> DEFINE b == Child(a, i)
           e == Division(FrontierAt(a), shape.m, Node(a))
           m == shape.m
<1>1. PICK s \in Nat : Sound(Node(a), shape.m, s, shape.k)
  BY DEF Made, PlanInv, NodeInv
<1>2. Within(a, i, s, e)
  BY <1>1, MadeChild
<1>3. m \in Nat \ {0} /\ shape.k \in Nat
  BY DEF Made, ShapeInv
<1>4. FrontierFits(FrontierAt(a), Node(a).n, m, Node(a).k) /\ (a # 1 => FrontierAt(a) = <<>>)
  BY MadeFrontier
<1>5. Node(a).k \in Nat \ {0} /\ Node(a).n \in Nat /\ m <= Node(a).n /\ Node(a).output = m * s
  BY <1>1 DEF Sound
<1>6. /\ b \in Nodes /\ a < b /\ Sound(Node(b), m, s + e[i].start, shape.k)
      /\ Node(b).k = e[i].count /\ e[i].start \in Nat /\ e[i].start + e[i].count <= Node(a).k
      /\ Node(b).n = NodeCapacity(Node(a).n, m, e[i].count)
      /\ Node(b).parent_n = IF IsFork(a) THEN 0 ELSE Node(a).n
      /\ Node(b).filter = Filters(Node(b))
  BY <1>2 DEF Within
<1>7. i \in DOMAIN e
  BY <1>2 DEF Within
<1>8. /\ FrontierAt(a) = <<>> \/ IsFork(a) => (Node(a).k > 1 => e[i].count <= Ceil(Node(a).k))
  BY <1>3, <1>4, <1>5, <1>7, DivisionShares DEF IsFork
<1> HIDE DEF e, b, m
<1>9. Node(b).k \in Nat \ {0} /\ Node(b).output = m * (s + e[i].start) /\ Node(b).n \in Nat
  BY <1>6 DEF Sound
<1>10. Slice(b) \subseteq Slice(a)
  <2>1. Span(m * (s + e[i].start), m * e[i].count) \subseteq Span(m * s, m * Node(a).k)
    BY <1>1, <1>3, <1>5, <1>6, <1>9, SpanWithin
  <2>2. QED BY <1>5, <1>6, <1>9, <2>1 DEF Slice, m
<1>11. Node(b).k = 1 => IsLeaf(b)
  <2>1. SUFFICES ASSUME Node(b).k = 1 PROVE IsLeaf(b)
    OBVIOUS
  <2>2. Node(b).n = Smaller(Node(a).n, m)
    BY <1>3, <1>6, <2>1 DEF NodeCapacity
  <2>3. Node(b).n = m
    BY <1>3, <1>5, <2>2 DEF Smaller
  <2>4. QED BY <2>1, <2>3 DEF IsLeaf, Leaf, m
<1>12. IsFork(a) => ~ Node(b).filter
  <2>1. SUFFICES ASSUME IsFork(a) PROVE ~ Node(b).filter
    OBVIOUS
  <2>2. ~ (Node(b).n < Node(b).parent_n)
    BY <1>6, <1>9, <2>1
  <2>3. Filters(Node(b)) = FALSE
    BY <2>2 DEF Filters
  <2>4. QED BY <1>6, <2>3
<1>13. ASSUME ~ IsLeaf(b)
       PROVE  WorkspaceDepth[Node(b).k] + (IF a = 1 THEN 0 ELSE 1) <= WorkspaceDepth[Node(a).k]
  <2>1. Node(b).k > 1 /\ Node(b).k <= Node(a).k /\ Node(a).k > 1
    BY <1>5, <1>6, <1>9, <1>11, <1>13
  <2>2. WorkspaceDepth[Node(b).k] \in Nat /\ WorkspaceDepth[Node(a).k] \in Nat
    BY <1>5, <1>9, DepthIs
  <2>3. WorkspaceDepth[Node(b).k] <= WorkspaceDepth[Node(a).k]
    BY <1>5, <1>9, <2>1, DepthGrows
  <2>4. ASSUME a # 1 PROVE WorkspaceDepth[Node(b).k] + 1 <= WorkspaceDepth[Node(a).k]
    <3>1. Node(b).k <= Ceil(Node(a).k)
      BY <1>4, <1>6, <1>8, <2>1, <2>4
    <3>2. Ceil(Node(a).k) \in Nat
      BY <1>5, <2>1, Halving
    <3>3. WorkspaceDepth[Node(b).k] <= WorkspaceDepth[Ceil(Node(a).k)]
      BY <1>9, <3>1, <3>2, DepthGrows
    <3>4. WorkspaceDepth[Node(a).k] = 1 + WorkspaceDepth[Ceil(Node(a).k)]
      BY <1>5, <2>1, DepthIs DEF DepthFrom
    <3>5. WorkspaceDepth[Ceil(Node(a).k)] \in Nat
      BY <3>2, DepthIs
    <3>6. QED BY <2>2, <3>3, <3>4, <3>5
  <2>5. QED BY <2>2, <2>3, <2>4
<1>14. QED BY <1>6, <1>10, <1>11, <1>12, <1>13 DEF ChildFits, b

LEMMA MadeSiblings ==
  ASSUME Made, NEW a \in Nodes
  PROVE  SiblingsApart(a)
<1> DEFINE e == Division(FrontierAt(a), shape.m, Node(a))
           m == shape.m
<1>1. PICK s \in Nat : Sound(Node(a), shape.m, s, shape.k)
  BY DEF Made, PlanInv, NodeInv
<1>2. \A i \in DOMAIN ChildrenOf(a) : Within(a, i, s, e)
  BY <1>1, MadeChild
<1>3. m \in Nat \ {0} /\ Node(a).k \in Nat \ {0} /\ Node(a).n \in Nat
  BY <1>1 DEF Made, ShapeInv, Sound
<1>4. ShareOut(e, Node(a).k)
  BY <1>3, MadeFrontier, DivisionShares
<1> HIDE DEF e
<1>5. ASSUME NEW i \in DOMAIN ChildrenOf(a), NEW j \in DOMAIN ChildrenOf(a), i < j
      PROVE  Slice(Child(a, i)) \cap Slice(Child(a, j)) = {}
  <2> DEFINE b == Child(a, i)
             c == Child(a, j)
  <2>1. /\ i \in DOMAIN e /\ j \in DOMAIN e
        /\ Sound(Node(b), m, s + e[i].start, shape.k) /\ Sound(Node(c), m, s + e[j].start, shape.k)
        /\ Node(b).k = e[i].count /\ e[i].start \in Nat /\ e[j].start \in Nat
    BY <1>2 DEF Within
  <2> HIDE DEF b, c
  <2>2. e[i].start + e[i].count <= e[j].start
    BY <1>4, <1>5, <2>1 DEF ShareOut
  <2>3. /\ Node(b).output = m * (s + e[i].start) /\ Node(c).output = m * (s + e[j].start)
        /\ Node(b).k \in Nat /\ Node(c).k \in Nat
    BY <2>1 DEF Sound
  <2>4. s + e[i].start \in Nat /\ s + e[j].start \in Nat
        /\ s + e[i].start + Node(b).k <= s + e[j].start
    BY <2>1, <2>2, <2>3
  <2>5. Span(m * (s + e[i].start), m * Node(b).k) \cap Span(m * (s + e[j].start), m * Node(c).k) = {}
    BY <1>3, <2>3, <2>4, SpansDisjoint
  <2>6. QED BY <2>3, <2>5 DEF Slice, m, b, c
<1>6. DOMAIN ChildrenOf(a) \subseteq Nat
  BY MadeChildCount DEF ChildCount
<1>7. \A i, j \in DOMAIN ChildrenOf(a) : i # j => i < j \/ j < i
  BY <1>6
<1>8. QED BY <1>5, <1>7 DEF SiblingsApart

\* Every node but the first is a child.
LEMMA MadeParent ==
  ASSUME Made, NEW b \in Nodes, b # 1
  PROVE  \E a \in Nodes : \E i \in DOMAIN ChildrenOf(a) : Child(a, i) = b
BY DEF Made, PlanInv, ParentInv

LEMMA MadeSlice ==
  ASSUME Made, NEW a \in Nodes
  PROVE  /\ Slice(a) \subseteq Span(0, shape.m * shape.k) /\ Slice(a) # {}
         /\ Node(a).k \in Nat \ {0}
<1>1. PICK s \in Nat : Sound(Node(a), shape.m, s, shape.k)
  BY DEF Made, PlanInv, NodeInv
<1>2. shape.m \in Nat \ {0} /\ shape.k \in Nat
  BY DEF Made, ShapeInv
<1>3. Node(a).k \in Nat \ {0} /\ Node(a).output = shape.m * s /\ s + Node(a).k <= shape.k
  BY <1>1 DEF Sound
<1>4. Span(shape.m * (0 + s), shape.m * Node(a).k) \subseteq Span(shape.m * 0, shape.m * shape.k)
  BY <1>2, <1>3, SpanWithin
<1>5. shape.m * 0 = 0 /\ 0 + s = s
  BY <1>2
<1>6. Slice(a) = Span(shape.m * s, shape.m * Node(a).k)
  BY <1>3 DEF Slice
<1>7. shape.m * s \in Span(shape.m * s, shape.m * Node(a).k)
  <2>1. shape.m * 1 <= shape.m * Node(a).k /\ shape.m * 1 = shape.m /\ shape.m * s \in Nat
        /\ shape.m * Node(a).k \in Nat
    BY <1>2, <1>3, Times
  <2>2. QED BY <1>2, <2>1 DEF Span
<1>8. QED BY <1>3, <1>4, <1>5, <1>6, <1>7

\* Every sample has its leaf.
LEMMA MadeLeaf ==
  ASSUME Made, NEW j \in 0 .. shape.k - 1
  PROVE  \E id \in Nodes : IsLeaf(id) /\ Slice(id) = Span(shape.m * j, shape.m)
<1>1. shape.m \in Nat \ {0} /\ shape.k \in Nat
  BY DEF Made, ShapeInv
<1>2. PICK id \in Nodes : IsLeaf(id) /\ Has(Node(id), shape.m, shape.k, j)
  BY <1>1 DEF Made, PlanInv, CoverInv
<1>3. PICK s \in Nat : Sound(Node(id), shape.m, s, shape.k) /\ s <= j /\ j < s + Node(id).k
  BY <1>2 DEF Has
<1>4. Node(id).k = 1
  BY <1>2 DEF IsLeaf, Leaf
<1>5. s = j
  BY <1>3, <1>4
<1>6. Node(id).output = shape.m * j /\ shape.m * 1 = shape.m
  BY <1>1, <1>3, <1>5 DEF Sound
<1>7. QED BY <1>2, <1>4, <1>6 DEF Slice

\* The parts of the tapes are apart, and there is nothing else on them.
LEMMA MadeForkSpans ==
  ASSUME Made
  PROVE  /\ \A a, b \in Nodes : IsFork(a) /\ IsFork(b) /\ a # b => OfrSpan(a) \cap OfrSpan(b) = {}
         /\ \A a \in Nodes : IsFork(a) => OfrSpan(a) \subseteq Span(0, plan.ofr)
         /\ \A x \in Span(0, plan.ofr) : \E a \in Nodes : IsFork(a) /\ x \in OfrSpan(a)
<1>1. ForkSpans /\ plan.forks \in Seq(ForkRecord) /\ plan.ofr \in Nat /\ Nodes \subseteq Nat
  BY MadeNodes DEF Made, PlanInv, PlanTypes
<1>2. ASSUME NEW a \in Nodes, IsFork(a)
      PROVE  /\ OfrFrom(a) \in Nat /\ OfrTo(a) \in Nat /\ OfrFrom(a) <= OfrTo(a) /\ OfrTo(a) <= plan.ofr
             /\ OfrSpan(a) = OfrFrom(a) .. OfrTo(a) - 1
  <2>1. Node(a).metadata \in DOMAIN plan.forks /\ OfrTo(a) <= plan.ofr
    BY <1>1, <1>2 DEF ForkSpans
  <2>2. plan.forks[Node(a).metadata] \in ForkRecord
    BY <1>1, <2>1
  <2>3. plan.forks[Node(a).metadata].offset \in Nat /\ plan.forks[Node(a).metadata].count \in Nat
    BY <2>2 DEF ForkRecord
  <2>4. QED BY <2>1, <2>3 DEF OfrFrom, OfrTo, OfrSpan, Span
<1>3. ASSUME NEW a \in Nodes, NEW b \in Nodes, IsFork(a), IsFork(b), a < b
      PROVE  OfrSpan(a) \cap OfrSpan(b) = {}
  <2>1. OfrTo(a) <= OfrFrom(b)
    BY <1>1, <1>3 DEF ForkSpans
  <2>2. QED BY <1>2, <1>3, <2>1
<1>4. \A a, b \in Nodes : a # b => a < b \/ b < a
  BY <1>1
<1>5. ASSUME NEW a \in Nodes, IsFork(a) PROVE OfrSpan(a) \subseteq Span(0, plan.ofr)
  BY <1>1, <1>2, <1>5 DEF Span
<1>6. ASSUME NEW x \in Span(0, plan.ofr) PROVE \E a \in Nodes : IsFork(a) /\ x \in OfrSpan(a)
  <2>1. x \in Nat /\ x < plan.ofr
    BY <1>1 DEF Span
  <2>2. PICK a \in Nodes : IsFork(a) /\ OfrFrom(a) <= x /\ x < OfrTo(a)
    BY <1>1, <2>1 DEF ForkSpans
  <2>3. QED BY <1>2, <2>1, <2>2
<1>7. QED BY <1>3, <1>4, <1>5, <1>6

LEMMA MadeEdgeSpans ==
  ASSUME Made
  PROVE  /\ \A a, b \in Nodes : a # b => SwoSpan(a) \cap SwoSpan(b) = {}
         /\ \A a \in Nodes : SwoSpan(a) \subseteq Span(0, plan.swo)
         /\ \A a \in Nodes : ~ Node(a).filter => SwoSpan(a) = {}
         /\ \A x \in Span(0, plan.swo) : \E a \in Nodes : x \in SwoSpan(a)
<1>1. EdgeSpans /\ plan.nodes \in Seq(NodeRecord) /\ plan.swo \in Nat /\ Nodes \subseteq Nat
  BY MadeNodes DEF Made, PlanInv, PlanTypes
<1>2. ASSUME NEW a \in Nodes
      PROVE  /\ Node(a).position \in Nat /\ SwoTo(a) \in Nat /\ Node(a).position <= SwoTo(a)
             /\ SwoTo(a) <= plan.swo /\ SwoSpan(a) = Node(a).position .. SwoTo(a) - 1
             /\ ~ Node(a).filter => SwoSpan(a) = {}
  <2>1. SwoTo(a) <= plan.swo
    BY <1>1 DEF EdgeSpans
  <2>2. Node(a) \in NodeRecord
    BY <1>1 DEF Node, Nodes
  <2>3. Node(a).position \in Nat /\ Node(a).parent_n \in Nat
    BY <2>2 DEF NodeRecord
  <2>4. QED BY <2>1, <2>3 DEF SwoTo, SwoSpan, Span
<1>3. ASSUME NEW a \in Nodes, NEW b \in Nodes, a < b
      PROVE  SwoSpan(a) \cap SwoSpan(b) = {}
  <2>1. SwoTo(a) <= Node(b).position
    BY <1>1, <1>3 DEF EdgeSpans
  <2>2. QED BY <1>2, <2>1
<1>4. \A a, b \in Nodes : a # b => a < b \/ b < a
  BY <1>1
<1>5. ASSUME NEW a \in Nodes PROVE SwoSpan(a) \subseteq Span(0, plan.swo)
  BY <1>1, <1>2 DEF Span
<1>6. ASSUME NEW x \in Span(0, plan.swo) PROVE \E a \in Nodes : x \in SwoSpan(a)
  <2>1. x \in Nat /\ x < plan.swo
    BY <1>1 DEF Span
  <2>2. PICK a \in Nodes : Node(a).position <= x /\ x < SwoTo(a)
    BY <1>1, <2>1 DEF EdgeSpans
  <2>3. QED BY <1>2, <2>1, <2>2
<1>7. QED BY <1>2, <1>3, <1>4, <1>5, <1>6

-----------------------------------------------------------------------------
(* The calls of the threads.                                                *)

BufferRecord == [at : {"space"}, thread : Nat, depth : Nat, name : {"left", "right", "child"}]
InputRecord == {Root, Output} \cup BufferRecord
VisitRecord == [call : {"visit"}, id : Nat, input : InputRecord, depth : Nat, budget : Nat]
GroupsRecord == [call : {"groups"}, id : Nat, input : InputRecord, depth : Nat, budget : Nat,
                 first : Nat, end : Nat, home : Nat]
JoinRecord == [call : {"join"}, thread : Nat]
Frame == VisitRecord \cup GroupsRecord \cup JoinRecord

Work(c) == c.call # "join"

\* The depth from which on a call uses the workspaces of its thread.
From(c) == IF c.call = "groups" /\ IsFork(c.id) THEN c.depth + 1 ELSE c.depth

\* A call's workspaces are there, and it is for children that its node has.
FrameOK(c) ==
  /\ c.call = "join" => c.thread \in Thread
  /\ Work(c) => /\ c.id \in Nodes /\ c.budget >= 1
                /\ ~ IsLeaf(c.id) => c.depth + WorkspaceDepth[Node(c.id).k]
                                       <= WorkspaceDepth[shape.k] + (IF c.id = 1 THEN 0 ELSE 1)
  /\ c.call = "groups" => /\ ~ IsLeaf(c.id) /\ c.home \in Thread /\ c.first >= 1
                          /\ c.first < c.end /\ c.end <= Len(ChildrenOf(c.id)) + 1

\* Call c is the i-th of thread t, or its running one.
At(t, i, c) == i \in DOMAIN stack[t] /\ c = stack[t][i]
IsTop(t, c) == Busy(t) /\ c = Top(t)

\* How many threads a thread may use.
Width(c) == IF c.call = "join" THEN 1 ELSE c.budget

StackTypes == stack \in [Thread -> Seq(Frame)]
FramesOK == \A t \in Thread : \A i \in Nat, c \in Frame : At(t, i, c) => FrameOK(c)
RangesApart ==
  /\ \A t, u \in Thread : \A c, d \in Frame : IsTop(t, c) /\ IsTop(u, d) /\ t < u => t + Width(c) <= u
  /\ \A t \in Thread : \A c \in Frame : IsTop(t, c) => t + Width(c) <= shape.threads

\* What a call waits for: a branch on another thread, or the child that it runs, on a
\* single thread and in deeper workspaces.
Tower(c, d) ==
  \/ c.call = "join"
  \/ c.call = "groups" /\ c.budget = 1 /\ Work(d) /\ d.budget = 1 /\ From(c) <= From(d)
Towers ==
  \A t \in Thread : \A i, j \in Nat : \A c, d \in Frame :
    At(t, i, c) /\ At(t, j, d) /\ i < j => Tower(c, d)

StackInv == StackTypes /\ FramesOK /\ RangesApart /\ Towers

LEMMA FrameFields ==
  ASSUME NEW c \in Frame
  PROVE  /\ c.call \in {"visit", "groups", "join"}
         /\ Work(c) => c.id \in Nat /\ c.input \in InputRecord /\ c.depth \in Nat /\ c.budget \in Nat
         /\ c.call = "groups" => c.first \in Nat /\ c.end \in Nat /\ c.home \in Nat
         /\ c.call = "join" => c.thread \in Nat
<1>1. CASE c \in VisitRecord
  BY <1>1 DEF VisitRecord, Work
<1>2. CASE c \in GroupsRecord
  BY <1>2 DEF GroupsRecord, Work
<1>3. CASE c \in JoinRecord
  BY <1>3 DEF JoinRecord, Work
<1>4. QED BY <1>1, <1>2, <1>3 DEF Frame

LEMMA FrontIs ==
  ASSUME NEW S, NEW s \in Seq(S), s # <<>>
  PROVE  /\ Front(s) \in Seq(S) /\ Len(Front(s)) = Len(s) - 1
         /\ \A i \in 1 .. Len(s) - 1 : Front(s)[i] = s[i]
<1>1. Len(s) \in Nat /\ Len(s) >= 1 /\ \A i \in 1 .. Len(s) : s[i] \in S
  OBVIOUS
<1>2. PICK n \in Nat : n = Len(s) - 1
  BY <1>1
<1>3. \A i \in 1 .. n : s[i] \in S
  BY <1>1, <1>2
<1>4. /\ SubSeq(s, 1, n) \in Seq(S) /\ Len(SubSeq(s, 1, n)) = IF 1 <= n THEN n - 1 + 1 ELSE 0
      /\ \A i \in 1 .. n - 1 + 1 : SubSeq(s, 1, n)[i] = s[1 + i - 1]
  BY <1>3, SubSeqProperties
<1>5. Front(s) = SubSeq(s, 1, n)
  BY <1>2 DEF Front
<1>6. \A i \in 1 .. n : SubSeq(s, 1, n)[i] = s[i]
  BY <1>4
<1>7. Len(SubSeq(s, 1, n)) = n
  BY <1>4
<1>8. QED BY <1>2, <1>4, <1>5, <1>6, <1>7

\* The last call of thread t gives way to the calls e.
GivesWay(t, e) ==
  /\ stack' \in [Thread -> Seq(Frame)]
  /\ \A u \in Thread : u # t => stack'[u] = stack[u]
  /\ e \in Seq(Frame) /\ Len(stack'[t]) = Len(stack[t]) - 1 + Len(e)
  /\ \A i \in 1 .. Len(stack[t]) - 1 : stack'[t][i] = stack[t][i]
  /\ \A i \in 1 .. Len(e) : stack'[t][Len(stack[t]) - 1 + i] = e[i]

LEMMA BecomesGivesWay ==
  ASSUME StackTypes, NEW t \in Thread, Busy(t), NEW e \in Seq(Frame), Becomes(t, e)
  PROVE  GivesWay(t, e)
<1> DEFINE s == stack[t]
           f == Front(s)
<1>1. s \in Seq(Frame) /\ s # <<>>
  BY DEF StackTypes, Busy
<1>2. stack' = [stack EXCEPT ![t] = f \o e]
  BY DEF Becomes
<1> HIDE DEF s
<1>3. f \in Seq(Frame) /\ Len(f) = Len(s) - 1 /\ \A i \in 1 .. Len(s) - 1 : f[i] = s[i]
  BY <1>1, FrontIs
<1> HIDE DEF f
<1>4. Appends(f \o e, f, e, Frame)
  BY <1>3, Appended
<1>5. stack'[t] = f \o e /\ \A u \in Thread : u # t => stack'[u] = stack[u]
  BY <1>2 DEF StackTypes
<1>6. f \o e \in Seq(Frame)
  BY <1>4 DEF Appends
<1>7. stack' \in [Thread -> Seq(Frame)]
  BY <1>2, <1>6 DEF StackTypes
<1>8. Appends(stack'[t], f, e, Frame)
  BY <1>4, <1>5
<1>9. QED BY <1>3, <1>5, <1>7, <1>8 DEF GivesWay, Appends, s

LEMMA TopIs ==
  ASSUME StackTypes, NEW t \in Thread, Busy(t)
  PROVE  /\ Len(stack[t]) \in Nat \ {0} /\ Top(t) = stack[t][Len(stack[t])] /\ Top(t) \in Frame
         /\ At(t, Len(stack[t]), Top(t)) /\ IsTop(t, Top(t))
         /\ DOMAIN stack[t] = 1 .. Len(stack[t])
<1>1. stack[t] \in Seq(Frame) /\ stack[t] # <<>>
  BY DEF StackTypes, Busy
<1>2. Len(stack[t]) \in Nat \ {0} /\ DOMAIN stack[t] = 1 .. Len(stack[t])
  BY <1>1
<1>3. Top(t) = stack[t][Len(stack[t])]
  BY DEF Top, Last
<1>4. QED BY <1>1, <1>2, <1>3 DEF At, IsTop

Height(t, l) == l \in Nat \ {0} /\ l = Len(stack[t])

\* The calls of the threads after the last call of t, the l-th, gave way.
Stays(t, l, u, i, c) == At(u, i, c) /\ (u = t => i < l)
Put(t, l, e, u, i, c) == u = t /\ i >= l /\ i - l + 1 \in 1 .. Len(e) /\ c = e[i - l + 1]
After(t, e, l) ==
  /\ l \in Nat \ {0} /\ Len(e) \in Nat
  /\ \A u \in Thread : \A i \in Nat, c \in Frame :
       At(u, i, c)' => Stays(t, l, u, i, c) \/ Put(t, l, e, u, i, c)
  /\ \A u \in Thread : \A c \in Frame : u # t => IsTop(u, c)' = IsTop(u, c)
  /\ \A c \in Frame : IsTop(t, c)' =>
       IF e = <<>> THEN l > 1 /\ At(t, l - 1, c) ELSE c = e[Len(e)]

LEMMA AfterGivingWay ==
  ASSUME StackTypes, NEW t \in Thread, Busy(t), NEW e, GivesWay(t, e),
         NEW l, Height(t, l)
  PROVE  After(t, e, l)
<1>1. /\ l \in Nat \ {0} /\ DOMAIN stack[t] = 1 .. l /\ e \in Seq(Frame) /\ Len(e) \in Nat
  BY TopIs DEF GivesWay, Height
<1>2. /\ stack'[t] \in Seq(Frame) /\ Len(stack'[t]) = l - 1 + Len(e) /\ DOMAIN stack'[t] = 1 .. l - 1 + Len(e)
  BY <1>1 DEF GivesWay, Height
<1>3. ASSUME NEW u \in Thread, NEW i \in Nat, NEW c \in Frame, At(u, i, c)'
      PROVE  Stays(t, l, u, i, c) \/ Put(t, l, e, u, i, c)
  <2>1. CASE u # t
    BY <1>3, <2>1 DEF At, GivesWay, Stays
  <2>2. CASE u = t /\ i < l
    <3>1. i \in 1 .. l - 1 + Len(e) /\ c = stack'[t][i]
      BY <1>2, <1>3, <2>2 DEF At
    <3>2. i \in 1 .. l - 1
      BY <1>1, <2>2, <3>1
    <3>3. c = stack[t][i]
      BY <3>1, <3>2 DEF GivesWay, Height
    <3>4. i \in 1 .. l
      BY <1>1, <3>2
    <3>5. QED BY <1>1, <2>2, <3>3, <3>4 DEF At, Stays
  <2>3. CASE u = t /\ i >= l
    <3>1. PICK j \in Nat : j = i - l + 1
      BY <1>1, <2>3
    <3>2. i \in 1 .. l - 1 + Len(e) /\ c = stack'[t][i]
      BY <1>2, <1>3, <2>3 DEF At
    <3>0. l \in Nat /\ Len(e) \in Nat
      BY <1>1
    <3>3. PICK n \in Nat : n = Len(e)
      BY <3>0
    <3>4. l \in Nat /\ i \in 1 .. l - 1 + n /\ i >= l
      BY <2>3, <3>0, <3>2, <3>3
    <3>5. j \in 1 .. n /\ i = l - 1 + j
      BY <3>1, <3>4
    <3>6. stack'[t][l - 1 + j] = e[j]
      BY <3>3, <3>5 DEF GivesWay, Height
    <3>7. c = e[j]
      BY <3>2, <3>5, <3>6
    <3>8. QED BY <2>3, <3>1, <3>3, <3>5, <3>7 DEF Put
  <2>4. l \in Nat
    BY <1>1
  <2>5. QED BY <2>1, <2>2, <2>3, <2>4
<1>4. ASSUME NEW u \in Thread, NEW c \in Frame, u # t
      PROVE  IsTop(u, c)' = IsTop(u, c)
  BY <1>4 DEF IsTop, Busy, Top, GivesWay
<1>5. ASSUME NEW c \in Frame, IsTop(t, c)'
      PROVE  IF e = <<>> THEN l > 1 /\ At(t, l - 1, c) ELSE c = e[Len(e)]
  <2>1. stack'[t] # <<>> /\ c = stack'[t][l - 1 + Len(e)]
    BY <1>2, <1>5 DEF IsTop, Busy, Top, Last
  <2>2. CASE e = <<>>
    <3>1. Len(e) = 0
      BY <2>2
    <3>0. l \in Nat \ {0}
      BY <1>1
    <3>2. l > 1
      <4>1. Len(stack'[t]) = l - 1
        BY <1>2, <3>0, <3>1
      <4>2. Len(stack'[t]) # 0
        BY <1>2, <2>1
      <4>3. PICK p \in Nat : p = l - 1
        BY <3>0
      <4>4. p # 0
        BY <4>1, <4>2, <4>3
      <4>5. QED BY <3>0, <4>3, <4>4
    <3>3. c = stack'[t][l - 1] /\ l - 1 \in 1 .. l - 1 /\ l - 1 \in 1 .. l
      BY <2>1, <3>0, <3>1, <3>2
    <3>4. c = stack[t][l - 1]
      BY <3>3 DEF GivesWay, Height
    <3>5. QED BY <1>1, <2>2, <3>2, <3>3, <3>4 DEF At
  <2>3. CASE e # <<>>
    <3>1. Len(e) \in 1 .. Len(e)
      BY <1>1, <2>3
    <3>2. stack'[t][l - 1 + Len(e)] = e[Len(e)]
      BY <3>1 DEF GivesWay, Height
    <3>3. QED BY <2>1, <2>3, <3>2
  <2>4. QED BY <2>2, <2>3
<1>6. QED BY <1>1, <1>3, <1>4, <1>5 DEF After

Unmoved == shape' = shape /\ plan' = plan

LEMMA FrameUnmoved ==
  ASSUME Unmoved, NEW c, NEW d
  PROVE  /\ FrameOK(c)' = FrameOK(c) /\ From(c)' = From(c) /\ Tower(c, d)' = Tower(c, d)
         /\ Thread' = Thread
BY DEF Unmoved, FrameOK, From, Tower, Thread, Nodes, Node, ChildrenOf, IsLeaf, IsFork

\* The calls e do no more than the call f was to do.
FitsIn(e, f) ==
  /\ e \in Seq(Frame) /\ Len(e) <= 2
  /\ e # <<>> => Work(f)
  /\ \A i \in 1 .. Len(e) :
       Work(e[i]) /\ e[i].budget <= f.budget /\ FrameOK(e[i]) /\ From(f) <= From(e[i])
  /\ Len(e) = 2 => Tower(e[1], e[2])

LEMMA StackGivesWay ==
  ASSUME ShapeInv, StackInv, Unmoved, NEW t \in Thread, Busy(t), NEW e, GivesWay(t, e),
         FitsIn(e, Top(t))
  PROVE  StackInv'
<1>1. PICK l \in Nat : l = Len(stack[t])
  BY TopIs DEF StackInv
<1>2. PICK f : f = Top(t)
  OBVIOUS
<1>3. f \in Frame /\ At(t, l, f) /\ IsTop(t, f)
  BY <1>1, <1>2, TopIs DEF StackInv
<1>0. After(t, e, l)
  <2>1. Height(t, l)
    BY <1>1, TopIs DEF StackInv, Height
  <2>2. QED BY <2>1, AfterGivingWay DEF StackInv
<1>4. /\ l \in Nat /\ l > 0 /\ Len(e) \in Nat
      /\ \A u \in Thread : \A i \in Nat, c \in Frame :
           At(u, i, c)' => Stays(t, l, u, i, c) \/ Put(t, l, e, u, i, c)
      /\ \A u \in Thread : \A c \in Frame : u # t => IsTop(u, c)' = IsTop(u, c)
      /\ \A c \in Frame : IsTop(t, c)' =>
           IF e = <<>> THEN l > 1 /\ At(t, l - 1, c) ELSE c = e[Len(e)]
  BY <1>0 DEF After
<1>5. Thread' = Thread /\ \A c, d : /\ FrameOK(c)' = FrameOK(c) /\ From(c)' = From(c)
                                    /\ Tower(c, d)' = Tower(c, d)
  BY FrameUnmoved
<1>6. /\ e \in Seq(Frame) /\ Len(e) <= 2 /\ (e # <<>> => Work(f))
      /\ \A i \in 1 .. Len(e) :
           Work(e[i]) /\ e[i].budget <= f.budget /\ FrameOK(e[i]) /\ From(f) <= From(e[i])
      /\ Len(e) = 2 => Tower(e[1], e[2])
  BY <1>2 DEF FitsIn
<1>7. StackTypes'
  BY <1>5 DEF StackTypes, GivesWay
<1>8. FramesOK'
  <2>1. SUFFICES ASSUME NEW u \in Thread, NEW i \in Nat, NEW c \in Frame, At(u, i, c)'
                 PROVE  FrameOK(c)
    BY <1>5 DEF FramesOK
  <2>2. CASE Stays(t, l, u, i, c)
    BY <2>2 DEF StackInv, FramesOK, Stays
  <2>3. CASE Put(t, l, e, u, i, c)
    BY <1>6, <2>3 DEF Put
  <2>4. QED BY <1>4, <2>1, <2>2, <2>3
<1>9. Towers'
  <2>1. SUFFICES ASSUME NEW u \in Thread, NEW i \in Nat, NEW j \in Nat, NEW c \in Frame, NEW d \in Frame,
                        At(u, i, c)', At(u, j, d)', i < j
                 PROVE  Tower(c, d)
    BY <1>5 DEF Towers
  <2>0. /\ Stays(t, l, u, i, c) \/ Put(t, l, e, u, i, c)
        /\ Stays(t, l, u, j, d) \/ Put(t, l, e, u, j, d)
    BY <1>4, <2>1
  <2>2. CASE Stays(t, l, u, i, c) /\ Stays(t, l, u, j, d)
    BY <2>1, <2>2 DEF StackInv, Towers, Stays
  <2>3. CASE Stays(t, l, u, i, c) /\ Put(t, l, e, u, j, d)
    <3>0. u = t /\ At(t, i, c) /\ i < l /\ j - l + 1 \in 1 .. Len(e) /\ d = e[j - l + 1]
      BY <2>3 DEF Stays, Put
    <3>1. Tower(c, f)
      BY <1>3, <1>4, <3>0 DEF StackInv, Towers
    <3>2. Work(d) /\ d.budget <= f.budget /\ d.budget >= 1 /\ From(f) <= From(d)
      BY <1>6, <3>0 DEF FrameOK
    <3>3. (From(c) \in Int /\ From(f) \in Int /\ From(d) \in Int) \/ c.call = "join"
      <4>1. CASE c.call = "join"
        BY <4>1
      <4>2. CASE c.call # "join"
        <5>1. Work(c) /\ Work(f)
          BY <3>1, <4>2 DEF Work, Tower
        <5>2. c.depth \in Nat /\ d.depth \in Nat /\ f.depth \in Nat
          BY <1>3, <3>2, <5>1, FrameFields
        <5>3. QED BY <5>2 DEF From
      <4>3. QED BY <4>1, <4>2
    <3>4. d.budget \in Nat
      BY <3>2, FrameFields
    <3>5. QED BY <3>1, <3>2, <3>3, <3>4 DEF Tower
  <2>4. CASE Put(t, l, e, u, i, c) /\ Put(t, l, e, u, j, d)
    <3>1. /\ i - l + 1 \in 1 .. Len(e) /\ c = e[i - l + 1]
          /\ j - l + 1 \in 1 .. Len(e) /\ d = e[j - l + 1]
      BY <2>4 DEF Put
    <3>2. l \in Nat /\ Len(e) \in Nat /\ Len(e) <= 2
      BY <1>4, <1>6
    <3>3. PICK n \in Nat : n = Len(e)
      BY <3>2
    <3>4. PICK x \in Int, y \in Int : x = i - l + 1 /\ y = j - l + 1
      BY <3>2
    <3>5. x \in 1 .. n /\ y \in 1 .. n /\ n <= 2 /\ x < y
      BY <2>1, <3>1, <3>2, <3>3, <3>4
    <3>6. x = 1 /\ y = 2 /\ n = 2
      BY <3>5
    <3>7. QED BY <1>6, <3>1, <3>3, <3>4, <3>6
  <2>5. ~ (Put(t, l, e, u, i, c) /\ Stays(t, l, u, j, d))
    <3>1. l \in Nat
      BY <1>4
    <3>2. QED BY <2>1, <3>1 DEF Put, Stays
  <2>6. QED BY <2>0, <2>2, <2>3, <2>4, <2>5
\* What gave way was no narrower.
<1>10. ASSUME NEW c \in Frame, IsTop(t, c)' PROVE Width(c) <= Width(f) /\ Width(c) \in Nat /\ Width(f) \in Nat
  <2>1. Width(f) \in Nat /\ Width(f) >= 1
    <3>1. FrameOK(f)
      BY <1>3, <1>4 DEF StackInv, FramesOK
    <3>2. QED BY <1>3, <3>1, FrameFields DEF Width, FrameOK, Work
  <2>2. Width(c) \in Nat
    BY FrameFields DEF Width, Work
  <2>3. CASE e = <<>>
    <3>1. l > 1 /\ At(t, l - 1, c) /\ l - 1 \in Nat /\ l - 1 < l
      BY <1>4, <1>10, <2>3
    <3>2. Tower(c, f)
      BY <1>3, <1>4, <3>1 DEF StackInv, Towers
    <3>3. Width(c) = 1
      BY <3>2 DEF Tower, Width
    <3>4. QED BY <2>1, <3>3
  <2>4. CASE e # <<>>
    <3>1. c = e[Len(e)] /\ Len(e) \in 1 .. Len(e)
      BY <1>4, <1>6, <1>10, <2>4
    <3>2. Work(c) /\ c.budget <= f.budget /\ Work(f)
      BY <1>6, <2>4, <3>1
    <3>3. QED BY <2>1, <2>2, <3>2 DEF Width, Work
  <2>5. QED BY <2>3, <2>4
<1>11. RangesApart'
  <2>1. shape'.threads = shape.threads
    BY DEF Unmoved
  <2>2. Thread \subseteq Nat /\ shape.threads \in Int
    BY DEF Thread, ShapeInv
  <2>3. QED
    <3>1. ASSUME NEW u \in Thread, NEW v \in Thread, NEW c \in Frame, NEW d \in Frame,
                 IsTop(u, c)', IsTop(v, d)', u < v
          PROVE  u + Width(c) <= v
      <4>1. CASE u # t /\ v # t
        BY <1>4, <3>1, <4>1 DEF StackInv, RangesApart
      <4>2. CASE u # t /\ v = t
        BY <1>3, <1>4, <3>1, <4>2 DEF StackInv, RangesApart
      <4>3. CASE u = t /\ v # t
        <5>1. t + Width(f) <= v
          BY <1>3, <1>4, <3>1, <4>3 DEF StackInv, RangesApart
        <5>2. Width(c) <= Width(f) /\ Width(c) \in Nat /\ Width(f) \in Nat
          BY <1>10, <3>1, <4>3
        <5>3. t \in Int /\ v \in Int
          BY <2>2
        <5>4. QED BY <4>3, <5>1, <5>2, <5>3
      <4>4. u # v
        <5>1. u \in Int /\ v \in Int
          BY <2>2
        <5>2. QED BY <3>1, <5>1
      <4>5. QED BY <4>1, <4>2, <4>3, <4>4
    <3>2. ASSUME NEW u \in Thread, NEW c \in Frame, IsTop(u, c)' PROVE u + Width(c) <= shape.threads
      <4>1. CASE u # t
        BY <1>4, <3>2, <4>1 DEF StackInv, RangesApart
      <4>2. CASE u = t
        <5>1. t + Width(f) <= shape.threads
          BY <1>3 DEF StackInv, RangesApart
        <5>2. Width(c) <= Width(f) /\ Width(c) \in Nat /\ Width(f) \in Nat
          BY <1>10, <3>2, <4>2
        <5>3. t \in Int
          BY <2>2
        <5>4. shape.threads \in Int
          BY <2>2
        <5>5. QED BY <4>2, <5>1, <5>2, <5>3, <5>4
      <4>3. QED BY <4>1, <4>2
    <3>3. QED BY <1>5, <2>1, <3>1, <3>2 DEF RangesApart
<1>12. QED BY <1>7, <1>8, <1>9, <1>11 DEF StackInv
-----------------------------------------------------------------------------
(* What the calls become.                                                   *)

IsVisit(c, id, input, depth, budget) ==
  /\ c \in Frame /\ c.call = "visit" /\ Work(c)
  /\ c.id = id /\ c.input = input /\ c.depth = depth /\ c.budget = budget

IsGroups(c, id, input, depth, budget, first, end, home) ==
  /\ c \in Frame /\ c.call = "groups" /\ Work(c)
  /\ c.id = id /\ c.input = input /\ c.depth = depth /\ c.budget = budget
  /\ c.first = first /\ c.end = end /\ c.home = home

LEMMA VisitIs ==
  ASSUME NEW id \in Nat, NEW input \in InputRecord, NEW depth \in Nat, NEW budget \in Nat
  PROVE  IsVisit(Visit(id, input, depth, budget), id, input, depth, budget)
BY DEF IsVisit, Visit, Frame, VisitRecord, Work

LEMMA GroupsIs ==
  ASSUME NEW id \in Nat, NEW input \in InputRecord, NEW depth \in Nat, NEW budget \in Nat,
         NEW first \in Nat, NEW end \in Nat, NEW home \in Nat
  PROVE  IsGroups(Groups(id, input, depth, budget, first, end, home),
                  id, input, depth, budget, first, end, home)
BY DEF IsGroups, Groups, Frame, GroupsRecord, Work

LEMMA JoiningIs ==
  ASSUME NEW r \in Nat
  PROVE  Joining(r) \in Frame /\ Joining(r).call = "join" /\ Joining(r).thread = r
BY DEF Joining, Frame, JoinRecord

\* A call for the children first to end of a node, of the same node.
LEMMA SomeIs ==
  ASSUME Made, NEW f \in Frame, f.call = "groups", FrameOK(f), NEW first \in Nat, NEW end \in Nat,
         NEW budget \in Nat, budget >= 1, f.first <= first, first < end, end <= f.end
  PROVE  /\ IsGroups(Some(f, first, end, budget), f.id, f.input, f.depth, budget, first, end, f.home)
         /\ FrameOK(Some(f, first, end, budget)) /\ From(Some(f, first, end, budget)) = From(f)
<1> DEFINE c == Some(f, first, end, budget)
<1>1. /\ Work(f) /\ f.id \in Nat /\ f.input \in InputRecord /\ f.depth \in Nat /\ f.budget \in Nat
      /\ f.first \in Nat /\ f.end \in Nat /\ f.home \in Nat
  BY FrameFields DEF Work
<1>2. IsGroups(c, f.id, f.input, f.depth, budget, first, end, f.home)
  BY <1>1, GroupsIs DEF Some
<1> HIDE DEF c
<1>3. Len(ChildrenOf(f.id)) \in Nat
  BY <1>1, MadeChildCount DEF FrameOK, ChildCount
<1>4. FrameOK(c)
  BY <1>1, <1>2, <1>3 DEF FrameOK, IsGroups
<1>5. From(c) = From(f)
  BY <1>2 DEF From, IsGroups
<1>6. QED BY <1>2, <1>4, <1>5 DEF c

LEMMA NothingFits ==
  ASSUME NEW f
  PROVE  FitsIn(<<>>, f)
BY DEF FitsIn

LEMMA ChildrenFit ==
  ASSUME Made, NEW f \in Frame, FrameOK(f), f.call = "visit", ~ IsLeaf(f.id), NEW t \in Thread
  PROVE  FitsIn(<<Groups(f.id, f.input, f.depth, f.budget, 1, Len(ChildrenOf(f.id)) + 1, t)>>, f)
<1> DEFINE n == Len(ChildrenOf(f.id))
           c == Groups(f.id, f.input, f.depth, f.budget, 1, n + 1, t)
<1>1. Work(f) /\ f.id \in Nat /\ f.input \in InputRecord /\ f.depth \in Nat /\ f.budget \in Nat
  BY FrameFields DEF Work
<1>2. n \in Nat /\ n >= 1
  BY <1>1, MadeChildCount DEF FrameOK, ChildCount
<1>3. t \in Nat
  BY DEF Thread
<1> HIDE DEF n
<1>4. IsGroups(c, f.id, f.input, f.depth, f.budget, 1, n + 1, t)
  <2>1. n + 1 \in Nat /\ 1 \in Nat
    BY <1>2
  <2>2. QED BY <1>1, <1>3, <2>1, GroupsIs
<1> HIDE DEF c
<1>5. FrameOK(c)
  BY <1>1, <1>2, <1>4 DEF FrameOK, IsGroups, n
<1>6. From(f) <= From(c)
  BY <1>1, <1>4 DEF From, IsGroups
<1>7. c \in Frame /\ Work(c) /\ c.budget <= f.budget
  BY <1>1, <1>4 DEF IsGroups
<1>8. FitsIn(<<c>>, f)
  BY <1>1, <1>5, <1>6, <1>7 DEF FitsIn
<1>9. QED BY <1>8 DEF c, n

LEMMA TwoCalls ==
  ASSUME NEW r \in Frame, NEW s, s = <<r>>, NEW w \in Frame, NEW e, e = Append(s, w)
  PROVE  e \in Seq(Frame) /\ Len(e) = 2 /\ e[1] = r /\ e[2] = w
OBVIOUS

LEMMA EdgeFits ==
  ASSUME Made, NEW f \in Frame, FrameOK(f), f.call = "groups", NEW input \in InputRecord
  PROVE  /\ FitsIn(Append(Rest(f), Visit(Child(f.id, f.first), input, f.depth + 1, Budget(f))), f)
         /\ FitsIn(Rest(f), f)
<1> DEFINE b == Child(f.id, f.first)
           v == Visit(b, input, f.depth + 1, Budget(f))
           r == Some(f, f.first + 1, f.end, 1)
<1>1. /\ Work(f) /\ f.id \in Nat /\ f.depth \in Nat /\ f.budget \in Nat
      /\ f.first \in Nat /\ f.end \in Nat
  BY FrameFields DEF Work
<1>2. /\ f.id \in Nodes /\ f.budget >= 1 /\ ~ IsLeaf(f.id) /\ f.first >= 1 /\ f.first < f.end
      /\ f.end <= Len(ChildrenOf(f.id)) + 1
      /\ f.depth + WorkspaceDepth[Node(f.id).k] <= WorkspaceDepth[shape.k] + (IF f.id = 1 THEN 0 ELSE 1)
  BY <1>1 DEF FrameOK
<1>3. f.first \in DOMAIN ChildrenOf(f.id)
  BY <1>1, <1>2, MadeChildCount DEF ChildCount
<1>4. ChildFits(f.id, b)
  BY <1>2, <1>3, MadeChildFits
<1>5. b \in Nodes /\ b \in Nat /\ b # 1
  <2>1. b \in Nodes /\ f.id < b /\ Nodes \subseteq Nat \ {0}
    BY <1>4, MadeNodes DEF ChildFits
  <2>2. QED BY <1>2, <2>1
<1>6. Budget(f) \in Nat /\ Budget(f) >= 1 /\ Budget(f) <= f.budget /\ (Size(f) # 1 => Budget(f) = 1)
  BY <1>1, <1>2 DEF Budget
<1> HIDE DEF b
<1>7. IsVisit(v, b, input, f.depth + 1, Budget(f))
  BY <1>1, <1>5, <1>6, VisitIs
<1> HIDE DEF v
<1>8. FrameOK(v)
  <2>1. ASSUME ~ IsLeaf(b)
        PROVE  f.depth + 1 + WorkspaceDepth[Node(b).k] <= WorkspaceDepth[shape.k] + 1
    <3>1. WorkspaceDepth[Node(b).k] + (IF f.id = 1 THEN 0 ELSE 1) <= WorkspaceDepth[Node(f.id).k]
      BY <1>4, <2>1 DEF ChildFits
    <3>2. /\ Node(b).k \in Nat /\ Node(f.id).k \in Nat /\ shape.k \in Nat
      BY <1>2, <1>5, MadeSlice DEF Made, ShapeInv
    <3>3. /\ WorkspaceDepth[Node(b).k] \in Nat /\ WorkspaceDepth[Node(f.id).k] \in Nat
          /\ WorkspaceDepth[shape.k] \in Nat
      BY <3>2, DepthIs
    <3>4. /\ f.depth + WorkspaceDepth[Node(f.id).k]
               <= WorkspaceDepth[shape.k] + (IF f.id = 1 THEN 0 ELSE 1)
      BY <1>2
    <3>5. PICK x \in Nat, y \in Nat, z \in Nat :
            x = WorkspaceDepth[Node(b).k] /\ y = WorkspaceDepth[Node(f.id).k] /\ z = WorkspaceDepth[shape.k]
      BY <3>3
    <3>6. \E w \in {0, 1} : x + w <= y /\ f.depth + y <= z + w
      <4>1. CASE f.id = 1
        BY <1>1, <3>1, <3>4, <3>5, <4>1
      <4>2. CASE f.id # 1
        BY <1>1, <3>1, <3>4, <3>5, <4>2
      <4>3. QED BY <4>1, <4>2
    <3>7. f.depth + 1 + x <= z + 1
      BY <1>1, <3>6
    <3>8. QED BY <3>5, <3>7
  <2>2. QED BY <1>5, <1>6, <1>7, <2>1 DEF FrameOK, IsVisit
<1>9. /\ v \in Frame /\ Work(v) /\ v.budget = Budget(f) /\ From(f) <= From(v)
      /\ From(v) = f.depth + 1
  BY <1>1, <1>7 DEF From, IsVisit
<1>10. CASE Size(f) = 1
  <2>1. Rest(f) = <<>> /\ Append(Rest(f), v) = <<v>>
    BY <1>10 DEF Rest
  <2>2. FitsIn(<<v>>, f)
    BY <1>1, <1>6, <1>8, <1>9 DEF FitsIn
  <2>3. QED BY <2>1, <2>2, NothingFits DEF v, b
<1>11. CASE Size(f) # 1
  <2>1. f.first + 1 < f.end /\ f.first + 1 \in Nat
    BY <1>1, <1>2, <1>11 DEF Size
  <2>2. /\ IsGroups(r, f.id, f.input, f.depth, 1, f.first + 1, f.end, f.home)
        /\ FrameOK(r) /\ From(r) = From(f)
    BY <1>1, <2>1, SomeIs
  <2> HIDE DEF r
  <2>3. From(f) \in Nat
    BY <1>1 DEF From
  <2>4. r \in Frame /\ r.call = "groups" /\ Work(r) /\ r.budget = 1 /\ From(r) <= From(v)
    BY <1>9, <2>2, <2>3 DEF IsGroups
  <2>5. Tower(r, v)
    BY <1>6, <1>9, <1>11, <2>4 DEF Tower
  <2>6. Rest(f) = <<r>>
    BY <1>11 DEF Rest, r
  <2>7. FitsIn(<<r>>, f)
    BY <1>1, <1>2, <2>2, <2>3, <2>4 DEF FitsIn
  <2>8. FitsIn(Append(Rest(f), v), f)
    <3>a. PICK e : e = Append(Rest(f), v)
      OBVIOUS
    <3>1. e \in Seq(Frame) /\ Len(e) = 2 /\ e[1] = r /\ e[2] = v
      BY <1>9, <2>4, <2>6, <3>a, TwoCalls
    <3>2. \A i \in 1 .. Len(e) : e[i] = r \/ e[i] = v
      BY <3>1
    <3>3. \A c \in {r, v} : Work(c) /\ c.budget <= f.budget /\ FrameOK(c) /\ From(f) <= From(c)
      BY <1>2, <1>6, <1>8, <1>9, <2>2, <2>3, <2>4
    <3>4. QED BY <1>1, <2>5, <3>a, <3>1, <3>2, <3>3 DEF FitsIn
  <2>9. QED BY <2>6, <2>7, <2>8 DEF v, b
<1>12. QED BY <1>10, <1>11
-----------------------------------------------------------------------------
(* The branches of a fork.                                                  *)

\* Each side of a split gets a thread.
LEMMA ShareFits ==
  ASSUME NEW budget \in Nat, budget > 1, NEW left \in Nat, NEW total \in Nat \ {0}
  PROVE  ThreadShare(budget, left, total) \in 1 .. budget - 1
<1>1. PICK x \in Nat : x = budget * left
  OBVIOUS
<1>2. PICK y \in Int : y = x \div total
  OBVIOUS
<1>3. Larger(1, Smaller(budget - 1, y)) \in 1 .. budget - 1
  BY DEF Larger, Smaller
<1>4. QED BY <1>1, <1>2, <1>3 DEF ThreadShare

LEMMA SamplesCounted ==
  ASSUME Made, NEW f \in Frame, f.call = "groups", FrameOK(f), NEW first \in Nat, NEW end \in Nat,
         f.first <= first, first < end, end <= f.end
  PROVE  Samples(f, first, end) \in Nat \ {0}
<1> DEFINE k == [i \in DOMAIN ChildrenOf(f.id) |-> Node(ChildrenOf(f.id)[i]).k]
           S == first .. end - 1
<1>1. /\ f.id \in Nodes /\ f.first \in Nat /\ f.first >= 1 /\ f.end \in Nat
      /\ f.end <= Len(ChildrenOf(f.id)) + 1
  BY FrameFields DEF FrameOK, Work
<1>2. DOMAIN ChildrenOf(f.id) = 1 .. Len(ChildrenOf(f.id)) /\ Len(ChildrenOf(f.id)) \in Nat
  BY <1>1, MadeChildCount DEF ChildCount
<1>3. S \subseteq DOMAIN ChildrenOf(f.id) /\ first \in S
  BY <1>1, <1>2
<1>4. \A i \in S : k[i] \in Nat \ {0}
  <2>1. SUFFICES ASSUME NEW i \in S PROVE k[i] \in Nat \ {0}
    OBVIOUS
  <2>2. i \in DOMAIN ChildrenOf(f.id)
    BY <1>3
  <2>3. Child(f.id, i) \in Nodes
    BY <1>1, <2>2, MadeChildFits DEF ChildFits
  <2>4. Node(Child(f.id, i)).k \in Nat \ {0}
    BY <2>3, MadeSlice
  <2>5. QED BY <2>2, <2>4 DEF Child
<1>5. IsFiniteSet(S) /\ IsFiniteSet(S \ {first})
  <2>1. end - 1 \in Int
    OBVIOUS
  <2>2. IsFiniteSet(S)
    BY <2>1, FS_Interval
  <2> HIDE DEF S
  <2>3. S \ {first} \subseteq S
    OBVIOUS
  <2>4. QED BY <2>2, <2>3, FS_Subset
<1>6. Samples(f, first, end) = Total(k, S)
  BY DEF Samples, Total
<1> HIDE DEF k, S
<1>7. /\ Total(k, S) = k[first] + Total(k, S \ {first}) /\ Total(k, S \ {first}) \in Int
  <2>1. \A i \in S : k[i] \in Int
    BY <1>4
  <2>2. QED BY <1>3, <1>5, <2>1, TotalRemove
<1>8. Total(k, S \ {first}) \in Nat
  BY <1>4, <1>5, TotalNat
<1>9. k[first] \in Nat \ {0}
  BY <1>3, <1>4
<1>10. QED BY <1>6, <1>7, <1>8, <1>9

LEMMA SplitShares ==
  ASSUME Made, NEW f \in Frame, f.call = "groups", FrameOK(f), Parallel(f)
  PROVE  /\ LeftThreads(f) \in 1 .. f.budget - 1 /\ f.budget \in Nat
         /\ Middle(f) \in Nat /\ f.first < Middle(f) /\ Middle(f) < f.end
<1>1. f.first \in Nat /\ f.end \in Nat /\ f.budget \in Nat
  BY FrameFields DEF Work
<1>2. f.end - f.first > 1 /\ f.budget > 1
  BY DEF Parallel, Size
<1>3. Middle(f) = f.first + (f.end - f.first) \div 2
  BY DEF Middle, Size
<1>4. Middle(f) \in Nat /\ f.first < Middle(f) /\ Middle(f) < f.end
  BY <1>1, <1>2, <1>3
<1>5. /\ Samples(f, f.first, Middle(f)) \in Nat \ {0}
      /\ Samples(f, f.first, f.end) \in Nat \ {0}
  BY <1>1, <1>4, SamplesCounted
<1>6. LeftThreads(f) \in 1 .. f.budget - 1
  BY <1>1, <1>2, <1>5, ShareFits DEF LeftThreads
<1>7. QED BY <1>1, <1>4, <1>6

\* The thread of the right branch is there, and idle.
ForkRoom(t, f) ==
  /\ RightId(t, f) \in Thread /\ RightId(t, f) \in Nat /\ t < RightId(t, f) /\ ~ Busy(RightId(t, f))
  /\ LeftThreads(f) \in Nat \ {0} /\ RightBudget(f) \in Nat \ {0}
  /\ RightId(t, f) = t + LeftThreads(f) /\ LeftThreads(f) + RightBudget(f) = f.budget

LEMMA RoomToFork ==
  ASSUME Made, StackInv, NEW t \in Thread, InGroups(t), Parallel(Top(t))
  PROVE  ForkRoom(t, Top(t))
<1> DEFINE f == Top(t)
<1>1. f \in Frame /\ f.call = "groups" /\ IsTop(t, f) /\ FrameOK(f)
  BY TopIs DEF InGroups, StackInv, FramesOK
<1>2. t \in Nat /\ shape.threads \in Nat
  BY DEF Thread, Made, ShapeInv
<1> HIDE DEF f
<1>3. LeftThreads(f) \in 1 .. f.budget - 1 /\ f.budget \in Nat
  BY <1>1, SplitShares DEF f
<1>4. t + f.budget <= shape.threads
  BY <1>1 DEF StackInv, RangesApart, Width
<1> DEFINE r == RightId(t, f)
<1>5. r = t + LeftThreads(f)
  BY DEF RightId
<1> HIDE DEF r
<1>6. r \in Thread /\ r \in Nat /\ t < r /\ r < t + f.budget
  BY <1>2, <1>3, <1>4, <1>5 DEF Thread
<1>7. ASSUME Busy(r) PROVE FALSE
  <2>1. PICK d : d = Top(r)
    OBVIOUS
  <2>2. d \in Frame /\ IsTop(r, d)
    BY <1>6, <1>7, <2>1, TopIs DEF StackInv
  <2>3. t + f.budget <= r
    BY <1>1, <1>6, <2>2 DEF StackInv, RangesApart, Width
  <2>4. QED BY <1>2, <1>3, <1>6, <2>3
<1>8. RightBudget(f) = f.budget - LeftThreads(f)
  BY DEF RightBudget
<1>9. ForkRoom(t, f)
  BY <1>3, <1>5, <1>6, <1>7, <1>8 DEF ForkRoom, r
<1>10. QED BY <1>9 DEF f
\* The last call of thread t becomes a join of r and left, and r begins right.
Splits(t, r, left, right) ==
  /\ stack' \in [Thread -> Seq(Frame)]
  /\ \A u \in Thread : u # t /\ u # r => stack'[u] = stack[u]
  /\ stack'[r] = <<right>> /\ Len(stack'[t]) = Len(stack[t]) + 1
  /\ \A i \in 1 .. Len(stack[t]) - 1 : stack'[t][i] = stack[t][i]
  /\ stack'[t][Len(stack[t])] = Joining(r) /\ stack'[t][Len(stack[t]) + 1] = left

LeftOf(f) == Some(f, f.first, Middle(f), LeftThreads(f))
RightOf(f) == Some(f, Middle(f), f.end, RightBudget(f))

\* The two halves are calls like the one that is split.
HalfOf(c, f, first, end, budget) ==
  /\ IsGroups(c, f.id, f.input, f.depth, budget, first, end, f.home)
  /\ FrameOK(c) /\ From(c) = From(f)

LEMMA HalvesAre ==
  ASSUME Made, StackInv, NEW t \in Thread, InGroups(t), Parallel(Top(t))
  PROVE  /\ HalfOf(LeftOf(Top(t)), Top(t), Top(t).first, Middle(Top(t)), LeftThreads(Top(t)))
         /\ HalfOf(RightOf(Top(t)), Top(t), Middle(Top(t)), Top(t).end, RightBudget(Top(t)))
<1>1. PICK f : f = Top(t)
  OBVIOUS
<1>2. f \in Frame /\ f.call = "groups" /\ FrameOK(f) /\ Parallel(f)
  BY <1>1, TopIs DEF InGroups, StackInv, FramesOK
<1>3. ForkRoom(t, f)
  BY <1>1, RoomToFork
<1>4. f.first \in Nat /\ f.end \in Nat
  BY <1>2, FrameFields
<1>5. Middle(f) \in Nat /\ f.first < Middle(f) /\ Middle(f) < f.end
  BY <1>2, SplitShares
<1>6. /\ LeftThreads(f) \in Nat /\ LeftThreads(f) >= 1
      /\ RightBudget(f) \in Nat /\ RightBudget(f) >= 1
  BY <1>3 DEF ForkRoom
<1>7. HalfOf(LeftOf(f), f, f.first, Middle(f), LeftThreads(f))
  <2>1. f.first <= f.first /\ Middle(f) <= f.end
    BY <1>4, <1>5
  <2>2. QED BY <1>2, <1>4, <1>5, <1>6, <2>1, SomeIs DEF HalfOf, LeftOf
<1>8. HalfOf(RightOf(f), f, Middle(f), f.end, RightBudget(f))
  <2>1. f.first <= Middle(f) /\ f.end <= f.end
    BY <1>4, <1>5
  <2>2. QED BY <1>2, <1>4, <1>5, <1>6, <2>1, SomeIs DEF HalfOf, RightOf
<1>9. QED BY <1>1, <1>7, <1>8

LEMMA SplitSplits ==
  ASSUME Made, StackInv, NEW t \in Thread, Split(t)
  PROVE  Splits(t, RightId(t, Top(t)), LeftOf(Top(t)), RightOf(Top(t)))
<1>1. PICK f : f = Top(t)
  OBVIOUS
<1>2. PICK r : r = RightId(t, f)
  OBVIOUS
<1>3. PICK x : x = LeftOf(f)
  OBVIOUS
<1>4. PICK y : y = RightOf(f)
  OBVIOUS
<1>5. InGroups(t) /\ Parallel(f) /\ Busy(t)
  BY <1>1 DEF Split, InGroups
<1>6. r \in Thread /\ r # t /\ r \in Nat
  <2>1. t \in Nat
    BY DEF Thread
  <2>2. QED BY <1>1, <1>2, <1>5, <2>1, RoomToFork DEF ForkRoom
<1>7. x \in Frame /\ y \in Frame /\ Joining(r) \in Frame
  BY <1>1, <1>3, <1>4, <1>5, <1>6, HalvesAre, JoiningIs DEF HalfOf, IsGroups
<1>8. PICK w : w = <<Joining(r), x>>
  OBVIOUS
<1>9. w \in Seq(Frame) /\ Len(w) = 2 /\ w[1] = Joining(r) /\ w[2] = x
  BY <1>7, <1>8
<1>10. PICK s : s = stack[t]
  OBVIOUS
<1>11. s \in Seq(Frame) /\ s # <<>> /\ Len(s) \in Nat
  BY <1>5, <1>10 DEF StackInv, StackTypes, Busy
<1>12. PICK g : g = Front(s)
  OBVIOUS
<1>13. g \in Seq(Frame) /\ Len(g) = Len(s) - 1 /\ \A i \in 1 .. Len(s) - 1 : g[i] = s[i]
  BY <1>11, <1>12, FrontIs
<1>14. Appends(g \o w, g, w, Frame)
  BY <1>9, <1>13, Appended
<1>15. stack' = [stack EXCEPT ![t] = Front(@) \o w, ![r] = <<y>>]
  BY <1>1, <1>2, <1>3, <1>4, <1>8 DEF Split, LeftOf, RightOf
<1>16. /\ stack'[t] = g \o w /\ stack'[r] = <<y>>
       /\ \A u \in Thread : u # t /\ u # r => stack'[u] = stack[u]
       /\ DOMAIN stack' = Thread
  BY <1>6, <1>10, <1>12, <1>15 DEF StackInv, StackTypes
<1>17. g \o w \in Seq(Frame) /\ <<y>> \in Seq(Frame)
  BY <1>7, <1>14 DEF Appends
<1>18. stack' \in [Thread -> Seq(Frame)]
  <2>1. [stack EXCEPT ![t] = g \o w, ![r] = <<y>>] \in [Thread -> Seq(Frame)]
    BY <1>17 DEF StackInv, StackTypes
  <2>2. stack' = [stack EXCEPT ![t] = g \o w, ![r] = <<y>>]
    BY <1>10, <1>12, <1>15
  <2>3. QED BY <2>1, <2>2
<1>19. PICK h : h = g \o w
  OBVIOUS
<1>20. /\ Len(h) = Len(s) + 1 /\ \A i \in 1 .. Len(s) - 1 : h[i] = s[i]
       /\ h[Len(s)] = Joining(r) /\ h[Len(s) + 1] = x
  <2>1. Appends(h, g, w, Frame)
    BY <1>14, <1>19
  <2>2. PICK l \in Nat : l = Len(s)
    BY <1>11
  <2>3. Len(g) = l - 1 /\ Len(h) = l - 1 + 2
    BY <1>9, <1>13, <2>1, <2>2 DEF Appends
  <2>4. \A i \in 1 .. l - 1 : h[i] = s[i]
    BY <1>13, <2>1, <2>2, <2>3 DEF Appends
  <2>5. h[l - 1 + 1] = w[1] /\ h[l - 1 + 2] = w[2]
    <3>1. 1 \in 1 .. Len(w) /\ 2 \in 1 .. Len(w)
      BY <1>9
    <3>2. QED BY <2>1, <2>3, <3>1 DEF Appends
  <2>6. l - 1 + 1 = l /\ l - 1 + 2 = l + 1
    OBVIOUS
  <2>7. QED BY <1>9, <2>2, <2>3, <2>4, <2>5, <2>6
<1>21. Splits(t, r, x, y)
  BY <1>10, <1>16, <1>18, <1>19, <1>20 DEF Splits
<1>22. QED BY <1>1, <1>2, <1>3, <1>4, <1>21
\* The calls of the threads after a split.
Parted(t, l, r, x, y, u, i, c) ==
  \/ u = t /\ i = l /\ c = Joining(r)
  \/ u = t /\ i = l + 1 /\ c = x
  \/ u = r /\ i = 1 /\ c = y

AfterSplit(t, l, r, x, y) ==
  /\ \A u \in Thread : \A i \in Nat, c \in Frame :
       At(u, i, c)' => (u # r /\ Stays(t, l, u, i, c)) \/ Parted(t, l, r, x, y, u, i, c)
  /\ \A u \in Thread : \A c \in Frame : u # t /\ u # r => IsTop(u, c)' = IsTop(u, c)
  /\ \A c \in Frame : (IsTop(t, c)' => c = x) /\ (IsTop(r, c)' => c = y)

LEMMA AfterSplitting ==
  ASSUME StackTypes, NEW t \in Thread, NEW r \in Thread, r # t, Busy(t), NEW x, NEW y,
         Splits(t, r, x, y), NEW l, Height(t, l)
  PROVE  AfterSplit(t, l, r, x, y)
<1>1. l \in Nat \ {0} /\ DOMAIN stack[t] = 1 .. l
  BY TopIs DEF Height
<1>2. /\ stack'[t] \in Seq(Frame) /\ Len(stack'[t]) = l + 1 /\ DOMAIN stack'[t] = 1 .. l + 1
  BY <1>1 DEF Splits, Height
<1>3. ASSUME NEW u \in Thread, NEW i \in Nat, NEW c \in Frame, At(u, i, c)'
      PROVE  (u # r /\ Stays(t, l, u, i, c)) \/ Parted(t, l, r, x, y, u, i, c)
  <2>1. CASE u # t /\ u # r
    BY <1>3, <2>1 DEF At, Splits, Stays
  <2>2. CASE u = r
    <3>1. i \in DOMAIN <<y>> /\ c = <<y>>[i]
      BY <1>3, <2>2 DEF At, Splits
    <3>2. QED BY <2>2, <3>1 DEF Parted
  <2>3. CASE u = t
    <3>1. i \in 1 .. l + 1 /\ c = stack'[t][i]
      BY <1>2, <1>3, <2>3 DEF At
    <3>2. CASE i < l
      <4>1. i \in 1 .. l - 1 /\ i \in 1 .. l
        BY <1>1, <3>1, <3>2
      <4>2. c = stack[t][i]
        BY <3>1, <4>1 DEF Splits, Height
      <4>3. QED BY <1>1, <2>3, <3>2, <4>1, <4>2 DEF At, Stays
    <3>3. CASE i = l
      <4>1. c = Joining(r)
        BY <3>1, <3>3 DEF Splits, Height
      <4>2. QED BY <2>3, <3>3, <4>1 DEF Parted
    <3>4. CASE i = l + 1
      <4>1. c = x
        BY <3>1, <3>4 DEF Splits, Height
      <4>2. QED BY <2>3, <3>4, <4>1 DEF Parted
    <3>5. i < l \/ i = l \/ i = l + 1
      BY <1>1, <3>1
    <3>6. QED BY <3>2, <3>3, <3>4, <3>5
  <2>4. QED BY <2>1, <2>2, <2>3
<1>4. ASSUME NEW u \in Thread, NEW c \in Frame, u # t, u # r
      PROVE  IsTop(u, c)' = IsTop(u, c)
  BY <1>4 DEF IsTop, Busy, Top, Splits
<1>5. ASSUME NEW c \in Frame, IsTop(t, c)' PROVE c = x
  <2>1. c = stack'[t][l + 1]
    BY <1>2, <1>5 DEF IsTop, Busy, Top, Last
  <2>2. QED BY <2>1 DEF Splits, Height
<1>6. ASSUME NEW c \in Frame, IsTop(r, c)' PROVE c = y
  <2>1. c = Last(<<y>>)
    BY <1>6 DEF IsTop, Top, Splits
  <2>2. QED BY <2>1 DEF Last
<1>7. QED BY <1>3, <1>4, <1>5, <1>6 DEF AfterSplit

LEMMA StackSplits ==
  ASSUME Made, StackInv, Unmoved, NEW t \in Thread, Split(t)
  PROVE  StackInv'
<1>1. PICK l \in Nat : l = Len(stack[t])
  BY TopIs DEF StackInv, Split, InGroups
<1>2. PICK f : f = Top(t)
  OBVIOUS
<1>3. PICK r : r = RightId(t, f)
  OBVIOUS
<1>4. PICK x : x = LeftOf(f)
  OBVIOUS
<1>5. PICK y : y = RightOf(f)
  OBVIOUS
<1>6. InGroups(t) /\ Parallel(f) /\ Busy(t)
  BY <1>2 DEF Split, InGroups
<1>7. Splits(t, r, x, y)
  BY <1>2, <1>3, <1>4, <1>5, SplitSplits
<1>8. f \in Frame /\ f.call = "groups" /\ At(t, l, f) /\ IsTop(t, f) /\ Height(t, l) /\ f.budget \in Nat
  <2>1. f \in Frame /\ f.call = "groups" /\ At(t, l, f) /\ IsTop(t, f) /\ Height(t, l)
    BY <1>1, <1>2, <1>6, TopIs DEF StackInv, Height, InGroups
  <2>2. QED BY <2>1, FrameFields DEF Work
<1>9. ForkRoom(t, f) /\ t \in Nat /\ Thread \subseteq Nat /\ shape.threads \in Nat
  BY <1>2, <1>6, RoomToFork DEF Thread, Made, ShapeInv
<1>10. /\ r \in Thread /\ r \in Nat /\ t < r /\ ~ Busy(r) /\ LeftThreads(f) \in Nat \ {0}
       /\ RightBudget(f) \in Nat \ {0} /\ r = t + LeftThreads(f)
       /\ LeftThreads(f) + RightBudget(f) = f.budget
  BY <1>3, <1>9 DEF ForkRoom
<1>11. r # t
  BY <1>9, <1>10
<1>12. AfterSplit(t, l, r, x, y)
  BY <1>6, <1>7, <1>8, <1>10, <1>11, AfterSplitting DEF StackInv
<1>13. HalfOf(x, f, f.first, Middle(f), LeftThreads(f)) /\ HalfOf(y, f, Middle(f), f.end, RightBudget(f))
  BY <1>2, <1>4, <1>5, <1>6, HalvesAre
<1>14. /\ x \in Frame /\ FrameOK(x) /\ x.call = "groups" /\ x.budget = LeftThreads(f)
       /\ y \in Frame /\ FrameOK(y) /\ y.call = "groups" /\ y.budget = RightBudget(f)
  BY <1>13 DEF HalfOf, IsGroups
<1>15. Joining(r) \in Frame /\ Joining(r).call = "join" /\ Joining(r).thread = r
  BY <1>10, JoiningIs
<1>16. Thread' = Thread /\ \A c, d : /\ FrameOK(c)' = FrameOK(c) /\ From(c)' = From(c)
                                     /\ Tower(c, d)' = Tower(c, d)
  BY FrameUnmoved
<1>17. StackTypes'
  BY <1>7, <1>16 DEF StackTypes, Splits
<1>18. FramesOK'
  <2>1. SUFFICES ASSUME NEW u \in Thread, NEW i \in Nat, NEW c \in Frame, At(u, i, c)'
                 PROVE  FrameOK(c)
    BY <1>16 DEF FramesOK
  <2>2. CASE Stays(t, l, u, i, c)
    BY <2>2 DEF StackInv, FramesOK, Stays
  <2>3. FrameOK(Joining(r))
    BY <1>10, <1>15 DEF FrameOK, Work
  <2>4. CASE Parted(t, l, r, x, y, u, i, c)
    BY <1>14, <2>3, <2>4 DEF Parted
  <2>5. QED BY <1>12, <2>1, <2>2, <2>4 DEF AfterSplit
\* The calls below wait for branches on other threads only.
<1>19. Towers'
  <2>1. SUFFICES ASSUME NEW u \in Thread, NEW i \in Nat, NEW j \in Nat, NEW c \in Frame, NEW d \in Frame,
                        At(u, i, c)', At(u, j, d)', i < j
                 PROVE  Tower(c, d)
    BY <1>16 DEF Towers
  <2>2. /\ (u # r /\ Stays(t, l, u, i, c)) \/ Parted(t, l, r, x, y, u, i, c)
        /\ (u # r /\ Stays(t, l, u, j, d)) \/ Parted(t, l, r, x, y, u, j, d)
    BY <1>12, <2>1 DEF AfterSplit
  <2>3. CASE Stays(t, l, u, i, c) /\ Stays(t, l, u, j, d)
    BY <2>1, <2>3 DEF StackInv, Towers, Stays
  <2>4. CASE u = t /\ Stays(t, l, u, i, c)
    <3>1. Tower(c, f)
      BY <1>8, <2>4 DEF Stays, StackInv, Towers
    <3>2. f.budget # 1
      BY <1>8, <1>10
    <3>3. QED BY <3>1, <3>2 DEF Tower
  <2>5. CASE Parted(t, l, r, x, y, u, i, c)
    <3>1. CASE c = Joining(r)
      BY <1>15, <3>1 DEF Tower
    <3>2. CASE u = t /\ i = l + 1
      BY <1>8, <1>11, <2>1, <2>2, <3>2 DEF Stays, Parted
    <3>3. CASE u = r /\ i = 1
      BY <1>11, <2>1, <2>2, <3>3 DEF Stays, Parted
    <3>4. QED BY <2>5, <3>1, <3>2, <3>3 DEF Parted
  <2>6. CASE u # t /\ u # r /\ Stays(t, l, u, i, c)
    BY <2>2, <2>3, <2>6 DEF Parted
  <2>7. QED BY <2>2, <2>4, <2>5, <2>6
<1>20. RangesApart'
  <2>1. shape'.threads = shape.threads
    BY DEF Unmoved
  <2>2. t + f.budget <= shape.threads
    BY <1>8 DEF StackInv, RangesApart, Width
  <2>3. \A u \in Thread : \A c \in Frame : IsTop(u, c)' =>
          \/ u # t /\ u # r /\ IsTop(u, c)
          \/ u = t /\ Width(c) = LeftThreads(f)
          \/ u = r /\ Width(c) = RightBudget(f)
    BY <1>12, <1>14 DEF AfterSplit, Width
  <2>4. \A u \in Thread : \A c \in Frame : IsTop(u, c) /\ u # t =>
          (u < t => u + Width(c) <= t) /\ (t < u => t + f.budget <= u)
    BY <1>8 DEF StackInv, RangesApart, Width
  <2>5. \A u \in Thread : \A c \in Frame : IsTop(u, c) => Width(c) \in Nat
    BY FrameFields DEF Width, Work
  <2>6. ASSUME NEW u \in Thread, NEW v \in Thread, NEW c \in Frame, NEW d \in Frame,
               IsTop(u, c)', IsTop(v, d)', u < v
        PROVE  u + Width(c) <= v
    <3>0. u \in Nat /\ v \in Nat
      BY <1>9
    <3>1. CASE u # t /\ u # r /\ IsTop(u, c)
      <4>1. CASE v # t /\ v # r /\ IsTop(v, d)
        BY <2>6, <3>1, <4>1 DEF StackInv, RangesApart
      <4>2. CASE v = t
        BY <2>4, <2>6, <3>1, <4>2
      <4>3. CASE v = r
        <5>1. PICK w \in Nat : w = Width(c)
          BY <2>5, <3>1
        <5>2. u < t => u + w <= t
          BY <2>4, <3>1, <5>1
        <5>3. t < u => t + f.budget <= u
          BY <2>4, <3>1
        <5>4. u < t
          BY <1>8, <1>9, <1>10, <2>6, <3>0, <3>1, <4>3, <5>3
        <5>5. QED BY <1>9, <1>10, <3>0, <4>3, <5>1, <5>2, <5>4
      <4>4. QED BY <2>3, <2>6, <4>1, <4>2, <4>3
    <3>2. CASE u = t /\ Width(c) = LeftThreads(f)
      <4>1. CASE v # t /\ v # r /\ IsTop(v, d)
        <5>1. t + f.budget <= v
          BY <2>4, <2>6, <3>2, <4>1
        <5>2. QED BY <1>8, <1>9, <1>10, <3>0, <3>2, <5>1
      <4>2. CASE v = r
        BY <1>9, <1>10, <3>2, <4>2
      <4>3. v # t
        BY <2>6, <3>0, <3>2
      <4>4. QED BY <2>3, <2>6, <4>1, <4>2, <4>3
    <3>3. CASE u = r /\ Width(c) = RightBudget(f)
      <4>1. CASE v # t /\ v # r /\ IsTop(v, d)
        <5>1. t < v
          BY <1>9, <1>10, <2>6, <3>0, <3>3
        <5>2. t + f.budget <= v
          BY <2>4, <4>1, <5>1
        <5>3. QED BY <1>8, <1>9, <1>10, <3>0, <3>3, <5>2
      <4>2. v # t /\ v # r
        BY <1>9, <1>10, <2>6, <3>0, <3>3
      <4>3. QED BY <2>3, <2>6, <4>1, <4>2
    <3>4. QED BY <2>3, <2>6, <3>1, <3>2, <3>3
  <2>7. ASSUME NEW u \in Thread, NEW c \in Frame, IsTop(u, c)' PROVE u + Width(c) <= shape.threads
    <3>1. CASE u # t /\ u # r /\ IsTop(u, c)
      BY <3>1 DEF StackInv, RangesApart
    <3>2. CASE u = t /\ Width(c) = LeftThreads(f)
      BY <1>8, <1>9, <1>10, <2>2, <3>2
    <3>3. CASE u = r /\ Width(c) = RightBudget(f)
      BY <1>8, <1>9, <1>10, <2>2, <3>3
    <3>4. QED BY <2>3, <2>7, <3>1, <3>2, <3>3
  <2>8. QED BY <1>16, <2>1, <2>6, <2>7 DEF RangesApart
<1>21. QED BY <1>17, <1>18, <1>19, <1>20 DEF StackInv
-----------------------------------------------------------------------------
(* The stages.                                                              *)

Idle == \A t \in Thread : stack[t] = <<>>

StageInv ==
  /\ stage \in {"plan", "write", "read", "done"}
  /\ stage # "plan" => todo = <<>>
  /\ stage \in {"plan", "done"} => Idle

RunInv == ShapeInv /\ PlanInv /\ StackInv /\ StageInv

LEMMA PlanUnmoved ==
  ASSUME ShapeInv, PlanInv, Unmoved, todo' = todo
  PROVE  ShapeInv' /\ PlanInv'
<1>1. ShapeInv'
  BY DEF ShapeInv, Unmoved
<1>2. PlanTypes'
  BY DEF PlanInv, PlanTypes, Unmoved
<1>3. NodeInv'
  BY DEF PlanInv, NodeInv, Unmoved, Nodes, Node, ChildrenOf, PiecesOf, FrontierAt
<1>4. RootInv'
  BY DEF PlanInv, RootInv, Unmoved, Nodes, Node, RootCall
<1>5. ChildInv'
  BY DEF PlanInv, ChildInv, Unmoved, Nodes, Node, ChildrenOf, PiecesOf, FrontierAt, Child, IsPiece
<1>6. TodoInv'
  BY DEF PlanInv, TodoInv, Unmoved, Nodes, Node, ChildrenOf, PiecesOf, FrontierAt, Child
<1>7. ParentInv' /\ OneParent'
  BY DEF PlanInv, ParentInv, OneParent, Unmoved, Nodes, ChildrenOf, Child
<1>8. ForkSpans'
  BY DEF PlanInv, ForkSpans, Unmoved, Nodes, Node, IsFork, OfrFrom, OfrTo
<1>9. EdgeSpans'
  BY DEF PlanInv, EdgeSpans, Unmoved, Nodes, Node, SwoTo
<1>10. CoverInv'
  BY DEF PlanInv, CoverInv, Unmoved, Nodes, Node, IsLeaf
<1>11. QED BY <1>1, <1>2, <1>3, <1>4, <1>5, <1>6, <1>7, <1>8, <1>9, <1>10 DEF PlanInv

\* A running thread has a plan.
LEMMA BusyMade ==
  ASSUME RunInv, NEW t \in Thread, Busy(t)
  PROVE  Made /\ stage \in {"write", "read"}
BY DEF RunInv, StageInv, Idle, Busy, Made

\* Nobody is running.
LEMMA IdleStack ==
  ASSUME (stack \in [Thread -> Seq(Frame)])', Idle'
  PROVE  StackInv'
<1>1. \A t \in Thread' : \A i \in Nat, c \in Frame : ~ At(t, i, c)' /\ ~ IsTop(t, c)'
  BY DEF Idle, At, IsTop, Busy
<1>2. StackTypes'
  BY DEF StackTypes
<1>3. QED BY <1>1, <1>2 DEF StackInv, FramesOK, RangesApart, Towers

RootVisit == Visit(1, Root, 0, shape.threads)
Entered == stack' = [stack EXCEPT ![0] = <<RootVisit>>]

LEMMA RootVisitIs ==
  ASSUME Made
  PROVE  IsVisit(RootVisit, 1, Root, 0, shape.threads) /\ FrameOK(RootVisit) /\ 0 \in Thread
<1>1. 1 \in Nat /\ Root \in InputRecord /\ 0 \in Nat /\ shape.threads \in Nat /\ shape.threads >= 1
  BY DEF InputRecord, Made, ShapeInv
<1>2. IsVisit(RootVisit, 1, Root, 0, shape.threads)
  BY <1>1, VisitIs DEF RootVisit
<1>3. 1 \in Nodes /\ Node(1).k = shape.k
  BY MadeNodes
<1>4. WorkspaceDepth[shape.k] \in Nat
  BY DepthIs DEF Made, ShapeInv
<1>5. FrameOK(RootVisit)
  BY <1>1, <1>2, <1>3, <1>4 DEF FrameOK, IsVisit
<1>6. QED BY <1>1, <1>2, <1>5 DEF Thread

\* Thread 0 is the only one to run.
AtRoot ==
  \A t \in Thread : \A i \in Nat, c \in Frame :
    At(t, i, c)' \/ IsTop(t, c)' => t = 0 /\ c = RootVisit /\ (At(t, i, c)' => i = 1)

LEMMA EnterStack ==
  ASSUME Made, StackTypes, Idle, Entered, Unmoved
  PROVE  StackInv' /\ AtRoot
<1>1. IsVisit(RootVisit, 1, Root, 0, shape.threads) /\ FrameOK(RootVisit) /\ 0 \in Thread
  BY RootVisitIs
<1>2. RootVisit \in Frame /\ RootVisit.call = "visit" /\ RootVisit.budget = shape.threads
  BY <1>1 DEF IsVisit
<1>3. PICK v : v = RootVisit
  OBVIOUS
<1>4. stack' = [stack EXCEPT ![0] = <<v>>]
  BY <1>3 DEF Entered
<1>5. stack' \in [Thread -> Seq(Frame)] /\ stack'[0] = <<v>>
      /\ \A t \in Thread : t # 0 => stack'[t] = <<>>
  BY <1>1, <1>2, <1>3, <1>4 DEF StackTypes, Idle
<1>6. ASSUME NEW t \in Thread, NEW i \in Nat, NEW c \in Frame, At(t, i, c)'
      PROVE  t = 0 /\ c = v /\ i = 1
  BY <1>5, <1>6 DEF At
<1>7. ASSUME NEW t \in Thread, NEW c \in Frame, IsTop(t, c)'
      PROVE  t = 0 /\ c = v
  <2>1. t = 0
    BY <1>5, <1>7 DEF IsTop, Busy
  <2>2. c = Last(<<v>>)
    BY <1>5, <1>7, <2>1 DEF IsTop, Top
  <2>3. QED BY <2>1, <2>2 DEF Last
<1>8. AtRoot
  BY <1>3, <1>6, <1>7 DEF AtRoot
<1>9. Thread' = Thread /\ \A c, d : /\ FrameOK(c)' = FrameOK(c) /\ From(c)' = From(c)
                                    /\ Tower(c, d)' = Tower(c, d)
  BY FrameUnmoved
<1>10. StackTypes'
  BY <1>5, <1>9 DEF StackTypes
<1>11. FramesOK'
  <2>1. \A t \in Thread : \A i \in Nat, c \in Frame : At(t, i, c)' => FrameOK(c)
    BY <1>1, <1>3, <1>6
  <2>2. QED BY <1>9, <2>1 DEF FramesOK
<1>12. Towers'
  <2>1. \A t \in Thread : \A i, j \in Nat : \A c, d \in Frame : At(t, i, c)' /\ At(t, j, d)' => ~ (i < j)
    BY <1>6
  <2>2. QED BY <1>9, <2>1 DEF Towers
<1>13. RangesApart'
  <2>1. shape'.threads = shape.threads /\ shape.threads \in Nat
    BY DEF Unmoved, Made, ShapeInv
  <2>2. Width(v) = shape.threads
    BY <1>2, <1>3 DEF Width
  <2>3. \A t, u \in Thread : \A c, d \in Frame : IsTop(t, c)' /\ IsTop(u, d)' => ~ (t < u)
    <3>1. ~ (0 < 0)
      OBVIOUS
    <3>2. QED BY <1>7, <3>1
  <2>4. \A t \in Thread : \A c \in Frame : IsTop(t, c)' => t + Width(c) <= shape.threads
    BY <1>7, <2>1, <2>2
  <2>5. QED BY <1>9, <2>1, <2>3, <2>4 DEF RangesApart
<1>14. QED BY <1>8, <1>10, <1>11, <1>12, <1>13 DEF StackInv
-----------------------------------------------------------------------------
(* The steps of a thread.                                                   *)

Fits(t, e) == e \in Seq(Frame) /\ Becomes(t, e) /\ FitsIn(e, Top(t))

LEMMA BufferIs ==
  ASSUME NEW t \in Thread, NEW depth \in Nat, NEW name \in {"left", "right", "child"}
  PROVE  Buffer(t, depth, name) \in InputRecord
<1>1. t \in Nat
  BY DEF Thread
<1>2. QED BY <1>1 DEF Buffer, BufferRecord, InputRecord

LEMMA VisitFits ==
  ASSUME Made, StackInv, NEW t \in Thread, VisitNode(t)
  PROVE  \E e : Fits(t, e)
<1>1. PICK f : f = Top(t)
  OBVIOUS
<1>2. Busy(t) /\ f.call = "visit"
  BY <1>1 DEF VisitNode
<1>3. f \in Frame /\ FrameOK(f)
  BY <1>1, <1>2, TopIs DEF StackInv, FramesOK
<1>4. CASE Children(t, f) /\ ~ IsLeaf(f.id)
  <2>1. PICK e : e = <<Groups(f.id, f.input, f.depth, f.budget, 1, Len(ChildrenOf(f.id)) + 1, t)>>
    OBVIOUS
  <2>2. Becomes(t, e)
    BY <1>4, <2>1 DEF Children
  <2>3. FitsIn(e, f)
    BY <1>2, <1>3, <1>4, <2>1, ChildrenFit
  <2>4. QED BY <1>1, <2>2, <2>3 DEF Fits, FitsIn
<1>5. CASE Becomes(t, <<>>)
  <2>1. FitsIn(<<>>, f)
    BY NothingFits
  <2>2. QED BY <1>1, <1>5, <2>1 DEF Fits, FitsIn
<1>6. ASSUME IsFork(f.id) PROVE ~ IsLeaf(f.id)
  BY <1>2, <1>3, <1>6, MadeChildCount DEF ChildCount, FrameOK, Work
<1>7. \/ Children(t, f) /\ (IsFork(f.id) \/ ~ IsLeaf(f.id))
      \/ Becomes(t, <<>>)
  BY <1>1 DEF VisitNode, WriteFork, ReadFork, ReadLeaf, WriteLeaf, Filter
<1>8. QED BY <1>4, <1>5, <1>6, <1>7

LEMMA ChildFitsIn ==
  ASSUME Made, StackInv, NEW t \in Thread, RunChild(t)
  PROVE  \E e : Fits(t, e)
<1>1. PICK f : f = Top(t)
  OBVIOUS
<1>2. Busy(t) /\ f.call = "groups"
  BY <1>1 DEF RunChild, InGroups
<1>3. f \in Frame /\ FrameOK(f)
  BY <1>1, <1>2, TopIs DEF StackInv, FramesOK
<1>4. f.depth \in Nat /\ f.home \in Thread
  BY <1>2, <1>3, FrameFields DEF FrameOK, Work
<1>5. ASSUME NEW input \in InputRecord,
             Becomes(t, Append(Rest(f), Visit(Child(f.id, f.first), input, f.depth + 1, Budget(f))))
      PROVE  \E e : Fits(t, e)
  <2>1. PICK e : e = Append(Rest(f), Visit(Child(f.id, f.first), input, f.depth + 1, Budget(f)))
    OBVIOUS
  <2>2. FitsIn(e, f)
    BY <1>2, <1>3, <2>1, EdgeFits
  <2>3. Becomes(t, e)
    BY <1>5, <2>1
  <2>4. QED BY <1>1, <2>2, <2>3 DEF Fits, FitsIn
<1>6. CASE ForkEdge(t, f)
  <2>1. PICK input : input = IF stage = "read" THEN Output ELSE Buffer(f.home, f.depth, Side(f.first))
    OBVIOUS
  <2>2. input \in InputRecord
    <3>1. Buffer(f.home, f.depth, Side(f.first)) \in InputRecord
      BY <1>4, BufferIs DEF Side
    <3>2. QED BY <2>1, <3>1 DEF InputRecord
  <2>3. Becomes(t, Append(Rest(f), Visit(Child(f.id, f.first), input, f.depth + 1, Budget(f))))
    BY <1>6, <2>1 DEF ForkEdge, Child
  <2>4. QED BY <1>5, <2>2, <2>3
<1>7. CASE FilterEdge(t, f)
  <2>1. Buffer(t, f.depth, "child") \in InputRecord
    BY <1>4, BufferIs
  <2>2. CASE Becomes(t, Rest(f))
    <3>1. FitsIn(Rest(f), f)
      BY <1>2, <1>3, <2>1, EdgeFits
    <3>2. QED BY <1>1, <2>2, <3>1 DEF Fits, FitsIn
  <2>3. CASE Becomes(t, Append(Rest(f), Visit(Child(f.id, f.first), Buffer(t, f.depth, "child"),
                                             f.depth + 1, Budget(f))))
    BY <1>5, <2>1, <2>3
  <2>4. QED BY <1>7, <2>2, <2>3 DEF FilterEdge, Workspace, Child
<1>8. QED BY <1>1, <1>6, <1>7 DEF RunChild

LEMMA JoinFits ==
  ASSUME NEW t \in Thread, Join(t)
  PROVE  Fits(t, <<>>)
BY NothingFits DEF Join, Fits, FitsIn

LEMMA StepUnmoved ==
  ASSUME NEW t, Step(t)
  PROVE  t \in Thread /\ Busy(t) /\ Unmoved /\ todo' = todo /\ stage' = stage
BY DEF Step, VisitNode, RunChild, InGroups, Split, Join, Unmoved

LEMMA StepStack ==
  ASSUME RunInv, NEW t, Step(t)
  PROVE  StackInv'
<1>1. t \in Thread /\ Busy(t) /\ Unmoved
  BY StepUnmoved
<1>2. Made /\ StackInv /\ ShapeInv /\ StackTypes
  BY <1>1, BusyMade DEF RunInv, StackInv
<1>3. ASSUME NEW e, Fits(t, e) PROVE StackInv'
  <2>1. GivesWay(t, e)
    BY <1>1, <1>2, <1>3, BecomesGivesWay DEF Fits
  <2>2. QED BY <1>1, <1>2, <1>3, <2>1, StackGivesWay DEF Fits
<1>4. CASE VisitNode(t)
  BY <1>1, <1>2, <1>3, <1>4, VisitFits
<1>5. CASE RunChild(t)
  BY <1>1, <1>2, <1>3, <1>5, ChildFitsIn
<1>6. CASE Join(t)
  BY <1>1, <1>3, <1>6, JoinFits
<1>7. CASE Split(t)
  BY <1>1, <1>2, <1>7, StackSplits
<1>8. QED BY <1>4, <1>5, <1>6, <1>7 DEF Step

LEMMA RunInvInit ==
  ASSUME Init
  PROVE  RunInv
<1>1. ShapeInv /\ PlanInv
  BY InitPlan
<1>2. stage = "plan" /\ stack = [t \in Thread |-> <<>>]
  BY DEF Init
<1>3. stack \in [Thread -> Seq(Frame)] /\ Idle
  BY <1>2 DEF Idle
<1>4. StackInv
  <2>1. \A t \in Thread : \A i \in Nat, c \in Frame : ~ At(t, i, c) /\ ~ IsTop(t, c)
    BY <1>3 DEF Idle, At, IsTop, Busy
  <2>2. QED BY <1>3, <2>1 DEF StackInv, StackTypes, FramesOK, RangesApart, Towers
<1>5. StageInv
  BY <1>2, <1>3 DEF StageInv
<1>6. QED BY <1>1, <1>4, <1>5 DEF RunInv

LEMMA RunInvStep ==
  ASSUME RunInv, [Next]_vars
  PROVE  RunInv'
<1>1. ShapeInv /\ PlanInv /\ StackInv /\ StageInv /\ StackTypes
  BY DEF RunInv, StackInv
<1>2. CASE PlanNode
  <2>1. ShapeInv' /\ PlanInv'
    BY <1>1, <1>2, PlanStep
  <2>2. stack' = stack /\ shape' = shape /\ stage = "plan" /\ stage' = stage
    BY <1>2 DEF PlanNode
  <2>3. Idle /\ Idle'
    BY <1>1, <2>2 DEF StageInv, Idle, Thread
  <2>4. (stack \in [Thread -> Seq(Frame)])'
    BY <1>1, <2>2 DEF StackTypes, Thread
  <2>5. StackInv'
    BY <2>3, <2>4, IdleStack
  <2>6. StageInv'
    BY <2>2, <2>3 DEF StageInv
  <2>7. QED BY <2>1, <2>5, <2>6 DEF RunInv
<1>3. CASE NextStage
  <2>1. Unmoved /\ todo' = todo /\ Idle
    BY <1>3 DEF NextStage, Unmoved, Idle, Busy
  <2>2. ShapeInv' /\ PlanInv'
    BY <1>1, <2>1, PlanUnmoved
  <2>3. Thread' = Thread
    BY <2>1 DEF Unmoved, Thread
  <2>4. CASE Entered /\ stage' \in {"write", "read"} /\ todo = <<>>
    <3>1. Made
      BY <1>1, <2>4 DEF Made
    <3>2. StackInv'
      BY <1>1, <2>1, <2>4, <3>1, EnterStack
    <3>3. StageInv'
      BY <2>1, <2>4 DEF StageInv
    <3>4. QED BY <2>2, <3>2, <3>3 DEF RunInv
  <2>5. CASE stage = "read" /\ stage' = "done" /\ stack' = stack
    <3>1. Idle' /\ (stack \in [Thread -> Seq(Frame)])'
      BY <1>1, <2>1, <2>3, <2>5 DEF Idle, StackTypes
    <3>2. StackInv'
      BY <3>1, IdleStack
    <3>3. StageInv'
      BY <1>1, <2>1, <2>5, <3>1 DEF StageInv
    <3>4. QED BY <2>2, <3>2, <3>3 DEF RunInv
  <2>6. \/ Entered /\ stage' \in {"write", "read"} /\ todo = <<>>
        \/ stage = "read" /\ stage' = "done" /\ stack' = stack
    BY <1>1, <1>3 DEF NextStage, Enter, Entered, RootVisit, StageInv
  <2>7. QED BY <2>4, <2>5, <2>6
<1>4. ASSUME NEW t, Step(t) PROVE RunInv'
  <2>1. t \in Thread /\ Busy(t) /\ Unmoved /\ todo' = todo /\ stage' = stage
    BY <1>4, StepUnmoved
  <2>2. Made /\ stage \in {"write", "read"}
    BY <2>1, BusyMade
  <2>3. ShapeInv' /\ PlanInv'
    BY <1>1, <2>1, PlanUnmoved
  <2>4. StackInv'
    BY <1>4, StepStack
  <2>5. StageInv'
    BY <1>1, <2>1, <2>2 DEF StageInv
  <2>6. QED BY <2>3, <2>4, <2>5 DEF RunInv
<1>5. CASE UNCHANGED vars
  <2>1. Unmoved /\ todo' = todo /\ stage' = stage /\ stack' = stack /\ Thread' = Thread
    BY <1>5 DEF vars, Unmoved, Thread
  <2>2. ShapeInv' /\ PlanInv'
    BY <1>1, <2>1, PlanUnmoved
  <2>3. StackInv'
    <3>1. \A c, d : FrameOK(c)' = FrameOK(c) /\ Tower(c, d)' = Tower(c, d)
      BY <2>1, FrameUnmoved
    <3>2. \A u, i, c : At(u, i, c)' = At(u, i, c) /\ IsTop(u, c)' = IsTop(u, c)
      BY <2>1 DEF At, IsTop, Busy, Top
    <3>3. shape' = shape
      BY <2>1 DEF Unmoved
    <3>4. QED BY <1>1, <2>1, <3>1, <3>2, <3>3 DEF StackInv, StackTypes, FramesOK, RangesApart, Towers
  <2>4. StageInv'
    BY <1>1, <2>1 DEF StageInv, Idle
  <2>5. QED BY <2>2, <2>3, <2>4 DEF RunInv
<1>6. QED BY <1>2, <1>3, <1>4, <1>5 DEF Next

\* What holds of every state: the plan is sound, and the threads work through it.
THEOREM RunInvariant == Spec => []RunInv
<1>1. Init => RunInv
  BY RunInvInit
<1>2. RunInv /\ [Next]_vars => RunInv'
  BY RunInvStep
<1>3. QED BY <1>1, <1>2, PTL DEF Spec

LEMMA ForksFitNow ==
  ASSUME RunInv
  PROVE  ForksFit
<1>1. SUFFICES ASSUME NEW t \in Thread, InGroups(t), Parallel(Top(t))
               PROVE  /\ RightId(t, Top(t)) \in Thread /\ ~ Busy(RightId(t, Top(t)))
                      /\ RightBudget(Top(t)) >= 1
  BY DEF ForksFit
<1>2. Busy(t)
  BY <1>1 DEF InGroups
<1>3. Made
  BY <1>2, BusyMade
<1>4. StackInv
  BY DEF RunInv
<1>5. ForkRoom(t, Top(t))
  BY <1>1, <1>3, <1>4, RoomToFork
<1>6. QED BY <1>5 DEF ForkRoom

\* Every fork finds its right thread in range and idle, whatever the plan and the number
\* of threads (ParallelPlan.tcc:97-101, ThreadPool.cpp:148-163).
THEOREM ForksFitHolds == Spec => []ForksFit
<1>1. RunInv => ForksFit
  BY ForksFitNow
<1>2. QED BY <1>1, RunInvariant, PTL
-----------------------------------------------------------------------------
(* How a step moves the calls.                                              *)

\* The last call of thread t, the l-th, is replaced by calls at the places N.
Moves(t, l, N) ==
  /\ N \subseteq Thread \X Nat \X Frame
  /\ \A u \in Thread : \A i \in Nat, c \in Frame :
       At(u, i, c)' <=> (At(u, i, c) /\ ~ (u = t /\ i = l)) \/ <<u, i, c>> \in N

LEMMA GivesWayMoves ==
  ASSUME StackTypes, NEW t \in Thread, Busy(t), NEW e, GivesWay(t, e), NEW l, Height(t, l),
         NEW N, N \subseteq Thread \X Nat \X Frame,
         \A u \in Thread : \A i \in Nat, c \in Frame :
           <<u, i, c>> \in N <=> u = t /\ i >= l /\ i - l + 1 \in 1 .. Len(e) /\ c = e[i - l + 1]
  PROVE  Moves(t, l, N)
<1>1. l \in Nat \ {0} /\ DOMAIN stack[t] = 1 .. l /\ Len(e) \in Nat
  BY TopIs DEF Height, GivesWay
<1>2. /\ stack'[t] \in Seq(Frame) /\ Len(stack'[t]) = l - 1 + Len(e) /\ DOMAIN stack'[t] = 1 .. l - 1 + Len(e)
  BY <1>1 DEF GivesWay, Height
<1>3. After(t, e, l)
  BY AfterGivingWay
<1>4. ASSUME NEW u \in Thread, NEW i \in Nat, NEW c \in Frame, At(u, i, c)'
      PROVE  (At(u, i, c) /\ ~ (u = t /\ i = l)) \/ <<u, i, c>> \in N
  <2>1. Stays(t, l, u, i, c) \/ Put(t, l, e, u, i, c)
    BY <1>3, <1>4 DEF After
  <2>2. CASE Stays(t, l, u, i, c)
    <3>1. ~ (u = t /\ i = l)
      BY <1>1, <2>2 DEF Stays
    <3>2. QED BY <2>2, <3>1 DEF Stays
  <2>3. CASE Put(t, l, e, u, i, c)
    BY <2>3 DEF Put
  <2>4. QED BY <2>1, <2>2, <2>3
<1>5. ASSUME NEW u \in Thread, NEW i \in Nat, NEW c \in Frame, At(u, i, c), ~ (u = t /\ i = l)
      PROVE  At(u, i, c)'
  <2>1. CASE u # t
    BY <1>5, <2>1 DEF At, GivesWay
  <2>2. CASE u = t
    <3>1. i \in 1 .. l /\ c = stack[t][i] /\ i # l
      BY <1>1, <1>5, <2>2 DEF At
    <3>2. i \in 1 .. l - 1
      BY <1>1, <3>1
    <3>3. stack'[t][i] = c
      BY <3>1, <3>2 DEF GivesWay, Height
    <3>4. i \in 1 .. l - 1 + Len(e)
      BY <1>1, <3>2
    <3>5. QED BY <1>2, <2>2, <3>3, <3>4 DEF At
  <2>3. QED BY <2>1, <2>2
<1>6. ASSUME NEW u \in Thread, NEW i \in Nat, NEW c \in Frame, <<u, i, c>> \in N
      PROVE  At(u, i, c)'
  <2>1. u = t /\ i >= l /\ i - l + 1 \in 1 .. Len(e) /\ c = e[i - l + 1]
    BY <1>6
  <2>2. PICK j \in Nat : j = i - l + 1
    BY <1>1, <2>1
  <2>3. PICK n \in Nat : n = Len(e)
    BY <1>1
  <2>4. j \in 1 .. n /\ c = e[j] /\ i = l - 1 + j /\ i \in 1 .. l - 1 + n
    BY <1>1, <2>1, <2>2, <2>3
  <2>5. stack'[t][l - 1 + j] = e[j]
    BY <2>3, <2>4 DEF GivesWay, Height
  <2>6. QED BY <1>2, <2>1, <2>3, <2>4, <2>5 DEF At
<1>7. QED BY <1>4, <1>5, <1>6 DEF Moves

\* The three forms that it takes.
LEMMA NothingMoves ==
  ASSUME StackTypes, NEW t \in Thread, Busy(t), Becomes(t, <<>>), NEW l, Height(t, l)
  PROVE  Moves(t, l, {})
<1>1. PICK e : e = <<>>
  OBVIOUS
<1>2. e \in Seq(Frame) /\ 1 .. Len(e) = {} /\ Becomes(t, e)
  BY <1>1
<1>3. GivesWay(t, e)
  BY <1>2, BecomesGivesWay
<1>4. PICK N : N = {}
  OBVIOUS
<1>5. /\ N \subseteq Thread \X Nat \X Frame
      /\ \A u \in Thread : \A i \in Nat, c \in Frame :
           <<u, i, c>> \in N <=> u = t /\ i >= l /\ i - l + 1 \in 1 .. Len(e) /\ c = e[i - l + 1]
  BY <1>2, <1>4
<1>6. Moves(t, l, N)
  BY <1>3, <1>5, GivesWayMoves
<1>7. QED BY <1>4, <1>6

LEMMA OneMoves ==
  ASSUME StackTypes, NEW t \in Thread, Busy(t), NEW c \in Frame, Becomes(t, <<c>>), NEW l, Height(t, l)
  PROVE  Moves(t, l, {<<t, l, c>>})
<1>1. PICK e : e = <<c>>
  OBVIOUS
<1>2. e \in Seq(Frame) /\ Len(e) = 1 /\ e[1] = c /\ Becomes(t, e) /\ l \in Nat
  BY <1>1 DEF Height
<1>3. GivesWay(t, e)
  BY <1>2, BecomesGivesWay
<1>4. PICK N : N = {<<t, l, c>>}
  OBVIOUS
<1>5. ASSUME NEW u \in Thread, NEW i \in Nat, NEW d \in Frame
      PROVE  <<u, i, d>> \in N <=> u = t /\ i >= l /\ i - l + 1 \in 1 .. Len(e) /\ d = e[i - l + 1]
  <2>1. <<u, i, d>> \in N <=> u = t /\ i = l /\ d = c
    BY <1>4
  <2>2. i >= l /\ i - l + 1 \in 1 .. 1 <=> i = l
    BY <1>2
  <2>3. i = l => i - l + 1 = 1
    BY <1>2
  <2>4. QED BY <1>2, <2>1, <2>2, <2>3
<1>6. N \subseteq Thread \X Nat \X Frame
  BY <1>2, <1>4
<1>7. Moves(t, l, N)
  BY <1>3, <1>5, <1>6, GivesWayMoves
<1>8. QED BY <1>4, <1>7

LEMMA TwoPlaces ==
  ASSUME NEW t, NEW l \in Nat, NEW r, NEW q \in Nat, NEW c, NEW u, NEW i \in Nat, NEW d
  PROVE  <<u, i, d>> \in {<<t, l, r>>, <<t, q, c>>} <=>
           \/ u = t /\ i = l /\ d = r
           \/ u = t /\ i = q /\ d = c
OBVIOUS

LEMMA TwoMove ==
  ASSUME StackTypes, NEW t \in Thread, Busy(t), NEW r \in Frame, NEW s, s = <<r>>, NEW c \in Frame,
         Becomes(t, Append(s, c)), NEW l, Height(t, l)
  PROVE  Moves(t, l, {<<t, l, r>>, <<t, l + 1, c>>})
<1>1. PICK e : e = Append(s, c)
  OBVIOUS
<1>2. e \in Seq(Frame) /\ Len(e) = 2 /\ e[1] = r /\ e[2] = c
  BY <1>1, TwoCalls
<1>3. Becomes(t, e) /\ l \in Nat
  BY <1>1 DEF Height
<1>4. GivesWay(t, e)
  BY <1>2, <1>3, BecomesGivesWay
<1>q. PICK q \in Nat : q = l + 1
  BY <1>3
<1>5. PICK N : N = {<<t, l, r>>, <<t, q, c>>}
  OBVIOUS
<1>6. ASSUME NEW u \in Thread, NEW i \in Nat, NEW d \in Frame
      PROVE  <<u, i, d>> \in N <=> u = t /\ i >= l /\ i - l + 1 \in 1 .. Len(e) /\ d = e[i - l + 1]
  <2>1. <<u, i, d>> \in N <=>
          \/ u = t /\ i = l /\ d = r
          \/ u = t /\ i = q /\ d = c
    BY <1>3, <1>5, TwoPlaces
  <2>3. PICK j \in Int : j = i - l + 1
    BY <1>3
  <2>4. i >= l /\ j \in 1 .. 2 <=> i = l \/ i = q
    BY <1>3, <1>q, <2>3
  <2>5. (i = l <=> j = 1) /\ (i = q <=> j = 2) /\ l # q
    BY <1>3, <1>q, <2>3
  <2>6. j \in 1 .. Len(e) <=> j = 1 \/ j = 2
    BY <1>2
  <2>7. CASE i = l
    BY <1>2, <1>3, <2>1, <2>3, <2>5, <2>6, <2>7
  <2>8. CASE i = q
    BY <1>2, <1>3, <1>q, <2>1, <2>3, <2>5, <2>6, <2>8
  <2>9. CASE i # l /\ i # q
    BY <2>1, <2>3, <2>5, <2>6, <2>9
  <2>10. QED BY <2>7, <2>8, <2>9
<1>7. N \subseteq Thread \X Nat \X Frame
  BY <1>3, <1>5, <1>q
<1>8. Moves(t, l, N)
  BY <1>4, <1>6, <1>7, GivesWayMoves
<1>9. QED BY <1>5, <1>8, <1>q

LEMMA SplitMoves ==
  ASSUME StackTypes, NEW t \in Thread, NEW r \in Thread, r # t, Busy(t), ~ Busy(r),
         NEW x \in Frame, NEW y \in Frame, Splits(t, r, x, y), NEW l, Height(t, l)
  PROVE  Moves(t, l, {<<t, l, Joining(r)>>, <<t, l + 1, x>>, <<r, 1, y>>})
<1>1. l \in Nat \ {0} /\ DOMAIN stack[t] = 1 .. l
  BY TopIs DEF Height
<1>2. /\ stack'[t] \in Seq(Frame) /\ Len(stack'[t]) = l + 1 /\ DOMAIN stack'[t] = 1 .. l + 1
  BY <1>1 DEF Splits, Height
<1>3. PICK j \in Frame : j = Joining(r)
  BY JoiningIs DEF Thread
<1>4. PICK N : N = {<<t, l, j>>, <<t, l + 1, x>>, <<r, 1, y>>}
  OBVIOUS
<1>5. N \subseteq Thread \X Nat \X Frame
  BY <1>1, <1>4
<1>6. \A u \in Thread : \A i \in Nat, c \in Frame : <<u, i, c>> \in N <=> Parted(t, l, r, x, y, u, i, c)
  BY <1>3, <1>4 DEF Parted
<1>7. ASSUME NEW u \in Thread, NEW i \in Nat, NEW c \in Frame, At(u, i, c)'
      PROVE  (At(u, i, c) /\ ~ (u = t /\ i = l)) \/ <<u, i, c>> \in N
  <2>1. Stays(t, l, u, i, c) \/ Parted(t, l, r, x, y, u, i, c)
    BY <1>7, AfterSplitting DEF AfterSplit
  <2>2. CASE Stays(t, l, u, i, c)
    <3>1. ~ (u = t /\ i = l)
      BY <1>1, <2>2 DEF Stays
    <3>2. QED BY <2>2, <3>1 DEF Stays
  <2>3. QED BY <1>6, <2>1, <2>2
<1>8. ASSUME NEW u \in Thread, NEW i \in Nat, NEW c \in Frame, At(u, i, c), ~ (u = t /\ i = l)
      PROVE  At(u, i, c)'
  <2>1. CASE u # t
    <3>1. u # r
      BY <1>8 DEF At, Busy
    <3>2. QED BY <1>8, <2>1, <3>1 DEF At, Splits
  <2>2. CASE u = t
    <3>1. i \in 1 .. l /\ c = stack[t][i] /\ i # l
      BY <1>1, <1>8, <2>2 DEF At
    <3>2. i \in 1 .. l - 1 /\ i \in 1 .. l + 1
      BY <1>1, <3>1
    <3>3. stack'[t][i] = c
      BY <3>1, <3>2 DEF Splits, Height
    <3>4. QED BY <1>2, <2>2, <3>2, <3>3 DEF At
  <2>3. QED BY <2>1, <2>2
<1>9. ASSUME NEW u \in Thread, NEW i \in Nat, NEW c \in Frame, <<u, i, c>> \in N
      PROVE  At(u, i, c)'
  <2>1. Parted(t, l, r, x, y, u, i, c)
    BY <1>6, <1>9
  <2>2. CASE u = t /\ i = l /\ c = Joining(r)
    <3>1. l \in 1 .. l + 1
      BY <1>1
    <3>2. QED BY <1>2, <2>2, <3>1 DEF At, Splits, Height
  <2>3. CASE u = t /\ i = l + 1 /\ c = x
    <3>1. l + 1 \in 1 .. l + 1
      BY <1>1
    <3>2. QED BY <1>2, <2>3, <3>1 DEF At, Splits, Height
  <2>4. CASE u = r /\ i = 1 /\ c = y
    <3>1. stack'[r] = <<y>>
      BY DEF Splits
    <3>2. 1 \in DOMAIN <<y>> /\ <<y>>[1] = y
      OBVIOUS
    <3>3. QED BY <2>4, <3>1, <3>2 DEF At
  <2>5. QED BY <2>1, <2>2, <2>3, <2>4 DEF Parted
<1>10. Moves(t, l, N)
  BY <1>5, <1>7, <1>8, <1>9 DEF Moves
<1>11. QED BY <1>3, <1>4, <1>10
-----------------------------------------------------------------------------
(* What the calls are to put out, and what they need.                       *)

\* The nodes whose visits a call stands for, and the blocks that they put out.
Roots(c) ==
  IF c.call = "visit" THEN {c.id}
  ELSE IF c.call = "groups" THEN {Child(c.id, i) : i \in c.first .. c.end - 1} ELSE {}
Covers(c, b) == \E x \in Roots(c) : b \in Slice(x)
Apart(c, d) == \A b : ~ (Covers(c, b) /\ Covers(d, b))
Below(c, f) == \A b : Covers(c, b) => Covers(f, b)

AreasApart ==
  \A u, v \in Thread : \A i, j \in Nat : \A c, d \in Frame :
    At(u, i, c) /\ At(v, j, d) /\ (u # v \/ i # j) => Apart(c, d)

\* A thread that a branch may still be given to.
Inside(h) == \E v \in Thread : \E d \in Frame : IsTop(v, d) /\ v < h /\ h < v + Width(d)

\* Call c of thread u may rely on buffer b: nothing that runs before c ends writes it.
Safe(u, c, b) ==
  /\ b.depth < From(c)
  /\ b.thread # u =>
       /\ ~ Inside(b.thread)
       /\ \A j \in Nat, d \in Frame : At(b.thread, j, d) /\ Work(d) => b.depth < From(d)

\* Call c is to find the input of node x at b.
Need(c, b, x) ==
  \/ /\ c.call = "visit" /\ (stage = "read" \/ ~ IsLeaf(c.id))
     /\ b = c.input /\ x = c.id
  \/ /\ c.call = "groups" /\ ~ IsFork(c.id)
     /\ b = c.input /\ x = c.id
  \/ /\ c.call = "groups" /\ IsFork(c.id)
     /\ \E i \in c.first .. c.end - 1 :
          /\ x = Child(c.id, i)
          /\ IF stage = "read" THEN b = Output
             ELSE ~ IsLeaf(x) /\ b = Buffer(c.home, c.depth, Side(i))

Met(u, c, b, x) ==
  /\ x \in Nodes /\ Holds(b, x)
  /\ b.at = "space" => b \in Buffers /\ Safe(u, c, b)
  /\ b.at = "output" => (IsFork(x) \/ IsLeaf(x)) /\ \A a \in Slice(x) : Covers(c, a)

NeedsMet ==
  \A u \in Thread : \A i \in Nat, c \in Frame : At(u, i, c) =>
    \A b, x : Need(c, b, x) => Met(u, c, b, x)

LEMMA AreaUnmoved ==
  ASSUME Unmoved, NEW c, NEW d
  PROVE  /\ Roots(c)' = Roots(c) /\ Apart(c, d)' = Apart(c, d) /\ Below(c, d)' = Below(c, d)
         /\ \A b : Covers(c, b)' = Covers(c, b)
BY DEF Unmoved, Roots, Covers, Apart, Below, Slice, Span, Node, Child, ChildrenOf

\* The calls N do parts of what f was to do.
Shares(N, f) ==
  /\ \A u \in Thread : \A i \in Nat, c \in Frame : <<u, i, c>> \in N => Below(c, f)
  /\ \A u, v \in Thread : \A i, j \in Nat : \A c, d \in Frame :
       <<u, i, c>> \in N /\ <<v, j, d>> \in N /\ (u # v \/ i # j) => Apart(c, d)

LEMMA AreasMove ==
  ASSUME AreasApart, Unmoved, NEW t \in Thread, NEW l \in Nat, NEW f \in Frame, At(t, l, f),
         NEW N, Moves(t, l, N), Shares(N, f)
  PROVE  AreasApart'
<1>1. Thread' = Thread
  BY FrameUnmoved
<1>2. ASSUME NEW u \in Thread, NEW v \in Thread, NEW i \in Nat, NEW j \in Nat,
             NEW c \in Frame, NEW d \in Frame, At(u, i, c)', At(v, j, d)', u # v \/ i # j
      PROVE  Apart(c, d)
  <2>1. (At(u, i, c) /\ ~ (u = t /\ i = l)) \/ <<u, i, c>> \in N
    BY <1>2 DEF Moves
  <2>2. (At(v, j, d) /\ ~ (v = t /\ j = l)) \/ <<v, j, d>> \in N
    BY <1>2 DEF Moves
  <2>3. CASE At(u, i, c) /\ At(v, j, d)
    BY <1>2, <2>3 DEF AreasApart
  <2>4. CASE At(u, i, c) /\ ~ (u = t /\ i = l) /\ <<v, j, d>> \in N
    <3>1. Apart(c, f) /\ Below(d, f)
      BY <2>4 DEF AreasApart, Shares
    <3>2. QED BY <3>1 DEF Apart, Below
  <2>5. CASE <<u, i, c>> \in N /\ At(v, j, d) /\ ~ (v = t /\ j = l)
    <3>1. Apart(d, f) /\ Below(c, f)
      BY <2>5 DEF AreasApart, Shares
    <3>2. QED BY <3>1 DEF Apart, Below
  <2>6. CASE <<u, i, c>> \in N /\ <<v, j, d>> \in N
    BY <1>2, <2>6 DEF Shares
  <2>7. QED BY <2>1, <2>2, <2>3, <2>4, <2>5, <2>6
<1>3. \A c, d : Apart(c, d)' = Apart(c, d)
  BY AreaUnmoved
<1>4. QED BY <1>1, <1>2, <1>3 DEF AreasApart

\* The calls N use no thread that others rely on, and no workspace above those of f.
Keeps(t, N, f) ==
  /\ \A h \in Thread : Inside(h)' => Inside(h)
  /\ \A u \in Thread : \A i \in Nat, c \in Frame : <<u, i, c>> \in N =>
       (u = t \/ Inside(u)) /\ (Work(c) => Work(f) /\ From(f) <= From(c))

LEMMA FromType ==
  ASSUME NEW c \in Frame, Work(c)
  PROVE  From(c) \in Nat
BY FrameFields DEF From

LEMMA BufferFields ==
  ASSUME ShapeInv, NEW b \in Buffers
  PROVE  /\ b.thread \in Thread /\ b.depth \in Nat /\ b.depth \in Depth /\ b.at = "space"
         /\ b \in InputRecord
<1>1. PICK t \in Thread, depth \in Depth, name \in {"left", "right", "child"} :
        b = Buffer(t, depth, name)
  BY DEF Buffers
<1>2. depth \in Nat
  BY DEF Depth
<1>3. b.thread = t /\ b.depth = depth /\ b.at = "space"
  BY <1>1 DEF Buffer
<1>4. QED BY <1>1, <1>2, <1>3, BufferIs

\* The calls of thread h still work deeper than d.
LEMMA DeeperKept ==
  ASSUME Unmoved, NEW t \in Thread, NEW l \in Nat, NEW f \in Frame, At(t, l, f),
         NEW N, Moves(t, l, N), Keeps(t, N, f), NEW h \in Thread, ~ Inside(h), NEW depth \in Nat,
         \A j \in Nat, d \in Frame : At(h, j, d) /\ Work(d) => depth < From(d)
  PROVE  \A j \in Nat, d \in Frame : At(h, j, d)' /\ Work(d) => depth < From(d)
<1>1. SUFFICES ASSUME NEW j \in Nat, NEW d \in Frame, At(h, j, d)', Work(d) PROVE depth < From(d)
  OBVIOUS
<1>2. CASE At(h, j, d)
  BY <1>1, <1>2
<1>3. CASE <<h, j, d>> \in N
  <2>1. h = t /\ Work(f) /\ From(f) <= From(d)
    BY <1>1, <1>3 DEF Keeps
  <2>2. depth < From(f)
    BY <2>1
  <2>3. From(f) \in Nat /\ From(d) \in Nat
    BY <1>1, <2>1, FromType
  <2>4. QED BY <2>1, <2>2, <2>3
<1>4. QED BY <1>1, <1>2, <1>3 DEF Moves

LEMMA SafeKept ==
  ASSUME ShapeInv, Unmoved, NEW t \in Thread, NEW l \in Nat, NEW f \in Frame, At(t, l, f),
         NEW N, Moves(t, l, N), Keeps(t, N, f), NEW u, NEW c, NEW b \in Buffers, Safe(u, c, b)
  PROVE  Safe(u, c, b)'
<1>1. From(c)' = From(c) /\ Thread' = Thread /\ \A d : From(d)' = From(d)
  BY FrameUnmoved
<1>2. b.thread \in Thread /\ b.depth \in Nat
  BY BufferFields
<1>3. ASSUME b.thread # u
      PROVE  /\ ~ Inside(b.thread)'
             /\ \A j \in Nat, d \in Frame : At(b.thread, j, d)' /\ Work(d) => b.depth < From(d)
  <2>1. /\ ~ Inside(b.thread)
        /\ \A j \in Nat, d \in Frame : At(b.thread, j, d) /\ Work(d) => b.depth < From(d)
    BY <1>3 DEF Safe
  <2>2. ~ Inside(b.thread)'
    BY <1>2, <2>1 DEF Keeps
  <2>3. \A j \in Nat, d \in Frame : At(b.thread, j, d)' /\ Work(d) => b.depth < From(d)
    BY <1>2, <2>1, DeeperKept
  <2>4. QED BY <2>2, <2>3
<1>4. b.depth < From(c)
  BY DEF Safe
<1>5. QED BY <1>1, <1>3, <1>4 DEF Safe

\* A step writes only the buffers of its thread and depth, and only the blocks of its call.
Writes(t, f) ==
  /\ stage' = stage
  /\ \A b \in Buffers : space'[b] = space[b] \/ (Work(f) /\ b.thread = t /\ b.depth = From(f))
  /\ \A a \in Span(0, shape.m * shape.k) : out'[a] = out[a] \/ Covers(f, a)

LEMMA NeedUnmoved ==
  ASSUME Unmoved, stage' = stage, NEW c, NEW b, NEW x
  PROVE  Need(c, b, x)' = Need(c, b, x)
BY DEF Unmoved, Need, IsLeaf, IsFork, Node, Child, ChildrenOf

\* The calls that a step leaves alone still have what they need.
LEMMA OlderMet ==
  ASSUME Made, StackInv, AreasApart, Unmoved, NEW t \in Thread, NEW l \in Nat, Height(t, l),
         NEW f \in Frame, At(t, l, f), NEW N, Moves(t, l, N), Keeps(t, N, f), Writes(t, f),
         NEW u \in Thread, NEW i \in Nat, NEW c \in Frame, At(u, i, c), ~ (u = t /\ i = l), Work(c),
         NEW b, NEW x, Met(u, c, b, x)
  PROVE  Met(u, c, b, x)'
<1>1. x \in Nodes' /\ (IsFork(x) \/ IsLeaf(x))' = (IsFork(x) \/ IsLeaf(x)) /\ Slice(x)' = Slice(x)
  BY DEF Met, Unmoved, Nodes, IsFork, IsLeaf, Node, Slice, Span
<1>2. x \in Nodes /\ Holds(b, x)
  BY DEF Met
<1>3. Buffers' = Buffers
  BY DEF Unmoved, Buffers, Thread, Depth
<1>4. CASE b.at = "space"
  <2>1. b \in Buffers /\ Safe(u, c, b)
    BY <1>4 DEF Met
  <2>2. Safe(u, c, b)'
    BY <2>1, SafeKept DEF Made
  <2>3. b.depth \in Nat /\ b.depth < From(c) /\ From(c) \in Nat
    BY <2>1, BufferFields, FromType DEF Safe, Made
  <2>4. ~ (Work(f) /\ b.thread = t /\ b.depth = From(f))
    <3>1. SUFFICES ASSUME Work(f), b.thread = t, b.depth = From(f) PROVE FALSE
      OBVIOUS
    <3>2. From(f) \in Nat
      BY <3>1, FromType
    <3>3. CASE u = t
      <4>1. i \in 1 .. l /\ l \in Nat
        <5>1. DOMAIN stack[t] = 1 .. Len(stack[t])
          BY DEF StackInv, StackTypes
        <5>2. QED BY <3>3, <5>1 DEF At, Height
      <4>2. i < l
        BY <3>3, <4>1
      <4>3. Tower(c, f)
        BY <3>3, <4>2 DEF StackInv, Towers
      <4>4. From(c) <= From(f)
        BY <4>3 DEF Tower, Work
      <4>5. QED BY <2>3, <3>1, <3>2, <4>4
    <3>4. CASE u # t
      <4>1. b.depth < From(f)
        BY <2>1, <3>1, <3>4 DEF Safe
      <4>2. QED BY <2>3, <3>1, <4>1
    <3>5. QED BY <3>3, <3>4
  <2>5. space'[b] = space[b]
    BY <2>1, <2>4 DEF Writes
  <2>6. Holds(b, x)'
    BY <1>2, <1>4, <2>5 DEF Holds
  <2>7. QED BY <1>1, <1>3, <1>4, <2>1, <2>2, <2>6 DEF Met
<1>5. CASE b.at = "output"
  <2>1. (IsFork(x) \/ IsLeaf(x)) /\ \A a \in Slice(x) : Covers(c, a)
    BY <1>5 DEF Met
  <2>2. Apart(c, f)
    BY DEF AreasApart
  <2>3. \A a \in Slice(x) : out'[a] = out[a]
    <3>1. Slice(x) \subseteq Span(0, shape.m * shape.k)
      BY <1>2, MadeSlice
    <3>2. QED BY <2>1, <2>2, <3>1 DEF Writes, Apart
  <2>4. Holds(b, x)'
    BY <1>1, <1>2, <1>5, <2>3 DEF Holds
  <2>5. \A a : Covers(c, a)' = Covers(c, a)
    BY AreaUnmoved
  <2>6. QED BY <1>1, <1>5, <2>1, <2>4, <2>5 DEF Met
<1>6. CASE b.at # "space" /\ b.at # "output"
  <2>1. Holds(b, x)'
    BY <1>2, <1>6 DEF Holds
  <2>2. QED BY <1>1, <1>6, <2>1 DEF Met
<1>7. QED BY <1>4, <1>5, <1>6

\* And so do those that come in place of f, of what f needed.
LEMMA InheritedMet ==
  ASSUME Made, StackInv, StackInv', Unmoved, NEW t \in Thread, NEW l \in Nat, Height(t, l),
         NEW f \in Frame, At(t, l, f), Work(f), NEW N, Moves(t, l, N), Keeps(t, N, f), Writes(t, f),
         NEW u \in Thread, NEW i \in Nat, NEW c \in Frame, <<u, i, c>> \in N, Work(c),
         u # t => Work(f) /\ f.budget > 1 /\ Busy(t)',
         NEW b, NEW x, Met(t, f, b, x),
         b.at = "output" => out' = out /\ \A a \in Slice(x) : Covers(c, a)
  PROVE  Met(u, c, b, x)'
<1>1. x \in Nodes' /\ (IsFork(x) \/ IsLeaf(x))' = (IsFork(x) \/ IsLeaf(x)) /\ Slice(x)' = Slice(x)
  BY DEF Met, Unmoved, Nodes, IsFork, IsLeaf, Node, Slice, Span
<1>2. x \in Nodes /\ Holds(b, x)
  BY DEF Met
<1>3. Buffers' = Buffers
  BY DEF Unmoved, Buffers, Thread, Depth
<1>4. CASE b.at = "space"
  <2>1. b \in Buffers /\ Safe(t, f, b)
    BY <1>4 DEF Met
  <2>2. b.depth \in Nat /\ b.depth < From(f) /\ From(f) \in Nat /\ From(f) <= From(c)
        /\ From(c) \in Nat /\ b.thread \in Thread
    BY <2>1, BufferFields, FromType DEF Safe, Made, Keeps
  <2>3. b.depth < From(c)
    BY <2>2
  <2>4. space'[b] = space[b]
    BY <2>1, <2>2 DEF Writes
  <2>5. Holds(b, x)'
    BY <1>2, <1>4, <2>4 DEF Holds
  <2>6. /\ \A d : From(d)' = From(d)
        /\ Thread' = Thread
    BY FrameUnmoved
  <2>7. ASSUME b.thread # u
        PROVE  /\ ~ Inside(b.thread)'
               /\ \A j \in Nat, d \in Frame : At(b.thread, j, d)' /\ Work(d) => b.depth < From(d)
    <3>1. CASE b.thread # t
      <4>1. /\ ~ Inside(b.thread)
            /\ \A j \in Nat, d \in Frame : At(b.thread, j, d) /\ Work(d) => b.depth < From(d)
        BY <2>1, <3>1 DEF Safe
      <4>2. ~ Inside(b.thread)'
        BY <2>2, <4>1 DEF Keeps
      <4>3. \A j \in Nat, d \in Frame : At(b.thread, j, d)' /\ Work(d) => b.depth < From(d)
        BY <2>2, <4>1, DeeperKept
      <4>4. QED BY <4>2, <4>3
    <3>2. CASE b.thread = t
      <4>1. u # t /\ f.budget > 1 /\ Busy(t)'
        BY <2>7, <3>2
      <4>2. ~ Inside(t)'
        <5>1. SUFFICES ASSUME NEW v \in Thread, NEW d \in Frame, IsTop(v, d)', v < t, t < v + Width(d)
                       PROVE  FALSE
          BY <2>6 DEF Inside
        <5>2. \E g \in Frame : IsTop(t, g)'
          <6>1. stack'[t] \in Seq(Frame) /\ stack'[t] # <<>>
            BY <2>6, <4>1 DEF StackInv, StackTypes, Busy
          <6>2. stack'[t][Len(stack'[t])] \in Frame
            BY <6>1
          <6>3. Top(t)' \in Frame
            BY <6>2 DEF Top, Last
          <6>4. QED BY <4>1, <6>3 DEF IsTop
        <5>3. v + Width(d) <= t
          BY <2>6, <5>1, <5>2 DEF StackInv, RangesApart
        <5>4. Width(d) \in Nat /\ v \in Nat /\ t \in Nat
          BY FrameFields DEF Width, Work, Thread
        <5>5. QED BY <5>1, <5>3, <5>4
      <4>3. ASSUME NEW j \in Nat, NEW d \in Frame, At(t, j, d)', Work(d)
            PROVE  b.depth < From(d)
        <5>1. CASE At(t, j, d) /\ j # l
          <6>1. DOMAIN stack[t] = 1 .. Len(stack[t])
            BY DEF StackInv, StackTypes
          <6>2. j \in 1 .. l
            BY <5>1, <6>1 DEF At, Height
          <6>3. j < l
            BY <5>1, <6>2
          <6>4. Tower(d, f)
            BY <5>1, <6>3 DEF StackInv, Towers
          <6>5. f.budget = 1
            BY <4>3, <6>4 DEF Tower, Work
          <6>6. QED BY <4>1, <6>5
        <5>2. CASE <<t, j, d>> \in N
          <6>1. From(f) <= From(d) /\ From(d) \in Nat
            BY <4>3, <5>2, FromType DEF Keeps
          <6>2. QED BY <2>2, <6>1
        <5>3. QED BY <4>3, <5>1, <5>2 DEF Moves
      <4>4. QED BY <3>2, <4>2, <4>3
    <3>3. QED BY <3>1, <3>2
  <2>8. Safe(u, c, b)'
    BY <2>3, <2>6, <2>7 DEF Safe
  <2>9. QED BY <1>1, <1>3, <1>4, <2>1, <2>5, <2>8 DEF Met
<1>5. CASE b.at = "output"
  <2>1. IsFork(x) \/ IsLeaf(x)
    BY <1>5 DEF Met
  <2>2. out' = out /\ \A a \in Slice(x) : Covers(c, a)
    BY <1>5
  <2>3. Holds(b, x)'
    BY <1>1, <1>2, <1>5, <2>2 DEF Holds
  <2>4. \A a : Covers(c, a)' = Covers(c, a)
    BY AreaUnmoved
  <2>5. QED BY <1>1, <1>5, <2>1, <2>2, <2>3, <2>4 DEF Met
<1>6. CASE b.at # "space" /\ b.at # "output"
  <2>1. Holds(b, x)'
    BY <1>2, <1>6 DEF Holds
  <2>2. QED BY <1>1, <1>6, <2>1 DEF Met
<1>7. QED BY <1>4, <1>5, <1>6
-----------------------------------------------------------------------------
(* Parts of a node's children.                                              *)

\* Call c stands for the children A of node a.
Parts(c, a, A) == \A b : Covers(c, b) <=> \E i \in A : b \in Slice(Child(a, i))

LEMMA GroupsParts ==
  ASSUME NEW c, c.call = "groups"
  PROVE  Parts(c, c.id, c.first .. c.end - 1)
BY DEF Parts, Covers, Roots

LEMMA VisitParts ==
  ASSUME NEW c, c.call = "visit", NEW a, NEW i, c.id = Child(a, i)
  PROVE  Parts(c, a, {i}) /\ \A b : Covers(c, b) <=> b \in Slice(c.id)
BY DEF Parts, Covers, Roots

LEMMA PartsBelow ==
  ASSUME NEW a, NEW A, NEW B, A \subseteq B, NEW c, NEW f, Parts(c, a, A), Parts(f, a, B)
  PROVE  Below(c, f)
BY DEF Parts, Below

LEMMA PartsApart ==
  ASSUME Made, NEW a \in Nodes, NEW A, NEW B, A \subseteq DOMAIN ChildrenOf(a),
         B \subseteq DOMAIN ChildrenOf(a), A \cap B = {}, NEW c, NEW d, Parts(c, a, A), Parts(d, a, B)
  PROVE  Apart(c, d)
<1>1. SiblingsApart(a)
  BY MadeSiblings
<1>2. SUFFICES ASSUME NEW b, Covers(c, b), Covers(d, b) PROVE FALSE
  BY DEF Apart
<1>3. PICK i \in A : b \in Slice(Child(a, i))
  BY <1>2 DEF Parts
<1>4. PICK j \in B : b \in Slice(Child(a, j))
  BY <1>2 DEF Parts
<1>5. i # j /\ i \in DOMAIN ChildrenOf(a) /\ j \in DOMAIN ChildrenOf(a)
  BY <1>3, <1>4
<1>6. QED BY <1>1, <1>3, <1>4, <1>5 DEF SiblingsApart

\* The calls for children of a node do not go beyond what the node puts out.
LEMMA ChildrenBelow ==
  ASSUME Made, NEW a \in Nodes, NEW A, A \subseteq DOMAIN ChildrenOf(a), NEW c, NEW f,
         Parts(c, a, A), f.call = "visit", f.id = a
  PROVE  Below(c, f)
<1>1. SUFFICES ASSUME NEW b, Covers(c, b) PROVE Covers(f, b)
  BY DEF Below
<1>2. PICK i \in A : b \in Slice(Child(a, i))
  BY <1>1 DEF Parts
<1>3. Slice(Child(a, i)) \subseteq Slice(a)
  BY <1>2, MadeChildFits DEF ChildFits
<1>4. b \in Slice(a)
  BY <1>2, <1>3
<1>5. QED BY <1>4 DEF Covers, Roots

\* The halves of a fork are forks or leaves.
LEMMA MadeForkChild ==
  ASSUME Made, NEW a \in Nodes, IsFork(a), NEW i \in DOMAIN ChildrenOf(a)
  PROVE  IsFork(Child(a, i)) \/ IsLeaf(Child(a, i))
<1> DEFINE b == Child(a, i)
           e == Division(FrontierAt(a), shape.m, Node(a))
           m == shape.m
<1>1. PICK s \in Nat : Sound(Node(a), m, s, shape.k)
  BY DEF Made, PlanInv, NodeInv
<1>2. Within(a, i, s, e)
  BY <1>1, MadeChild
<1>3. m \in Nat \ {0} /\ Node(a).k \in Nat \ {0} /\ b \in Nodes /\ Node(a).n = m * Node(a).k
  BY <1>1, <1>2 DEF Made, ShapeInv, Sound, Within, IsFork, Fork
<1>4. Node(b).k \in Nat \ {0} /\ Node(b).k = e[i].count /\ e[i].start \in Nat
      /\ e[i].start + e[i].count <= Node(a).k /\ Node(b).n = NodeCapacity(Node(a).n, m, e[i].count)
  BY <1>2, <1>3, MadeSlice DEF Within
<1> HIDE DEF b, e, m
<1>5. Node(b).k <= Node(a).k
  BY <1>3, <1>4
<1>6. PICK p \in Nat, q \in Nat : p = m * Node(b).k /\ q = m * Node(a).k /\ p <= q
  BY <1>3, <1>4, <1>5, Times
<1>7. Node(b).n = m * Node(b).k
  BY <1>3, <1>4, <1>6 DEF NodeCapacity, Smaller
<1>8. CASE Node(b).k = 1
  <2>1. m * 1 = m
    BY <1>3
  <2>2. Node(b).n = m
    BY <1>7, <1>8, <2>1
  <2>3. IsLeaf(b)
    BY <1>8, <2>2 DEF IsLeaf, Leaf, m
  <2>4. QED BY <2>3 DEF b
<1>9. CASE Node(b).k # 1
  <2>1. Node(b).k > 1
    BY <1>4, <1>9
  <2>2. IsFork(b)
    BY <1>7, <2>1 DEF IsFork, Fork, m
  <2>3. QED BY <2>2 DEF b
<1>10. QED BY <1>8, <1>9

-----------------------------------------------------------------------------
(* The threads that branches may be given to.                               *)

\* What takes the place of f on its thread is no wider.
Narrows(t, f) ==
  /\ \A u \in Thread : \A c \in Frame : u # t => IsTop(u, c)' = IsTop(u, c)
  /\ \A c \in Frame : IsTop(t, c)' => Width(c) <= Width(f)

LEMMA WidthType ==
  ASSUME NEW c \in Frame
  PROVE  Width(c) \in Nat
BY FrameFields DEF Width, Work

LEMMA NarrowsInside ==
  ASSUME Unmoved, NEW t \in Thread, NEW f \in Frame, IsTop(t, f), Narrows(t, f)
  PROVE  \A h \in Thread : Inside(h)' => Inside(h)
<1>1. SUFFICES ASSUME NEW h \in Thread, Inside(h)' PROVE Inside(h)
  OBVIOUS
<1>2. PICK v \in Thread, d \in Frame : IsTop(v, d)' /\ v < h /\ h < v + Width(d)
  <2>1. Thread' = Thread
    BY FrameUnmoved
  <2>2. QED BY <1>1, <2>1 DEF Inside
<1>3. CASE v # t
  BY <1>2, <1>3 DEF Narrows, Inside
<1>4. CASE v = t
  <2>1. Width(d) <= Width(f) /\ Width(d) \in Nat /\ Width(f) \in Nat
    BY <1>2, <1>4, WidthType DEF Narrows
  <2>2. h \in Nat /\ v \in Nat
    BY DEF Thread
  <2>3. h < t + Width(f) /\ t < h
    BY <1>2, <1>4, <2>1, <2>2
  <2>4. QED BY <2>3 DEF Inside
<1>5. QED BY <1>3, <1>4

LEMMA GivesWayNarrows ==
  ASSUME StackInv, NEW t \in Thread, Busy(t), NEW e, GivesWay(t, e), NEW f, f = Top(t), FitsIn(e, f)
  PROVE  Narrows(t, f)
<1>1. PICK l \in Nat : Height(t, l)
  BY TopIs DEF StackInv, Height
<1>2. After(t, e, l) /\ f \in Frame /\ At(t, l, f) /\ FrameOK(f) /\ l > 0
  BY <1>1, AfterGivingWay, TopIs DEF StackInv, FramesOK, Height
<1>3. ASSUME NEW c \in Frame, IsTop(t, c)' PROVE Width(c) <= Width(f)
  <2>1. Width(f) \in Nat /\ Width(f) >= 1 /\ Width(c) \in Nat
    BY <1>2, WidthType DEF Width, FrameOK, Work
  <2>2. IF e = <<>> THEN l > 1 /\ At(t, l - 1, c) ELSE c = e[Len(e)]
    BY <1>2, <1>3 DEF After
  <2>3. CASE e = <<>>
    <3>1. l > 1 /\ At(t, l - 1, c) /\ l - 1 \in Nat /\ l - 1 < l
      BY <2>2, <2>3
    <3>2. Tower(c, f)
      BY <1>2, <3>1 DEF StackInv, Towers
    <3>3. Width(c) = 1
      BY <3>2 DEF Tower, Width
    <3>4. QED BY <2>1, <3>3
  <2>4. CASE e # <<>>
    <3>1. c = e[Len(e)] /\ Len(e) \in 1 .. Len(e)
      BY <2>2, <2>4 DEF FitsIn
    <3>2. Work(c) /\ c.budget <= f.budget /\ Work(f)
      BY <2>4, <3>1 DEF FitsIn
    <3>3. QED BY <3>2 DEF Width, Work
  <2>5. QED BY <2>3, <2>4
<1>4. \A u \in Thread : \A c \in Frame : u # t => IsTop(u, c)' = IsTop(u, c)
  BY <1>2 DEF After
<1>5. QED BY <1>3, <1>4 DEF Narrows
-----------------------------------------------------------------------------
(* What takes the place of a call.                                          *)

\* Call f is the running one of thread t, the l-th.
Runs(t, l, f) ==
  /\ t \in Thread /\ Busy(t) /\ f = Top(t) /\ f \in Frame /\ l \in Nat \ {0}
  /\ Height(t, l) /\ At(t, l, f) /\ IsTop(t, f) /\ FrameOK(f)

LEMMA BusyRuns ==
  ASSUME StackInv, NEW t \in Thread, Busy(t)
  PROVE  \E l, f : Runs(t, l, f)
<1>1. PICK f : f = Top(t)
  OBVIOUS
<1>2. PICK l : l = Len(stack[t])
  OBVIOUS
<1>3. f \in Frame /\ l \in Nat \ {0} /\ At(t, l, f) /\ IsTop(t, f)
  BY <1>1, <1>2, TopIs DEF StackInv
<1>4. FrameOK(f)
  BY <1>3 DEF StackInv, FramesOK
<1>5. Runs(t, l, f)
  BY <1>1, <1>2, <1>3, <1>4 DEF Runs, Height
<1>6. QED BY <1>5

Taken(N, x) == \E u \in Thread : \E i \in Nat, c \in Frame : <<u, i, c>> \in N /\ x \in Roots(c)

\* The calls N do what f has left to do, when the nodes D are finished.
Hands(N, f, D) ==
  /\ \A x \in Roots(f) : x \in D \/ Taken(N, x)
  /\ \A a \in D : a \in Nodes /\ \A i \in DOMAIN ChildrenOf(a) : Taken(N, Child(a, i))

Moved(t, l, f, N, D) == Moves(t, l, N) /\ Shares(N, f) /\ Keeps(t, N, f) /\ Hands(N, f, D)

\* Only thread t has new calls, and they are no less deep than f.
Deeper(t, N, f) ==
  \A u \in Thread : \A i \in Nat, c \in Frame : <<u, i, c>> \in N =>
    u = t /\ (Work(c) => Work(f) /\ From(f) <= From(c))

LEMMA DeeperKeeps ==
  ASSUME Unmoved, NEW t \in Thread, NEW f \in Frame, IsTop(t, f), Narrows(t, f), NEW N, Deeper(t, N, f)
  PROVE  Keeps(t, N, f)
<1>1. \A h \in Thread : Inside(h)' => Inside(h)
  BY NarrowsInside
<1>2. QED BY <1>1 DEF Keeps, Deeper

LEMMA FitsNarrows ==
  ASSUME StackInv, NEW t, NEW l, NEW f, Runs(t, l, f), NEW e, Fits(t, e)
  PROVE  Narrows(t, f)
<1>1. t \in Thread /\ Busy(t) /\ f = Top(t) /\ e \in Seq(Frame) /\ Becomes(t, e) /\ FitsIn(e, f)
  BY DEF Runs, Fits
<1>2. GivesWay(t, e)
  BY <1>1, BecomesGivesWay DEF StackInv
<1>3. QED BY <1>1, <1>2, GivesWayNarrows

LEMMA OnePlace ==
  ASSUME NEW t, NEW l, NEW r, NEW u, NEW i, NEW d
  PROVE  <<u, i, d>> \in {<<t, l, r>>} <=> u = t /\ i = l /\ d = r
OBVIOUS

Childless(D) == \A a \in D : a \in Nodes /\ DOMAIN ChildrenOf(a) = {}

LEMMA NothingMoved ==
  ASSUME StackInv, Unmoved, NEW t, NEW l, NEW f, Runs(t, l, f), Narrows(t, f), Becomes(t, <<>>),
         NEW D, Roots(f) \subseteq D, Childless(D)
  PROVE  Moved(t, l, f, {}, D)
<1>1. t \in Thread /\ Busy(t) /\ f \in Frame /\ IsTop(t, f) /\ Height(t, l)
  BY DEF Runs
<1>2. Moves(t, l, {})
  BY <1>1, NothingMoves DEF StackInv
<1>3. Shares({}, f)
  BY DEF Shares
<1>4. Deeper(t, {}, f)
  BY DEF Deeper
<1>5. Keeps(t, {}, f)
  BY <1>1, <1>4, DeeperKeeps
<1>6. Hands({}, f, D)
  BY DEF Hands, Childless
<1>7. QED BY <1>2, <1>3, <1>5, <1>6 DEF Moved

\* A node's visit becomes the call for all its children.
LEMMA ChildrenMoved ==
  ASSUME Made, StackInv, Unmoved, NEW t, NEW l, NEW f, Runs(t, l, f), Narrows(t, f),
         f.call = "visit", ~ IsLeaf(f.id), Children(t, f)
  PROVE  \E g \in Frame :
           /\ IsGroups(g, f.id, f.input, f.depth, f.budget, 1, Len(ChildrenOf(f.id)) + 1, t)
           /\ Moved(t, l, f, {<<t, l, g>>}, {f.id})
<1>1. t \in Thread /\ Busy(t) /\ f \in Frame /\ IsTop(t, f) /\ Height(t, l) /\ l \in Nat /\ FrameOK(f)
  BY DEF Runs
<1>2. Work(f) /\ f.id \in Nat /\ f.input \in InputRecord /\ f.depth \in Nat /\ f.budget \in Nat
      /\ f.id \in Nodes
  BY <1>1, FrameFields DEF Work, FrameOK
<1>3. PICK n \in Nat : n = Len(ChildrenOf(f.id)) /\ DOMAIN ChildrenOf(f.id) = 1 .. n
  BY <1>2, MadeChildCount DEF ChildCount
<1>4. PICK g : g = Groups(f.id, f.input, f.depth, f.budget, 1, n + 1, t)
  OBVIOUS
<1>5. IsGroups(g, f.id, f.input, f.depth, f.budget, 1, n + 1, t)
  <2>1. n + 1 \in Nat /\ 1 \in Nat /\ t \in Nat
    BY <1>1 DEF Thread
  <2>2. QED BY <1>2, <1>4, <2>1, GroupsIs
<1>6. g \in Frame /\ g.call = "groups" /\ g.id = f.id /\ g.depth = f.depth /\ Work(g)
      /\ g.first = 1 /\ g.end = n + 1
  BY <1>5 DEF IsGroups
<1>7. Becomes(t, <<g>>)
  BY <1>3, <1>4 DEF Children
<1>8. PICK N : N = {<<t, l, g>>}
  OBVIOUS
<1>9. Moves(t, l, N)
  BY <1>1, <1>6, <1>7, <1>8, OneMoves DEF StackInv
<1>10. \A u, i, c : <<u, i, c>> \in N <=> u = t /\ i = l /\ c = g
  BY <1>8, OnePlace
<1>11. g.first .. g.end - 1 = DOMAIN ChildrenOf(f.id)
  BY <1>3, <1>6
<1>12. Shares(N, f)
  <2>1. Parts(g, f.id, DOMAIN ChildrenOf(f.id))
    <3>1. Parts(g, g.id, g.first .. g.end - 1)
      BY <1>6, GroupsParts
    <3>2. QED BY <1>6, <1>11, <3>1
  <2>2. Below(g, f)
    BY <1>2, <2>1, ChildrenBelow
  <2>3. QED BY <1>10, <2>2 DEF Shares
<1>13. Keeps(t, N, f)
  <2>1. From(f) <= From(g)
    BY <1>2, <1>6 DEF From
  <2>2. Deeper(t, N, f)
    BY <1>2, <1>10, <2>1 DEF Deeper
  <2>3. QED BY <1>1, <2>2, DeeperKeeps
<1>14. Hands(N, f, {f.id})
  <2>1. Roots(f) = {f.id}
    BY DEF Roots
  <2>2. \A i \in DOMAIN ChildrenOf(f.id) : Child(f.id, i) \in Roots(g)
    BY <1>6, <1>11 DEF Roots
  <2>3. \A x \in Roots(g) : Taken(N, x)
    BY <1>1, <1>6, <1>10 DEF Taken
  <2>4. QED BY <1>2, <2>1, <2>2, <2>3 DEF Hands
<1>15. QED BY <1>3, <1>5, <1>6, <1>8, <1>9, <1>12, <1>13, <1>14 DEF Moved

-----------------------------------------------------------------------------
(* What takes the place of a call for a node's children.                    *)

\* Call c is for some of the children that f is for.
Part(c, f) ==
  /\ c \in Frame /\ c.call = "groups" /\ Work(c) /\ f.call = "groups" /\ Work(f)
  /\ c.id = f.id /\ c.input = f.input /\ c.depth = f.depth /\ c.home = f.home
  /\ c.first \in Nat /\ c.end \in Nat /\ f.first \in Nat /\ f.end \in Nat
  /\ f.first <= c.first /\ c.end <= f.end
  /\ From(c) = From(f) /\ From(f) \in Nat

LEMMA GroupsOf ==
  ASSUME Made, NEW f \in Frame, FrameOK(f), f.call = "groups"
  PROVE  /\ f.id \in Nodes /\ f.first \in Nat /\ f.end \in Nat /\ f.first < f.end
         /\ f.first .. f.end - 1 \subseteq DOMAIN ChildrenOf(f.id)
         /\ f.first \in f.first .. f.end - 1
         /\ Work(f) /\ ~ IsLeaf(f.id)
<1>1. Work(f) /\ f.first \in Nat /\ f.end \in Nat
  BY FrameFields DEF Work
<1>2. f.id \in Nodes /\ f.first >= 1 /\ f.first < f.end /\ f.end <= Len(ChildrenOf(f.id)) + 1
      /\ ~ IsLeaf(f.id)
  BY <1>1 DEF FrameOK
<1>3. PICK n \in Nat : n = Len(ChildrenOf(f.id)) /\ DOMAIN ChildrenOf(f.id) = 1 .. n
  BY <1>2, MadeChildCount DEF ChildCount
<1>4. f.end - 1 <= n
  BY <1>1, <1>2, <1>3
<1>5. f.first .. f.end - 1 \subseteq 1 .. n /\ f.first \in f.first .. f.end - 1
  BY <1>1, <1>2, <1>4
<1>6. QED BY <1>1, <1>2, <1>3, <1>5

LEMMA SomePart ==
  ASSUME Made, NEW f \in Frame, f.call = "groups", FrameOK(f), NEW first \in Nat, NEW end \in Nat,
         NEW budget \in Nat, budget >= 1, f.first <= first, first < end, end <= f.end
  PROVE  /\ Part(Some(f, first, end, budget), f)
         /\ Some(f, first, end, budget).first = first /\ Some(f, first, end, budget).end = end
<1>1. PICK c : c = Some(f, first, end, budget)
  OBVIOUS
<1>2. IsGroups(c, f.id, f.input, f.depth, budget, first, end, f.home) /\ From(c) = From(f)
  BY <1>1, SomeIs
<1>3. Work(f) /\ f.first \in Nat /\ f.end \in Nat
  BY GroupsOf
<1>4. From(f) \in Nat
  BY <1>3, FromType
<1>5. Part(c, f) /\ c.first = first /\ c.end = end
  BY <1>2, <1>3, <1>4 DEF IsGroups, Part
<1>6. QED BY <1>1, <1>5

LEMMA PartBelow ==
  ASSUME NEW c, NEW f, Part(c, f)
  PROVE  Below(c, f)
<1>1. c.first .. c.end - 1 \subseteq f.first .. f.end - 1
  BY DEF Part
<1>2. Parts(c, c.id, c.first .. c.end - 1) /\ Parts(f, f.id, f.first .. f.end - 1)
  BY GroupsParts DEF Part
<1>3. c.id = f.id
  BY DEF Part
<1>4. QED BY <1>1, <1>2, <1>3, PartsBelow

LEMMA PartApart ==
  ASSUME Made, NEW f \in Frame, FrameOK(f), NEW c, NEW d, Part(c, f), Part(d, f), c.end <= d.first
  PROVE  Apart(c, d) /\ Apart(d, c)
<1>1. /\ f.call = "groups" /\ c.id = f.id /\ d.id = f.id
      /\ c.first .. c.end - 1 \subseteq f.first .. f.end - 1
      /\ d.first .. d.end - 1 \subseteq f.first .. f.end - 1
      /\ (c.first .. c.end - 1) \cap (d.first .. d.end - 1) = {}
  BY DEF Part
<1>2. Parts(c, f.id, c.first .. c.end - 1) /\ Parts(d, f.id, d.first .. d.end - 1)
  <2>1. Parts(c, c.id, c.first .. c.end - 1) /\ Parts(d, d.id, d.first .. d.end - 1)
    BY GroupsParts DEF Part
  <2>2. QED BY <1>1, <2>1
<1>3. f.id \in Nodes /\ f.first .. f.end - 1 \subseteq DOMAIN ChildrenOf(f.id)
  BY <1>1, GroupsOf
<1>4. Apart(c, d)
  <2>1. /\ c.first .. c.end - 1 \subseteq DOMAIN ChildrenOf(f.id)
        /\ d.first .. d.end - 1 \subseteq DOMAIN ChildrenOf(f.id)
    BY <1>1, <1>3
  <2>2. QED BY <1>1, <1>2, <1>3, <2>1, PartsApart
<1>5. QED BY <1>4 DEF Apart

\* The rest of a call, and the visit of its first child.
RestOf(f, r) ==
  /\ Rest(f) = <<r>> /\ Part(r, f) /\ r.first = f.first + 1 /\ r.end = f.end
  /\ f.first .. f.end - 1 = {f.first} \cup (r.first .. r.end - 1)

LEMMA RestIs ==
  ASSUME Made, NEW f \in Frame, FrameOK(f), f.call = "groups"
  PROVE  \/ Rest(f) = <<>> /\ f.first .. f.end - 1 = {f.first}
         \/ \E r : RestOf(f, r)
<1>1. f.first \in Nat /\ f.end \in Nat /\ f.first < f.end
  BY GroupsOf
<1>2. CASE Size(f) = 1
  <2>1. f.end = f.first + 1
    BY <1>1, <1>2 DEF Size
  <2>2. f.first .. f.end - 1 = {f.first}
    BY <1>1, <2>1
  <2>3. QED BY <1>2, <2>2 DEF Rest
<1>3. CASE Size(f) # 1
  <2>1. PICK q \in Nat : q = f.first + 1
    BY <1>1
  <2>2. f.first <= q /\ q < f.end
    BY <1>1, <1>3, <2>1 DEF Size
  <2>3. PICK r : r = Some(f, q, f.end, 1)
    OBVIOUS
  <2>4. Part(r, f) /\ r.first = q /\ r.end = f.end
    <3>1. f.end <= f.end /\ 1 \in Nat /\ 1 >= 1
      BY <1>1
    <3>2. QED BY <1>1, <2>2, <2>3, <3>1, SomePart
  <2>5. Rest(f) = <<r>>
    BY <1>3, <2>1, <2>3 DEF Rest
  <2>6. f.first .. f.end - 1 = {f.first} \cup (q .. f.end - 1)
    BY <1>1, <2>1, <2>2
  <2>7. RestOf(f, r)
    BY <2>1, <2>4, <2>5, <2>6 DEF RestOf
  <2>8. QED BY <2>7
<1>4. QED BY <1>2, <1>3

\* All new calls are parts of f.
Parting(t, N, f) ==
  \A u \in Thread : \A i \in Nat, c \in Frame : <<u, i, c>> \in N /\ Work(c) =>
    Part(c, f) /\ (u # t => f.budget > 1 /\ Busy(t)')

LEMMA RestMoved ==
  ASSUME Made, StackInv, Unmoved, NEW t, NEW l, NEW f, Runs(t, l, f), Narrows(t, f),
         f.call = "groups", Becomes(t, Rest(f)), Childless({Child(f.id, f.first)})
  PROVE  \E N : Moved(t, l, f, N, {Child(f.id, f.first)}) /\ Parting(t, N, f)
<1>1. t \in Thread /\ Busy(t) /\ f \in Frame /\ IsTop(t, f) /\ Height(t, l) /\ l \in Nat /\ FrameOK(f)
  BY DEF Runs
<1>2. Roots(f) = {Child(f.id, i) : i \in f.first .. f.end - 1}
  BY DEF Roots
<1>3. CASE Rest(f) = <<>> /\ f.first .. f.end - 1 = {f.first}
  <2>1. Roots(f) \subseteq {Child(f.id, f.first)}
    BY <1>2, <1>3
  <2>2. Moved(t, l, f, {}, {Child(f.id, f.first)})
    BY <1>3, <2>1, NothingMoved
  <2>3. Parting(t, {}, f)
    BY DEF Parting
  <2>4. QED BY <2>2, <2>3
<1>4. CASE \E r : RestOf(f, r)
  <2>1. PICK r : RestOf(f, r)
    BY <1>4
  <2>2. r \in Frame /\ Part(r, f) /\ Becomes(t, <<r>>) /\ Work(f) /\ From(r) = From(f)
        /\ From(f) \in Nat
    BY <2>1 DEF RestOf, Part
  <2>3. PICK N : N = {<<t, l, r>>}
    OBVIOUS
  <2>4. Moves(t, l, N)
    BY <1>1, <2>2, <2>3, OneMoves DEF StackInv
  <2>5. \A u, i, c : <<u, i, c>> \in N <=> u = t /\ i = l /\ c = r
    BY <2>3, OnePlace
  <2>6. Shares(N, f)
    <3>1. Below(r, f)
      BY <2>2, PartBelow
    <3>2. QED BY <2>5, <3>1 DEF Shares
  <2>7. Keeps(t, N, f)
    <3>1. Deeper(t, N, f)
      BY <2>2, <2>5 DEF Deeper
    <3>2. QED BY <1>1, <3>1, DeeperKeeps
  <2>8. Hands(N, f, {Child(f.id, f.first)})
    <3>1. \A x \in Roots(f) : x = Child(f.id, f.first) \/ x \in Roots(r)
      BY <1>2, <2>1 DEF RestOf, Part, Roots
    <3>2. \A x \in Roots(r) : Taken(N, x)
      BY <1>1, <2>2, <2>5 DEF Taken
    <3>3. QED BY <3>1, <3>2 DEF Hands, Childless
  <2>9. Parting(t, N, f)
    BY <2>2, <2>5 DEF Parting
  <2>10. QED BY <2>4, <2>6, <2>7, <2>8, <2>9 DEF Moved
<1>5. QED BY <1>1, <1>3, <1>4, RestIs

OrPart(t, N, v, f) ==
  \A u \in Thread : \A i \in Nat, c \in Frame : <<u, i, c>> \in N => u = t /\ (c = v \/ Part(c, f))

LEMMA EdgeMoved ==
  ASSUME Made, StackInv, Unmoved, NEW t, NEW l, NEW f, Runs(t, l, f), Narrows(t, f),
         f.call = "groups", NEW v \in Frame, v.call = "visit", v.id = Child(f.id, f.first),
         From(f) <= From(v), Becomes(t, Append(Rest(f), v))
  PROVE  \E N : Moved(t, l, f, N, {}) /\ OrPart(t, N, v, f)
<1>1. t \in Thread /\ Busy(t) /\ f \in Frame /\ IsTop(t, f) /\ Height(t, l) /\ l \in Nat /\ FrameOK(f)
      /\ StackTypes
  BY DEF Runs, StackInv
<1>2. Roots(f) = {Child(f.id, i) : i \in f.first .. f.end - 1} /\ Roots(v) = {Child(f.id, f.first)}
  BY DEF Roots
<1>3. /\ f.id \in Nodes /\ f.first .. f.end - 1 \subseteq DOMAIN ChildrenOf(f.id)
      /\ f.first \in f.first .. f.end - 1 /\ Work(f)
  BY <1>1, GroupsOf
<1>4. Parts(v, f.id, {f.first}) /\ Parts(f, f.id, f.first .. f.end - 1)
  BY VisitParts, GroupsParts
<1>5. Below(v, f)
  <2>1. {f.first} \subseteq f.first .. f.end - 1
    BY <1>3
  <2>2. QED BY <1>4, <2>1, PartsBelow
<1>6. CASE Rest(f) = <<>> /\ f.first .. f.end - 1 = {f.first}
  <2>1. Append(Rest(f), v) = <<v>>
    BY <1>6
  <2>2. Becomes(t, <<v>>)
    BY <2>1
  <2>3. PICK N : N = {<<t, l, v>>}
    OBVIOUS
  <2>4. Moves(t, l, N)
    BY <1>1, <2>2, <2>3, OneMoves
  <2>5. \A u, i, c : <<u, i, c>> \in N <=> u = t /\ i = l /\ c = v
    BY <2>3, OnePlace
  <2>6. Shares(N, f)
    BY <1>5, <2>5 DEF Shares
  <2>7. Keeps(t, N, f)
    <3>1. Deeper(t, N, f)
      BY <1>3, <2>5 DEF Deeper
    <3>2. QED BY <1>1, <3>1, DeeperKeeps
  <2>8. Hands(N, f, {})
    <3>1. Roots(f) = Roots(v)
      BY <1>2, <1>6
    <3>2. \A x \in Roots(v) : Taken(N, x)
      BY <1>1, <2>5 DEF Taken
    <3>3. QED BY <3>1, <3>2 DEF Hands
  <2>9. OrPart(t, N, v, f)
    BY <2>5 DEF OrPart
  <2>10. QED BY <2>4, <2>6, <2>7, <2>8, <2>9 DEF Moved
<1>7. CASE \E r : RestOf(f, r)
  <2>1. PICK r : RestOf(f, r)
    BY <1>7
  <2>2. /\ r \in Frame /\ Part(r, f) /\ Rest(f) = <<r>> /\ From(r) = From(f) /\ From(f) \in Nat
        /\ r.id = f.id /\ r.call = "groups" /\ r.first = f.first + 1 /\ r.end = f.end
        /\ f.first .. f.end - 1 = {f.first} \cup (r.first .. r.end - 1)
        /\ f.first \in Nat
    BY <2>1 DEF RestOf, Part
  <2>3. PICK q \in Nat : q = l + 1
    BY <1>1
  <2>4. PICK N : N = {<<t, l, r>>, <<t, q, v>>}
    OBVIOUS
  <2>5. Moves(t, l, N)
    BY <1>1, <2>2, <2>3, <2>4, TwoMove
  <2>6. \A u, c : \A i \in Nat : <<u, i, c>> \in N <=> (u = t /\ i = l /\ c = r) \/ (u = t /\ i = q /\ c = v)
    BY <1>1, <2>4, TwoPlaces
  <2>7. Shares(N, f)
    <3>1. Below(r, f)
      BY <2>2, PartBelow
    <3>2. Apart(r, v)
      <4>1. Parts(r, f.id, r.first .. r.end - 1)
        BY <2>2, GroupsParts
      <4>2. /\ r.first .. r.end - 1 \subseteq DOMAIN ChildrenOf(f.id)
            /\ {f.first} \subseteq DOMAIN ChildrenOf(f.id)
        BY <1>3, <2>2
      <4>3. (r.first .. r.end - 1) \cap {f.first} = {}
        BY <2>2
      <4>4. QED BY <1>3, <1>4, <4>1, <4>2, <4>3, PartsApart
    <3>3. Apart(v, r)
      BY <3>2 DEF Apart
    <3>4. QED BY <1>5, <2>6, <3>1, <3>2, <3>3 DEF Shares
  <2>8. Keeps(t, N, f)
    <3>1. Deeper(t, N, f)
      BY <1>3, <2>2, <2>6 DEF Deeper
    <3>2. QED BY <1>1, <3>1, DeeperKeeps
  <2>9. Hands(N, f, {})
    <3>1. \A x \in Roots(f) : x \in Roots(v) \/ x \in Roots(r)
      BY <1>2, <2>2 DEF Roots
    <3>2. \A x \in Roots(v) : Taken(N, x)
      BY <1>1, <2>3, <2>6 DEF Taken
    <3>3. \A x \in Roots(r) : Taken(N, x)
      BY <1>1, <2>2, <2>6 DEF Taken
    <3>4. QED BY <3>1, <3>2, <3>3 DEF Hands
  <2>10. OrPart(t, N, v, f)
    BY <2>2, <2>6 DEF OrPart
  <2>11. QED BY <2>5, <2>7, <2>8, <2>9, <2>10 DEF Moved
<1>8. QED BY <1>1, <1>6, <1>7, RestIs

LEMMA SplitInside ==
  ASSUME StackInv, Unmoved, NEW t, NEW l, NEW f, Runs(t, l, f), Work(f), ForkRoom(t, f),
         NEW x \in Frame, NEW y \in Frame, AfterSplit(t, l, RightId(t, f), x, y),
         Width(x) = LeftThreads(f), Width(y) = RightBudget(f)
  PROVE  /\ \A h \in Thread : Inside(h)' => Inside(h)
         /\ Inside(RightId(t, f))
<1>1. PICK r : r = RightId(t, f)
  OBVIOUS
<1>2. /\ r \in Thread /\ t < r /\ LeftThreads(f) \in Nat \ {0} /\ RightBudget(f) \in Nat \ {0}
      /\ r = t + LeftThreads(f) /\ LeftThreads(f) + RightBudget(f) = f.budget
  BY <1>1 DEF ForkRoom
<1>3. t \in Thread /\ t \in Nat /\ r \in Nat /\ f \in Frame /\ IsTop(t, f)
  BY <1>2 DEF Runs, Thread
<1>4. Width(f) = f.budget
  BY DEF Width, Work
<1>5. \A h \in Thread : t < h /\ h < t + f.budget => Inside(h)
  BY <1>3, <1>4 DEF Inside
<1>6. Inside(r)
  BY <1>2, <1>3, <1>5
<1>7. ASSUME NEW h \in Thread, Inside(h)' PROVE Inside(h)
  <2>1. PICK v \in Thread, d \in Frame : IsTop(v, d)' /\ v < h /\ h < v + Width(d)
    <3>1. Thread' = Thread
      BY FrameUnmoved
    <3>2. QED BY <1>7, <3>1 DEF Inside
  <2>2. h \in Nat /\ v \in Nat
    BY DEF Thread
  <2>3. CASE v # t /\ v # r
    <3>1. IsTop(v, d)
      BY <1>1, <2>1, <2>3 DEF AfterSplit
    <3>2. QED BY <2>1, <3>1 DEF Inside
  <2>4. CASE v = t
    <3>1. d = x
      BY <2>1, <2>4 DEF AfterSplit
    <3>2. h < t + f.budget /\ t < h
      BY <1>2, <1>3, <2>1, <2>2, <2>4, <3>1
    <3>3. QED BY <1>5, <3>2
  <2>5. CASE v = r
    <3>0. AfterSplit(t, l, r, x, y)
      BY <1>1
    <3>1. d = y
      BY <2>1, <2>5, <3>0 DEF AfterSplit
    <3>2. h < t + f.budget /\ t < h
      BY <1>2, <1>3, <2>1, <2>2, <2>5, <3>1
    <3>3. QED BY <1>5, <3>2
  <2>6. QED BY <2>3, <2>4, <2>5
<1>8. QED BY <1>1, <1>6, <1>7

LEMMA SplitMoved ==
  ASSUME Made, StackInv, Unmoved, NEW t, NEW l, NEW f, Runs(t, l, f), Split(t)
  PROVE  \E N : Moved(t, l, f, N, {}) /\ Parting(t, N, f)
<1>1. t \in Thread /\ Busy(t) /\ f = Top(t) /\ f \in Frame /\ IsTop(t, f) /\ Height(t, l)
      /\ l \in Nat \ {0} /\ FrameOK(f) /\ StackTypes
  BY DEF Runs, StackInv
<1>2. InGroups(t) /\ Parallel(f) /\ f.call = "groups" /\ f.budget > 1
  BY <1>1 DEF Split, InGroups, Parallel
<1>3. ForkRoom(t, f)
  BY <1>1, <1>2, RoomToFork
<1>4. PICK r : r = RightId(t, f)
  OBVIOUS
<1>5. PICK x : x = LeftOf(f)
  OBVIOUS
<1>6. PICK y : y = RightOf(f)
  OBVIOUS
<1>7. /\ HalfOf(x, f, f.first, Middle(f), LeftThreads(f))
      /\ HalfOf(y, f, Middle(f), f.end, RightBudget(f))
  BY <1>1, <1>2, <1>5, <1>6, HalvesAre
<1>8. Splits(t, r, x, y)
  BY <1>1, <1>4, <1>5, <1>6, SplitSplits
<1>9. r \in Thread /\ r \in Nat /\ t < r /\ ~ Busy(r) /\ t \in Nat /\ r # t
  BY <1>1, <1>3, <1>4 DEF ForkRoom, Thread
<1>10. /\ f.first \in Nat /\ f.end \in Nat /\ Middle(f) \in Nat /\ f.first < Middle(f)
       /\ Middle(f) < f.end /\ Work(f) /\ From(f) \in Nat
  <2>1. f.first \in Nat /\ f.end \in Nat /\ Work(f)
    BY <1>1, <1>2, GroupsOf
  <2>2. Middle(f) \in Nat /\ f.first < Middle(f) /\ Middle(f) < f.end
    BY <1>1, <1>2, SplitShares
  <2>3. QED BY <1>1, <2>1, <2>2, FromType
<1>11. /\ x \in Frame /\ Work(x) /\ x.call = "groups" /\ x.first = f.first /\ x.end = Middle(f)
       /\ x.id = f.id /\ x.budget = LeftThreads(f) /\ From(x) = From(f)
       /\ y \in Frame /\ Work(y) /\ y.call = "groups" /\ y.first = Middle(f) /\ y.end = f.end
       /\ y.id = f.id /\ y.budget = RightBudget(f) /\ From(y) = From(f)
  BY <1>7 DEF HalfOf, IsGroups
<1>12. Part(x, f)
  <2>1. f.first <= f.first /\ Middle(f) <= f.end
    BY <1>10
  <2>2. QED BY <1>2, <1>7, <1>10, <2>1 DEF HalfOf, IsGroups, Part
<1>13. Part(y, f)
  <2>1. f.first <= Middle(f) /\ f.end <= f.end
    BY <1>10
  <2>2. QED BY <1>2, <1>7, <1>10, <2>1 DEF HalfOf, IsGroups, Part
<1>14. PICK j \in Frame : j = Joining(r) /\ j.call = "join"
  BY <1>9, JoiningIs
<1>15. PICK q \in Nat : q = l + 1
  BY <1>1
<1>16. PICK N : N = {<<t, l, j>>, <<t, q, x>>, <<r, 1, y>>}
  OBVIOUS
<1>17. Moves(t, l, N)
  BY <1>1, <1>8, <1>9, <1>11, <1>14, <1>15, <1>16, SplitMoves
<1>18. \A u, i, c : <<u, i, c>> \in N <=> \/ u = t /\ i = l /\ c = j
                                          \/ u = t /\ i = q /\ c = x
                                          \/ u = r /\ i = 1 /\ c = y
  BY <1>16
<1>19. ~ Work(j) /\ Roots(j) = {}
  BY <1>14 DEF Work, Roots
<1>20. Shares(N, f)
  <2>1. Below(x, f) /\ Below(y, f) /\ Below(j, f)
    <3>1. Below(j, f)
      BY <1>19 DEF Below, Covers
    <3>2. QED BY <1>12, <1>13, <3>1, PartBelow
  <2>2. Apart(x, y) /\ Apart(y, x)
    <3>1. x.end <= y.first
      BY <1>10, <1>11
    <3>2. QED BY <1>1, <1>12, <1>13, <3>1, PartApart
  <2>3. Apart(j, x) /\ Apart(j, y) /\ Apart(x, j) /\ Apart(y, j)
    BY <1>19 DEF Apart, Covers
  <2>4. QED BY <1>18, <2>1, <2>2, <2>3 DEF Shares
<1>21. Keeps(t, N, f)
  <2>1. AfterSplit(t, l, r, x, y)
    BY <1>1, <1>8, <1>9, AfterSplitting
  <2>2. Width(x) = LeftThreads(f) /\ Width(y) = RightBudget(f)
    BY <1>11 DEF Width, Work
  <2>3. (\A h \in Thread : Inside(h)' => Inside(h)) /\ Inside(r)
    BY <1>3, <1>4, <1>10, <1>11, <2>1, <2>2, SplitInside
  <2>4. QED BY <1>10, <1>11, <1>18, <1>19, <2>3 DEF Keeps
<1>22. Hands(N, f, {})
  <2>1. \A i \in f.first .. f.end - 1 : i \in x.first .. x.end - 1 \/ i \in y.first .. y.end - 1
    BY <1>10, <1>11
  <2>2. \A z \in Roots(f) : z \in Roots(x) \/ z \in Roots(y)
    BY <1>2, <1>11, <2>1 DEF Roots
  <2>3. (\A z \in Roots(x) : Taken(N, z)) /\ (\A z \in Roots(y) : Taken(N, z))
    BY <1>1, <1>9, <1>11, <1>15, <1>18 DEF Taken
  <2>4. QED BY <2>2, <2>3 DEF Hands
<1>23. Parting(t, N, f)
  <2>1. Busy(t)'
    <3>1. Len(stack'[t]) = l + 1
      BY <1>8 DEF Splits, Height, Runs
    <3>2. Len(<<>>) = 0 /\ l + 1 # 0
      BY <1>1
    <3>3. stack'[t] # <<>>
      BY <3>1, <3>2
    <3>4. QED BY <3>3 DEF Busy
  <2>2. QED BY <1>2, <1>12, <1>13, <1>18, <1>19, <2>1 DEF Parting
<1>24. QED BY <1>17, <1>20, <1>21, <1>22, <1>23 DEF Moved

-----------------------------------------------------------------------------
(* The workspaces and the output.                                           *)

DataOK ==
  /\ DOMAIN space = Buffers /\ DOMAIN out = Span(0, shape.m * shape.k)
  /\ stage # "plan" => DOMAIN swo = Span(0, plan.swo) /\ DOMAIN ofr = Span(0, plan.ofr)

LEMMA FillIs ==
  ASSUME NEW tape, NEW places, NEW id
  PROVE  /\ DOMAIN Fill(tape, places, id) = DOMAIN tape
         /\ \A i \in DOMAIN tape : Fill(tape, places, id)[i] = IF i \in places THEN id ELSE tape[i]
BY DEF Fill

\* A call that is not for a leaf has workspaces.
LEMMA DepthFits ==
  ASSUME Made, NEW f \in Frame, FrameOK(f), Work(f), ~ IsLeaf(f.id)
  PROVE  f.depth \in Depth
<1>1. f.id \in Nodes /\ f.depth \in Nat
      /\ f.depth + WorkspaceDepth[Node(f.id).k] <= WorkspaceDepth[shape.k] + (IF f.id = 1 THEN 0 ELSE 1)
  BY FrameFields DEF FrameOK
<1>2. Node(f.id).k \in Nat /\ shape.k \in Nat
  BY <1>1, MadeSlice DEF Made, ShapeInv
<1>3. WorkspaceDepth[Node(f.id).k] \in Nat /\ WorkspaceDepth[Node(f.id).k] >= 2
      /\ WorkspaceDepth[shape.k] \in Nat
  <2>1. Node(f.id).k <= Node(f.id).k
    BY <1>2
  <2>2. QED BY <1>2, <2>1, DepthIs, DepthGrows
<1>4. PICK w \in Nat : w = WorkspaceDepth[shape.k]
  BY <1>3
<1>5. f.depth <= w
  BY <1>1, <1>3, <1>4
<1>6. QED BY <1>1, <1>4, <1>5 DEF Depth

LEMMA BufferAt ==
  ASSUME NEW t \in Thread, NEW depth \in Depth, NEW name \in {"left", "right", "child"}
  PROVE  /\ Buffer(t, depth, name) \in Buffers /\ Buffer(t, depth, name).at = "space"
         /\ Buffer(t, depth, name).thread = t /\ Buffer(t, depth, name).depth = depth
         /\ Buffer(t, depth, name).name = name
BY DEF Buffer, Buffers

\* The new calls find their inputs.
Supplied(N) ==
  \A u \in Thread : \A i \in Nat, c \in Frame : <<u, i, c>> \in N /\ Work(c) =>
    \A b, x : Need(c, b, x) => Met(u, c, b, x)'

LEMMA StepNeeds ==
  ASSUME Made, StackInv, AreasApart, NeedsMet, Unmoved, NEW t, NEW l, NEW f, Runs(t, l, f),
         NEW N, NEW D, Moved(t, l, f, N, D), Writes(t, f), Supplied(N)
  PROVE  AreasApart' /\ NeedsMet'
<1>1. t \in Thread /\ l \in Nat /\ f \in Frame /\ At(t, l, f) /\ Height(t, l)
  BY DEF Runs
<1>2. Moves(t, l, N) /\ Shares(N, f) /\ Keeps(t, N, f)
  BY DEF Moved
<1>3. AreasApart'
  BY <1>1, <1>2, AreasMove
<1>4. stage' = stage /\ Thread' = Thread
  BY FrameUnmoved DEF Writes
<1>5. ASSUME NEW u \in Thread, NEW i \in Nat, NEW c \in Frame, At(u, i, c)', NEW b, NEW x, Need(c, b, x)
      PROVE  Met(u, c, b, x)'
  <2>1. Work(c)
    BY <1>5 DEF Need, Work
  <2>2. CASE At(u, i, c) /\ ~ (u = t /\ i = l)
    <3>1. Met(u, c, b, x)
      BY <1>5, <2>2 DEF NeedsMet
    <3>2. QED BY <1>1, <1>2, <2>1, <2>2, <3>1, OlderMet
  <2>3. CASE <<u, i, c>> \in N
    BY <1>5, <2>1, <2>3 DEF Supplied
  <2>4. QED BY <1>2, <1>5, <2>2, <2>3 DEF Moves
<1>6. \A c, b, x : Need(c, b, x)' = Need(c, b, x)
  BY <1>4, NeedUnmoved
<1>7. NeedsMet'
  BY <1>4, <1>5, <1>6 DEF NeedsMet
<1>8. QED BY <1>3, <1>7

\* What a part of f needs f needed as well.
LEMMA PartNeeds ==
  ASSUME NEW f, NEW c, Part(c, f), NEW b, NEW x, Need(c, b, x)
  PROVE  Need(f, b, x)
<1>1. c.call = "groups" /\ f.call = "groups" /\ c.id = f.id
  BY DEF Part
<1>2. CASE ~ IsFork(f.id)
  BY <1>1, <1>2 DEF Need, Part
<1>3. CASE IsFork(f.id)
  <2>1. PICK h \in c.first .. c.end - 1 :
          /\ x = Child(c.id, h)
          /\ IF stage = "read" THEN b = Output
             ELSE ~ IsLeaf(x) /\ b = Buffer(c.home, c.depth, Side(h))
    BY <1>1, <1>3 DEF Need
  <2>2. h \in f.first .. f.end - 1
    BY <2>1 DEF Part
  <2>3. /\ x = Child(f.id, h)
        /\ IF stage = "read" THEN b = Output
           ELSE ~ IsLeaf(x) /\ b = Buffer(f.home, f.depth, Side(h))
    BY <2>1 DEF Part
  <2>4. QED BY <1>1, <1>3, <2>2, <2>3 DEF Need
<1>4. QED BY <1>2, <1>3

\* What it needs of the output is what it will put out itself.
LEMMA PartCovers ==
  ASSUME Made, NEW f \in Frame, FrameOK(f), NEW c, Part(c, f), NEW b, NEW x, Need(c, b, x),
         NEW u, Met(u, f, b, x), b.at = "output"
  PROVE  \A a \in Slice(x) : Covers(c, a)
<1>1. c.call = "groups" /\ f.call = "groups" /\ c.id = f.id
  BY DEF Part
<1>2. CASE ~ IsFork(f.id)
  <2>1. x = f.id
    BY <1>1, <1>2 DEF Need
  <2>2. ~ IsLeaf(f.id)
    BY <1>1, GroupsOf
  <2>3. QED BY <1>2, <2>1, <2>2 DEF Met
<1>3. CASE IsFork(f.id)
  <2>1. x \in Roots(c)
    BY <1>1, <1>3 DEF Need, Roots
  <2>2. QED BY <2>1 DEF Covers
<1>4. QED BY <1>2, <1>3

LEMMA PartMet ==
  ASSUME Made, StackInv, StackInv', NeedsMet, Unmoved, NEW t, NEW l, NEW f, Runs(t, l, f),
         NEW N, NEW D, Moved(t, l, f, N, D), Writes(t, f), out' = out,
         NEW u \in Thread, NEW i \in Nat, NEW c \in Frame, <<u, i, c>> \in N, Part(c, f),
         u # t => f.budget > 1 /\ Busy(t)', NEW b, NEW x, Need(c, b, x)
  PROVE  Met(u, c, b, x)'
<1>1. t \in Thread /\ l \in Nat /\ f \in Frame /\ At(t, l, f) /\ Height(t, l) /\ FrameOK(f)
  BY DEF Runs
<1>2. Moves(t, l, N) /\ Keeps(t, N, f)
  BY DEF Moved
<1>3. Work(f) /\ Work(c)
  BY DEF Part
<1>4. Need(f, b, x)
  BY PartNeeds
<1>5. Met(t, f, b, x)
  BY <1>1, <1>4 DEF NeedsMet
<1>6. b.at = "output" => \A a \in Slice(x) : Covers(c, a)
  BY <1>1, <1>5, PartCovers
<1>7. QED BY <1>1, <1>2, <1>3, <1>5, <1>6, InheritedMet

LEMMA PartingSupplied ==
  ASSUME Made, StackInv, StackInv', NeedsMet, Unmoved, NEW t, NEW l, NEW f, Runs(t, l, f),
         NEW N, NEW D, Moved(t, l, f, N, D), Writes(t, f), out' = out, Parting(t, N, f)
  PROVE  Supplied(N)
<1>1. SUFFICES ASSUME NEW u \in Thread, NEW i \in Nat, NEW c \in Frame, <<u, i, c>> \in N, Work(c),
                      NEW b, NEW x, Need(c, b, x)
               PROVE  Met(u, c, b, x)'
  BY DEF Supplied
<1>2. Part(c, f) /\ (u # t => f.budget > 1 /\ Busy(t)')
  BY <1>1 DEF Parting
<1>3. QED BY <1>1, <1>2, PartMet

-----------------------------------------------------------------------------
(* Where the inputs of new calls come from.                                 *)

LEMMA MetSpace ==
  ASSUME Unmoved, NEW u, NEW c, NEW b \in Buffers, b.at = "space", b.thread = u,
         b.depth < From(c), NEW x \in Nodes, space'[b] = x
  PROVE  Met(u, c, b, x)'
<1>1. Buffers' = Buffers /\ From(c)' = From(c) /\ Nodes' = Nodes
  BY FrameUnmoved DEF Unmoved, Buffers, Thread, Depth, Nodes
<1>2. Holds(b, x)'
  BY DEF Holds
<1>3. Safe(u, c, b)'
  BY <1>1 DEF Safe
<1>4. QED BY <1>1, <1>2, <1>3 DEF Met

LEMMA MetOutput ==
  ASSUME Unmoved, NEW u, NEW c, NEW x \in Nodes, IsFork(x) \/ IsLeaf(x),
         \A a \in Slice(x) : out'[a] = x /\ Covers(c, a)
  PROVE  Met(u, c, Output, x)'
<1>1. Nodes' = Nodes /\ (IsFork(x) \/ IsLeaf(x))' = (IsFork(x) \/ IsLeaf(x)) /\ Slice(x)' = Slice(x)
  BY DEF Unmoved, Nodes, IsFork, IsLeaf, Node, Slice, Span
<1>2. Output.at = "output"
  BY DEF Output
<1>3. Holds(Output, x)'
  BY <1>1, <1>2 DEF Holds
<1>4. \A a : Covers(c, a)' = Covers(c, a)
  BY AreaUnmoved
<1>5. QED BY <1>1, <1>2, <1>3, <1>4 DEF Met

Fed(u, c) == \A b, x : Need(c, b, x) => Met(u, c, b, x)'

LEMMA OneSupplied ==
  ASSUME NEW t, NEW l, NEW g, Fed(t, g)
  PROVE  Supplied({<<t, l, g>>})
<1>1. \A u, i, c : <<u, i, c>> \in {<<t, l, g>>} <=> u = t /\ i = l /\ c = g
  BY OnePlace
<1>2. QED BY <1>1 DEF Supplied, Fed

\* The threads are at work on a plan.
Going ==
  /\ Made /\ StackInv /\ AreasApart /\ NeedsMet /\ DataOK /\ stage \in {"write", "read"}

AllOf(g, t, f) == IsGroups(g, f.id, f.input, f.depth, f.budget, 1, Len(ChildrenOf(f.id)) + 1, t)

Whole(g, f) == g.first .. g.end - 1 = DOMAIN ChildrenOf(f.id)

LEMMA AllOfIs ==
  ASSUME Made, NEW t, NEW l, NEW f, Runs(t, l, f), f.call = "visit", ~ IsLeaf(f.id), NEW g, AllOf(g, t, f)
  PROVE  /\ t \in Thread /\ f \in Frame /\ Work(f) /\ f.id \in Nodes /\ f.depth \in Depth
         /\ f.depth \in Nat /\ From(f) = f.depth
         /\ g \in Frame /\ g.call = "groups" /\ g.id = f.id /\ g.depth = f.depth /\ g.home = t
         /\ g.input = f.input /\ Whole(g, f)
<1>1. t \in Thread /\ f \in Frame /\ FrameOK(f) /\ Work(f)
  BY DEF Runs, Work
<1>2. f.id \in Nodes /\ f.depth \in Depth /\ f.depth \in Nat
  BY <1>1, FrameFields, DepthFits DEF FrameOK
<1>3. From(f) = f.depth
  BY DEF From
<1>4. PICK n \in Nat : n = Len(ChildrenOf(f.id)) /\ DOMAIN ChildrenOf(f.id) = 1 .. n
  BY <1>2, MadeChildCount DEF ChildCount
<1>5. g \in Frame /\ g.call = "groups" /\ g.id = f.id /\ g.depth = f.depth /\ g.home = t
      /\ g.input = f.input /\ g.first = 1 /\ g.end = n + 1
  BY <1>4 DEF AllOf, IsGroups
<1>6. g.first .. g.end - 1 = 1 .. n
  BY <1>5
<1>7. QED BY <1>1, <1>2, <1>3, <1>4, <1>5, <1>6 DEF Whole

LEMMA WriteForkFeeds ==
  ASSUME Going, Unmoved, stage' = stage, NEW t, NEW l, NEW f, Runs(t, l, f), f.call = "visit",
         WriteFork(t, f), NEW g, AllOf(g, t, f)
  PROVE  Fed(t, g) /\ Writes(t, f) /\ DOMAIN space' = DOMAIN space
<1>1. Made /\ stage = "write" /\ IsFork(f.id) /\ out' = out /\ DOMAIN space = Buffers
  BY DEF Going, WriteFork, DataOK
<1>2. f.id \in Nodes /\ ~ IsLeaf(f.id) /\ DOMAIN ChildrenOf(f.id) = 1 .. 2
  <2>1. f.id \in Nodes
    BY DEF Runs, FrameOK, Work
  <2>2. ChildCount(f.id)
    BY <1>1, <2>1, MadeChildCount
  <2>3. QED BY <1>1, <2>1, <2>2 DEF ChildCount
<1>3. /\ t \in Thread /\ Work(f) /\ f.depth \in Depth /\ f.depth \in Nat /\ From(f) = f.depth
      /\ g.call = "groups" /\ g.id = f.id /\ g.depth = f.depth /\ g.home = t
      /\ Whole(g, f)
  BY <1>1, <1>2, AllOfIs
<1>4. PICK p : p = Buffer(t, f.depth, "left")
  OBVIOUS
<1>5. PICK q : q = Buffer(t, f.depth, "right")
  OBVIOUS
<1>6. /\ p \in Buffers /\ p.at = "space" /\ p.thread = t /\ p.depth = f.depth
      /\ q \in Buffers /\ q.at = "space" /\ q.thread = t /\ q.depth = f.depth
      /\ p # q
  BY <1>3, <1>4, <1>5, BufferAt
<1>7. PICK x : x = Child(f.id, 1)
  OBVIOUS
<1>8. PICK y : y = Child(f.id, 2)
  OBVIOUS
<1>9. x \in Nodes /\ y \in Nodes
  <2>1. 1 \in DOMAIN ChildrenOf(f.id) /\ 2 \in DOMAIN ChildrenOf(f.id)
    BY <1>2
  <2>2. QED BY <1>1, <1>2, <1>7, <1>8, <2>1, MadeChildFits DEF ChildFits
<1>10. PICK P : P = IF IsLeaf(x) THEN {} ELSE {p}
  OBVIOUS
<1>11. PICK Q : Q = IF IsLeaf(y) THEN {} ELSE {q}
  OBVIOUS
<1>12. P = Projected(t, f, 1) /\ Q = Projected(t, f, 2)
  BY <1>4, <1>5, <1>7, <1>8, <1>10, <1>11 DEF Projected, Side, Child
<1>13. space' = Fill(Fill(space, P, x), Q, y)
  BY <1>7, <1>8, <1>12 DEF WriteFork, Child
<1>14. PICK s : s = Fill(space, P, x)
  OBVIOUS
<1>15. DOMAIN s = Buffers /\ \A b \in Buffers : s[b] = IF b \in P THEN x ELSE space[b]
  BY <1>1, <1>14, FillIs
<1>16. DOMAIN space' = Buffers /\ \A b \in Buffers : space'[b] = IF b \in Q THEN y ELSE s[b]
  BY <1>13, <1>14, <1>15, FillIs
<1>17. ASSUME NEW b, NEW z, Need(g, b, z) PROVE Met(t, g, b, z)'
  <2>1. PICK i \in 1 .. 2 : z = Child(f.id, i) /\ ~ IsLeaf(z) /\ b = Buffer(t, f.depth, Side(i))
    BY <1>1, <1>2, <1>3, <1>17 DEF Need, Whole
  <2>2. From(g) = f.depth + 1
    BY <1>1, <1>3 DEF From
  <2>3. CASE i = 1
    <3>1. z = x /\ b = p /\ P = {p} /\ ~ (p \in Q)
      BY <1>4, <1>6, <1>7, <1>10, <1>11, <2>1, <2>3 DEF Side
    <3>2. space'[p] = x
      BY <1>6, <1>15, <1>16, <3>1
    <3>3. p.depth < From(g)
      BY <1>3, <1>6, <2>2
    <3>4. QED BY <1>6, <1>9, <3>1, <3>2, <3>3, MetSpace
  <2>4. CASE i = 2
    <3>1. z = y /\ b = q /\ Q = {q}
      BY <1>5, <1>8, <1>11, <2>1, <2>4 DEF Side
    <3>2. space'[q] = y
      BY <1>6, <1>16, <3>1
    <3>3. q.depth < From(g)
      BY <1>3, <1>6, <2>2
    <3>4. QED BY <1>6, <1>9, <3>1, <3>2, <3>3, MetSpace
  <2>5. QED BY <2>1, <2>3, <2>4
<1>18. Writes(t, f)
  <2>1. \A b \in Buffers : b \in P \/ b \in Q => b.thread = t /\ b.depth = From(f)
    BY <1>3, <1>6, <1>10, <1>11
  <2>2. QED BY <1>1, <1>3, <1>15, <1>16, <2>1 DEF Writes
<1>19. QED BY <1>1, <1>16, <1>17, <1>18 DEF Fed

LEMMA ReadForkFeeds ==
  ASSUME Going, Unmoved, stage' = stage, NEW t, NEW l, NEW f, Runs(t, l, f), f.call = "visit",
         ReadFork(t, f), NEW g, AllOf(g, t, f)
  PROVE  Fed(t, g) /\ Writes(t, f) /\ DOMAIN out' = DOMAIN out
<1>1. Made /\ stage = "read" /\ IsFork(f.id) /\ space' = space
      /\ DOMAIN out = Span(0, shape.m * shape.k)
  BY DEF Going, ReadFork, DataOK
<1>2. f.id \in Nodes /\ ~ IsLeaf(f.id) /\ DOMAIN ChildrenOf(f.id) = 1 .. 2
  <2>1. f.id \in Nodes
    BY DEF Runs, FrameOK, Work
  <2>2. ChildCount(f.id)
    BY <1>1, <2>1, MadeChildCount
  <2>3. QED BY <1>1, <2>1, <2>2 DEF ChildCount
<1>3. /\ t \in Thread /\ Work(f)
      /\ g.call = "groups" /\ g.id = f.id
      /\ Whole(g, f)
  BY <1>1, <1>2, AllOfIs
<1>4. PICK x : x = Child(f.id, 1)
  OBVIOUS
<1>5. PICK y : y = Child(f.id, 2)
  OBVIOUS
<1>6. 1 \in DOMAIN ChildrenOf(f.id) /\ 2 \in DOMAIN ChildrenOf(f.id)
  BY <1>2
<1>7. /\ x \in Nodes /\ y \in Nodes /\ Slice(x) \subseteq Slice(f.id) /\ Slice(y) \subseteq Slice(f.id)
      /\ IsFork(x) \/ IsLeaf(x)
      /\ IsFork(y) \/ IsLeaf(y)
  <2>1. ChildFits(f.id, x) /\ ChildFits(f.id, y)
    BY <1>1, <1>2, <1>4, <1>5, <1>6, MadeChildFits
  <2>2. (IsFork(x) \/ IsLeaf(x)) /\ (IsFork(y) \/ IsLeaf(y))
    BY <1>1, <1>2, <1>4, <1>5, <1>6, MadeForkChild
  <2>3. QED BY <2>1, <2>2 DEF ChildFits
<1>8. Slice(x) \cap Slice(y) = {}
  BY <1>1, <1>2, <1>4, <1>5, <1>6, MadeSiblings DEF SiblingsApart
<1>9. Slice(x) \subseteq DOMAIN out /\ Slice(y) \subseteq DOMAIN out
  BY <1>1, <1>7, MadeSlice
<1>10. out' = Fill(Fill(out, Slice(x), x), Slice(y), y)
  BY <1>4, <1>5 DEF ReadFork, Child
<1>11. PICK s : s = Fill(out, Slice(x), x)
  OBVIOUS
<1>12. DOMAIN s = DOMAIN out /\ \A b \in DOMAIN out : s[b] = IF b \in Slice(x) THEN x ELSE out[b]
  BY <1>11, FillIs
<1>13. DOMAIN out' = DOMAIN out /\ \A b \in DOMAIN out : out'[b] = IF b \in Slice(y) THEN y ELSE s[b]
  BY <1>10, <1>11, <1>12, FillIs
<1>14. ASSUME NEW b, NEW z, Need(g, b, z) PROVE Met(t, g, b, z)'
  <2>1. PICK i \in 1 .. 2 : z = Child(f.id, i) /\ b = Output
    BY <1>1, <1>2, <1>3, <1>14 DEF Need, Whole
  <2>2. z = x \/ z = y
    BY <1>4, <1>5, <2>1
  <2>3. z \in Roots(g)
    BY <1>2, <1>3, <2>1 DEF Roots, Whole
  <2>4. \A a \in Slice(z) : Covers(g, a)
    BY <2>3 DEF Covers
  <2>5. \A a \in Slice(x) : out'[a] = x
    BY <1>8, <1>9, <1>12, <1>13
  <2>6. \A a \in Slice(y) : out'[a] = y
    BY <1>9, <1>13
  <2>7. CASE z = x
    BY <1>7, <2>1, <2>4, <2>5, <2>7, MetOutput
  <2>8. CASE z = y
    BY <1>7, <2>1, <2>4, <2>6, <2>8, MetOutput
  <2>9. QED BY <2>2, <2>7, <2>8
<1>15. Writes(t, f)
  <2>1. \A a \in Slice(f.id) : Covers(f, a)
    BY DEF Covers, Roots
  <2>2. \A a \in DOMAIN out : out'[a] = out[a] \/ a \in Slice(f.id)
    BY <1>7, <1>12, <1>13
  <2>3. QED BY <1>1, <2>1, <2>2 DEF Writes
<1>16. QED BY <1>13, <1>14, <1>15 DEF Fed
-----------------------------------------------------------------------------
(* What is done of the plan.                                                *)

OfrDone(a) == IsFork(a) => \A i \in OfrSpan(a) : ofr[i] = a
SwoDone(a) == \A i \in SwoSpan(a) : swo[i] = a
OutDone(a) == \A b \in Slice(a) : out[b] = a

\* Node x is still to be visited by some call; no call has blocks of node a.
Active(x) == \E u \in Thread : \E i \in Nat, c \in Frame : At(u, i, c) /\ x \in Roots(c)
Clear(c, a) == \A b \in Slice(a) : ~ Covers(c, b)
Free(a) == \A u \in Thread : \A i \in Nat, c \in Frame : At(u, i, c) => Clear(c, a)

\* The nodes V are visited: what they were to write is written, and their children are
\* visited or some call is to visit them.
Connected(V) ==
  /\ V \subseteq Nodes
  /\ 1 \in V \/ Active(1)
  /\ \A a \in V : \A i \in DOMAIN ChildrenOf(a) : Child(a, i) \in V \/ Active(Child(a, i))
TapesDone(V) ==
  /\ \A a \in V : OfrDone(a) /\ SwoDone(a)
  /\ \A u \in Thread : \A i \in Nat, c \in Frame :
       At(u, i, c) /\ c.call = "visit" => SwoDone(c.id)
LeavesDone(V) == \A a \in V : IsLeaf(a) => OutDone(a) /\ Free(a)
Progress(V) ==
  /\ Connected(V)
  /\ stage = "write" => TapesDone(V)
  /\ stage \in {"read", "done"} => LeavesDone(V)

\* What a step that finishes the nodes D, and makes the calls N of f, writes.
TapesKept == \A a \in Nodes : (OfrDone(a) => OfrDone(a)') /\ (SwoDone(a) => SwoDone(a)')
WriteMarks(f, N, D) ==
  /\ \A a \in D : OfrDone(a)' /\ (SwoDone(a)' \/ (f.call = "visit" /\ a = f.id))
  /\ \A u \in Thread : \A i \in Nat, c \in Frame :
       <<u, i, c>> \in N /\ c.call = "visit" => SwoDone(c.id)'
ReadMarks(f, N, D) ==
  \A a \in D : IsLeaf(a) => N = {} /\ OutDone(a)' /\ \A b \in Slice(a) : Covers(f, b)

Advances(t, l, f, N, D) ==
  /\ Moved(t, l, f, N, D) /\ Writes(t, f) /\ Supplied(N) /\ DataOK' /\ TapesKept
  /\ stage = "write" => WriteMarks(f, N, D)
  /\ stage = "read" => ReadMarks(f, N, D)

LEMMA ActiveMoves ==
  ASSUME Unmoved, NEW t, NEW l, NEW f, Runs(t, l, f), NEW N, NEW D, Moved(t, l, f, N, D),
         NEW x, Active(x)
  PROVE  x \in D \/ Active(x)'
<1>1. PICK u \in Thread, i \in Nat, c \in Frame : At(u, i, c) /\ x \in Roots(c)
  BY DEF Active
<1>2. Thread' = Thread /\ \A d : Roots(d)' = Roots(d)
  BY FrameUnmoved, AreaUnmoved
<1>3. CASE ~ (u = t /\ i = l)
  <2>1. At(u, i, c)'
    BY <1>1, <1>3 DEF Moved, Moves
  <2>2. QED BY <1>1, <1>2, <2>1 DEF Active
<1>4. CASE u = t /\ i = l
  <2>1. c = f
    BY <1>1, <1>4 DEF Runs, At
  <2>2. x \in D \/ Taken(N, x)
    BY <1>1, <2>1 DEF Moved, Hands
  <2>3. ASSUME Taken(N, x) PROVE Active(x)'
    <3>1. PICK v \in Thread, j \in Nat, d \in Frame : <<v, j, d>> \in N /\ x \in Roots(d)
      BY <2>3 DEF Taken
    <3>2. At(v, j, d)'
      BY <3>1 DEF Moved, Moves
    <3>3. QED BY <1>2, <3>1, <3>2 DEF Active
  <2>4. QED BY <2>2, <2>3
<1>5. QED BY <1>3, <1>4

LEMMA TakenActive ==
  ASSUME Unmoved, NEW t, NEW l, NEW f, NEW N, NEW D, Moved(t, l, f, N, D), NEW x, Taken(N, x)
  PROVE  Active(x)'
<1>1. Thread' = Thread /\ \A d : Roots(d)' = Roots(d)
  BY FrameUnmoved, AreaUnmoved
<1>2. PICK v \in Thread, j \in Nat, d \in Frame : <<v, j, d>> \in N /\ x \in Roots(d)
  BY DEF Taken
<1>3. At(v, j, d)'
  BY <1>2 DEF Moved, Moves
<1>4. QED BY <1>1, <1>2, <1>3 DEF Active

LEMMA NodesUnmoved ==
  ASSUME Unmoved
  PROVE  /\ Nodes' = Nodes /\ Thread' = Thread
         /\ \A a : /\ ChildrenOf(a)' = ChildrenOf(a) /\ IsLeaf(a)' = IsLeaf(a) /\ IsFork(a)' = IsFork(a)
                   /\ Slice(a)' = Slice(a)
         /\ \A a, i : Child(a, i)' = Child(a, i)
BY DEF Unmoved, Nodes, Thread, ChildrenOf, IsLeaf, IsFork, Node, Slice, Span, Child

LEMMA ConnectedKept ==
  ASSUME Unmoved, NEW t, NEW l, NEW f, Runs(t, l, f), NEW N, NEW D, Moved(t, l, f, N, D),
         NEW V, Connected(V)
  PROVE  Connected(V \cup D)'
<1>1. PICK W : W = V \cup D
  OBVIOUS
<1>2. Nodes' = Nodes /\ (\A a : ChildrenOf(a)' = ChildrenOf(a)) /\ (\A a, i : Child(a, i)' = Child(a, i))
  BY NodesUnmoved
<1>3. W \subseteq Nodes
  BY <1>1 DEF Connected, Moved, Hands
<1>4. \A x : Active(x) => x \in W \/ Active(x)'
  BY <1>1, ActiveMoves
<1>5. 1 \in W \/ Active(1)'
  BY <1>1, <1>4 DEF Connected
<1>6. ASSUME NEW a \in W, NEW i \in DOMAIN ChildrenOf(a)
      PROVE  Child(a, i) \in W \/ Active(Child(a, i))'
  <2>1. PICK x : x = Child(a, i)
    OBVIOUS
  <2>2. CASE a \in V
    <3>1. x \in V \/ Active(x)
      BY <1>6, <2>1, <2>2 DEF Connected
    <3>2. x \in W \/ Active(x)'
      BY <1>1, <1>4, <3>1
    <3>3. QED BY <1>2, <2>1, <3>2
  <2>3. CASE a \in D
    <3>1. Taken(N, x)
      BY <1>6, <2>1, <2>3 DEF Moved, Hands
    <3>2. Active(x)'
      BY <3>1, TakenActive
    <3>3. QED BY <1>2, <2>1, <3>2
  <2>4. QED BY <1>1, <1>6, <2>2, <2>3
<1>7. Connected(W)'
  BY <1>2, <1>3, <1>5, <1>6 DEF Connected
<1>8. QED BY <1>1, <1>7
LEMMA TapesDoneKept ==
  ASSUME Unmoved, NEW t, NEW l, NEW f, Runs(t, l, f), NEW N, NEW D, Moved(t, l, f, N, D),
         NEW V, Connected(V), TapesDone(V), TapesKept, WriteMarks(f, N, D),
         \A c \in Frame : Work(c) /\ FrameOK(c) => c.id \in Nodes, FramesOK
  PROVE  TapesDone(V \cup D)'
<1>1. Thread' = Thread
  BY NodesUnmoved
<1>2. V \subseteq Nodes /\ D \subseteq Nodes
  BY DEF Connected, Moved, Hands
<1>3. ASSUME NEW u \in Thread, NEW i \in Nat, NEW c \in Frame, At(u, i, c), c.call = "visit"
      PROVE  SwoDone(c.id) /\ SwoDone(c.id)'
  <2>1. SwoDone(c.id)
    BY <1>3 DEF TapesDone
  <2>2. c.id \in Nodes
    BY <1>3 DEF FramesOK, Work
  <2>3. QED BY <2>1, <2>2 DEF TapesKept
<1>4. ASSUME NEW a \in D PROVE OfrDone(a)' /\ SwoDone(a)'
  <2>1. OfrDone(a)' /\ (SwoDone(a)' \/ (f.call = "visit" /\ a = f.id))
    BY <1>4 DEF WriteMarks
  <2>2. t \in Thread /\ l \in Nat /\ f \in Frame /\ At(t, l, f)
    BY DEF Runs
  <2>3. f.call = "visit" => SwoDone(f.id)'
    BY <1>3, <2>2
  <2>4. QED BY <2>1, <2>3
<1>5. ASSUME NEW a \in V PROVE OfrDone(a)' /\ SwoDone(a)'
  BY <1>2, <1>5 DEF TapesDone, TapesKept
<1>6. ASSUME NEW u \in Thread, NEW i \in Nat, NEW c \in Frame, At(u, i, c)', c.call = "visit"
      PROVE  SwoDone(c.id)'
  <2>1. CASE At(u, i, c)
    BY <1>3, <1>6, <2>1
  <2>2. CASE <<u, i, c>> \in N
    BY <1>6, <2>2 DEF WriteMarks
  <2>3. QED BY <1>6, <2>1, <2>2 DEF Moved, Moves
<1>7. QED BY <1>1, <1>4, <1>5, <1>6 DEF TapesDone

LEMMA ClearUnmoved ==
  ASSUME Unmoved, NEW c, NEW a
  PROVE  Clear(c, a)' = Clear(c, a)
<1>1. Slice(a)' = Slice(a) /\ \A b : Covers(c, b)' = Covers(c, b)
  BY NodesUnmoved, AreaUnmoved
<1>2. QED BY <1>1 DEF Clear

\* A leaf that was put out stays so.
LEMMA LeafKept ==
  ASSUME Made, Unmoved, NEW t, NEW l, NEW f, Runs(t, l, f), NEW N, NEW D, Moved(t, l, f, N, D),
         Writes(t, f), NEW a \in Nodes, OutDone(a), Free(a)
  PROVE  OutDone(a)' /\ Free(a)'
<1>1. t \in Thread /\ l \in Nat /\ f \in Frame /\ At(t, l, f)
  BY DEF Runs
<1>2. Clear(f, a)
  BY <1>1 DEF Free
<1>3. Slice(a)' = Slice(a) /\ Thread' = Thread
  BY NodesUnmoved
<1>4. Slice(a) \subseteq Span(0, shape.m * shape.k)
  BY MadeSlice
<1>5. \A b \in Slice(a) : out'[b] = out[b]
  BY <1>2, <1>4 DEF Writes, Clear
<1>6. OutDone(a)'
  BY <1>3, <1>5 DEF OutDone
<1>7. ASSUME NEW u \in Thread, NEW i \in Nat, NEW c \in Frame, At(u, i, c)' PROVE Clear(c, a)
  <2>1. CASE At(u, i, c)
    BY <2>1 DEF Free
  <2>2. CASE <<u, i, c>> \in N
    <3>1. Below(c, f)
      BY <2>2 DEF Moved, Shares
    <3>2. QED BY <1>2, <3>1 DEF Below, Clear
  <2>3. QED BY <1>7, <2>1, <2>2 DEF Moved, Moves
<1>8. \A c : Clear(c, a)' = Clear(c, a)
  BY ClearUnmoved
<1>9. Free(a)'
  BY <1>3, <1>7, <1>8 DEF Free
<1>10. QED BY <1>6, <1>9

\* A leaf that is being put out belongs to one call only.
LEMMA LeafDone ==
  ASSUME Unmoved, AreasApart, NEW t, NEW l, NEW f, Runs(t, l, f), NEW N, NEW D, Moved(t, l, f, N, D),
         NEW a, N = {}, \A b \in Slice(a) : Covers(f, b)
  PROVE  Free(a)'
<1>1. t \in Thread /\ l \in Nat /\ f \in Frame /\ At(t, l, f)
  BY DEF Runs
<1>2. ASSUME NEW u \in Thread, NEW i \in Nat, NEW c \in Frame, At(u, i, c)' PROVE Clear(c, a)
  <2>1. At(u, i, c) /\ ~ (u = t /\ i = l)
    BY <1>2 DEF Moved, Moves
  <2>2. Apart(c, f)
    BY <1>1, <2>1 DEF AreasApart
  <2>3. QED BY <2>2 DEF Apart, Clear
<1>3. \A c : Clear(c, a)' = Clear(c, a)
  BY ClearUnmoved
<1>4. QED BY <1>2, <1>3, NodesUnmoved DEF Free

LEMMA LeavesDoneKept ==
  ASSUME Made, Unmoved, AreasApart, NEW t, NEW l, NEW f, Runs(t, l, f), NEW N, NEW D,
         Moved(t, l, f, N, D), Writes(t, f), NEW V, Connected(V), LeavesDone(V), ReadMarks(f, N, D)
  PROVE  LeavesDone(V \cup D)'
<1>1. \A a : IsLeaf(a)' = IsLeaf(a)
  BY NodesUnmoved
<1>2. ASSUME NEW a \in V, IsLeaf(a) PROVE OutDone(a)' /\ Free(a)'
  <2>1. a \in Nodes /\ OutDone(a) /\ Free(a)
    BY <1>2 DEF Connected, LeavesDone
  <2>2. QED BY <2>1, LeafKept
<1>3. ASSUME NEW a \in D, IsLeaf(a) PROVE OutDone(a)' /\ Free(a)'
  <2>1. N = {} /\ OutDone(a)' /\ \A b \in Slice(a) : Covers(f, b)
    BY <1>3 DEF ReadMarks
  <2>2. QED BY <2>1, LeafDone
<1>4. QED BY <1>1, <1>2, <1>3 DEF LeavesDone

\* What a step does, all taken together.
LEMMA StepAdvances ==
  ASSUME Going, Unmoved, NEW t, NEW l, NEW f, Runs(t, l, f), NEW N, NEW D, Advances(t, l, f, N, D),
         NEW V, Progress(V)
  PROVE  AreasApart' /\ NeedsMet' /\ DataOK' /\ Progress(V \cup D)'
<1>1. Made /\ StackInv /\ AreasApart /\ NeedsMet /\ stage \in {"write", "read"}
  BY DEF Going
<1>2. Moved(t, l, f, N, D) /\ Writes(t, f) /\ Supplied(N) /\ DataOK' /\ TapesKept
  BY DEF Advances
<1>3. AreasApart' /\ NeedsMet'
  BY <1>1, <1>2, StepNeeds
<1>4. Connected(V) /\ Connected(V \cup D)'
  BY <1>2, ConnectedKept DEF Progress
<1>5. stage' = stage
  BY <1>2 DEF Writes
<1>6. ASSUME stage = "write" PROVE TapesDone(V \cup D)'
  <2>1. TapesDone(V) /\ WriteMarks(f, N, D)
    BY <1>6 DEF Progress, Advances
  <2>2. FramesOK /\ \A c \in Frame : Work(c) /\ FrameOK(c) => c.id \in Nodes
    BY <1>1 DEF StackInv, FrameOK
  <2>3. QED BY <1>2, <1>4, <2>1, <2>2, TapesDoneKept
<1>7. ASSUME stage = "read" PROVE LeavesDone(V \cup D)'
  <2>1. LeavesDone(V) /\ ReadMarks(f, N, D)
    BY <1>7 DEF Progress, Advances
  <2>2. QED BY <1>1, <1>2, <1>4, <2>1, LeavesDoneKept
<1>8. Progress(V \cup D)'
  BY <1>1, <1>4, <1>5, <1>6, <1>7 DEF Progress
<1>9. QED BY <1>2, <1>3, <1>8
-----------------------------------------------------------------------------
(* What the handlers write.                                                 *)

LEMMA SpansUnmoved ==
  ASSUME Unmoved, NEW a
  PROVE  OfrSpan(a)' = OfrSpan(a) /\ SwoSpan(a)' = SwoSpan(a) /\ IsFork(a)' = IsFork(a)
BY DEF Unmoved, OfrSpan, SwoSpan, IsFork, Node, Span

LEMMA DataKept ==
  ASSUME DataOK, Unmoved, stage' = stage, stage # "plan", DOMAIN space' = DOMAIN space,
         DOMAIN out' = DOMAIN out, DOMAIN swo' = DOMAIN swo, DOMAIN ofr' = DOMAIN ofr
  PROVE  DataOK'
<1>1. Buffers' = Buffers
  BY DEF Unmoved, Buffers, Thread, Depth
<1>2. Span(0, shape.m * shape.k)' = Span(0, shape.m * shape.k)
      /\ Span(0, plan.swo)' = Span(0, plan.swo) /\ Span(0, plan.ofr)' = Span(0, plan.ofr)
  BY DEF Unmoved, Span
<1>3. QED BY <1>1, <1>2 DEF DataOK

LEMMA TapesSame ==
  ASSUME Unmoved, swo' = swo, ofr' = ofr
  PROVE  TapesKept
<1>1. \A a : OfrSpan(a)' = OfrSpan(a) /\ SwoSpan(a)' = SwoSpan(a) /\ IsFork(a)' = IsFork(a)
  BY SpansUnmoved
<1>2. QED BY <1>1 DEF TapesKept, OfrDone, SwoDone

LEMMA OfrFilled ==
  ASSUME Made, Unmoved, DOMAIN ofr = Span(0, plan.ofr), NEW a \in Nodes, IsFork(a),
         ofr' = Fill(ofr, OfrSpan(a), a), swo' = swo
  PROVE  TapesKept /\ OfrDone(a)' /\ DOMAIN ofr' = DOMAIN ofr
<1>1. \A b : OfrSpan(b)' = OfrSpan(b) /\ SwoSpan(b)' = SwoSpan(b) /\ IsFork(b)' = IsFork(b)
  BY SpansUnmoved
<1>2. /\ \A b \in Nodes : IsFork(b) /\ b # a => OfrSpan(b) \cap OfrSpan(a) = {}
      /\ \A b \in Nodes : IsFork(b) => OfrSpan(b) \subseteq DOMAIN ofr
  BY MadeForkSpans
<1>3. DOMAIN ofr' = DOMAIN ofr
      /\ \A i \in DOMAIN ofr : ofr'[i] = IF i \in OfrSpan(a) THEN a ELSE ofr[i]
  BY FillIs
<1>4. OfrDone(a)'
  BY <1>1, <1>2, <1>3 DEF OfrDone
<1>5. ASSUME NEW b \in Nodes, OfrDone(b) PROVE OfrDone(b)'
  <2>1. CASE b = a
    BY <1>4, <2>1
  <2>2. CASE b # a
    <3>1. SUFFICES ASSUME IsFork(b), NEW i \in OfrSpan(b) PROVE ofr'[i] = b
      BY <1>1 DEF OfrDone
    <3>2. ofr[i] = b /\ i \in DOMAIN ofr /\ ~ (i \in OfrSpan(a))
      BY <1>2, <1>5, <2>2, <3>1 DEF OfrDone
    <3>3. QED BY <1>3, <3>2
  <2>3. QED BY <2>1, <2>2
<1>6. \A b \in Nodes : SwoDone(b) => SwoDone(b)'
  BY <1>1 DEF SwoDone
<1>7. QED BY <1>3, <1>4, <1>5, <1>6 DEF TapesKept

LEMMA SwoFilled ==
  ASSUME Made, Unmoved, DOMAIN swo = Span(0, plan.swo), NEW a \in Nodes,
         swo' = Fill(swo, SwoSpan(a), a), ofr' = ofr
  PROVE  TapesKept /\ SwoDone(a)' /\ DOMAIN swo' = DOMAIN swo
<1>1. \A b : OfrSpan(b)' = OfrSpan(b) /\ SwoSpan(b)' = SwoSpan(b) /\ IsFork(b)' = IsFork(b)
  BY SpansUnmoved
<1>2. /\ \A b \in Nodes : b # a => SwoSpan(b) \cap SwoSpan(a) = {}
      /\ \A b \in Nodes : SwoSpan(b) \subseteq DOMAIN swo
  BY MadeEdgeSpans
<1>3. DOMAIN swo' = DOMAIN swo
      /\ \A i \in DOMAIN swo : swo'[i] = IF i \in SwoSpan(a) THEN a ELSE swo[i]
  BY FillIs
<1>4. SwoDone(a)'
  BY <1>1, <1>2, <1>3 DEF SwoDone
<1>5. ASSUME NEW b \in Nodes, SwoDone(b) PROVE SwoDone(b)'
  <2>1. CASE b = a
    BY <1>4, <2>1
  <2>2. CASE b # a
    <3>1. SUFFICES ASSUME NEW i \in SwoSpan(b) PROVE swo'[i] = b
      BY <1>1 DEF SwoDone
    <3>2. swo[i] = b /\ i \in DOMAIN swo /\ ~ (i \in SwoSpan(a))
      BY <1>2, <1>5, <2>2, <3>1 DEF SwoDone
    <3>3. QED BY <1>3, <3>2
  <2>3. QED BY <2>1, <2>2
<1>6. \A b \in Nodes : OfrDone(b) => OfrDone(b)'
  BY <1>1 DEF OfrDone
<1>7. QED BY <1>3, <1>4, <1>5, <1>6 DEF TapesKept

-----------------------------------------------------------------------------
(* Each handler's step advances.                                            *)

\* A visit that hands its node's children to the call g.
Opens(t, l, f, g) == AllOf(g, t, f) /\ Moved(t, l, f, {<<t, l, g>>}, {f.id})

LEMMA NodeOpens ==
  ASSUME Made, StackInv, Unmoved, NEW t, NEW l, NEW f, Runs(t, l, f), Narrows(t, f),
         f.call = "visit", ~ IsLeaf(f.id), Children(t, f)
  PROVE  \E g : Opens(t, l, f, g)
BY ChildrenMoved DEF Opens, AllOf

\* No visits among the new calls.
LEMMA OpensMarks ==
  ASSUME NEW t, NEW l, NEW f, NEW g, f.call = "visit", g.call = "groups", ~ IsLeaf(f.id), OfrDone(f.id)'
  PROVE  WriteMarks(f, {<<t, l, g>>}, {f.id}) /\ ReadMarks(f, {<<t, l, g>>}, {f.id})
<1>1. \A u, i, c : <<u, i, c>> \in {<<t, l, g>>} => c.call # "visit"
  BY OnePlace
<1>2. WriteMarks(f, {<<t, l, g>>}, {f.id})
  BY <1>1 DEF WriteMarks
<1>3. ReadMarks(f, {<<t, l, g>>}, {f.id})
  BY DEF ReadMarks
<1>4. QED BY <1>2, <1>3

LEMMA WriteForkAdvances ==
  ASSUME Going, Unmoved, stage' = stage, NEW t, NEW l, NEW f, Runs(t, l, f), Narrows(t, f),
         f.call = "visit", WriteFork(t, f)
  PROVE  \E N, D : Advances(t, l, f, N, D)
<1>1. Made /\ StackInv /\ DataOK /\ stage = "write" /\ IsFork(f.id)
      /\ out' = out /\ swo' = swo /\ ofr' = Fill(ofr, OfrSpan(f.id), f.id) /\ Children(t, f)
  BY DEF Going, WriteFork
<1>2. f.id \in Nodes /\ ~ IsLeaf(f.id)
  <2>1. f.id \in Nodes
    BY DEF Runs, FrameOK, Work
  <2>2. ChildCount(f.id)
    BY <1>1, <2>1, MadeChildCount
  <2>3. QED BY <1>1, <2>1, <2>2 DEF ChildCount
<1>3. PICK g : Opens(t, l, f, g)
  BY <1>1, <1>2, NodeOpens
<1>4. AllOf(g, t, f) /\ Moved(t, l, f, {<<t, l, g>>}, {f.id})
  BY <1>3 DEF Opens
<1>5. Fed(t, g) /\ Writes(t, f) /\ DOMAIN space' = DOMAIN space
  BY <1>4, WriteForkFeeds
<1>6. Supplied({<<t, l, g>>})
  BY <1>5, OneSupplied
<1>7. DOMAIN ofr = Span(0, plan.ofr)
  BY <1>1 DEF DataOK
<1>8. TapesKept /\ OfrDone(f.id)' /\ DOMAIN ofr' = DOMAIN ofr
  BY <1>1, <1>2, <1>7, OfrFilled
<1>9. DataOK'
  BY <1>1, <1>5, <1>8, DataKept
<1>10. g.call = "groups"
  BY <1>4 DEF AllOf, IsGroups
<1>11. WriteMarks(f, {<<t, l, g>>}, {f.id})
  BY <1>2, <1>8, <1>10, OpensMarks
<1>12. Advances(t, l, f, {<<t, l, g>>}, {f.id})
  BY <1>1, <1>4, <1>5, <1>6, <1>8, <1>9, <1>11 DEF Advances
<1>13. QED BY <1>12

LEMMA ReadForkAdvances ==
  ASSUME Going, Unmoved, stage' = stage, NEW t, NEW l, NEW f, Runs(t, l, f), Narrows(t, f),
         f.call = "visit", ReadFork(t, f)
  PROVE  \E N, D : Advances(t, l, f, N, D)
<1>1. Made /\ StackInv /\ DataOK /\ stage = "read" /\ IsFork(f.id)
      /\ space' = space /\ swo' = swo /\ ofr' = ofr /\ Children(t, f)
  BY DEF Going, ReadFork
<1>2. f.id \in Nodes /\ ~ IsLeaf(f.id)
  <2>1. f.id \in Nodes
    BY DEF Runs, FrameOK, Work
  <2>2. ChildCount(f.id)
    BY <1>1, <2>1, MadeChildCount
  <2>3. QED BY <1>1, <2>1, <2>2 DEF ChildCount
<1>3. PICK g : Opens(t, l, f, g)
  BY <1>1, <1>2, NodeOpens
<1>4. AllOf(g, t, f) /\ Moved(t, l, f, {<<t, l, g>>}, {f.id})
  BY <1>3 DEF Opens
<1>5. Fed(t, g) /\ Writes(t, f) /\ DOMAIN out' = DOMAIN out
  BY <1>4, ReadForkFeeds
<1>6. Supplied({<<t, l, g>>})
  BY <1>5, OneSupplied
<1>7. TapesKept
  BY <1>1, TapesSame
<1>8. DataOK'
  BY <1>1, <1>5, DataKept
<1>9. ReadMarks(f, {<<t, l, g>>}, {f.id})
  BY <1>2 DEF ReadMarks
<1>10. Advances(t, l, f, {<<t, l, g>>}, {f.id})
  BY <1>1, <1>4, <1>5, <1>6, <1>7, <1>8, <1>9 DEF Advances
<1>11. QED BY <1>10
LEMMA NothingWritten ==
  ASSUME stage' = stage, space' = space, out' = out, NEW t, NEW f
  PROVE  Writes(t, f)
BY DEF Writes

LEMMA FilterFeeds ==
  ASSUME Going, StackInv', Unmoved, stage' = stage, NEW t, NEW l, NEW f, Runs(t, l, f),
         f.call = "visit", Filter(t, f), NEW g, Opens(t, l, f, g)
  PROVE  Fed(t, g) /\ Writes(t, f)
<1>1. Made /\ StackInv /\ NeedsMet /\ ~ IsFork(f.id) /\ ~ IsLeaf(f.id)
      /\ space' = space /\ out' = out
  BY DEF Going, Filter
<1>2. AllOf(g, t, f) /\ Moves(t, l, {<<t, l, g>>}) /\ Keeps(t, {<<t, l, g>>}, f)
  BY DEF Opens, Moved
<1>3. /\ t \in Thread /\ f \in Frame /\ Work(f) /\ g \in Frame /\ g.call = "groups" /\ g.id = f.id
      /\ g.input = f.input /\ l \in Nat /\ Height(t, l) /\ At(t, l, f)
  BY <1>1, <1>2, AllOfIs DEF Runs
<1>4. Work(g)
  BY <1>3 DEF Work
<1>5. Writes(t, f)
  BY <1>1, NothingWritten
<1>6. <<t, l, g>> \in {<<t, l, g>>}
  OBVIOUS
<1>7. PICK N : N = {<<t, l, g>>}
  OBVIOUS
<1>8. ASSUME NEW b, NEW x, Need(g, b, x) PROVE Met(t, g, b, x)'
  <2>1. b = f.input /\ x = f.id
    BY <1>1, <1>3, <1>8 DEF Need
  <2>2. Need(f, b, x)
    BY <1>1, <2>1 DEF Need
  <2>3. Met(t, f, b, x)
    BY <1>1, <1>3, <2>2 DEF NeedsMet
  <2>4. b.at # "output"
    BY <1>1, <2>1, <2>3 DEF Met
  <2>5. QED BY <1>1, <1>2, <1>3, <1>4, <1>5, <1>6, <1>7, <2>3, <2>4, InheritedMet
<1>9. QED BY <1>5, <1>8 DEF Fed

LEMMA FilterAdvances ==
  ASSUME Going, StackInv', Unmoved, stage' = stage, NEW t, NEW l, NEW f, Runs(t, l, f), Narrows(t, f),
         f.call = "visit", Filter(t, f)
  PROVE  \E N, D : Advances(t, l, f, N, D)
<1>1. Made /\ StackInv /\ DataOK /\ stage \in {"write", "read"} /\ ~ IsFork(f.id) /\ ~ IsLeaf(f.id)
      /\ space' = space /\ out' = out /\ swo' = swo /\ ofr' = ofr /\ Children(t, f)
  BY DEF Going, Filter
<1>2. PICK g : Opens(t, l, f, g)
  BY <1>1, NodeOpens
<1>3. AllOf(g, t, f) /\ Moved(t, l, f, {<<t, l, g>>}, {f.id})
  BY <1>2 DEF Opens
<1>4. Fed(t, g) /\ Writes(t, f)
  BY <1>2, FilterFeeds
<1>5. Supplied({<<t, l, g>>})
  BY <1>4, OneSupplied
<1>6. TapesKept
  BY <1>1, TapesSame
<1>7. DataOK'
  BY <1>1, DataKept
<1>8. g.call = "groups"
  BY <1>3 DEF AllOf, IsGroups
<1>9. OfrDone(f.id)'
  BY <1>1, SpansUnmoved DEF OfrDone
<1>10. WriteMarks(f, {<<t, l, g>>}, {f.id}) /\ ReadMarks(f, {<<t, l, g>>}, {f.id})
  BY <1>1, <1>8, <1>9, OpensMarks
<1>11. Advances(t, l, f, {<<t, l, g>>}, {f.id})
  BY <1>3, <1>4, <1>5, <1>6, <1>7, <1>10 DEF Advances
<1>12. QED BY <1>11

LEMMA LeafChildless ==
  ASSUME Made, NEW a \in Nodes, IsLeaf(a)
  PROVE  Childless({a}) /\ ~ IsFork(a)
<1>1. ChildCount(a)
  BY MadeChildCount
<1>2. DOMAIN ChildrenOf(a) = {}
  BY <1>1 DEF ChildCount
<1>3. QED BY <1>1, <1>2 DEF ChildCount, Childless

LEMMA NothingSupplied == Supplied({})
BY DEF Supplied

LEMMA WriteLeafAdvances ==
  ASSUME Going, Unmoved, stage' = stage, NEW t, NEW l, NEW f, Runs(t, l, f), Narrows(t, f),
         f.call = "visit", WriteLeaf(t, f)
  PROVE  \E N, D : Advances(t, l, f, N, D)
<1>1. Made /\ StackInv /\ DataOK /\ stage = "write" /\ IsLeaf(f.id) /\ Becomes(t, <<>>)
      /\ space' = space /\ out' = out /\ swo' = swo /\ ofr' = ofr
  BY DEF Going, WriteLeaf
<1>2. f.id \in Nodes
  BY DEF Runs, FrameOK, Work
<1>3. Childless({f.id}) /\ ~ IsFork(f.id)
  BY <1>1, <1>2, LeafChildless
<1>4. Roots(f) = {f.id}
  BY DEF Roots
<1>5. Moved(t, l, f, {}, {f.id})
  BY <1>1, <1>3, <1>4, NothingMoved
<1>6. Writes(t, f)
  BY <1>1, NothingWritten
<1>7. TapesKept /\ DataOK'
  BY <1>1, TapesSame, DataKept
<1>8. OfrDone(f.id)'
  BY <1>3, SpansUnmoved DEF OfrDone
<1>9. WriteMarks(f, {}, {f.id})
  BY <1>8 DEF WriteMarks
<1>10. Advances(t, l, f, {}, {f.id})
  BY <1>1, <1>5, <1>6, <1>7, <1>9, NothingSupplied DEF Advances
<1>11. QED BY <1>10

LEMMA ReadLeafAdvances ==
  ASSUME Going, Unmoved, stage' = stage, NEW t, NEW l, NEW f, Runs(t, l, f), Narrows(t, f),
         f.call = "visit", ReadLeaf(t, f)
  PROVE  \E N, D : Advances(t, l, f, N, D)
<1>1. Made /\ StackInv /\ DataOK /\ stage = "read" /\ IsLeaf(f.id) /\ Becomes(t, <<>>)
      /\ space' = space /\ swo' = swo /\ ofr' = ofr /\ out' = Fill(out, Slice(f.id), f.id)
  BY DEF Going, ReadLeaf
<1>2. f.id \in Nodes
  BY DEF Runs, FrameOK, Work
<1>3. Childless({f.id})
  BY <1>1, <1>2, LeafChildless
<1>4. Roots(f) = {f.id}
  BY DEF Roots
<1>5. Moved(t, l, f, {}, {f.id})
  BY <1>1, <1>3, <1>4, NothingMoved
<1>6. Slice(f.id) \subseteq Span(0, shape.m * shape.k)
  BY <1>1, <1>2, MadeSlice
<1>7. DOMAIN out' = DOMAIN out /\ DOMAIN out = Span(0, shape.m * shape.k)
      /\ \A b \in DOMAIN out : out'[b] = IF b \in Slice(f.id) THEN f.id ELSE out[b]
  BY <1>1, FillIs DEF DataOK
<1>8. \A b \in Slice(f.id) : Covers(f, b)
  BY <1>4 DEF Covers
<1>9. Writes(t, f)
  BY <1>1, <1>7, <1>8 DEF Writes
<1>10. TapesKept /\ DataOK'
  BY <1>1, <1>7, TapesSame, DataKept
<1>11. Slice(f.id)' = Slice(f.id)
  BY NodesUnmoved
<1>12. OutDone(f.id)'
  <2>1. \A b \in Slice(f.id) : out'[b] = f.id
    BY <1>6, <1>7
  <2>2. QED BY <1>11, <2>1 DEF OutDone
<1>13. ReadMarks(f, {}, {f.id})
  BY <1>8, <1>12 DEF ReadMarks
<1>14. Advances(t, l, f, {}, {f.id})
  BY <1>1, <1>5, <1>9, <1>10, <1>13, NothingSupplied DEF Advances
<1>15. QED BY <1>14
LEMMA JoinAdvances ==
  ASSUME Going, Unmoved, stage' = stage, NEW t, NEW l, NEW f, Runs(t, l, f), Narrows(t, f), Join(t)
  PROVE  \E N, D : Advances(t, l, f, N, D)
<1>1. Made /\ StackInv /\ DataOK /\ stage \in {"write", "read"} /\ Becomes(t, <<>>) /\ f.call = "join"
      /\ space' = space /\ out' = out /\ swo' = swo /\ ofr' = ofr
  BY DEF Going, Join, Runs
<1>2. Roots(f) = {} /\ Childless({})
  BY <1>1 DEF Roots, Childless
<1>3. Moved(t, l, f, {}, {})
  BY <1>1, <1>2, NothingMoved
<1>4. Writes(t, f) /\ TapesKept /\ DataOK'
  BY <1>1, NothingWritten, TapesSame, DataKept
<1>5. WriteMarks(f, {}, {}) /\ ReadMarks(f, {}, {})
  BY DEF WriteMarks, ReadMarks
<1>6. QED BY <1>3, <1>4, <1>5, NothingSupplied DEF Advances

\* Parts of a call are no visits.
LEMMA PartingMarks ==
  ASSUME NEW t, NEW f, NEW N, Parting(t, N, f)
  PROVE  \A u \in Thread : \A i \in Nat, c \in Frame : <<u, i, c>> \in N => c.call # "visit"
BY DEF Parting, Part, Work

LEMMA SplitAdvances ==
  ASSUME Going, StackInv', Unmoved, stage' = stage, NEW t, NEW l, NEW f, Runs(t, l, f), Split(t)
  PROVE  \E N, D : Advances(t, l, f, N, D)
<1>1. Made /\ StackInv /\ NeedsMet /\ DataOK /\ stage \in {"write", "read"}
      /\ space' = space /\ out' = out /\ swo' = swo /\ ofr' = ofr
  BY DEF Going, Split
<1>2. PICK N : Moved(t, l, f, N, {}) /\ Parting(t, N, f)
  BY <1>1, SplitMoved
<1>3. Writes(t, f) /\ TapesKept /\ DataOK'
  BY <1>1, NothingWritten, TapesSame, DataKept
<1>4. Supplied(N)
  BY <1>1, <1>2, <1>3, PartingSupplied
<1>5. WriteMarks(f, N, {}) /\ ReadMarks(f, N, {})
  BY <1>2, PartingMarks DEF WriteMarks, ReadMarks
<1>6. Advances(t, l, f, N, {})
  BY <1>2, <1>3, <1>4, <1>5 DEF Advances
<1>7. QED BY <1>6
\* The visit of the first child of f.
VisitFor(v, f, input) ==
  /\ v \in Frame /\ v.call = "visit" /\ Work(v) /\ v.id = Child(f.id, f.first) /\ v.id \in Nodes
  /\ v.input = input /\ f.depth \in Nat /\ From(v) = f.depth + 1 /\ From(f) <= From(v)
  /\ ChildFits(f.id, v.id)

LEMMA VisitForIs ==
  ASSUME Made, NEW f \in Frame, FrameOK(f), f.call = "groups", NEW input \in InputRecord,
         NEW v, v = Visit(Child(f.id, f.first), input, f.depth + 1, Budget(f))
  PROVE  VisitFor(v, f, input)
<1>1. /\ f.id \in Nodes /\ f.first \in Nat /\ f.end \in Nat /\ f.first < f.end
      /\ f.first \in DOMAIN ChildrenOf(f.id) /\ Work(f)
  BY GroupsOf
<1>2. f.depth \in Nat /\ f.budget \in Nat
  BY <1>1, FrameFields
<1>3. PICK b : b = Child(f.id, f.first)
  OBVIOUS
<1>4. ChildFits(f.id, b)
  BY <1>1, <1>3, MadeChildFits
<1>5. b \in Nodes /\ b \in Nat
  BY <1>4, MadeNodes DEF ChildFits
<1>6. Budget(f) \in Nat
  BY <1>2 DEF Budget
<1>7. PICK d \in Nat : d = f.depth + 1
  BY <1>2
<1>8. PICK w \in Nat : w = Budget(f)
  BY <1>6
<1>9. v = Visit(b, input, d, w)
  BY <1>3, <1>7, <1>8
<1>10. IsVisit(v, b, input, d, w)
  BY <1>5, <1>9, VisitIs
<1>11. v \in Frame /\ v.call = "visit" /\ Work(v) /\ v.id = b /\ v.input = input /\ v.depth = d
  BY <1>10 DEF IsVisit
<1>12. From(v) = d
  BY <1>11 DEF From
<1>13. From(f) <= d
  BY <1>2, <1>7 DEF From
<1>14. QED BY <1>2, <1>3, <1>4, <1>5, <1>7, <1>11, <1>12, <1>13 DEF VisitFor

LEMMA EdgeSupplied ==
  ASSUME Made, StackInv, StackInv', NeedsMet, Unmoved, NEW t, NEW l, NEW f, Runs(t, l, f),
         NEW N, Moved(t, l, f, N, {}), Writes(t, f), out' = out, NEW v, OrPart(t, N, v, f),
         \A i \in Nat : <<t, i, v>> \in N => Fed(t, v)
  PROVE  Supplied(N)
<1>1. SUFFICES ASSUME NEW u \in Thread, NEW i \in Nat, NEW c \in Frame, <<u, i, c>> \in N, Work(c),
                      NEW b, NEW x, Need(c, b, x)
               PROVE  Met(u, c, b, x)'
  BY DEF Supplied
<1>2. u = t /\ (c = v \/ Part(c, f))
  BY <1>1 DEF OrPart
<1>3. CASE c = v
  BY <1>1, <1>2, <1>3 DEF Fed
<1>4. CASE Part(c, f)
  BY <1>1, <1>2, <1>4, PartMet
<1>5. QED BY <1>2, <1>3, <1>4

LEMMA EdgeMarks ==
  ASSUME NEW t, NEW f, NEW N, NEW v, OrPart(t, N, v, f), stage = "write" => SwoDone(v.id)'
  PROVE  (stage = "write" => WriteMarks(f, N, {})) /\ ReadMarks(f, N, {})
<1>1. \A u \in Thread : \A i \in Nat, c \in Frame : <<u, i, c>> \in N /\ c.call = "visit" => c = v
  BY DEF OrPart, Part
<1>2. ASSUME stage = "write" PROVE WriteMarks(f, N, {})
  BY <1>1, <1>2 DEF WriteMarks
<1>3. QED BY <1>2 DEF ReadMarks

\* The child of a fork takes over what the fork's call needed for it.
LEMMA ForkEdgeFeeds ==
  ASSUME Made, StackInv, StackInv', NeedsMet, Unmoved, NEW t, NEW l, NEW f, Runs(t, l, f),
         f.call = "groups", IsFork(f.id), NEW N, Moved(t, l, f, N, {}), Writes(t, f), out' = out,
         NEW v, VisitFor(v, f, IF stage = "read" THEN Output ELSE Buffer(f.home, f.depth, Side(f.first))),
         NEW i \in Nat, <<t, i, v>> \in N
  PROVE  Fed(t, v)
<1>1. t \in Thread /\ l \in Nat /\ f \in Frame /\ At(t, l, f) /\ Height(t, l) /\ FrameOK(f)
  BY DEF Runs
<1>2. Work(f) /\ f.first \in f.first .. f.end - 1
  BY <1>1, GroupsOf
<1>3. v \in Frame /\ v.call = "visit" /\ Work(v) /\ v.id = Child(f.id, f.first)
      /\ v.input = IF stage = "read" THEN Output ELSE Buffer(f.home, f.depth, Side(f.first))
  BY DEF VisitFor
<1>4. ASSUME NEW b, NEW x, Need(v, b, x) PROVE Met(t, v, b, x)'
  <2>1. b = v.input /\ x = v.id /\ (stage = "read" \/ ~ IsLeaf(v.id))
    BY <1>3, <1>4 DEF Need
  <2>2. Need(f, b, x)
    BY <1>2, <1>3, <2>1 DEF Need
  <2>3. Met(t, f, b, x)
    BY <1>1, <2>2 DEF NeedsMet
  <2>4. \A a \in Slice(x) : Covers(v, a)
    BY <1>3, <2>1 DEF Covers, Roots
  <2>5. Moves(t, l, N) /\ Keeps(t, N, f)
    BY DEF Moved
  <2>6. QED BY <1>1, <1>2, <1>3, <2>3, <2>4, <2>5, InheritedMet
<1>5. QED BY <1>4 DEF Fed

LEMMA ForkEdgeAdvances ==
  ASSUME Going, StackInv', Unmoved, stage' = stage, NEW t, NEW l, NEW f, Runs(t, l, f), Narrows(t, f),
         f.call = "groups", ForkEdge(t, f)
  PROVE  \E N, D : Advances(t, l, f, N, D)
<1>1. Made /\ StackInv /\ NeedsMet /\ DataOK /\ stage \in {"write", "read"} /\ IsFork(f.id)
      /\ space' = space /\ out' = out /\ swo' = swo /\ ofr' = ofr
  BY DEF Going, ForkEdge
<1>2. f \in Frame /\ FrameOK(f) /\ t \in Thread
  BY DEF Runs
<1>3. PICK input : input = IF stage = "read" THEN Output ELSE Buffer(f.home, f.depth, Side(f.first))
  OBVIOUS
<1>4. input \in InputRecord
  <2>1. f.home \in Thread /\ f.depth \in Nat
    BY <1>2, FrameFields DEF FrameOK, Work
  <2>2. Side(f.first) \in {"left", "right", "child"}
    BY DEF Side
  <2>3. Buffer(f.home, f.depth, Side(f.first)) \in InputRecord
    BY <2>1, <2>2, BufferIs
  <2>4. QED BY <1>3, <2>3 DEF InputRecord
<1>5. PICK v : v = Visit(Child(f.id, f.first), input, f.depth + 1, Budget(f))
  OBVIOUS
<1>6. VisitFor(v, f, input)
  BY <1>1, <1>2, <1>4, <1>5, VisitForIs
<1>7. Becomes(t, Append(Rest(f), v))
  BY <1>3, <1>5 DEF ForkEdge, Child
<1>8. v \in Frame /\ v.call = "visit" /\ v.id = Child(f.id, f.first) /\ From(f) <= From(v)
      /\ v.id \in Nodes /\ ChildFits(f.id, v.id)
  BY <1>6 DEF VisitFor
<1>9. PICK N : Moved(t, l, f, N, {}) /\ OrPart(t, N, v, f)
  BY <1>1, <1>7, <1>8, EdgeMoved
<1>10. Writes(t, f) /\ TapesKept /\ DataOK'
  BY <1>1, NothingWritten, TapesSame, DataKept
<1>11. \A i \in Nat : <<t, i, v>> \in N => Fed(t, v)
  BY <1>1, <1>3, <1>6, <1>9, <1>10, ForkEdgeFeeds
<1>12. Supplied(N)
  BY <1>1, <1>9, <1>10, <1>11, EdgeSupplied
<1>13. SwoDone(v.id)'
  <2>1. ~ Node(v.id).filter
    BY <1>1, <1>8 DEF ChildFits
  <2>2. SwoSpan(v.id) = {}
    BY <1>1, <1>8, <2>1, MadeEdgeSpans
  <2>3. QED BY <2>2, SpansUnmoved DEF SwoDone
<1>14. (stage = "write" => WriteMarks(f, N, {})) /\ ReadMarks(f, N, {})
  BY <1>9, <1>13, EdgeMarks
<1>15. Advances(t, l, f, N, {})
  BY <1>9, <1>10, <1>12, <1>14 DEF Advances
<1>16. QED BY <1>15
\* What a branch of a filter writes for the child x, b being its buffer.
FilterWrites(t, f, b, x) ==
  /\ x = Child(f.id, f.first)
  /\ b \in Buffers /\ b.at = "space" /\ b.thread = t /\ b.depth = f.depth /\ f.depth \in Nat
  /\ space'[b] = x
  /\ Writes(t, f) /\ TapesKept /\ DataOK'
  /\ stage = "write" => SwoDone(x)'

LEMMA FilterEdgeWrites ==
  ASSUME Going, Unmoved, stage' = stage, NEW t, NEW l, NEW f, Runs(t, l, f),
         f.call = "groups", FilterEdge(t, f), NEW b, b = Buffer(t, f.depth, "child"),
         NEW child, child = Child(f.id, f.first)
  PROVE  FilterWrites(t, f, b, child)
<1>1. Made /\ DataOK /\ stage \in {"write", "read"} /\ ~ IsFork(f.id) /\ ofr' = ofr /\ out' = out
  BY DEF Going, FilterEdge
<1>2. t \in Thread /\ f \in Frame /\ FrameOK(f)
  BY DEF Runs
<1>3. /\ f.id \in Nodes /\ Work(f) /\ ~ IsLeaf(f.id) /\ f.first \in DOMAIN ChildrenOf(f.id)
  BY <1>1, <1>2, GroupsOf
<1>4. f.depth \in Depth /\ f.depth \in Nat
  BY <1>1, <1>2, <1>3, DepthFits, FrameFields
<1>5. b \in Buffers /\ b.at = "space" /\ b.thread = t /\ b.depth = f.depth
  BY <1>2, <1>4, BufferAt
<1>7. child \in Nodes
  BY <1>1, <1>3, MadeChildFits DEF ChildFits
<1>8. space' = Fill(space, {b}, child)
  BY DEF FilterEdge, Workspace, Child
<1>9. DOMAIN space = Buffers /\ DOMAIN swo = Span(0, plan.swo)
  BY <1>1 DEF DataOK
<1>10. DOMAIN space' = DOMAIN space
       /\ \A a \in Buffers : space'[a] = IF a \in {b} THEN child ELSE space[a]
  BY <1>8, <1>9, FillIs
<1>11. space'[b] = child
  BY <1>5, <1>10
<1>12. From(f) = f.depth
  BY <1>1 DEF From
<1>13. Writes(t, f)
  BY <1>1, <1>3, <1>5, <1>10, <1>12 DEF Writes
<1>14. TapesKept /\ (stage = "write" => SwoDone(child)') /\ DOMAIN swo' = DOMAIN swo
  <2>1. CASE stage = "write"
    <3>1. swo' = Fill(swo, SwoSpan(child), child)
      BY <2>1 DEF FilterEdge, Child
    <3>2. QED BY <1>1, <1>7, <1>9, <3>1, SwoFilled
  <2>2. CASE stage # "write"
    <3>1. swo' = swo
      BY <2>2 DEF FilterEdge
    <3>2. QED BY <1>1, <2>2, <3>1, TapesSame
  <2>3. QED BY <2>1, <2>2
<1>15. DataOK'
  <2>1. DOMAIN out' = DOMAIN out /\ DOMAIN ofr' = DOMAIN ofr /\ stage # "plan"
    BY <1>1
  <2>2. QED BY <1>1, <1>10, <1>14, <2>1, DataKept
<1>16. QED BY <1>4, <1>5, <1>11, <1>13, <1>14, <1>15 DEF FilterWrites

LEMMA FilterEdgeFeeds ==
  ASSUME Unmoved, NEW t, NEW f, NEW b, NEW x, FilterWrites(t, f, b, x), NEW v, VisitFor(v, f, b)
  PROVE  Fed(t, v)
<1>1. v.call = "visit" /\ v.input = b /\ v.id = Child(f.id, f.first) /\ v.id \in Nodes
      /\ f.depth \in Nat /\ From(v) = f.depth + 1
  BY DEF VisitFor
<1>2. b \in Buffers /\ b.at = "space" /\ b.thread = t /\ b.depth = f.depth /\ space'[b] = v.id
  BY <1>1 DEF FilterWrites
<1>3. b.depth < From(v)
  BY <1>1, <1>2
<1>4. Met(t, v, b, v.id)'
  BY <1>1, <1>2, <1>3, MetSpace
<1>5. ASSUME NEW c, NEW y, Need(v, c, y) PROVE c = b /\ y = v.id
  BY <1>1, <1>5 DEF Need
<1>6. QED BY <1>4, <1>5 DEF Fed

LEMMA FilterEdgeAdvances ==
  ASSUME Going, StackInv', Unmoved, stage' = stage, NEW t, NEW l, NEW f, Runs(t, l, f), Narrows(t, f),
         f.call = "groups", FilterEdge(t, f)
  PROVE  \E N, D : Advances(t, l, f, N, D)
<1>1. Made /\ StackInv /\ NeedsMet /\ stage \in {"write", "read"} /\ ~ IsFork(f.id) /\ out' = out
  BY DEF Going, FilterEdge
<1>2. t \in Thread /\ f \in Frame /\ FrameOK(f)
  BY DEF Runs
<1>3. PICK b : b = Buffer(t, f.depth, "child")
  OBVIOUS
<1>13. PICK x : x = Child(f.id, f.first)
  OBVIOUS
<1>4. FilterWrites(t, f, b, x)
  BY <1>3, <1>13, FilterEdgeWrites
<1>5. Writes(t, f) /\ TapesKept /\ DataOK' /\ b \in Buffers
      /\ (stage = "write" => SwoDone(x)')
  BY <1>4 DEF FilterWrites
<1>6. b \in InputRecord
  BY <1>1, <1>5, BufferFields DEF Made
<1>7. PICK v : v = Visit(Child(f.id, f.first), b, f.depth + 1, Budget(f))
  OBVIOUS
<1>8. VisitFor(v, f, b)
  BY <1>1, <1>2, <1>6, <1>7, VisitForIs
<1>9. v \in Frame /\ v.call = "visit" /\ v.id = Child(f.id, f.first) /\ From(f) <= From(v)
      /\ ChildFits(f.id, v.id) /\ v.id \in Nodes
  BY <1>8 DEF VisitFor
<1>10. CASE stage = "write" /\ Node(v.id).k = 1
  <2>1. Becomes(t, Rest(f))
    BY <1>9, <1>10 DEF FilterEdge, Child
  <2>2. IsLeaf(v.id)
    BY <1>1, <1>9, <1>10 DEF ChildFits
  <2>3. Childless({v.id}) /\ ~ IsFork(v.id)
    BY <1>1, <1>9, <2>2, LeafChildless
  <2>4. PICK N : Moved(t, l, f, N, {v.id}) /\ Parting(t, N, f)
    BY <1>1, <1>9, <2>1, <2>3, RestMoved
  <2>5. Supplied(N)
    BY <1>1, <1>5, <2>4, PartingSupplied
  <2>6. OfrDone(v.id)'
    BY <2>3, SpansUnmoved DEF OfrDone
  <2>7. v.id = x /\ SwoDone(x)'
    BY <1>5, <1>9, <1>10, <1>13
  <2>8. WriteMarks(f, N, {v.id})
    BY <2>4, <2>6, <2>7, PartingMarks DEF WriteMarks
  <2>9. stage # "read"
    BY <1>10
  <2>10. Advances(t, l, f, N, {v.id})
    BY <1>5, <2>4, <2>5, <2>8, <2>9 DEF Advances
  <2>11. QED BY <2>10
<1>11. CASE ~ (stage = "write" /\ Node(v.id).k = 1)
  <2>1. Becomes(t, Append(Rest(f), v))
    BY <1>3, <1>7, <1>9, <1>11 DEF FilterEdge, Workspace, Child
  <2>2. PICK N : Moved(t, l, f, N, {}) /\ OrPart(t, N, v, f)
    BY <1>1, <1>9, <2>1, EdgeMoved
  <2>3. Fed(t, v)
    BY <1>4, <1>8, FilterEdgeFeeds
  <2>4. Supplied(N)
    BY <1>1, <1>5, <2>2, <2>3, EdgeSupplied
  <2>5. v.id = x /\ (stage = "write" => SwoDone(x)')
    BY <1>5, <1>9, <1>13
  <2>6. (stage = "write" => WriteMarks(f, N, {})) /\ ReadMarks(f, N, {})
    BY <2>2, <2>5, EdgeMarks
  <2>7. Advances(t, l, f, N, {})
    BY <1>5, <2>2, <2>4, <2>6 DEF Advances
  <2>8. QED BY <2>7
<1>12. QED BY <1>10, <1>11

\* Every step of a thread advances.
LEMMA EveryStepAdvances ==
  ASSUME RunInv, RunInv', Going, NEW t, Step(t)
  PROVE  \E l, f, N, D : Runs(t, l, f) /\ Advances(t, l, f, N, D)
<1>1. t \in Thread /\ Busy(t) /\ Unmoved /\ stage' = stage
  BY StepUnmoved
<1>2. Made /\ StackInv /\ StackInv'
  BY DEF Going, RunInv
<1>3. PICK l, f : Runs(t, l, f)
  BY <1>1, <1>2, BusyRuns
<1>4. f = Top(t)
  BY <1>3 DEF Runs
<1>5. CASE VisitNode(t)
  <2>1. Narrows(t, f)
    BY <1>1, <1>2, <1>3, <1>5, VisitFits, FitsNarrows
  <2>2. f.call = "visit"
    BY <1>4, <1>5 DEF VisitNode
  <2>3. WriteFork(t, f) \/ ReadFork(t, f) \/ ReadLeaf(t, f) \/ WriteLeaf(t, f) \/ Filter(t, f)
    BY <1>4, <1>5 DEF VisitNode
  <2>4. \E N, D : Advances(t, l, f, N, D)
    BY <1>1, <1>2, <1>3, <2>1, <2>2, <2>3, WriteForkAdvances, ReadForkAdvances, ReadLeafAdvances,
       WriteLeafAdvances, FilterAdvances
  <2>5. QED BY <1>3, <2>4
<1>6. CASE RunChild(t)
  <2>1. Narrows(t, f)
    BY <1>1, <1>2, <1>3, <1>6, ChildFitsIn, FitsNarrows
  <2>2. f.call = "groups"
    BY <1>4, <1>6 DEF RunChild, InGroups
  <2>3. ForkEdge(t, f) \/ FilterEdge(t, f)
    BY <1>4, <1>6 DEF RunChild
  <2>4. \E N, D : Advances(t, l, f, N, D)
    BY <1>1, <1>2, <1>3, <2>1, <2>2, <2>3, ForkEdgeAdvances, FilterEdgeAdvances
  <2>5. QED BY <1>3, <2>4
<1>7. CASE Split(t)
  <2>1. \E N, D : Advances(t, l, f, N, D)
    BY <1>1, <1>2, <1>3, <1>7, SplitAdvances
  <2>2. QED BY <1>3, <2>1
<1>8. CASE Join(t)
  <2>1. Narrows(t, f)
    BY <1>1, <1>2, <1>3, <1>8, JoinFits, FitsNarrows
  <2>2. \E N, D : Advances(t, l, f, N, D)
    BY <1>1, <1>2, <1>3, <1>8, <2>1, JoinAdvances
  <2>3. QED BY <1>3, <2>2
<1>9. QED BY <1>5, <1>6, <1>7, <1>8 DEF Step
-----------------------------------------------------------------------------
(* The stages, and what is done by their ends.                              *)

TapesInv == \A a \in Nodes : OfrDone(a) /\ SwoDone(a)

\* What holds of every state.
WholeInv ==
  /\ RunInv /\ AreasApart /\ NeedsMet /\ DataOK
  /\ stage # "plan" => \E V : Progress(V)
  /\ stage \in {"read", "done"} => TapesInv

LEMMA IdleNobody ==
  ASSUME Idle
  PROVE  /\ AreasApart /\ NeedsMet
         /\ \A x : ~ Active(x)
         /\ \A u \in Thread : \A i \in Nat, c \in Frame : ~ At(u, i, c)
<1>1. \A u \in Thread : \A i \in Nat, c \in Frame : ~ At(u, i, c)
  BY DEF Idle, At
<1>2. QED BY <1>1 DEF AreasApart, NeedsMet, Active

LEMMA IdleNobodyNext ==
  ASSUME Idle'
  PROVE  AreasApart' /\ NeedsMet'
<1>1. \A u \in Thread' : \A i \in Nat, c \in Frame : ~ At(u, i, c)'
  BY DEF Idle, At
<1>2. QED BY <1>1 DEF AreasApart, NeedsMet

\* When nobody is at work any more, all is visited.
LEMMA AllVisited ==
  ASSUME Made, Idle, NEW V, Connected(V)
  PROVE  V = Nodes
<1>1. \A x : ~ Active(x)
  BY IdleNobody
<1>2. SUFFICES ASSUME Nodes \ V # {} PROVE FALSE
  BY DEF Connected
<1>3. Nodes \subseteq Nat \ {0} /\ 1 \in V
  BY <1>1, MadeNodes DEF Connected
<1>4. PICK n \in Nodes \ V : \A j \in Nodes \ V : n <= j
  <2>1. Nodes \ V \subseteq Nat
    BY <1>3
  <2>2. QED BY <1>2, <2>1, LeastNumber
<1>5. n # 1
  BY <1>3, <1>4
<1>6. PICK a \in Nodes : \E i \in DOMAIN ChildrenOf(a) : Child(a, i) = n
  BY <1>4, <1>5, MadeParent
<1>7. a < n
  BY <1>6, MadeChildFits DEF ChildFits
<1>8. a \in V
  BY <1>3, <1>4, <1>6, <1>7
<1>9. n \in V \/ Active(n)
  BY <1>6, <1>8 DEF Connected
<1>10. QED BY <1>1, <1>4, <1>9

\* The root finds its input, and nobody else is there.
LEMMA EnterNeeds ==
  ASSUME Made, Unmoved, AtRoot
  PROVE  AreasApart' /\ NeedsMet'
<1>1. Thread' = Thread /\ Nodes' = Nodes
  BY NodesUnmoved
<1>2. AreasApart'
  <2>1. \A u, v \in Thread : \A i, j \in Nat : \A c, d \in Frame :
          At(u, i, c)' /\ At(v, j, d)' => u = v /\ i = j
    BY DEF AtRoot
  <2>2. QED BY <1>1, <2>1 DEF AreasApart
<1>3. ASSUME NEW u \in Thread, NEW i \in Nat, NEW c \in Frame, At(u, i, c)', NEW b, NEW x, Need(c, b, x)'
      PROVE  Met(u, c, b, x)'
  <2>1. c = RootVisit
    BY <1>3 DEF AtRoot
  <2>2. c.call = "visit" /\ c.id = 1 /\ c.input = Root
    BY <2>1, RootVisitIs DEF IsVisit
  <2>3. b = Root /\ x = 1
    BY <1>3, <2>2 DEF Need
  <2>4. Root.at = "root"
    BY DEF Root
  <2>5. Holds(b, x)'
    BY <2>3, <2>4 DEF Holds
  <2>6. x \in Nodes
    BY <2>3, MadeNodes
  <2>7. QED BY <1>1, <2>3, <2>4, <2>5, <2>6 DEF Met
<1>4. NeedsMet'
  BY <1>1, <1>3 DEF NeedsMet
<1>5. QED BY <1>2, <1>4

LEMMA EnterProgress ==
  ASSUME Made, StackTypes, Unmoved, Entered, AtRoot
  PROVE  Progress({})'
<1>1. Thread' = Thread /\ Nodes' = Nodes
  BY NodesUnmoved
<1>2. PICK v : v = RootVisit
  OBVIOUS
<1>3. v \in Frame /\ v.call = "visit" /\ v.id = 1 /\ 0 \in Thread
  BY <1>2, RootVisitIs DEF IsVisit
<1>4. At(0, 1, v)'
  <2>1. stack'[0] = <<v>>
    BY <1>2, <1>3 DEF Entered, StackTypes
  <2>2. QED BY <2>1 DEF At
<1>5. Active(1)'
  <2>1. 1 \in Roots(v)
    BY <1>3 DEF Roots
  <2>2. Roots(v)' = Roots(v)
    BY AreaUnmoved
  <2>3. QED BY <1>1, <1>3, <1>4, <2>1, <2>2 DEF Active
<1>6. Connected({})'
  BY <1>5 DEF Connected
<1>7. TapesDone({})'
  <2>1. SwoSpan(1) = {} /\ SwoSpan(1)' = SwoSpan(1)
    BY MadeNodes, MadeEdgeSpans, SpansUnmoved
  <2>2. SwoDone(1)'
    BY <2>1 DEF SwoDone
  <2>3. \A u \in Thread : \A i \in Nat, c \in Frame : At(u, i, c)' => c = v
    BY <1>2 DEF AtRoot
  <2>4. QED BY <1>1, <1>3, <2>2, <2>3 DEF TapesDone
<1>8. LeavesDone({})'
  BY DEF LeavesDone
<1>9. QED BY <1>6, <1>7, <1>8 DEF Progress

LEMMA EnterWhole ==
  ASSUME Made, StackTypes, Idle, Entered, Unmoved
  PROVE  AreasApart' /\ NeedsMet' /\ \E V : Progress(V)'
<1>1. AtRoot
  BY EnterStack
<1>2. QED BY <1>1, EnterNeeds, EnterProgress

LEMMA StageWhole ==
  ASSUME WholeInv, RunInv', NextStage
  PROVE  WholeInv'
<1>1. RunInv /\ ShapeInv /\ PlanInv /\ StackTypes /\ StageInv /\ DataOK
  BY DEF WholeInv, RunInv, StackInv
<1>2. Unmoved /\ Idle /\ out' = out
  BY DEF NextStage, Unmoved, Idle, Busy
<1>3. Buffers' = Buffers /\ Nodes' = Nodes /\ Span(0, shape.m * shape.k)' = Span(0, shape.m * shape.k)
      /\ Span(0, plan.swo)' = Span(0, plan.swo) /\ Span(0, plan.ofr)' = Span(0, plan.ofr)
  BY <1>2 DEF Unmoved, Buffers, Thread, Depth, Nodes, Span
<1>4. CASE stage = "plan" /\ stage' = "write"
  <2>1. todo = <<>> /\ Enter("write") /\ swo' = [i \in Span(0, plan.swo) |-> 0]
        /\ ofr' = [i \in Span(0, plan.ofr) |-> 0]
    BY <1>4 DEF NextStage, Enter
  <2>2. Made /\ Entered /\ space' = NoSpace
    BY <1>1, <2>1 DEF Made, Enter, Entered, RootVisit
  <2>3. AreasApart' /\ NeedsMet' /\ \E V : Progress(V)'
    BY <1>1, <1>2, <2>2, EnterWhole
  <2>4. DOMAIN space' = Buffers
    BY <2>2 DEF NoSpace
  <2>5. DataOK'
    BY <1>1, <1>2, <1>3, <2>1, <2>4 DEF DataOK
  <2>6. QED BY <1>4, <2>3, <2>5 DEF WholeInv
<1>5. CASE stage = "write" /\ stage' = "read"
  <2>1. Enter("read") /\ swo' = swo /\ ofr' = ofr
    BY <1>5 DEF NextStage, Enter
  <2>2. Made /\ Entered /\ space' = NoSpace
    BY <1>1, <1>5, <2>1 DEF Made, Enter, Entered, RootVisit, StageInv
  <2>3. AreasApart' /\ NeedsMet' /\ \E V : Progress(V)'
    BY <1>1, <1>2, <2>2, EnterWhole
  <2>4. DOMAIN space' = Buffers
    BY <2>2 DEF NoSpace
  <2>5. DataOK'
    BY <1>1, <1>2, <1>3, <1>5, <2>1, <2>4 DEF DataOK
  <2>6. PICK V : Progress(V)
    BY <1>5 DEF WholeInv
  <2>7. V = Nodes
    BY <1>2, <2>2, <2>6, AllVisited DEF Progress
  <2>8. TapesInv
    BY <1>5, <2>6, <2>7 DEF Progress, TapesDone, TapesInv
  <2>9. TapesKept
    BY <1>2, <2>1, TapesSame
  <2>10. TapesInv'
    BY <1>3, <2>8, <2>9 DEF TapesInv, TapesKept
  <2>11. QED BY <1>5, <2>3, <2>5, <2>10 DEF WholeInv
<1>6. CASE stage = "read" /\ stage' = "done"
  <2>1. stack' = stack /\ space' = space /\ swo' = swo /\ ofr' = ofr
    BY <1>6 DEF NextStage, Enter
  <2>2. Idle'
    BY <1>2, <2>1, NodesUnmoved DEF Idle
  <2>3. AreasApart' /\ NeedsMet'
    BY <2>2, IdleNobodyNext
  <2>4. DataOK'
    BY <1>1, <1>2, <1>3, <1>6, <2>1 DEF DataOK
  <2>5. TapesInv'
    <3>1. TapesInv
      BY <1>6 DEF WholeInv
    <3>2. TapesKept
      BY <1>2, <2>1, TapesSame
    <3>3. QED BY <1>3, <3>1, <3>2 DEF TapesInv, TapesKept
  <2>6. PICK V : Progress(V)
    BY <1>6 DEF WholeInv
  <2>7. Connected(V)'
    <3>1. \A x : Active(x)' = Active(x)
      <4>1. \A c : Roots(c)' = Roots(c)
        BY <1>2, AreaUnmoved
      <4>2. \A u, i, c : At(u, i, c)' = At(u, i, c)
        BY <2>1 DEF At
      <4>3. QED BY <1>2, <4>1, <4>2, NodesUnmoved DEF Active
    <3>2. Connected(V)
      BY <2>6 DEF Progress
    <3>3. QED BY <1>2, <3>1, <3>2, NodesUnmoved DEF Connected
  <2>8. LeavesDone(V)'
    <3>1. LeavesDone(V)
      BY <1>6, <2>6 DEF Progress
    <3>2. \A a : (Free(a) => Free(a)') /\ OutDone(a)' = OutDone(a)
      <4>1. \A u, i, c : At(u, i, c)' = At(u, i, c)
        BY <2>1 DEF At
      <4>2. \A c, a : Clear(c, a)' = Clear(c, a)
        BY <1>2, ClearUnmoved
      <4>3. QED BY <1>2, <4>1, <4>2, NodesUnmoved DEF Free, OutDone
    <3>3. QED BY <1>2, <3>1, <3>2, NodesUnmoved DEF LeavesDone
  <2>9. Progress(V)'
    BY <1>6, <2>7, <2>8 DEF Progress
  <2>10. QED BY <1>6, <2>3, <2>4, <2>5, <2>9 DEF WholeInv
<1>7. QED BY <1>1, <1>4, <1>5, <1>6 DEF NextStage, Enter
LEMMA PlanNodeWhole ==
  ASSUME WholeInv, RunInv', PlanNode
  PROVE  WholeInv'
<1>1. StageInv /\ DataOK
  BY DEF WholeInv, RunInv
<1>2. stage = "plan" /\ stage' = stage /\ stack' = stack /\ shape' = shape /\ space' = space /\ out' = out
  BY DEF PlanNode
<1>3. Idle'
  BY <1>1, <1>2 DEF StageInv, Idle, Thread
<1>4. AreasApart' /\ NeedsMet'
  BY <1>3, IdleNobodyNext
<1>5. Buffers' = Buffers /\ Span(0, shape.m * shape.k)' = Span(0, shape.m * shape.k)
  BY <1>2 DEF Buffers, Thread, Depth, Span
<1>6. DataOK'
  BY <1>1, <1>2, <1>5 DEF DataOK
<1>7. QED BY <1>2, <1>4, <1>6 DEF WholeInv

LEMMA StepWhole ==
  ASSUME WholeInv, RunInv', NEW t, Step(t)
  PROVE  WholeInv'
<1>1. t \in Thread /\ Busy(t) /\ Unmoved /\ stage' = stage
  BY StepUnmoved
<1>2. RunInv /\ AreasApart /\ NeedsMet /\ DataOK
  BY DEF WholeInv
<1>3. Made /\ stage \in {"write", "read"}
  BY <1>1, <1>2, BusyMade
<1>4. Going
  BY <1>2, <1>3 DEF Going, RunInv
<1>5. PICK l, f, N, D : Runs(t, l, f) /\ Advances(t, l, f, N, D)
  BY <1>2, <1>4, EveryStepAdvances
<1>6. PICK V : Progress(V)
  BY <1>3 DEF WholeInv
<1>7. AreasApart' /\ NeedsMet' /\ DataOK' /\ Progress(V \cup D)'
  BY <1>1, <1>4, <1>5, <1>6, StepAdvances
<1>8. \E W : Progress(W)'
  <2>1. PICK W : W = V \cup D
    OBVIOUS
  <2>2. QED BY <1>7, <2>1
<1>9. stage' \in {"read", "done"} => TapesInv'
  <2>1. stage' \in {"read", "done"} => TapesInv
    BY <1>1 DEF WholeInv
  <2>2. TapesKept
    BY <1>5 DEF Advances
  <2>3. Nodes' = Nodes
    BY <1>1, NodesUnmoved
  <2>4. QED BY <2>1, <2>2, <2>3 DEF TapesInv, TapesKept
<1>10. QED BY <1>7, <1>8, <1>9 DEF WholeInv

LEMMA StutterWhole ==
  ASSUME WholeInv, RunInv', UNCHANGED vars
  PROVE  WholeInv'
<1>1. /\ Unmoved /\ stage' = stage /\ stack' = stack /\ space' = space /\ out' = out
      /\ swo' = swo /\ ofr' = ofr
  BY DEF vars, Unmoved
<1>2. \A u, i, c : At(u, i, c)' = At(u, i, c) /\ IsTop(u, c)' = IsTop(u, c)
  BY <1>1 DEF At, IsTop, Busy, Top
<1>3. Thread' = Thread /\ Nodes' = Nodes /\ Buffers' = Buffers
  BY <1>1, NodesUnmoved DEF Unmoved, Buffers, Thread, Depth
<1>4. AreasApart'
  <2>1. \A c, d : Apart(c, d)' = Apart(c, d)
    BY <1>1, AreaUnmoved
  <2>2. QED BY <1>2, <1>3, <2>1 DEF WholeInv, AreasApart
<1>5. \A u, c, b, x : Met(u, c, b, x)' = Met(u, c, b, x)
  <2>1. TAKE u, c, b, x
  <2>2. \A h : Inside(h)' = Inside(h)
    BY <1>2, <1>3 DEF Inside
  <2>3. Safe(u, c, b)' = Safe(u, c, b)
    <3>1. \A d : From(d)' = From(d)
      BY <1>1, FrameUnmoved
    <3>2. QED BY <1>2, <1>3, <2>2, <3>1 DEF Safe
  <2>4. Slice(x)' = Slice(x) /\ (IsFork(x) \/ IsLeaf(x))' = (IsFork(x) \/ IsLeaf(x))
    BY <1>1 DEF Unmoved, Slice, Span, IsFork, IsLeaf, Node
  <2>5. Holds(b, x)' = Holds(b, x)
    BY <1>1, <2>4 DEF Holds
  <2>6. \A a : Covers(c, a)' = Covers(c, a)
    BY <1>1, AreaUnmoved
  <2>7. QED BY <1>3, <2>3, <2>4, <2>5, <2>6 DEF Met
<1>6. NeedsMet'
  <2>1. \A c, b, x : Need(c, b, x)' = Need(c, b, x)
    BY <1>1, NeedUnmoved
  <2>2. QED BY <1>2, <1>3, <1>5, <2>1 DEF WholeInv, NeedsMet
<1>7. DataOK'
  <2>1. Span(0, shape.m * shape.k)' = Span(0, shape.m * shape.k)
        /\ Span(0, plan.swo)' = Span(0, plan.swo) /\ Span(0, plan.ofr)' = Span(0, plan.ofr)
    BY <1>1 DEF Unmoved, Span
  <2>2. QED BY <1>1, <1>3, <2>1 DEF WholeInv, DataOK
<1>8. /\ \A a : OfrDone(a)' = OfrDone(a) /\ SwoDone(a)' = SwoDone(a) /\ OutDone(a)' = OutDone(a)
      /\ \A a : Free(a)' = Free(a)
      /\ \A x : Active(x)' = Active(x)
  <2>1. \A a : /\ OfrSpan(a)' = OfrSpan(a) /\ SwoSpan(a)' = SwoSpan(a) /\ IsFork(a)' = IsFork(a)
               /\ Slice(a)' = Slice(a)
    BY <1>1, SpansUnmoved, NodesUnmoved
  <2>2. \A a : OfrDone(a)' = OfrDone(a) /\ SwoDone(a)' = SwoDone(a) /\ OutDone(a)' = OutDone(a)
    BY <1>1, <2>1 DEF OfrDone, SwoDone, OutDone
  <2>3. \A a : Free(a)' = Free(a)
    <3>1. \A c, a : Clear(c, a)' = Clear(c, a)
      BY <1>1, ClearUnmoved
    <3>2. QED BY <1>2, <1>3, <3>1 DEF Free
  <2>4. \A x : Active(x)' = Active(x)
    <3>1. \A c : Roots(c)' = Roots(c)
      BY <1>1, AreaUnmoved
    <3>2. QED BY <1>2, <1>3, <3>1 DEF Active
  <2>5. QED BY <2>2, <2>3, <2>4
<1>9. ASSUME NEW V, Progress(V) PROVE Progress(V)'
  <2>1. Connected(V) => Connected(V)'
    BY <1>1, <1>3, <1>8, NodesUnmoved DEF Connected
  <2>2. TapesDone(V) => TapesDone(V)'
    BY <1>2, <1>3, <1>8 DEF TapesDone
  <2>3. LeavesDone(V) => LeavesDone(V)'
    BY <1>1, <1>8, NodesUnmoved DEF LeavesDone
  <2>4. QED BY <1>1, <1>9, <2>1, <2>2, <2>3 DEF Progress
<1>10. stage' \in {"read", "done"} => TapesInv'
  BY <1>1, <1>3, <1>8 DEF WholeInv, TapesInv
<1>11. QED BY <1>1, <1>4, <1>6, <1>7, <1>9, <1>10 DEF WholeInv

LEMMA WholeInvInit ==
  ASSUME Init
  PROVE  WholeInv
<1>1. RunInv
  BY RunInvInit
<1>2. stage = "plan" /\ space = NoSpace /\ out = [b \in Span(0, shape.m * shape.k) |-> 0]
  BY DEF Init
<1>3. Idle
  BY <1>1, <1>2 DEF RunInv, StageInv
<1>4. AreasApart /\ NeedsMet
  BY <1>3, IdleNobody
<1>5. DataOK
  BY <1>2 DEF DataOK, NoSpace
<1>6. QED BY <1>1, <1>2, <1>4, <1>5 DEF WholeInv

LEMMA WholeInvStep ==
  ASSUME WholeInv, [Next]_vars
  PROVE  WholeInv'
<1>1. RunInv'
  BY RunInvStep DEF WholeInv
<1>2. CASE PlanNode
  BY <1>1, <1>2, PlanNodeWhole
<1>3. CASE NextStage
  BY <1>1, <1>3, StageWhole
<1>4. ASSUME NEW t, Step(t) PROVE WholeInv'
  BY <1>1, <1>4, StepWhole
<1>5. CASE UNCHANGED vars
  BY <1>1, <1>5, StutterWhole
<1>6. QED BY <1>2, <1>3, <1>4, <1>5 DEF Next

\* What holds of every state of the writer and the reader: besides RunInv, the calls
\* have disjoint parts of the output to fill, each finds the inputs it still needs where
\* no other call writes, and of the nodes that no call is to visit any more all is written.
THEOREM WholeInvariant == Spec => []WholeInv
<1>1. Init => WholeInv
  BY WholeInvInit
<1>2. WholeInv /\ [Next]_vars => WholeInv'
  BY WholeInvStep
<1>3. QED BY <1>1, <1>2, PTL DEF Spec

LEMMA InputIntactNow ==
  ASSUME WholeInv
  PROVE  InputIntact
<1>1. RunInv /\ NeedsMet /\ StackInv
  BY DEF WholeInv, RunInv
<1>2. ASSUME NEW t \in Thread, NEW c \in Calls(t)
      PROVE  /\ c.call = "groups" => c.depth \in Depth
             /\ c.call = "visit" /\ (stage = "read" \/ ~ IsLeaf(c.id)) => Holds(c.input, c.id)
             /\ c.call = "groups" /\ ~ IsFork(c.id) => Holds(c.input, c.id)
             /\ c.call = "groups" /\ IsFork(c.id) =>
                  \A i \in c.first .. c.end - 1 :
                    IF stage = "read" THEN Holds(Output, Child(c.id, i))
                    ELSE IsLeaf(Child(c.id, i)) \/ Holds(Buffer(c.home, c.depth, Side(i)), Child(c.id, i))
  <2>1. PICK i \in DOMAIN stack[t] : c = stack[t][i]
    BY <1>2 DEF Calls
  <2>2. stack[t] \in Seq(Frame)
    BY <1>1 DEF StackInv, StackTypes
  <2>3. i \in Nat /\ c \in Frame /\ At(t, i, c) /\ Busy(t)
    BY <2>1, <2>2 DEF At, Busy
  <2>4. Made /\ FrameOK(c)
    BY <1>1, <2>3, BusyMade DEF StackInv, FramesOK
  <2>5. \A b, x : Need(c, b, x) => Holds(b, x)
    BY <1>1, <2>3 DEF NeedsMet, Met
  <2>6. c.call = "groups" => c.depth \in Depth
    BY <2>3, <2>4, GroupsOf, DepthFits
  <2>7. c.call = "visit" /\ (stage = "read" \/ ~ IsLeaf(c.id)) => Holds(c.input, c.id)
    BY <2>5 DEF Need
  <2>8. c.call = "groups" /\ ~ IsFork(c.id) => Holds(c.input, c.id)
    BY <2>5 DEF Need
  <2>9. ASSUME c.call = "groups", IsFork(c.id), NEW j \in c.first .. c.end - 1
        PROVE  IF stage = "read" THEN Holds(Output, Child(c.id, j))
               ELSE IsLeaf(Child(c.id, j)) \/ Holds(Buffer(c.home, c.depth, Side(j)), Child(c.id, j))
    <3>1. PICK x : x = Child(c.id, j)
      OBVIOUS
    <3>2. stage = "read" => Need(c, Output, x)
      BY <2>9, <3>1 DEF Need
    <3>3. PICK b : b = Buffer(c.home, c.depth, Side(j))
      OBVIOUS
    <3>4. stage # "read" /\ ~ IsLeaf(x) => Need(c, b, x)
      BY <2>9, <3>1, <3>3 DEF Need
    <3>5. QED BY <2>5, <3>1, <3>2, <3>3, <3>4
  <2>10. QED BY <2>6, <2>7, <2>8, <2>9
<1>3. QED BY <1>2 DEF InputIntact, Child

\* Whoever still has to read an input finds it as it was made, and has its workspaces,
\* however the threads take turns (FFOS_FR.cpp:408-420 and 433-467, ParallelRead.tcc:52-82).
THEOREM InputIntactHolds == Spec => []InputIntact
<1>1. WholeInv => InputIntact
  BY InputIntactNow
<1>2. QED BY <1>1, WholeInvariant, PTL

LEMMA TapesCompleteNow ==
  ASSUME WholeInv
  PROVE  TapesComplete
<1>1. SUFFICES ASSUME stage \in {"read", "done"}
               PROVE  /\ \A id \in Nodes : /\ IsFork(id) => \A i \in OfrSpan(id) : ofr[i] = id
                                           /\ \A i \in SwoSpan(id) : swo[i] = id
                      /\ 0 \notin {swo[i] : i \in DOMAIN swo} \cup {ofr[i] : i \in DOMAIN ofr}
  BY DEF TapesComplete
<1>2. TapesInv /\ Made
  BY <1>1 DEF WholeInv, RunInv, StageInv, Made
<1>3. DOMAIN swo = Span(0, plan.swo) /\ DOMAIN ofr = Span(0, plan.ofr)
  BY <1>1 DEF WholeInv, DataOK
<1>4. Nodes \subseteq Nat \ {0}
  BY <1>2, MadeNodes
<1>5. ASSUME NEW i \in DOMAIN swo PROVE swo[i] # 0
  <2>1. PICK a \in Nodes : i \in SwoSpan(a)
    BY <1>2, <1>3, <1>5, MadeEdgeSpans
  <2>2. swo[i] = a
    BY <1>2, <2>1 DEF TapesInv, SwoDone
  <2>3. QED BY <1>4, <2>1, <2>2
<1>6. ASSUME NEW i \in DOMAIN ofr PROVE ofr[i] # 0
  <2>1. PICK a \in Nodes : IsFork(a) /\ i \in OfrSpan(a)
    BY <1>2, <1>3, <1>6, MadeForkSpans
  <2>2. ofr[i] = a
    BY <1>2, <2>1 DEF TapesInv, OfrDone
  <2>3. QED BY <1>4, <2>1, <2>2
<1>7. \A id \in Nodes : /\ IsFork(id) => \A i \in OfrSpan(id) : ofr[i] = id
                        /\ \A i \in SwoSpan(id) : swo[i] = id
  BY <1>2 DEF TapesInv, OfrDone, SwoDone
<1>8. QED BY <1>5, <1>6, <1>7

\* Once the writers have joined, every part of the tapes holds what the node that the
\* readers' plan gives it to has written, and nothing is unwritten.
THEOREM TapesCompleteHolds == Spec => []TapesComplete
<1>1. WholeInv => TapesComplete
  BY TapesCompleteNow
<1>2. QED BY <1>1, WholeInvariant, PTL

LEMMA SamplesDeliveredNow ==
  ASSUME WholeInv
  PROVE  SamplesDelivered
<1>1. SUFFICES ASSUME stage = "done", NEW j \in 0 .. shape.k - 1
               PROVE  \E id \in Nodes : /\ IsLeaf(id) /\ Slice(id) = Span(shape.m * j, shape.m)
                                        /\ \A b \in Slice(id) : out[b] = id
  BY DEF SamplesDelivered
<1>2. Made /\ Idle
  BY <1>1 DEF WholeInv, RunInv, StageInv, Made
<1>3. PICK V : Progress(V)
  BY <1>1 DEF WholeInv
<1>4. V = Nodes
  BY <1>2, <1>3, AllVisited DEF Progress
<1>5. PICK id \in Nodes : IsLeaf(id) /\ Slice(id) = Span(shape.m * j, shape.m)
  BY <1>1, <1>2, MadeLeaf
<1>6. OutDone(id)
  BY <1>1, <1>3, <1>4, <1>5 DEF Progress, LeavesDone
<1>7. QED BY <1>5, <1>6 DEF OutDone

\* When the readers have joined, every sample is in its place in the output, whatever
\* the plan, the frontier and the number of threads.
THEOREM SamplesDeliveredHolds == Spec => []SamplesDelivered
<1>1. WholeInv => SamplesDelivered
  BY SamplesDeliveredNow
<1>2. QED BY <1>1, WholeInvariant, PTL
-----------------------------------------------------------------------------
(* Definitions by recursion and loops.                                      *)

Positive == Nat \ {0}

\* The rule G looks at the values of smaller numbers only.
LooksBack(G, V) ==
  \A k \in Positive : \A g, h \in [Positive -> V] :
    (\A j \in 1 .. k - 1 : g[j] = h[j]) => G[<<k, g>>] = G[<<k, h>>]

\* g follows the rule G up to m.
Follows(g, G, m) == \A k \in 1 .. m : g[k] = G[<<k, g>>]

LEMMA FollowingAgree ==
  ASSUME NEW V, NEW G,
         LooksBack(G, V),
         NEW g \in [Positive -> V], NEW h \in [Positive -> V], NEW a \in Nat, NEW b \in Nat,
         Follows(g, G, a), Follows(h, G, b)
  PROVE  \A k \in Positive : k <= a /\ k <= b => g[k] = h[k]
<1> DEFINE bad == {k \in Nat : k >= 1 /\ k <= a /\ k <= b /\ g[k] # h[k]}
<1>1. SUFFICES ASSUME bad # {} PROVE FALSE
  BY DEF Positive
<1>2. PICK k \in bad : \A j \in bad : k <= j
  BY <1>1, LeastNumber
<1>3. k \in Nat /\ k \in 1 .. a /\ k \in 1 .. b /\ g[k] # h[k]
  OBVIOUS
<1>4. ASSUME NEW j \in 1 .. k - 1 PROVE g[j] = h[j]
  <2>1. j \in Nat /\ j >= 1 /\ j <= a /\ j <= b /\ ~ (k <= j)
    BY <1>3
  <2>2. j \notin bad
    BY <1>2, <2>1
  <2>3. QED BY <2>1, <2>2
<1>5. G[<<k, g>>] = G[<<k, h>>]
  BY <1>3, <1>4 DEF Positive, LooksBack
<1>6. g[k] = G[<<k, g>>] /\ h[k] = G[<<k, h>>]
  BY <1>3 DEF Follows
<1>7. QED BY <1>3, <1>5, <1>6

LEMMA FollowingExist ==
  ASSUME NEW V, NEW v \in V, NEW G \in [Positive \X [Positive -> V] -> V],
         LooksBack(G, V)
  PROVE  \A m \in Nat : \E g \in [Positive -> V] : Follows(g, G, m)
<1> DEFINE bad == {m \in Nat : ~ \E g \in [Positive -> V] : Follows(g, G, m)}
<1>1. SUFFICES ASSUME bad # {} PROVE FALSE
  OBVIOUS
<1>2. PICK m \in bad : \A k \in bad : m <= k
  BY <1>1, LeastNumber
<1>3. m # 0
  <2> DEFINE g == [k \in Positive |-> v]
  <2>1. g \in [Positive -> V] /\ \A k : k \notin 1 .. 0
    OBVIOUS
  <2> HIDE DEF g
  <2>2. Follows(g, G, 0)
    BY <2>1 DEF Follows
  <2>3. QED BY <2>1, <2>2
<1>4. m - 1 \in Nat /\ ~ (m <= m - 1) /\ m \in Positive
  BY <1>3 DEF Positive
<1>5. m - 1 \notin bad
  BY <1>2, <1>4
<1>6. PICK g \in [Positive -> V] : Follows(g, G, m - 1)
  BY <1>4, <1>5
<1> DEFINE h == [g EXCEPT ![m] = G[<<m, g>>]]
<1>7. h \in [Positive -> V] /\ h[m] = G[<<m, g>>] /\ \A k \in Positive : k # m => h[k] = g[k]
  <2>1. G[<<m, g>>] \in V
    BY <1>4
  <2>2. QED BY <1>4, <2>1
<1> HIDE DEF h
<1>8. \A k \in 1 .. m - 1 : k \in Positive /\ k # m /\ h[k] = g[k]
  BY <1>4, <1>7 DEF Positive
<1>9. ASSUME NEW k \in 1 .. m PROVE h[k] = G[<<k, h>>]
  <2>1. k \in Positive /\ \A j \in 1 .. k - 1 : j \in 1 .. m - 1
    BY <1>4 DEF Positive
  <2>2. G[<<k, g>>] = G[<<k, h>>]
    <3>1. \A j \in 1 .. k - 1 : g[j] = h[j]
      BY <1>8, <2>1
    <3>2. h \in [Positive -> V]
      BY <1>7
    <3>3. QED BY <2>1, <3>1, <3>2 DEF LooksBack
  <2>3. CASE k = m
    BY <1>7, <2>2, <2>3
  <2>4. CASE k # m
    <3>1. k \in 1 .. m - 1
      <4>1. m \in Nat /\ k \in Nat /\ k >= 1 /\ k <= m
        BY <1>4 DEF Positive
      <4>2. QED BY <2>4, <4>1
    <3>2. g[k] = G[<<k, g>>]
      BY <1>6, <3>1 DEF Follows
    <3>3. QED BY <1>8, <2>2, <3>1, <3>2
  <2>5. QED BY <2>3, <2>4
<1>10. Follows(h, G, m)
  BY <1>9 DEF Follows
<1>11. QED BY <1>2, <1>7, <1>10

\* A function of the positive numbers is defined by a rule that looks at smaller
\* numbers only.
LEMMA RecursionExists ==
  ASSUME NEW V, NEW v \in V, NEW G \in [Positive \X [Positive -> V] -> V],
         LooksBack(G, V)
  PROVE  \E f \in [Positive -> V] : \A k \in Positive : f[k] = G[<<k, f>>]
<1> DEFINE g(m) == CHOOSE g \in [Positive -> V] : Follows(g, G, m)
           f == [m \in Positive |-> g(m)[m]]
<1>1. \A m \in Nat : g(m) \in [Positive -> V] /\ Follows(g(m), G, m)
  BY FollowingExist
<1> HIDE DEF g
<1>2. f \in [Positive -> V] /\ \A m \in Positive : f[m] = g(m)[m]
  BY <1>1 DEF Positive
<1> HIDE DEF f
<1>3. ASSUME NEW k \in Positive PROVE f[k] = G[<<k, f>>]
  <2>1. k \in Nat /\ k \in 1 .. k
    BY DEF Positive
  <2>2. ASSUME NEW j \in 1 .. k - 1 PROVE g(k)[j] = f[j]
    <3>1. j \in Nat /\ j \in Positive /\ j <= j /\ j <= k
      BY <2>1 DEF Positive
    <3>2. PICK gk : gk = g(k)
      OBVIOUS
    <3>3. PICK gj : gj = g(j)
      OBVIOUS
    <3>4. /\ gk \in [Positive -> V] /\ Follows(gk, G, k)
          /\ gj \in [Positive -> V] /\ Follows(gj, G, j)
      BY <1>1, <2>1, <3>1, <3>2, <3>3
    <3>5. \A i \in Positive : i <= k /\ i <= j => gk[i] = gj[i]
      BY <2>1, <3>1, <3>4, FollowingAgree
    <3>6. g(k)[j] = g(j)[j]
      BY <3>1, <3>2, <3>3, <3>5
    <3>7. QED BY <1>2, <3>1, <3>6
  <2>3. G[<<k, g(k)>>] = G[<<k, f>>]
    BY <1>1, <1>2, <2>1, <2>2 DEF LooksBack
  <2>4. g(k)[k] = G[<<k, g(k)>>]
    BY <1>1, <2>1 DEF Follows
  <2>5. QED BY <1>2, <2>3, <2>4
<1>4. QED BY <1>2, <1>3

\* f goes through the N turns of a loop.
Turns(f, S, a, N, F) ==
  f \in [0 .. N -> S] /\ f[0] = a /\ \A i \in 1 .. N : f[i] = F[i][f[i - 1]]

LEMMA LoopExists ==
  ASSUME NEW S, NEW a \in S, NEW N \in Nat, NEW F \in [1 .. N -> [S -> S]]
  PROVE  \E f : Turns(f, S, a, N, F)
<1> DEFINE turn(k, g) == IF k - 1 \in 1 .. N THEN F[k - 1][g[k - 1]] ELSE a
           G == [x \in Positive \X [Positive -> S] |-> turn(x[1], x[2])]
<1>1. ASSUME NEW k \in Positive, NEW g \in [Positive -> S]
      PROVE  turn(k, g) \in S /\ G[<<k, g>>] = turn(k, g)
  <2>1. CASE k - 1 \in 1 .. N
    <3>1. k - 1 \in Positive
      BY <2>1 DEF Positive
    <3>2. g[k - 1] \in S /\ F[k - 1] \in [S -> S]
      BY <2>1, <3>1
    <3>3. QED BY <2>1, <3>2
  <2>2. CASE k - 1 \notin 1 .. N
    BY <2>2
  <2>3. QED BY <2>1, <2>2
<1>2. G \in [Positive \X [Positive -> S] -> S]
  <2>1. \A x \in Positive \X [Positive -> S] : x[1] \in Positive /\ x[2] \in [Positive -> S]
    OBVIOUS
  <2> HIDE DEF turn
  <2>2. \A x \in Positive \X [Positive -> S] : turn(x[1], x[2]) \in S
    BY <1>1, <2>1
  <2>3. QED BY <2>2
<1>3. ASSUME NEW k \in Positive, NEW g \in [Positive -> S], NEW h \in [Positive -> S],
             \A j \in 1 .. k - 1 : g[j] = h[j]
      PROVE  turn(k, g) = turn(k, h)
  <2>1. k - 1 \in 1 .. N => k - 1 \in 1 .. k - 1
    OBVIOUS
  <2>2. k - 1 \in 1 .. N => g[k - 1] = h[k - 1]
    BY <1>3, <2>1
  <2>3. QED BY <2>2
<1> HIDE DEF G
<1>4. LooksBack(G, S)
  <2> SUFFICES ASSUME NEW k \in Positive, NEW g \in [Positive -> S], NEW h \in [Positive -> S],
                      \A j \in 1 .. k - 1 : g[j] = h[j]
               PROVE  G[<<k, g>>] = G[<<k, h>>]
    BY DEF LooksBack
  <2>1. turn(k, g) = turn(k, h)
    BY <1>3
  <2> HIDE DEF turn
  <2>2. QED BY <1>1, <2>1
<1>5. PICK g \in [Positive -> S] : \A k \in Positive : g[k] = G[<<k, g>>]
  BY <1>2, <1>4, RecursionExists
<1>6. \A k \in Positive : g[k] = turn(k, g)
  <2> HIDE DEF turn
  <2>1. QED BY <1>1, <1>5
<1> DEFINE f == [i \in 0 .. N |-> g[i + 1]]
<1>7. \A i \in 0 .. N : i + 1 \in Positive /\ f[i] = g[i + 1]
  BY DEF Positive
<1>8. f \in [0 .. N -> S]
  BY <1>7
<1> HIDE DEF f
<1>9. f[0] = a
  <2>1. 0 \in 0 .. N /\ 0 + 1 = 1 /\ 1 - 1 \notin 1 .. N
    OBVIOUS
  <2>2. f[0] = g[1] /\ 1 \in Positive
    BY <1>7, <2>1
  <2>3. QED BY <1>6, <2>1, <2>2
<1>10. ASSUME NEW i \in 1 .. N PROVE f[i] = F[i][f[i - 1]]
  <2>1. i \in 0 .. N /\ i - 1 \in 0 .. N /\ (i + 1) - 1 = i /\ (i - 1) + 1 = i
    OBVIOUS
  <2>2. f[i] = g[i + 1] /\ i + 1 \in Positive /\ f[i - 1] = g[i]
    BY <1>7, <2>1
  <2>3. g[i + 1] = F[i][g[i]]
    BY <1>6, <2>1, <2>2
  <2>4. QED BY <2>2, <2>3
<1>11. QED BY <1>8, <1>9, <1>10 DEF Turns

\* Two loops that begin alike, and whose turns do alike.
GoAlike(f, g, N) == f[0] = g[0] /\ \A i \in 1 .. N : f[i - 1] = g[i - 1] => f[i] = g[i]

LEMMA LoopsAgree ==
  ASSUME NEW N \in Nat, NEW f, NEW g, GoAlike(f, g, N)
  PROVE  \A i \in 0 .. N : f[i] = g[i]
<1> DEFINE bad == {i \in Nat : i <= N /\ f[i] # g[i]}
<1>1. SUFFICES ASSUME bad # {} PROVE FALSE
  OBVIOUS
<1>2. PICK i \in bad : \A j \in bad : i <= j
  BY <1>1, LeastNumber
<1>3. i \in Nat /\ i <= N /\ f[i] # g[i] /\ i # 0
  BY DEF GoAlike
<1>4. i - 1 \in Nat /\ i - 1 <= N /\ ~ (i <= i - 1) /\ i \in 1 .. N
  BY <1>3
<1>5. i - 1 \notin bad
  BY <1>2, <1>4
<1>6. f[i - 1] = g[i - 1]
  BY <1>4, <1>5
<1>7. QED BY <1>3, <1>4, <1>6 DEF GoAlike

-----------------------------------------------------------------------------
(* The serial layout.                                                       *)

LEMMA LayoutGrows ==
  ASSUME NEW w \in Layout, NEW n \in Nat
  PROVE  FilterSpan(w, n) \in Layout /\ ForkSpan(w, n) \in Layout
<1>1. /\ w.swo \in Nat /\ w.ofr \in Nat /\ w.forks \in Seq(TapeSpan) /\ w.filters \in Seq(TapeSpan)
  BY DEF Layout
<1>2. [offset |-> w.swo, count |-> n] \in TapeSpan /\ [offset |-> w.ofr, count |-> n] \in TapeSpan
  BY <1>1 DEF TapeSpan
<1>3. /\ Append(w.filters, [offset |-> w.swo, count |-> n]) \in Seq(TapeSpan)
      /\ Append(w.forks, [offset |-> w.ofr, count |-> n]) \in Seq(TapeSpan)
  BY <1>1, <1>2
<1>4. QED BY <1>1, <1>3 DEF FilterSpan, ForkSpan, Layout

\* What a node further down does to a layout, for every number of records.
Rows == [Nat -> [Layout -> Layout]]

Here(w, n, m, edge) == IF NodeCapacity(n, m, edge.count) < n THEN FilterSpan(w, n) ELSE w

LEMMA CapacityType ==
  ASSUME NEW n \in Nat, NEW m \in Nat, NEW c \in Nat
  PROVE  NodeCapacity(n, m, c) \in Nat
<1>1. m * c \in Nat
  BY Times
<1>2. QED BY <1>1 DEF NodeCapacity, Smaller

LEMMA SerialEdgeIs ==
  ASSUME NEW w \in Layout, NEW n \in Nat, NEW m \in Nat, NEW edge \in Edge, NEW below,
         edge.count > 1 => below[edge.count] \in Rows
  PROVE  /\ Here(w, n, m, edge) \in Layout
         /\ SerialEdge(below, w, n, m, edge) =
              IF edge.count > 1
              THEN below[edge.count][NodeCapacity(n, m, edge.count)][Here(w, n, m, edge)]
              ELSE Here(w, n, m, edge)
         /\ SerialEdge(below, w, n, m, edge) \in Layout
<1>1. Here(w, n, m, edge) \in Layout
  BY LayoutGrows DEF Here
<1>3. SerialEdge(below, w, n, m, edge) =
        IF edge.count > 1
        THEN below[edge.count][NodeCapacity(n, m, edge.count)][Here(w, n, m, edge)]
        ELSE Here(w, n, m, edge)
  BY DEF SerialEdge, Here
<1>4. NodeCapacity(n, m, edge.count) \in Nat
  BY CapacityType DEF Edge
<1>5. CASE edge.count > 1
  <2>1. below[edge.count] \in [Nat -> [Layout -> Layout]]
    BY <1>5 DEF Rows
  <2>2. below[edge.count][NodeCapacity(n, m, edge.count)] \in [Layout -> Layout]
    BY <1>4, <2>1
  <2>3. QED BY <1>1, <1>3, <1>5, <2>2
<1>6. QED BY <1>1, <1>3, <1>5

\* f goes through the loop over the edges.
Goes(f, below, w, n, m, edges) ==
  /\ f \in [0 .. Len(edges) -> Layout] /\ f[0] = w
  /\ \A i \in 1 .. Len(edges) : f[i] = SerialEdge(below, f[i - 1], n, m, edges[i])

Reaches(below, edges) ==
  \A i \in 1 .. Len(edges) : edges[i].count > 1 => below[edges[i].count] \in Rows

LEMMA SerialLoop ==
  ASSUME NEW below, NEW w \in Layout, NEW n \in Nat, NEW m \in Nat, NEW edges \in Seq(Edge),
         Reaches(below, edges)
  PROVE  \E f : /\ Goes(f, below, w, n, m, edges)
                /\ SerialEdges(below, w, n, m, edges) = f[Len(edges)]
<1> DEFINE N == Len(edges)
           body(f) == [i \in 0 .. N |-> IF i = 0 THEN w
                                        ELSE SerialEdge(below, f[i - 1], n, m, edges[i])]
           F == [i \in 1 .. N |-> [v \in Layout |-> SerialEdge(below, v, n, m, edges[i])]]
           after == CHOOSE f : f = body(f)
<1>1. N \in Nat /\ \A i \in 1 .. N : edges[i] \in Edge
  OBVIOUS
<1>2. ASSUME NEW i \in 1 .. N, NEW v \in Layout
      PROVE  SerialEdge(below, v, n, m, edges[i]) \in Layout
  BY <1>1, SerialEdgeIs DEF Reaches
<1>3. F \in [1 .. N -> [Layout -> Layout]]
  BY <1>2
<1>4. \A i \in 1 .. N : \A v \in Layout : F[i][v] = SerialEdge(below, v, n, m, edges[i])
  OBVIOUS
<1> HIDE DEF F, N
<1>5. PICK g : g \in [0 .. N -> Layout] /\ g[0] = w /\ \A i \in 1 .. N : g[i] = F[i][g[i - 1]]
  <2>1. \E g : Turns(g, Layout, w, N, F)
    BY <1>1, <1>3, LoopExists
  <2>2. QED BY <2>1 DEF Turns
<1>6. \A i \in 1 .. N : i \in 0 .. N /\ i - 1 \in 0 .. N /\ i # 0
  BY <1>1
<1>7. \A i \in 1 .. N : g[i] = SerialEdge(below, g[i - 1], n, m, edges[i])
  BY <1>4, <1>5, <1>6
<1>8. g = body(g)
  <2>1. \A i \in 0 .. N : g[i] = IF i = 0 THEN w ELSE SerialEdge(below, g[i - 1], n, m, edges[i])
    <3>1. \A i \in 0 .. N : i = 0 \/ i \in 1 .. N
      BY <1>1
    <3>2. QED BY <1>5, <1>6, <1>7, <3>1
  <2>2. g = [i \in 0 .. N |-> g[i]]
    BY <1>5
  <2>3. QED BY <2>1, <2>2
<1>9. after = body(after)
  BY <1>8
<1>10. SerialEdges(below, w, n, m, edges) = after[N]
  BY DEF SerialEdges, N
<1> HIDE DEF after
<1>11. after[0] = w /\ \A i \in 1 .. N : after[i] = SerialEdge(below, after[i - 1], n, m, edges[i])
  <2>1. \A f : body(f)[0] = w /\ \A i \in 1 .. N : body(f)[i] = SerialEdge(below, f[i - 1], n, m, edges[i])
    BY <1>1, <1>6
  <2> HIDE DEF body
  <2>2. QED BY <1>9, <2>1
<1>12. \A i \in 0 .. N : after[i] = g[i]
  <2>1. \A i \in 1 .. N : after[i - 1] = g[i - 1] => after[i] = g[i]
    BY <1>7, <1>11
  <2>2. after[0] = g[0]
    BY <1>5, <1>11
  <2>3. GoAlike(after, g, N)
    BY <2>1, <2>2 DEF GoAlike
  <2>4. QED BY <1>1, <2>3, LoopsAgree
<1>13. SerialEdges(below, w, n, m, edges) = g[N]
  BY <1>1, <1>10, <1>12
<1>14. QED BY <1>5, <1>7, <1>13 DEF Goes, N

\* Below, only nodes of fewer samples matter.
LEMMA SerialEdgesSame ==
  ASSUME NEW g, NEW h, NEW w \in Layout, NEW n \in Nat, NEW m \in Nat, NEW edges \in Seq(Edge),
         Reaches(g, edges),
         \A i \in 1 .. Len(edges) : edges[i].count > 1 => g[edges[i].count] = h[edges[i].count]
  PROVE  SerialEdges(g, w, n, m, edges) = SerialEdges(h, w, n, m, edges)
<1>1. Reaches(h, edges)
  BY DEF Reaches
<1>2. PICK a : Goes(a, g, w, n, m, edges) /\ SerialEdges(g, w, n, m, edges) = a[Len(edges)]
  BY SerialLoop
<1>3. PICK b : Goes(b, h, w, n, m, edges) /\ SerialEdges(h, w, n, m, edges) = b[Len(edges)]
  BY <1>1, SerialLoop
<1>4. ASSUME NEW i \in 1 .. Len(edges), NEW v \in Layout
      PROVE  SerialEdge(g, v, n, m, edges[i]) = SerialEdge(h, v, n, m, edges[i])
  <2>1. edges[i] \in Edge
    OBVIOUS
  <2>2. PICK e \in Edge : e = edges[i]
    BY <2>1
  <2>3. e.count > 1 => g[e.count] \in Rows /\ h[e.count] \in Rows /\ g[e.count] = h[e.count]
    BY <1>1, <2>2 DEF Reaches
  <2>4. SerialEdge(g, v, n, m, e) =
          IF e.count > 1 THEN g[e.count][NodeCapacity(n, m, e.count)][Here(v, n, m, e)]
          ELSE Here(v, n, m, e)
    BY <2>3, SerialEdgeIs
  <2>5. SerialEdge(h, v, n, m, e) =
          IF e.count > 1 THEN h[e.count][NodeCapacity(n, m, e.count)][Here(v, n, m, e)]
          ELSE Here(v, n, m, e)
    BY <2>3, SerialEdgeIs
  <2>6. QED BY <2>2, <2>3, <2>4, <2>5
<1>5. Len(edges) \in Nat /\ \A i \in 1 .. Len(edges) : i - 1 \in 0 .. Len(edges)
  OBVIOUS
<1>6. \A i \in 1 .. Len(edges) : a[i - 1] = b[i - 1] => a[i] = b[i]
  BY <1>2, <1>3, <1>4, <1>5 DEF Goes
<1>7. a[0] = b[0]
  BY <1>2, <1>3 DEF Goes
<1>8. \A i \in 0 .. Len(edges) : a[i] = b[i]
  <2>1. GoAlike(a, b, Len(edges))
    BY <1>6, <1>7 DEF GoAlike
  <2>2. QED BY <1>5, <2>1, LoopsAgree
<1>9. QED BY <1>2, <1>3, <1>5, <1>8

LEMMA EdgesBelow ==
  ASSUME NEW k \in Positive
  PROVE  /\ Edges(<<>>, k) \in Seq(Edge)
         /\ \A i \in 1 .. Len(Edges(<<>>, k)) :
              Edges(<<>>, k)[i].count > 1 => Edges(<<>>, k)[i].count \in 1 .. k - 1
<1>1. k \in Nat /\ k # 0
  BY DEF Positive
<1>2. CASE k = 1
  <2> DEFINE e == Edges(<<>>, k)
  <2>1. e = <<[start |-> 0, count |-> 1]>>
    BY <1>2 DEF Edges
  <2>2. [start |-> 0, count |-> 1] \in Edge
    BY DEF Edge
  <2> HIDE DEF e
  <2>3. e \in Seq(Edge) /\ Len(e) = 1 /\ e[1] = [start |-> 0, count |-> 1]
    BY <2>1, <2>2
  <2>4. \A i \in 1 .. Len(e) : e[i].count = 1
    BY <2>3
  <2>5. QED BY <2>3, <2>4 DEF e
<1>3. CASE k > 1
  <2> DEFINE e == Halves(k)
  <2>1. Edges(<<>>, k) = e
    BY <1>3 DEF Edges
  <2>2. ShareOut(e, k) /\ Len(e) = 2 /\ (\A i \in 1 .. 2 : e[i].count <= Ceil(k))
        /\ Ceil(k) < k /\ Ceil(k) \in Nat
    BY <1>1, <1>3, HalvesShare
  <2> HIDE DEF e
  <2>3. e \in Seq(Edge) /\ \A i \in 1 .. Len(e) : e[i].count >= 1 /\ e[i].count \in Nat
    <3>1. e \in Seq(Edge) /\ \A i \in 1 .. Len(e) : e[i].count >= 1
      BY <2>2 DEF ShareOut
    <3>2. \A i \in 1 .. Len(e) : e[i] \in Edge
      BY <3>1
    <3>3. QED BY <3>1, <3>2 DEF Edge
  <2>4. \A i \in 1 .. Len(e) : e[i].count \in 1 .. k - 1
    BY <1>1, <2>2, <2>3
  <2>5. QED BY <2>1, <2>3, <2>4
<1>4. QED BY <1>1, <1>2, <1>3

\* What a node needs to know of those below.
Knows(below, frontier, k) ==
  /\ Edges(frontier, k) \in Seq(Edge) /\ Reaches(below, Edges(frontier, k))
  /\ k > 1 => below[k \div 2] \in Rows /\ below[k - k \div 2] \in Rows

LEMMA ForkParts ==
  ASSUME NEW n \in Nat, NEW m \in Nat, NEW k \in Nat, Fork(n, m, k)
  PROVE  /\ k > 1 /\ k \div 2 \in 1 .. k - 1 /\ k - k \div 2 \in 1 .. k - 1
         /\ m * (k \div 2) \in Nat /\ n - m * (k \div 2) \in Nat
         /\ m * (k - k \div 2) = n - m * (k \div 2)
         /\ ControlCount[n][m * (k \div 2)] \in Nat
<1> DEFINE h == k \div 2
<1>1. k > 1 /\ n = m * k
  BY DEF Fork
<1>2. h \in Nat /\ h >= 1 /\ h <= k - 1 /\ k - h >= 1 /\ k - h <= k - 1 /\ h <= k /\ k - h \in Nat
  BY <1>1
<1> HIDE DEF h
<1>3. m * h \in Nat /\ m * h <= m * k /\ m * (k - h) = m * k - m * h
  BY <1>2, Times
<1> DEFINE x == m * h
<1>4. x \in Nat /\ x <= n /\ m * (k - h) = n - x
  BY <1>1, <1>3
<1> HIDE DEF x
<1>5. x \in 0 .. n /\ n - x \in Nat
  BY <1>4
<1>6. ControlCount[n][x] \in Nat
  BY <1>5, ControlCountType
<1>7. QED BY <1>1, <1>2, <1>4, <1>5, <1>6 DEF x, h

\* A half of a fork, applied.
LEMMA RowType ==
  ASSUME NEW r \in Rows, NEW n \in Nat, NEW w \in Layout
  PROVE  r[n][w] \in Layout
<1>1. r[n] \in [Layout -> Layout]
  BY DEF Rows
<1>2. QED BY <1>1

LEMMA SerialFromType ==
  ASSUME NEW below, NEW frontier, NEW k \in Positive, Knows(below, frontier, k),
         NEW w \in Layout, NEW n \in Nat, NEW m \in Nat
  PROVE  SerialFrom(below, w, frontier, n, m, k) \in Layout
<1> DEFINE r == SerialFrom(below, w, frontier, n, m, k)
<1>1. k \in Nat
  BY DEF Positive
<1>2. CASE Leaf(n, m, k)
  BY <1>2 DEF SerialFrom
<1>3. CASE ~ Leaf(n, m, k) /\ Fork(n, m, k)
  <2> DEFINE h == k \div 2
             x == m * h
             here == ForkSpan(w, ControlCount[n][x])
  <2>1. r = below[k - h][n - x][below[h][x][here]]
    BY <1>3 DEF SerialFrom
  <2>2. x \in Nat /\ n - x \in Nat /\ ControlCount[n][x] \in Nat /\ k > 1
    BY <1>1, <1>3, ForkParts
  <2>3. here \in Layout
    BY <2>2, LayoutGrows
  <2>4. below[h] \in Rows /\ below[k - h] \in Rows
    BY <2>2 DEF Knows
  <2> HIDE DEF h, x, here
  <2>5. below[h][x][here] \in Layout
    BY <2>2, <2>3, <2>4, RowType
  <2>6. QED BY <2>1, <2>2, <2>4, <2>5, RowType
<1>4. CASE ~ Leaf(n, m, k) /\ ~ Fork(n, m, k)
  <2>1. PICK e : e = Edges(frontier, k) /\ e \in Seq(Edge) /\ Reaches(below, e)
    BY DEF Knows
  <2>2. r = SerialEdges(below, w, n, m, e)
    BY <1>4, <2>1 DEF SerialFrom
  <2>3. PICK f : Goes(f, below, w, n, m, e) /\ SerialEdges(below, w, n, m, e) = f[Len(e)]
    BY <2>1, SerialLoop
  <2>4. Len(e) \in 0 .. Len(e)
    BY <2>1
  <2>5. QED BY <2>2, <2>3, <2>4 DEF Goes
<1>5. QED BY <1>2, <1>3, <1>4

\* What g does below k is known, and h does the same.
SameBelow(g, h, k) == \A j \in 1 .. k - 1 : g[j] \in Rows /\ h[j] = g[j]

LEMMA SerialFromSame ==
  ASSUME NEW g, NEW h, NEW k \in Positive, SameBelow(g, h, k),
         NEW w \in Layout, NEW n \in Nat, NEW m \in Nat
  PROVE  /\ Knows(g, <<>>, k)
         /\ SerialFrom(g, w, <<>>, n, m, k) = SerialFrom(h, w, <<>>, n, m, k)
<1>1. k \in Nat
  BY DEF Positive
<1>2. PICK e : e = Edges(<<>>, k)
  OBVIOUS
<1>3. e \in Seq(Edge) /\ \A i \in 1 .. Len(e) : e[i].count > 1 => e[i].count \in 1 .. k - 1
  BY <1>2, EdgesBelow
<1>4. \A i \in 1 .. Len(e) : e[i].count > 1 => g[e[i].count] \in Rows /\ g[e[i].count] = h[e[i].count]
  BY <1>3 DEF SameBelow
<1>5. Reaches(g, e)
  BY <1>4 DEF Reaches
<1>6. k > 1 => /\ k \div 2 \in 1 .. k - 1 /\ k - k \div 2 \in 1 .. k - 1
               /\ g[k \div 2] \in Rows /\ g[k - k \div 2] \in Rows
               /\ h[k \div 2] = g[k \div 2] /\ h[k - k \div 2] = g[k - k \div 2]
  <2>1. k > 1 => k \div 2 \in 1 .. k - 1 /\ k - k \div 2 \in 1 .. k - 1
    BY <1>1
  <2> DEFINE x == k \div 2
             y == k - k \div 2
  <2> HIDE DEF x, y
  <2>2. k > 1 => x \in 1 .. k - 1 /\ y \in 1 .. k - 1
    BY <2>1 DEF x, y
  <2>3. k > 1 => g[x] \in Rows /\ g[y] \in Rows /\ h[x] = g[x] /\ h[y] = g[y]
    BY <2>2 DEF SameBelow
  <2>4. QED BY <2>1, <2>3 DEF x, y
<1>7. Knows(g, <<>>, k)
  BY <1>2, <1>3, <1>5, <1>6 DEF Knows
<1>8. SerialEdges(g, w, n, m, e) = SerialEdges(h, w, n, m, e)
  BY <1>3, <1>4, <1>5, SerialEdgesSame
<1>9. CASE Fork(n, m, k)
  <2>1. k > 1
    BY <1>9 DEF Fork
  <2>2. QED BY <1>6, <1>7, <2>1, <1>9 DEF SerialFrom
<1>10. CASE ~ Fork(n, m, k)
  BY <1>2, <1>7, <1>8, <1>10 DEF SerialFrom
<1>11. QED BY <1>9, <1>10

SerialRow(g, m, k) == [n \in Nat |-> [w \in Layout |-> SerialFrom(g, w, <<>>, n, m, k)]]

LEMMA SerialRowIs ==
  ASSUME NEW g, NEW m \in Nat, NEW k \in Positive
  PROVE  /\ \A n \in Nat : \A w \in Layout : SerialRow(g, m, k)[n][w] = SerialFrom(g, w, <<>>, n, m, k)
         /\ (\A j \in 1 .. k - 1 : g[j] \in Rows) => SerialRow(g, m, k) \in Rows
<1>1. \A n \in Nat : \A w \in Layout : SerialRow(g, m, k)[n][w] = SerialFrom(g, w, <<>>, n, m, k)
  BY DEF SerialRow
<1>2. ASSUME \A j \in 1 .. k - 1 : g[j] \in Rows PROVE SerialRow(g, m, k) \in Rows
  <2>1. SameBelow(g, g, k)
    BY <1>2 DEF SameBelow
  <2>2. ASSUME NEW n \in Nat, NEW w \in Layout PROVE SerialFrom(g, w, <<>>, n, m, k) \in Layout
    BY <2>1, SerialFromSame, SerialFromType
  <2>3. QED BY <2>2 DEF SerialRow, Rows
<1>3. QED BY <1>1, <1>2

LEMMA SerialNodeIs ==
  ASSUME NEW m \in Nat
  PROVE  /\ SerialNode(m) \in [Positive -> Rows]
         /\ \A k \in Positive : \A n \in Nat : \A w \in Layout :
              SerialNode(m)[k][n][w] = SerialFrom(SerialNode(m), w, <<>>, n, m, k)
<1> DEFINE G == [x \in Positive \X [Positive -> Rows] |-> SerialRow(x[2], m, x[1])]
           body(f) == [k \in Positive |-> SerialRow(f, m, k)]
           node == CHOOSE f : f = body(f)
<1>1. ASSUME NEW k \in Positive, NEW g \in [Positive -> Rows]
      PROVE  SerialRow(g, m, k) \in Rows /\ G[<<k, g>>] = SerialRow(g, m, k)
  <2>1. \A j \in 1 .. k - 1 : j \in Positive
    BY DEF Positive
  <2>2. \A j \in 1 .. k - 1 : g[j] \in Rows
    BY <2>1
  <2>3. SerialRow(g, m, k) \in Rows
    BY <2>2, SerialRowIs
  <2>4. QED BY <2>3
<1>2. G \in [Positive \X [Positive -> Rows] -> Rows]
  <2>1. \A x \in Positive \X [Positive -> Rows] : x[1] \in Positive /\ x[2] \in [Positive -> Rows]
    OBVIOUS
  <2>2. \A x \in Positive \X [Positive -> Rows] : SerialRow(x[2], m, x[1]) \in Rows
    BY <1>1, <2>1
  <2>3. QED BY <2>2
<1>3. ASSUME NEW k \in Positive, NEW g, NEW h, \A j \in 1 .. k - 1 : g[j] \in Rows /\ h[j] = g[j]
      PROVE  SerialRow(g, m, k) = SerialRow(h, m, k)
  <2>1. \A n \in Nat : \A w \in Layout :
          SerialFrom(g, w, <<>>, n, m, k) = SerialFrom(h, w, <<>>, n, m, k)
    <3> TAKE n \in Nat
    <3> TAKE w \in Layout
    <3>1. SameBelow(g, h, k)
      BY <1>3 DEF SameBelow
    <3>2. QED BY <3>1, SerialFromSame
  <2>2. QED BY <2>1 DEF SerialRow
<1> HIDE DEF G
<1>4. LooksBack(G, Rows)
  <2> SUFFICES ASSUME NEW k \in Positive, NEW g \in [Positive -> Rows], NEW h \in [Positive -> Rows],
                      \A j \in 1 .. k - 1 : g[j] = h[j]
               PROVE  G[<<k, g>>] = G[<<k, h>>]
    BY DEF LooksBack
  <2>1. \A j \in 1 .. k - 1 : j \in Positive
    BY DEF Positive
  <2>2. SerialRow(g, m, k) = SerialRow(h, m, k)
    BY <1>3, <2>1
  <2>3. QED BY <1>1, <2>2
<1>5. \E v : v \in Rows
  <2>1. [n \in Nat |-> [w \in Layout |-> w]] \in Rows
    BY DEF Rows
  <2>2. QED BY <2>1
<1>6. PICK f \in [Positive -> Rows] : \A k \in Positive : f[k] = G[<<k, f>>]
  BY <1>2, <1>4, <1>5, RecursionExists
<1>7. f = body(f)
  <2>1. \A k \in Positive : f[k] = SerialRow(f, m, k)
    BY <1>1, <1>6
  <2>2. f = [k \in Positive |-> f[k]]
    OBVIOUS
  <2>3. QED BY <2>1, <2>2
<1>8. node = body(node)
  BY <1>7
<1>9. SerialNode(m) = node
  BY DEF SerialNode, SerialRow, Positive
<1> HIDE DEF node
<1>10. \A k \in Positive : node[k] = SerialRow(node, m, k)
  <2>1. \A g : \A k \in Positive : body(g)[k] = SerialRow(g, m, k)
    OBVIOUS
  <2> HIDE DEF body
  <2>2. QED BY <1>8, <2>1
<1>11. \A k \in Positive : node[k] \in Rows
  <2> DEFINE bad == {k \in Nat : k \in Positive /\ node[k] \notin Rows}
  <2>1. SUFFICES ASSUME bad # {} PROVE FALSE
    BY DEF Positive
  <2>2. PICK k \in bad : \A j \in bad : k <= j
    BY <2>1, LeastNumber
  <2>3. k \in Positive /\ node[k] \notin Rows /\ k \in Nat
    OBVIOUS
  <2>4. ASSUME NEW j \in 1 .. k - 1 PROVE node[j] \in Rows
    <3>1. j \in Nat /\ j \in Positive /\ ~ (k <= j)
      BY <2>3 DEF Positive
    <3>2. j \notin bad
      BY <2>2, <3>1
    <3>3. QED BY <3>1, <3>2
  <2>5. SerialRow(node, m, k) \in Rows
    BY <2>3, <2>4, SerialRowIs
  <2>6. QED BY <1>10, <2>3, <2>5
<1>12. node \in [Positive -> Rows]
  <2>1. node = [k \in Positive |-> node[k]]
    <3>1. \A g : body(g) = [k \in Positive |-> body(g)[k]]
      OBVIOUS
    <3> HIDE DEF body
    <3>2. QED BY <1>8, <3>1
  <2>2. QED BY <1>11, <2>1
<1>13. QED BY <1>9, <1>10, <1>12, SerialRowIs

-----------------------------------------------------------------------------
(* The serial count.                                                        *)

Bits == [swo : Nat, ofr : Nat]
CountRows == [Nat -> Bits]

LEMMA CountRowType ==
  ASSUME NEW r \in CountRows, NEW n \in Nat
  PROVE  r[n] \in Bits /\ r[n].swo \in Nat /\ r[n].ofr \in Nat
<1>1. r[n] \in Bits
  BY DEF CountRows
<1>2. QED BY <1>1 DEF Bits

LEMMA CountEdgeType ==
  ASSUME NEW sum \in Bits, NEW n \in Nat, NEW m \in Nat, NEW edge \in Edge, NEW below,
         below[edge.count] \in CountRows
  PROVE  CountEdge(below, sum, n, m, edge) \in Bits
<1> DEFINE child_n == NodeCapacity(n, m, edge.count)
           child == below[edge.count][child_n]
           own == IF child_n < n THEN n ELSE 0
<1>1. child_n \in Nat /\ own \in Nat
  BY CapacityType DEF Edge
<1>2. child.swo \in Nat /\ child.ofr \in Nat
  BY <1>1, CountRowType
<1>3. CountEdge(below, sum, n, m, edge) =
        [swo |-> sum.swo + own + child.swo, ofr |-> sum.ofr + child.ofr]
  BY DEF CountEdge
<1> HIDE DEF child_n, child, own
<1>4. sum.swo \in Nat /\ sum.ofr \in Nat
  BY DEF Bits
<1>5. sum.swo + own + child.swo \in Nat /\ sum.ofr + child.ofr \in Nat
  BY <1>1, <1>2, <1>4
<1>6. QED BY <1>3, <1>5 DEF Bits

SumsUp(f, below, n, m, edges) ==
  /\ f \in [0 .. Len(edges) -> Bits] /\ f[0] = NoBits
  /\ \A i \in 1 .. Len(edges) : f[i] = CountEdge(below, f[i - 1], n, m, edges[i])

Counts(below, edges) ==
  \A i \in 1 .. Len(edges) : below[edges[i].count] \in CountRows

LEMMA CountLoop ==
  ASSUME NEW below, NEW n \in Nat, NEW m \in Nat, NEW edges \in Seq(Edge), Counts(below, edges)
  PROVE  \E f : /\ SumsUp(f, below, n, m, edges)
                /\ CountEdges(below, n, m, edges) = f[Len(edges)]
<1> DEFINE N == Len(edges)
           body(f) == [i \in 0 .. N |-> IF i = 0 THEN NoBits
                                        ELSE CountEdge(below, f[i - 1], n, m, edges[i])]
           F == [i \in 1 .. N |-> [v \in Bits |-> CountEdge(below, v, n, m, edges[i])]]
           sum == CHOOSE f : f = body(f)
<1>1. N \in Nat /\ \A i \in 1 .. N : edges[i] \in Edge
  OBVIOUS
<1>2. ASSUME NEW i \in 1 .. N, NEW v \in Bits
      PROVE  CountEdge(below, v, n, m, edges[i]) \in Bits
  BY <1>1, CountEdgeType DEF Counts
<1>3. F \in [1 .. N -> [Bits -> Bits]]
  BY <1>2
<1>4. \A i \in 1 .. N : \A v \in Bits : F[i][v] = CountEdge(below, v, n, m, edges[i])
  OBVIOUS
<1> HIDE DEF F, N
<1>5. PICK g : g \in [0 .. N -> Bits] /\ g[0] = NoBits /\ \A i \in 1 .. N : g[i] = F[i][g[i - 1]]
  <2>1. NoBits \in Bits
    BY DEF NoBits, Bits
  <2>2. \E g : Turns(g, Bits, NoBits, N, F)
    BY <1>1, <1>3, <2>1, LoopExists
  <2>3. QED BY <2>2 DEF Turns
<1>6. \A i \in 1 .. N : i \in 0 .. N /\ i - 1 \in 0 .. N /\ i # 0
  BY <1>1
<1>7. \A i \in 1 .. N : g[i] = CountEdge(below, g[i - 1], n, m, edges[i])
  BY <1>4, <1>5, <1>6
<1>8. g = body(g)
  <2>1. \A i \in 0 .. N : g[i] = IF i = 0 THEN NoBits ELSE CountEdge(below, g[i - 1], n, m, edges[i])
    <3>1. \A i \in 0 .. N : i = 0 \/ i \in 1 .. N
      BY <1>1
    <3>2. QED BY <1>5, <1>6, <1>7, <3>1
  <2>2. g = [i \in 0 .. N |-> g[i]]
    BY <1>5
  <2>3. QED BY <2>1, <2>2
<1>9. sum = body(sum)
  BY <1>8
<1>10. CountEdges(below, n, m, edges) = sum[N]
  BY DEF CountEdges, N
<1> HIDE DEF sum
<1>11. sum[0] = NoBits /\ \A i \in 1 .. N : sum[i] = CountEdge(below, sum[i - 1], n, m, edges[i])
  <2>1. \A f : body(f)[0] = NoBits /\ \A i \in 1 .. N : body(f)[i] = CountEdge(below, f[i - 1], n, m, edges[i])
    BY <1>1, <1>6
  <2> HIDE DEF body
  <2>2. QED BY <1>9, <2>1
<1>12. \A i \in 0 .. N : sum[i] = g[i]
  <2>1. \A i \in 1 .. N : sum[i - 1] = g[i - 1] => sum[i] = g[i]
    BY <1>7, <1>11
  <2>2. sum[0] = g[0]
    BY <1>5, <1>11
  <2>3. GoAlike(sum, g, N)
    BY <2>1, <2>2 DEF GoAlike
  <2>4. QED BY <1>1, <2>3, LoopsAgree
<1>13. CountEdges(below, n, m, edges) = g[N]
  BY <1>1, <1>10, <1>12
<1>14. QED BY <1>5, <1>7, <1>13 DEF SumsUp, N

LEMMA CountEdgesSame ==
  ASSUME NEW g, NEW h, NEW n \in Nat, NEW m \in Nat, NEW edges \in Seq(Edge),
         Counts(g, edges), \A i \in 1 .. Len(edges) : g[edges[i].count] = h[edges[i].count]
  PROVE  CountEdges(g, n, m, edges) = CountEdges(h, n, m, edges)
<1>1. Counts(h, edges)
  BY DEF Counts
<1>2. PICK a : SumsUp(a, g, n, m, edges) /\ CountEdges(g, n, m, edges) = a[Len(edges)]
  BY CountLoop
<1>3. PICK b : SumsUp(b, h, n, m, edges) /\ CountEdges(h, n, m, edges) = b[Len(edges)]
  BY <1>1, CountLoop
<1>4. ASSUME NEW i \in 1 .. Len(edges), NEW v
      PROVE  CountEdge(g, v, n, m, edges[i]) = CountEdge(h, v, n, m, edges[i])
  BY DEF CountEdge
<1>5. Len(edges) \in Nat /\ \A i \in 1 .. Len(edges) : i - 1 \in 0 .. Len(edges)
  OBVIOUS
<1>6. \A i \in 1 .. Len(edges) : a[i - 1] = b[i - 1] => a[i] = b[i]
  BY <1>2, <1>3, <1>4, <1>5 DEF SumsUp
<1>7. a[0] = b[0]
  BY <1>2, <1>3 DEF SumsUp
<1>8. GoAlike(a, b, Len(edges))
  BY <1>6, <1>7 DEF GoAlike
<1>9. \A i \in 0 .. Len(edges) : a[i] = b[i]
  BY <1>5, <1>8, LoopsAgree
<1>10. QED BY <1>2, <1>3, <1>5, <1>9

\* What a node of several samples needs to know of those below.
Tells(below, frontier, k) ==
  k > 1 => /\ Edges(frontier, k) \in Seq(Edge) /\ Counts(below, Edges(frontier, k))
           /\ below[k \div 2] \in CountRows /\ below[k - k \div 2] \in CountRows

LEMMA CountFromType ==
  ASSUME NEW below, NEW frontier, NEW k \in Positive, Tells(below, frontier, k),
         NEW n \in Nat, NEW m \in Nat
  PROVE  CountFrom(below, frontier, n, m, k) \in Bits
<1> DEFINE r == CountFrom(below, frontier, n, m, k)
<1>1. k \in Nat /\ k # 0
  BY DEF Positive
<1>2. CASE k = 1
  <2>1. r = [swo |-> IF n = m THEN 0 ELSE n, ofr |-> 0]
    BY <1>2 DEF CountFrom
  <2>2. QED BY <2>1 DEF Bits
<1>3. CASE k > 1 /\ Fork(n, m, k)
  <2> DEFINE h == k \div 2
             x == m * h
             left == below[h][x]
             right == below[k - h][n - x]
             own == ControlCount[n][x]
  <2>1. r = [swo |-> left.swo + right.swo, ofr |-> own + left.ofr + right.ofr]
    BY <1>3 DEF CountFrom
  <2>2. x \in Nat /\ n - x \in Nat /\ own \in Nat
    BY <1>1, <1>3, ForkParts
  <2>3. below[h] \in CountRows /\ below[k - h] \in CountRows
    BY <1>3 DEF Tells
  <2> HIDE DEF h, x, own
  <2>4. /\ left.swo \in Nat /\ left.ofr \in Nat /\ right.swo \in Nat /\ right.ofr \in Nat
    BY <2>2, <2>3, CountRowType
  <2> HIDE DEF left, right, r
  <2>5. left.swo + right.swo \in Nat /\ own + left.ofr + right.ofr \in Nat
    BY <2>2, <2>4
  <2>6. r \in Bits
    BY <2>1, <2>5 DEF Bits
  <2>7. QED BY <2>6 DEF r
<1>4. CASE k > 1 /\ ~ Fork(n, m, k)
  <2>1. PICK e : e = Edges(frontier, k) /\ e \in Seq(Edge) /\ Counts(below, e)
    BY <1>4 DEF Tells
  <2>2. r = CountEdges(below, n, m, e)
    BY <1>1, <1>4, <2>1 DEF CountFrom
  <2>3. PICK f : SumsUp(f, below, n, m, e) /\ CountEdges(below, n, m, e) = f[Len(e)]
    BY <2>1, CountLoop
  <2>4. Len(e) \in 0 .. Len(e)
    BY <2>1
  <2>5. QED BY <2>2, <2>3, <2>4 DEF SumsUp
<1>5. QED BY <1>1, <1>2, <1>3, <1>4

SameCount(g, h, k) == \A j \in 1 .. k - 1 : g[j] \in CountRows /\ h[j] = g[j]

LEMMA SeveralEdges ==
  ASSUME NEW k \in Positive, k > 1
  PROVE  /\ Edges(<<>>, k) \in Seq(Edge)
         /\ \A i \in 1 .. Len(Edges(<<>>, k)) : Edges(<<>>, k)[i].count \in 1 .. k - 1
<1>1. k \in Nat
  BY DEF Positive
<1> DEFINE e == Halves(k)
<1>2. Edges(<<>>, k) = e
  BY DEF Edges
<1>3. ShareOut(e, k) /\ Len(e) = 2 /\ (\A i \in 1 .. 2 : e[i].count <= Ceil(k))
      /\ Ceil(k) < k /\ Ceil(k) \in Nat
  BY <1>1, HalvesShare
<1> HIDE DEF e
<1>4. e \in Seq(Edge) /\ \A i \in 1 .. Len(e) : e[i].count >= 1 /\ e[i].count \in Nat
  <2>1. e \in Seq(Edge) /\ \A i \in 1 .. Len(e) : e[i].count >= 1
    BY <1>3 DEF ShareOut
  <2>2. \A i \in 1 .. Len(e) : e[i] \in Edge
    BY <2>1
  <2>3. QED BY <2>1, <2>2 DEF Edge
<1>5. \A i \in 1 .. Len(e) : e[i].count \in 1 .. k - 1
  BY <1>1, <1>3, <1>4
<1>6. QED BY <1>2, <1>4, <1>5

LEMMA CountFromSame ==
  ASSUME NEW g, NEW h, NEW k \in Positive, SameCount(g, h, k), NEW n \in Nat, NEW m \in Nat
  PROVE  /\ Tells(g, <<>>, k)
         /\ CountFrom(g, <<>>, n, m, k) = CountFrom(h, <<>>, n, m, k)
<1>1. k \in Nat /\ k # 0
  BY DEF Positive
<1>2. CASE k = 1
  BY <1>2 DEF Tells, CountFrom
<1>3. CASE k > 1
  <2>1. PICK e : e = Edges(<<>>, k)
    OBVIOUS
  <2>2. e \in Seq(Edge) /\ \A i \in 1 .. Len(e) : e[i].count \in 1 .. k - 1
    BY <1>3, <2>1, SeveralEdges
  <2>3. \A i \in 1 .. Len(e) : g[e[i].count] \in CountRows /\ g[e[i].count] = h[e[i].count]
    BY <2>2 DEF SameCount
  <2>4. Counts(g, e)
    BY <2>3 DEF Counts
  <2>5. /\ g[k \div 2] \in CountRows /\ g[k - k \div 2] \in CountRows
        /\ h[k \div 2] = g[k \div 2] /\ h[k - k \div 2] = g[k - k \div 2]
    <3> DEFINE x == k \div 2
               y == k - k \div 2
    <3>1. x \in 1 .. k - 1 /\ y \in 1 .. k - 1
      BY <1>1, <1>3
    <3> HIDE DEF x, y
    <3>2. g[x] \in CountRows /\ g[y] \in CountRows /\ h[x] = g[x] /\ h[y] = g[y]
      BY <3>1 DEF SameCount
    <3>3. QED BY <3>2 DEF x, y
  <2>6. Tells(g, <<>>, k)
    BY <2>1, <2>2, <2>4, <2>5 DEF Tells
  <2>7. CountEdges(g, n, m, e) = CountEdges(h, n, m, e)
    BY <2>2, <2>3, <2>4, CountEdgesSame
  <2>8. CASE Fork(n, m, k)
    BY <1>3, <2>5, <2>6, <2>8 DEF CountFrom
  <2>9. CASE ~ Fork(n, m, k)
    BY <1>3, <2>1, <2>6, <2>7, <2>9 DEF CountFrom
  <2>10. QED BY <2>8, <2>9
<1>4. QED BY <1>1, <1>2, <1>3

CountRowOf(g, m, k) == [n \in Nat |-> CountFrom(g, <<>>, n, m, k)]

LEMMA CountRowIs ==
  ASSUME NEW g, NEW m \in Nat, NEW k \in Positive
  PROVE  /\ \A n \in Nat : CountRowOf(g, m, k)[n] = CountFrom(g, <<>>, n, m, k)
         /\ (\A j \in 1 .. k - 1 : g[j] \in CountRows) => CountRowOf(g, m, k) \in CountRows
<1>1. \A n \in Nat : CountRowOf(g, m, k)[n] = CountFrom(g, <<>>, n, m, k)
  BY DEF CountRowOf
<1>2. ASSUME \A j \in 1 .. k - 1 : g[j] \in CountRows PROVE CountRowOf(g, m, k) \in CountRows
  <2>1. SameCount(g, g, k)
    BY <1>2 DEF SameCount
  <2>2. ASSUME NEW n \in Nat PROVE CountFrom(g, <<>>, n, m, k) \in Bits
    BY <2>1, CountFromSame, CountFromType
  <2>3. QED BY <2>2 DEF CountRowOf, CountRows
<1>3. QED BY <1>1, <1>2

LEMMA CountNodeIs ==
  ASSUME NEW m \in Nat
  PROVE  /\ CountNode(m) \in [Positive -> CountRows]
         /\ \A k \in Positive : \A n \in Nat :
              CountNode(m)[k][n] = CountFrom(CountNode(m), <<>>, n, m, k)
<1> DEFINE G == [x \in Positive \X [Positive -> CountRows] |-> CountRowOf(x[2], m, x[1])]
           body(f) == [k \in Positive |-> CountRowOf(f, m, k)]
           node == CHOOSE f : f = body(f)
<1>1. ASSUME NEW k \in Positive, NEW g \in [Positive -> CountRows]
      PROVE  CountRowOf(g, m, k) \in CountRows /\ G[<<k, g>>] = CountRowOf(g, m, k)
  <2>1. \A j \in 1 .. k - 1 : j \in Positive
    BY DEF Positive
  <2>2. \A j \in 1 .. k - 1 : g[j] \in CountRows
    BY <2>1
  <2>3. CountRowOf(g, m, k) \in CountRows
    BY <2>2, CountRowIs
  <2>4. QED BY <2>3
<1>2. G \in [Positive \X [Positive -> CountRows] -> CountRows]
  <2>1. \A x \in Positive \X [Positive -> CountRows] : x[1] \in Positive /\ x[2] \in [Positive -> CountRows]
    OBVIOUS
  <2>2. \A x \in Positive \X [Positive -> CountRows] : CountRowOf(x[2], m, x[1]) \in CountRows
    BY <1>1, <2>1
  <2>3. QED BY <2>2
<1>3. ASSUME NEW k \in Positive, NEW g, NEW h, SameCount(g, h, k)
      PROVE  CountRowOf(g, m, k) = CountRowOf(h, m, k)
  <2>1. ASSUME NEW n \in Nat
        PROVE  CountFrom(g, <<>>, n, m, k) = CountFrom(h, <<>>, n, m, k)
    BY <1>3, CountFromSame
  <2>2. QED BY <2>1 DEF CountRowOf
<1> HIDE DEF G
<1>4. LooksBack(G, CountRows)
  <2> SUFFICES ASSUME NEW k \in Positive, NEW g \in [Positive -> CountRows],
                      NEW h \in [Positive -> CountRows], \A j \in 1 .. k - 1 : g[j] = h[j]
               PROVE  G[<<k, g>>] = G[<<k, h>>]
    BY DEF LooksBack
  <2>1. \A j \in 1 .. k - 1 : j \in Positive
    BY DEF Positive
  <2>2. SameCount(g, h, k)
    BY <2>1 DEF SameCount
  <2>3. CountRowOf(g, m, k) = CountRowOf(h, m, k)
    BY <1>3, <2>2
  <2>4. QED BY <1>1, <2>3
<1>5. \E v : v \in CountRows
  <2>1. NoBits \in Bits
    BY DEF NoBits, Bits
  <2>2. [n \in Nat |-> NoBits] \in CountRows
    BY <2>1 DEF CountRows
  <2>3. QED BY <2>2
<1>6. PICK f \in [Positive -> CountRows] : \A k \in Positive : f[k] = G[<<k, f>>]
  BY <1>2, <1>4, <1>5, RecursionExists
<1>7. f = body(f)
  <2>1. \A k \in Positive : f[k] = CountRowOf(f, m, k)
    BY <1>1, <1>6
  <2>2. f = [k \in Positive |-> f[k]]
    OBVIOUS
  <2>3. QED BY <2>1, <2>2
<1>8. node = body(node)
  BY <1>7
<1>9. CountNode(m) = node
  BY DEF CountNode, CountRowOf, Positive
<1> HIDE DEF node
<1>10. \A k \in Positive : node[k] = CountRowOf(node, m, k)
  <2>1. \A g : \A k \in Positive : body(g)[k] = CountRowOf(g, m, k)
    OBVIOUS
  <2> HIDE DEF body
  <2>2. QED BY <1>8, <2>1
<1>11. \A k \in Positive : node[k] \in CountRows
  <2> DEFINE bad == {k \in Nat : k \in Positive /\ node[k] \notin CountRows}
  <2>1. SUFFICES ASSUME bad # {} PROVE FALSE
    BY DEF Positive
  <2>2. PICK k \in bad : \A j \in bad : k <= j
    BY <2>1, LeastNumber
  <2>3. k \in Positive /\ node[k] \notin CountRows /\ k \in Nat
    OBVIOUS
  <2>4. ASSUME NEW j \in 1 .. k - 1 PROVE node[j] \in CountRows
    <3>1. j \in Nat /\ j \in Positive /\ ~ (k <= j)
      BY <2>3 DEF Positive
    <3>2. j \notin bad
      BY <2>2, <3>1
    <3>3. QED BY <3>1, <3>2
  <2>5. CountRowOf(node, m, k) \in CountRows
    BY <2>3, <2>4, CountRowIs
  <2>6. QED BY <1>10, <2>3, <2>5
<1>12. node \in [Positive -> CountRows]
  <2>1. node = [k \in Positive |-> node[k]]
    <3>1. \A g : body(g) = [k \in Positive |-> body(g)[k]]
      OBVIOUS
    <3> HIDE DEF body
    <3>2. QED BY <1>8, <3>1
  <2>2. QED BY <1>11, <2>1
<1>13. QED BY <1>9, <1>10, <1>12, CountRowIs

\* r's positions are those of w and c bits further.
Ahead(r, w, c) == r.swo = w.swo + c.swo /\ r.ofr = w.ofr + c.ofr

\* Nodes of k samples are as long as they are counted.
CountsRight(m, k) ==
  \A n \in Nat : n >= m => \A w \in Layout :
    Ahead(SerialNode(m)[k][n][w], w, CountNode(m)[k][n])

LEMMA OneSample ==
  ASSUME NEW n \in Nat, NEW m \in Nat, n >= m
  PROVE  NodeCapacity(n, m, 1) = m
<1>1. m * 1 = m
  OBVIOUS
<1>2. QED BY <1>1 DEF NodeCapacity, Smaller

LEMMA CapacityHolds ==
  ASSUME NEW n \in Nat, NEW m \in Nat, n >= m, NEW c \in Positive
  PROVE  NodeCapacity(n, m, c) \in Nat /\ NodeCapacity(n, m, c) >= m
<1>1. c \in Nat /\ 1 <= c /\ 1 \in Nat
  BY DEF Positive
<1>2. m * 1 <= m * c /\ m * c \in Nat /\ m * 1 = m
  BY <1>1, Times
<1> DEFINE x == m * c
<1>3. x \in Nat /\ m <= x
  BY <1>2
<1> HIDE DEF x
<1>4. Smaller(n, x) \in Nat /\ Smaller(n, x) >= m
  BY <1>3 DEF Smaller
<1>5. QED BY <1>4 DEF NodeCapacity, x

LEMMA HereIs ==
  ASSUME NEW w \in Layout, NEW n \in Nat, NEW m \in Nat, NEW e \in Edge
  PROVE  /\ Here(w, n, m, e).swo = w.swo + (IF NodeCapacity(n, m, e.count) < n THEN n ELSE 0)
         /\ Here(w, n, m, e).ofr = w.ofr /\ w.swo \in Nat /\ w.ofr \in Nat
<1>1. w.swo \in Nat /\ w.ofr \in Nat
  BY DEF Layout
<1>2. FilterSpan(w, n).swo = w.swo + n /\ FilterSpan(w, n).ofr = w.ofr
  BY DEF FilterSpan
<1>3. QED BY <1>1, <1>2 DEF Here

LEMMA NodesReached ==
  ASSUME NEW m \in Nat, NEW k \in Positive
  PROVE  SerialNode(m)[k] \in Rows /\ CountNode(m)[k] \in CountRows
BY SerialNodeIs, CountNodeIs

LEMMA EdgeCounts ==
  ASSUME NEW m \in Nat, NEW n \in Nat, n >= m, NEW e \in Edge, e.count \in Positive,
         CountsRight(m, e.count), NEW v \in Layout, NEW t \in Bits, NEW w \in Layout, Ahead(v, w, t)
  PROVE  Ahead(SerialEdge(SerialNode(m), v, n, m, e), w, CountEdge(CountNode(m), t, n, m, e))
<1> DEFINE c == e.count
           child_n == NodeCapacity(n, m, c)
           here == Here(v, n, m, e)
           own == IF child_n < n THEN n ELSE 0
           child == CountNode(m)[c][child_n]
           r == SerialEdge(SerialNode(m), v, n, m, e)
<1>1. child_n \in Nat /\ child_n >= m
  BY CapacityHolds
<1>2. SerialNode(m)[c] \in Rows /\ CountNode(m)[c] \in CountRows
  BY NodesReached
<1>3. here \in Layout /\ r = IF c > 1 THEN SerialNode(m)[c][child_n][here] ELSE here
  <2>1. e.count > 1 => SerialNode(m)[e.count] \in Rows
    BY <1>2
  <2>2. PICK below : below = SerialNode(m)
    OBVIOUS
  <2> HIDE DEF c, child_n, here, r
  <2>3. e.count > 1 => below[e.count] \in Rows
    BY <2>1, <2>2
  <2>4. /\ Here(v, n, m, e) \in Layout
        /\ SerialEdge(below, v, n, m, e) =
             IF e.count > 1
             THEN below[e.count][NodeCapacity(n, m, e.count)][Here(v, n, m, e)]
             ELSE Here(v, n, m, e)
    BY <2>3, SerialEdgeIs
  <2>5. QED BY <2>2, <2>4 DEF c, child_n, here, r
<1>4. here.swo = v.swo + own /\ here.ofr = v.ofr /\ v.swo \in Nat /\ v.ofr \in Nat
  BY HereIs
<1>5. child.swo \in Nat /\ child.ofr \in Nat
  BY <1>1, <1>2, CountRowType
<1>6. r.swo = here.swo + child.swo /\ r.ofr = here.ofr + child.ofr
  <2>1. CASE c > 1
    <3>1. Ahead(SerialNode(m)[c][child_n][here], here, child)
      BY <1>1, <1>3 DEF CountsRight
    <3>2. QED BY <1>3, <2>1, <3>1 DEF Ahead
  <2>2. CASE ~ (c > 1)
    <3>1. c = 1 /\ 1 \in Positive
      BY <2>2 DEF Positive
    <3>2. child_n = m
      BY <3>1, OneSample
    <3>3. child = CountFrom(CountNode(m), <<>>, m, m, 1)
      BY <3>1, <3>2, CountNodeIs
    <3>4. child.swo = 0 /\ child.ofr = 0
      BY <3>3 DEF CountFrom
    <3>5. here.swo \in Nat /\ here.ofr \in Nat
      BY <1>3 DEF Layout
    <3>6. r = here
      BY <1>3, <2>2
    <3> HIDE DEF c, child_n, here, own, child, r
    <3>7. QED BY <3>4, <3>5, <3>6
  <2>3. QED BY <2>1, <2>2
<1>7. CountEdge(CountNode(m), t, n, m, e)
        = [swo |-> t.swo + own + child.swo, ofr |-> t.ofr + child.ofr]
  BY DEF CountEdge
<1>8. t.swo \in Nat /\ t.ofr \in Nat /\ w.swo \in Nat /\ w.ofr \in Nat
  BY DEF Bits, Layout
<1>9. own \in Nat
  OBVIOUS
<1>10. v.swo = w.swo + t.swo /\ v.ofr = w.ofr + t.ofr
  BY DEF Ahead
<1> HIDE DEF c, child_n, here, own, child, r
<1>11. /\ r.swo = w.swo + (t.swo + own + child.swo)
       /\ r.ofr = w.ofr + (t.ofr + child.ofr)
  BY <1>4, <1>5, <1>6, <1>8, <1>9, <1>10
<1>12. QED BY <1>7, <1>11 DEF Ahead, r

LEMMA LoopCounts ==
  ASSUME NEW m \in Nat, NEW n \in Nat, n >= m, NEW w \in Layout, NEW e \in Seq(Edge),
         \A i \in 1 .. Len(e) : e[i].count \in Positive /\ CountsRight(m, e[i].count)
  PROVE  Ahead(SerialEdges(SerialNode(m), w, n, m, e), w, CountEdges(CountNode(m), n, m, e))
<1>1. Len(e) \in Nat /\ \A i \in 1 .. Len(e) : e[i] \in Edge
  OBVIOUS
<1>2. Reaches(SerialNode(m), e) /\ Counts(CountNode(m), e)
  BY NodesReached DEF Reaches, Counts
<1>3. PICK f : /\ Goes(f, SerialNode(m), w, n, m, e)
               /\ SerialEdges(SerialNode(m), w, n, m, e) = f[Len(e)]
  BY <1>2, SerialLoop
<1>4. PICK s : SumsUp(s, CountNode(m), n, m, e) /\ CountEdges(CountNode(m), n, m, e) = s[Len(e)]
  BY <1>2, CountLoop
<1> DEFINE bad == {i \in Nat : i <= Len(e) /\ ~ Ahead(f[i], w, s[i])}
<1>5. bad = {}
  <2>1. SUFFICES ASSUME bad # {} PROVE FALSE
    OBVIOUS
  <2>2. PICK i \in bad : \A j \in bad : i <= j
    BY <2>1, LeastNumber
  <2>3. i \in Nat /\ i <= Len(e) /\ ~ Ahead(f[i], w, s[i])
    OBVIOUS
  <2>4. i # 0
    <3>1. f[0] = w /\ s[0] = NoBits
      BY <1>3, <1>4 DEF Goes, SumsUp
    <3>2. w.swo \in Nat /\ w.ofr \in Nat
      BY DEF Layout
    <3>3. Ahead(w, w, NoBits)
      BY <3>2 DEF Ahead, NoBits
    <3>4. QED BY <2>3, <3>1, <3>3
  <2>5. i - 1 \in Nat /\ i - 1 <= Len(e) /\ ~ (i <= i - 1) /\ i \in 1 .. Len(e)
        /\ i - 1 \in 0 .. Len(e)
    BY <1>1, <2>3, <2>4
  <2>6. i - 1 \notin bad
    BY <2>2, <2>5
  <2>7. Ahead(f[i - 1], w, s[i - 1])
    BY <2>5, <2>6
  <2>8. f[i - 1] \in Layout /\ s[i - 1] \in Bits
    BY <1>3, <1>4, <2>5 DEF Goes, SumsUp
  <2>9. /\ f[i] = SerialEdge(SerialNode(m), f[i - 1], n, m, e[i])
        /\ s[i] = CountEdge(CountNode(m), s[i - 1], n, m, e[i])
    BY <1>3, <1>4, <2>5 DEF Goes, SumsUp
  <2>10. e[i] \in Edge /\ e[i].count \in Positive /\ CountsRight(m, e[i].count)
    BY <1>1, <2>5
  <2>11. Ahead(f[i], w, s[i])
    BY <2>7, <2>8, <2>9, <2>10, EdgeCounts
  <2>12. QED BY <2>3, <2>11
<1>6. Ahead(f[Len(e)], w, s[Len(e)])
  BY <1>1, <1>5
<1>7. QED BY <1>3, <1>4, <1>6

LEMMA Regrouped ==
  ASSUME NEW a \in Nat, NEW b \in Nat, NEW c \in Nat, NEW d \in Nat,
         NEW x, NEW y, NEW z, x = a + d, y = x + b, z = y + c
  PROVE  z = a + (d + b + c)
OBVIOUS

\* The halves of a fork with own gates, one after the other.
Own(here, w, own) == here.swo = w.swo /\ here.ofr = w.ofr + own
Together(t, own, left, right) ==
  t = [swo |-> left.swo + right.swo, ofr |-> own + left.ofr + right.ofr]

LEMMA HalvesAhead ==
  ASSUME NEW w \in Layout, NEW own \in Nat, NEW left \in Bits, NEW right \in Bits,
         NEW here, NEW mid, NEW r, NEW t, Own(here, w, own),
         Ahead(mid, here, left), Ahead(r, mid, right), Together(t, own, left, right)
  PROVE  Ahead(r, w, t)
<1>0. /\ w.swo \in Nat /\ w.ofr \in Nat /\ left.swo \in Nat /\ left.ofr \in Nat
      /\ right.swo \in Nat /\ right.ofr \in Nat /\ here.swo = w.swo /\ here.ofr = w.ofr + own
  BY DEF Layout, Bits, Own
<1>1. mid.swo = here.swo + left.swo /\ mid.ofr = here.ofr + left.ofr
  BY DEF Ahead
<1>2. r.swo = mid.swo + right.swo /\ r.ofr = mid.ofr + right.ofr
  BY DEF Ahead
<1>3. r.ofr = w.ofr + (own + left.ofr + right.ofr)
  BY <1>0, <1>1, <1>2, Regrouped
<1>4. r.swo = w.swo + (left.swo + right.swo)
  <2>1. 0 \in Nat /\ here.swo = w.swo + 0
    BY <1>0
  <2>2. r.swo = w.swo + (0 + left.swo + right.swo)
    BY <1>0, <1>1, <1>2, <2>1, Regrouped
  <2>3. 0 + left.swo = left.swo
    BY <1>0
  <2>4. QED BY <2>2, <2>3
<1>5. t.swo = left.swo + right.swo /\ t.ofr = own + left.ofr + right.ofr
  BY DEF Together
<1>6. QED BY <1>3, <1>4, <1>5 DEF Ahead

LEMMA NodeCounts ==
  ASSUME NEW m \in Nat, NEW n \in Nat, n >= m, NEW k \in Positive, NEW w \in Layout, NEW frontier,
         \A j \in 1 .. k - 1 : CountsRight(m, j),
         k > 1 => LET e == Edges(frontier, k)
                  IN /\ e \in Seq(Edge)
                     /\ \A i \in 1 .. Len(e) : e[i].count \in Positive /\ CountsRight(m, e[i].count)
  PROVE  Ahead(SerialFrom(SerialNode(m), w, frontier, n, m, k), w,
               CountFrom(CountNode(m), frontier, n, m, k))
<1> DEFINE r == SerialFrom(SerialNode(m), w, frontier, n, m, k)
           t == CountFrom(CountNode(m), frontier, n, m, k)
<1>1. k \in Nat /\ k # 0 /\ w.swo \in Nat /\ w.ofr \in Nat
  BY DEF Positive, Layout
<1>2. CASE k = 1
  <2>1. t = [swo |-> IF n = m THEN 0 ELSE n, ofr |-> 0]
    BY <1>2 DEF CountFrom
  <2>2. CASE n = m
    <3>1. r = w
      BY <1>2, <2>2 DEF SerialFrom, Leaf
    <3>2. QED BY <1>1, <2>1, <2>2, <3>1 DEF Ahead
  <2>3. CASE n # m
    <3> DEFINE e == <<[start |-> 0, count |-> 1]>>
               edge == [start |-> 0, count |-> 1]
    <3>1. r = SerialEdges(SerialNode(m), w, n, m, e)
      BY <1>2, <2>3 DEF SerialFrom, Leaf, Fork, Edges
    <3>2. edge \in Edge
      BY DEF Edge
    <3>3. e \in Seq(Edge) /\ Len(e) = 1 /\ e[1] = edge /\ edge.count = 1
      BY <3>2
    <3> HIDE DEF e, edge
    <3>4. Reaches(SerialNode(m), e)
      BY <3>3 DEF Reaches
    <3>5. PICK f : /\ Goes(f, SerialNode(m), w, n, m, e)
                   /\ SerialEdges(SerialNode(m), w, n, m, e) = f[Len(e)]
      BY <3>3, <3>4, SerialLoop
    <3>6. f[0] = w /\ f[1] = SerialEdge(SerialNode(m), f[1 - 1], n, m, e[1])
      BY <3>3, <3>5 DEF Goes
    <3>7. r = SerialEdge(SerialNode(m), w, n, m, edge)
      BY <3>1, <3>3, <3>5, <3>6
    <3>8. r = Here(w, n, m, edge)
      BY <3>2, <3>3, <3>7, SerialEdgeIs
    <3>9. NodeCapacity(n, m, 1) = m /\ m < n
      BY <2>3, OneSample
    <3>10. r.swo = w.swo + n /\ r.ofr = w.ofr
      BY <3>2, <3>3, <3>8, <3>9, HereIs
    <3>11. t.swo = n /\ t.ofr = 0
      BY <2>1, <2>3
    <3> HIDE DEF r, t
    <3>12. Ahead(r, w, t)
      BY <1>1, <3>10, <3>11 DEF Ahead
    <3>13. QED BY <3>12 DEF r, t
  <2>4. QED BY <2>2, <2>3
<1>3. CASE k > 1 /\ Fork(n, m, k)
  <2> DEFINE h == k \div 2
             x == m * h
             own == ControlCount[n][x]
             here == ForkSpan(w, own)
             left == CountNode(m)[h][x]
             right == CountNode(m)[k - h][n - x]
             mid == SerialNode(m)[h][x][here]
  <2>1. r = SerialNode(m)[k - h][n - x][mid]
    BY <1>3 DEF SerialFrom, Leaf
  <2>2. Together(t, own, left, right)
    BY <1>3 DEF CountFrom, Together
  <2>3. /\ h \in 1 .. k - 1 /\ k - h \in 1 .. k - 1 /\ x \in Nat /\ n - x \in Nat /\ own \in Nat
        /\ m * (k - h) = n - x
    BY <1>1, <1>3, ForkParts
  <2> HIDE DEF h
  <2>4. h \in Positive /\ k - h \in Positive /\ CountsRight(m, h) /\ CountsRight(m, k - h)
    <3>1. \A j \in 1 .. k - 1 : j \in Positive /\ CountsRight(m, j)
      BY <1>1 DEF Positive
    <3>2. QED BY <2>3, <3>1
  <2>5. x >= m /\ n - x >= m
    <3>1. h \in Nat /\ k - h \in Nat /\ 1 <= h /\ 1 <= k - h /\ 1 \in Nat
      BY <2>3
    <3>2. m * 1 <= m * h /\ m * 1 <= m * (k - h) /\ m * 1 = m
      BY <3>1, Times
    <3>3. m <= x /\ m <= n - x
      BY <2>3, <3>2
    <3> HIDE DEF x
    <3>4. QED BY <2>3, <3>3
  <2>6. here \in Layout /\ Own(here, w, own)
    BY <2>3, LayoutGrows DEF ForkSpan, Own
  <2> HIDE DEF x, own, here
  <2>7. mid \in Layout /\ Ahead(mid, here, left)
    <3>1. SerialNode(m)[h] \in Rows
      BY <2>4, NodesReached
    <3>2. mid \in Layout
      BY <2>3, <2>6, <3>1, RowType
    <3>3. Ahead(mid, here, left)
      BY <2>3, <2>4, <2>5, <2>6 DEF CountsRight
    <3>4. QED BY <3>2, <3>3
  <2>8. left \in Bits /\ right \in Bits
    <3>1. CountNode(m)[h] \in CountRows /\ CountNode(m)[k - h] \in CountRows
      BY <2>4, NodesReached
    <3>2. QED BY <2>3, <3>1, CountRowType
  <2> HIDE DEF left, mid
  <2>9. Ahead(SerialNode(m)[k - h][n - x][mid], mid, right)
    BY <2>3, <2>4, <2>5, <2>7 DEF CountsRight
  <2>10. Ahead(r, mid, right)
    BY <2>1, <2>9
  <2> HIDE DEF right, r, t
  <2>11. Ahead(r, w, t)
    BY <2>2, <2>3, <2>6, <2>7, <2>8, <2>10, HalvesAhead
  <2>12. QED BY <2>11 DEF r, t
<1>4. CASE k > 1 /\ ~ Fork(n, m, k)
  <2>1. PICK e : /\ e = Edges(frontier, k) /\ e \in Seq(Edge)
                 /\ \A i \in 1 .. Len(e) : e[i].count \in Positive /\ CountsRight(m, e[i].count)
    BY <1>4
  <2>2. r = SerialEdges(SerialNode(m), w, n, m, e)
    BY <1>4, <2>1 DEF SerialFrom, Leaf
  <2>3. t = CountEdges(CountNode(m), n, m, e)
    BY <1>1, <1>4, <2>1 DEF CountFrom
  <2>4. Ahead(SerialEdges(SerialNode(m), w, n, m, e), w, CountEdges(CountNode(m), n, m, e))
    BY <2>1, LoopCounts
  <2>5. QED BY <2>2, <2>3, <2>4
<1>5. QED BY <1>1, <1>2, <1>3, <1>4

LEMMA AllCountRight ==
  ASSUME NEW m \in Nat
  PROVE  \A k \in Positive : CountsRight(m, k)
<1> DEFINE bad == {k \in Nat : k \in Positive /\ ~ CountsRight(m, k)}
<1>1. SUFFICES ASSUME bad # {} PROVE FALSE
  BY DEF Positive
<1>2. PICK k \in bad : \A j \in bad : k <= j
  BY <1>1, LeastNumber
<1>3. k \in Positive /\ ~ CountsRight(m, k) /\ k \in Nat
  OBVIOUS
<1>4. ASSUME NEW j \in 1 .. k - 1 PROVE CountsRight(m, j) /\ j \in Positive
  <2>1. j \in Nat /\ j \in Positive /\ ~ (k <= j)
    BY <1>3 DEF Positive
  <2>2. j \notin bad
    BY <1>2, <2>1
  <2>3. QED BY <2>1, <2>2
<1>5. PICK e : e = Edges(<<>>, k)
  OBVIOUS
<1>6. k > 1 => /\ e \in Seq(Edge)
               /\ \A i \in 1 .. Len(e) : e[i].count \in Positive /\ CountsRight(m, e[i].count)
  BY <1>3, <1>4, <1>5, SeveralEdges
<1>7. ASSUME NEW n \in Nat, n >= m, NEW w \in Layout
      PROVE  Ahead(SerialNode(m)[k][n][w], w, CountNode(m)[k][n])
  <2>1. /\ SerialNode(m)[k][n][w] = SerialFrom(SerialNode(m), w, <<>>, n, m, k)
        /\ CountNode(m)[k][n] = CountFrom(CountNode(m), <<>>, n, m, k)
    BY <1>3, SerialNodeIs, CountNodeIs
  <2>2. Ahead(SerialFrom(SerialNode(m), w, <<>>, n, m, k), w, CountFrom(CountNode(m), <<>>, n, m, k))
    BY <1>3, <1>4, <1>5, <1>6, <1>7, NodeCounts
  <2>3. QED BY <2>1, <2>2
<1>8. QED BY <1>3, <1>7 DEF CountsRight

-----------------------------------------------------------------------------
(* The plan's layout is the serial one.                                     *)

\* The edge to a piece.
Start(w, p) == IF Filters(p) THEN FilterSpan(w, p.parent_n) ELSE w
SerialPiece(m, frontier, w, p) == SerialFrom(SerialNode(m), Start(w, p), frontier, p.n, m, p.k)

\* f goes through the pieces q.
Lays(f, m, q, w) ==
  /\ f \in [0 .. Len(q) -> Layout] /\ f[0] = w
  /\ \A i \in 1 .. Len(q) : f[i] = SerialPiece(m, <<>>, f[i - 1], q[i])

\* A node's gates.
Opened(w, m, p) == IF Fork(p.n, m, p.k) THEN ForkSpan(w, Gates(m, p)) ELSE w

\* A node's pieces are laid out one after another, and that is the node's layout.
LaidOut(m, frontier, w, p, q) ==
  \E f : /\ Lays(f, m, q, Opened(w, m, p))
         /\ f[Len(q)] = SerialFrom(SerialNode(m), w, frontier, p.n, m, p.k)

LEMMA StartGrows ==
  ASSUME NEW w \in Layout, NEW p, p.parent_n \in Nat
  PROVE  Start(w, p) \in Layout
BY LayoutGrows DEF Start

LEMMA KnowsAll ==
  ASSUME NEW frontier \in Seq(Edge), NEW m \in Nat, NEW k \in Positive
  PROVE  Knows(SerialNode(m), frontier, k)
<1>1. \A j \in Positive : SerialNode(m)[j] \in Rows
  BY NodesReached
<1>2. k > 1 => k \div 2 \in Positive /\ k - k \div 2 \in Positive
  BY DEF Positive
<1>3. Edges(frontier, k) \in Seq(Edge)
  <2>1. CASE k = 1
    <3>1. [start |-> 0, count |-> 1] \in Edge
      BY DEF Edge
    <3>2. QED BY <2>1, <3>1 DEF Edges
  <2>2. CASE k # 1 /\ frontier = <<>>
    <3>1. k > 1 /\ k \in Nat
      BY <2>2 DEF Positive
    <3>2. Halves(k) \in Seq(Edge)
      BY <3>1, HalvesShare DEF ShareOut
    <3>3. QED BY <2>2, <3>2 DEF Edges
  <2>3. CASE k # 1 /\ frontier # <<>>
    BY <2>3 DEF Edges
  <2>4. QED BY <2>1, <2>2, <2>3
<1>4. PICK e \in Seq(Edge) : e = Edges(frontier, k)
  BY <1>3
<1>5. \A i \in 1 .. Len(e) : e[i].count > 1 => SerialNode(m)[e[i].count] \in Rows
  <2>1. \A i \in 1 .. Len(e) : e[i] \in Edge
    BY <1>4
  <2>2. \A x \in Edge : x.count > 1 => x.count \in Positive
    BY DEF Edge, Positive
  <2>3. QED BY <1>1, <2>1, <2>2
<1>6. QED BY <1>1, <1>2, <1>3, <1>4, <1>5 DEF Knows, Reaches

LEMMA PieceLaid ==
  ASSUME NEW m \in Nat, NEW frontier \in Seq(Edge), NEW w \in Layout, NEW p,
         p.parent_n \in Nat, p.n \in Nat, p.k \in Positive
  PROVE  SerialPiece(m, frontier, w, p) \in Layout
BY KnowsAll, StartGrows, SerialFromType DEF SerialPiece

LEMMA LeafLaid ==
  ASSUME NEW m \in Nat, NEW p, Leaf(p.n, m, p.k), NEW frontier, NEW w \in Layout
  PROVE  LaidOut(m, frontier, w, p, <<>>)
<1> DEFINE f == [i \in {0} |-> w]
<1>1. Opened(w, m, p) = w
  BY DEF Opened, Fork, Leaf
<1>2. SerialFrom(SerialNode(m), w, frontier, p.n, m, p.k) = w
  BY DEF SerialFrom
<1>3. f \in [0 .. 0 -> Layout] /\ f[0] = w
  OBVIOUS
<1>4. Len(<<>>) = 0 /\ \A i : i \notin 1 .. 0
  OBVIOUS
<1> HIDE DEF f
<1>5. Lays(f, m, <<>>, w)
  BY <1>3, <1>4 DEF Lays
<1>6. QED BY <1>1, <1>2, <1>3, <1>4, <1>5 DEF LaidOut

LEMMA ForkLaid ==
  ASSUME NEW m \in Nat \ {0}, NEW n \in Nat, NEW k \in Positive, Fork(n, m, k),
         NEW p, p.n = n, p.k = k, NEW frontier, NEW w \in Layout,
         NEW q, q \in Seq(PieceRecord), PiecesFollow(q, Halves(k), n, m, k, p.output)
  PROVE  LaidOut(m, frontier, w, p, q)
<1> DEFINE h == k \div 2
           x == m * h
           here == Opened(w, m, p)
           mid == SerialNode(m)[h][x][here]
           end == SerialNode(m)[k - h][n - x][mid]
           f == <<here, mid, end>>
           g == [i \in 0 .. 2 |-> f[i + 1]]
<1>1. /\ k > 1 /\ h \in 1 .. k - 1 /\ k - h \in 1 .. k - 1 /\ x \in Nat /\ n - x \in Nat
      /\ m * (k - h) = n - x /\ ControlCount[n][x] \in Nat /\ m \in Nat /\ k \in Nat
  <2>1. k \in Nat /\ m \in Nat
    BY DEF Positive
  <2>2. QED BY <2>1, ForkParts
<1>2. /\ Len(Halves(k)) = 2 /\ DOMAIN Halves(k) = 1 .. 2
      /\ Halves(k)[1].count = h /\ Halves(k)[2].count = k - h
  <2>1. /\ ShareOut(Halves(k), k) /\ Len(Halves(k)) = 2
        /\ Halves(k)[1] = [start |-> 0, count |-> h]
        /\ Halves(k)[2] = [start |-> h, count |-> k - h]
    BY <1>1, HalvesShare
  <2>2. DOMAIN Halves(k) = 1 .. Len(Halves(k))
    BY <2>1 DEF ShareOut
  <2>3. QED BY <2>1, <2>2
<1> HIDE DEF h
<1>3. Len(q) = 2 /\ q[1].k = h /\ q[2].k = k - h
      /\ q[1].n = NodeCapacity(n, m, h) /\ q[2].n = NodeCapacity(n, m, k - h)
      /\ q[1].parent_n = 0 /\ q[2].parent_n = 0
  <2>1. DOMAIN q = 1 .. 2 /\ 1 \in DOMAIN Halves(k) /\ 2 \in DOMAIN Halves(k)
    BY <1>2 DEF PiecesFollow
  <2>2. Len(q) = 2
    BY <2>1
  <2>3. QED BY <1>2, <2>1, <2>2 DEF PiecesFollow
<1>4. q[1].n = x /\ q[2].n = n - x
  <2>1. q[1].n = Smaller(n, x) /\ q[2].n = Smaller(n, n - x)
    BY <1>1, <1>3 DEF NodeCapacity
  <2> HIDE DEF x
  <2>2. x <= n /\ n - x <= n
    BY <1>1
  <2>3. QED BY <1>1, <2>1, <2>2 DEF Smaller
<1>5. here \in Layout /\ here = ForkSpan(w, ControlCount[n][x])
  BY <1>1, LayoutGrows DEF Opened, Gates, h
<1>6. h \in Positive /\ k - h \in Positive
  <2>1. \A j \in 1 .. k - 1 : j \in Positive
    BY <1>1 DEF Positive
  <2>2. QED BY <1>1, <2>1
<1>7. SerialFrom(SerialNode(m), w, frontier, n, m, k) = end
  <2>1. ~ Leaf(n, m, k)
    BY <1>1 DEF Leaf
  <2>2. end = SerialNode(m)[k - h][n - x][SerialNode(m)[h][x][ForkSpan(w, ControlCount[n][x])]]
    BY <1>5
  <2>3. QED BY <2>1, <2>2 DEF SerialFrom, h
<1> HIDE DEF here, x
<1>8. mid \in Layout /\ mid = SerialFrom(SerialNode(m), here, <<>>, x, m, h)
  BY <1>1, <1>5, <1>6, NodesReached, RowType, SerialNodeIs
<1>9. PICK v \in Layout : v = mid
  BY <1>8
<1>10. SerialNode(m)[k - h][n - x][v] \in Layout
       /\ SerialNode(m)[k - h][n - x][v] = SerialFrom(SerialNode(m), v, <<>>, n - x, m, k - h)
  BY <1>1, <1>6, NodesReached, RowType, SerialNodeIs
<1>11. end \in Layout /\ end = SerialFrom(SerialNode(m), mid, <<>>, n - x, m, k - h)
  BY <1>9, <1>10
<1> HIDE DEF mid, end
<1>12. Start(here, q[1]) = here /\ Start(mid, q[2]) = mid
  <2>1. ~ (x < 0) /\ ~ (n - x < 0)
    BY <1>1
  <2>2. ~ Filters(q[1]) /\ ~ Filters(q[2])
    BY <1>1, <1>3, <1>4, <2>1 DEF Filters
  <2>3. QED BY <2>2 DEF Start
<1>13. /\ mid = SerialPiece(m, <<>>, here, q[1])
       /\ end = SerialPiece(m, <<>>, mid, q[2])
  BY <1>3, <1>4, <1>8, <1>11, <1>12 DEF SerialPiece
<1>14. g \in [0 .. 2 -> Layout] /\ g[0] = here /\ g[1] = mid /\ g[2] = end
  BY <1>5, <1>8, <1>11
<1> HIDE DEF g
<1>15. Lays(g, m, q, here)
  <2>1. \A i \in 1 .. 2 : g[i] = SerialPiece(m, <<>>, g[i - 1], q[i])
    <3>1. g[1] = SerialPiece(m, <<>>, g[1 - 1], q[1]) /\ g[2] = SerialPiece(m, <<>>, g[2 - 1], q[2])
      BY <1>13, <1>14
    <3>2. \A i \in 1 .. 2 : i = 1 \/ i = 2
      OBVIOUS
    <3>3. QED BY <3>1, <3>2
  <2>2. QED BY <1>3, <1>14, <2>1 DEF Lays
<1>16. g[Len(q)] = SerialFrom(SerialNode(m), w, frontier, n, m, k)
  BY <1>3, <1>7, <1>14
<1>17. QED BY <1>15, <1>16 DEF LaidOut, here

\* An edge of the loop is the edge to its piece, and the piece.
LEMMA EdgeLaid ==
  ASSUME NEW m \in Nat, NEW n \in Nat, n >= m, NEW e \in Edge, e.count \in Positive,
         NEW w \in Layout, NEW p, p.n = NodeCapacity(n, m, e.count), p.k = e.count, p.parent_n = n
  PROVE  SerialEdge(SerialNode(m), w, n, m, e) = SerialPiece(m, <<>>, w, p)
<1>1. PICK below : below = SerialNode(m)
  OBVIOUS
<1>2. below[e.count] \in Rows
  BY <1>1, NodesReached
<1>3. /\ Here(w, n, m, e) \in Layout
      /\ SerialEdge(below, w, n, m, e) =
           IF e.count > 1
           THEN below[e.count][NodeCapacity(n, m, e.count)][Here(w, n, m, e)]
           ELSE Here(w, n, m, e)
  BY <1>2, SerialEdgeIs
<1>4. Here(w, n, m, e) = Start(w, p)
  BY DEF Here, Start, Filters
<1>5. p.n \in Nat /\ p.n >= m
  BY CapacityHolds
<1>6. CASE e.count > 1
  <2>1. SerialEdge(below, w, n, m, e) = below[e.count][p.n][Start(w, p)]
    BY <1>3, <1>4, <1>6
  <2>2. SerialNode(m)[e.count][p.n][Start(w, p)] =
          SerialFrom(SerialNode(m), Start(w, p), <<>>, p.n, m, e.count)
    BY <1>3, <1>4, <1>5, SerialNodeIs
  <2>3. QED BY <1>1, <2>1, <2>2 DEF SerialPiece
<1>7. CASE ~ (e.count > 1)
  <2>1. e.count = 1
    BY <1>7 DEF Positive
  <2>2. p.n = m
    BY <2>1, OneSample
  <2>3. Leaf(p.n, m, p.k)
    BY <2>1, <2>2 DEF Leaf
  <2>4. SerialPiece(m, <<>>, w, p) = Start(w, p)
    BY <2>3 DEF SerialPiece, SerialFrom
  <2>5. QED BY <1>1, <1>3, <1>4, <1>7, <2>4
<1>8. QED BY <1>6, <1>7

LEMMA LoopLaid ==
  ASSUME NEW m \in Nat \ {0}, NEW p, ~ Leaf(p.n, m, p.k), ~ Fork(p.n, m, p.k), p.n \in Nat, p.n >= m,
         p.k \in Positive, NEW frontier, NEW w \in Layout, NEW e, e = Edges(frontier, p.k),
         ShareOut(e, p.k),
         NEW q, q \in Seq(PieceRecord), PiecesFollow(q, e, p.n, m, p.k, p.output)
  PROVE  LaidOut(m, frontier, w, p, q)
<1>1. e \in Seq(Edge) /\ \A i \in 1 .. Len(e) : e[i] \in Edge /\ e[i].count \in Positive
  <2>1. e \in Seq(Edge) /\ \A i \in 1 .. Len(e) : e[i].count >= 1
    BY DEF ShareOut
  <2>2. \A x \in Edge : x.count >= 1 => x.count \in Positive
    BY DEF Edge, Positive
  <2>3. ASSUME NEW i \in 1 .. Len(e) PROVE e[i] \in Edge /\ e[i].count \in Positive
    <3>1. e[i] \in Edge /\ e[i].count >= 1
      BY <2>1
    <3>2. QED BY <2>2, <3>1
  <2>4. QED BY <2>1, <2>3
<1>2. Reaches(SerialNode(m), e)
  BY <1>1, NodesReached DEF Reaches
<1>3. PICK f : /\ Goes(f, SerialNode(m), w, p.n, m, e)
               /\ SerialEdges(SerialNode(m), w, p.n, m, e) = f[Len(e)]
  BY <1>1, <1>2, SerialLoop
<1>4. Len(q) = Len(e)
  <2>1. DOMAIN q = DOMAIN e
    BY DEF PiecesFollow
  <2>2. PICK a \in Nat, b \in Nat : a = Len(q) /\ b = Len(e) /\ DOMAIN q = 1 .. a /\ DOMAIN e = 1 .. b
    BY <1>1
  <2>3. 1 .. a = 1 .. b
    BY <2>1, <2>2
  <2>4. a = b
    <3>1. CASE a = 0
      <4>1. 1 \notin 1 .. b
        BY <2>3, <3>1
      <4>2. QED BY <2>2, <3>1, <4>1
    <3>2. CASE a > 0 /\ b > 0
      <4>1. a \in 1 .. b /\ b \in 1 .. a
        BY <2>2, <2>3, <3>2
      <4>2. QED BY <2>2, <4>1
    <3>3. CASE b = 0
      <4>1. 1 \notin 1 .. a
        BY <2>3, <3>3
      <4>2. QED BY <2>2, <3>3, <4>1
    <3>4. QED BY <2>2, <3>1, <3>2, <3>3
  <2>5. QED BY <2>2, <2>4
<1>5. ASSUME NEW i \in 1 .. Len(e) PROVE f[i] = SerialPiece(m, <<>>, f[i - 1], q[i])
  <2>1. i - 1 \in 0 .. Len(e) /\ i \in DOMAIN e
    BY <1>1
  <2>2. f[i] = SerialEdge(SerialNode(m), f[i - 1], p.n, m, e[i]) /\ f[i - 1] \in Layout
    BY <1>3, <2>1 DEF Goes
  <2>3. /\ q[i].n = NodeCapacity(p.n, m, e[i].count) /\ q[i].k = e[i].count
        /\ q[i].parent_n = p.n
    BY <2>1 DEF PiecesFollow
  <2>4. QED BY <1>1, <2>2, <2>3, EdgeLaid
<1>6. Opened(w, m, p) = w
  BY DEF Opened
<1>7. Lays(f, m, q, w)
  BY <1>3, <1>4, <1>5 DEF Lays, Goes
<1>8. SerialFrom(SerialNode(m), w, frontier, p.n, m, p.k) = f[Len(q)]
  BY <1>3, <1>4 DEF SerialFrom
<1>9. QED BY <1>6, <1>7, <1>8 DEF LaidOut

LEMMA PiecesLaid ==
  ASSUME NEW m \in Nat \ {0}, NEW s, NEW top \in Nat, NEW p, Sound(p, m, s, top),
         NEW frontier, FrontierFits(frontier, p.n, m, p.k), NEW w \in Layout,
         NEW q, q = Pieces(frontier, m, p)
  PROVE  LaidOut(m, frontier, w, p, q)
<1>1. /\ p.n \in Nat /\ p.n >= m /\ p.k \in Nat \ {0} /\ p.k \in Positive
      /\ p.output \in Nat /\ m \in Nat
  <2>1. p.n \in Nat /\ m <= p.n /\ p.k \in Nat \ {0} /\ p.output = m * s /\ s \in Nat
    BY DEF Sound
  <2>2. QED BY <2>1, Times DEF Positive
<1>2. q \in Seq(PieceRecord)
  BY PiecesSequence
<1>3. CASE Leaf(p.n, m, p.k)
  <2>1. q = <<>>
    BY <1>3, PiecesSequence
  <2>2. LaidOut(m, frontier, w, p, <<>>)
    BY <1>1, <1>3, LeafLaid
  <2>3. QED BY <2>1, <2>2
<1>4. CASE ~ Leaf(p.n, m, p.k)
  <2>1. PiecesFollow(q, Division(frontier, m, p), p.n, m, p.k, p.output)
    BY <1>1, <1>4, PiecesAre
  <2>2. CASE Fork(p.n, m, p.k)
    <3>1. Division(frontier, m, p) = Halves(p.k)
      BY <2>2 DEF Division
    <3>2. PiecesFollow(q, Halves(p.k), p.n, m, p.k, p.output)
      BY <2>1, <3>1
    <3>3. QED BY <1>1, <1>2, <2>2, <3>2, ForkLaid
  <2>3. CASE ~ Fork(p.n, m, p.k)
    <3>1. PICK e : e = Edges(frontier, p.k)
      OBVIOUS
    <3>2. Division(frontier, m, p) = e
      BY <2>3, <3>1 DEF Division
    <3>3. ShareOut(e, p.k)
      BY <1>1, <3>2, DivisionShares
    <3>4. PiecesFollow(q, e, p.n, m, p.k, p.output)
      BY <2>1, <3>2
    <3>5. QED BY <1>1, <1>2, <1>4, <2>3, <3>1, <3>3, <3>4, LoopLaid
  <2>4. QED BY <2>2, <2>3
<1>5. QED BY <1>3, <1>4

\* What a node adds to the spans of the SWO tape.
SpanTurn(s, node) ==
  IF node.filter THEN Append(s, [offset |-> node.position, count |-> node.parent_n]) ELSE s

LEMMA SpanTurnType ==
  ASSUME NEW s \in Seq(TapeSpan), NEW node \in NodeRecord
  PROVE  SpanTurn(s, node) \in Seq(TapeSpan)
<1>1. [offset |-> node.position, count |-> node.parent_n] \in TapeSpan
  BY DEF NodeRecord, TapeSpan
<1>2. QED BY <1>1 DEF SpanTurn

Gathers(f, nodes) ==
  /\ f \in [0 .. Len(nodes) -> Seq(TapeSpan)] /\ f[0] = <<>>
  /\ \A i \in 1 .. Len(nodes) : f[i] = SpanTurn(f[i - 1], nodes[i])

LEMMA SpansLoop ==
  ASSUME NEW nodes \in Seq(NodeRecord)
  PROVE  \E f : Gathers(f, nodes) /\ FilterSpans(nodes) = f[Len(nodes)]
<1> DEFINE N == Len(nodes)
           body(f) == [i \in 0 .. N |-> IF i = 0 THEN <<>>
                                        ELSE SpanTurn(f[i - 1], nodes[i])]
           F == [i \in 1 .. N |-> [v \in Seq(TapeSpan) |-> SpanTurn(v, nodes[i])]]
           spans == CHOOSE f : f = body(f)
<1>1. N \in Nat /\ \A i \in 1 .. N : nodes[i] \in NodeRecord
  OBVIOUS
<1>2. ASSUME NEW i \in 1 .. N, NEW v \in Seq(TapeSpan)
      PROVE  SpanTurn(v, nodes[i]) \in Seq(TapeSpan)
  BY <1>1, SpanTurnType
<1>3. F \in [1 .. N -> [Seq(TapeSpan) -> Seq(TapeSpan)]]
  BY <1>2
<1>4. \A i \in 1 .. N : \A v \in Seq(TapeSpan) : F[i][v] = SpanTurn(v, nodes[i])
  OBVIOUS
<1> HIDE DEF F, N
<1>5. PICK g : g \in [0 .. N -> Seq(TapeSpan)] /\ g[0] = <<>> /\ \A i \in 1 .. N : g[i] = F[i][g[i - 1]]
  <2>1. <<>> \in Seq(TapeSpan)
    OBVIOUS
  <2>2. \E g : Turns(g, Seq(TapeSpan), <<>>, N, F)
    BY <1>1, <1>3, <2>1, LoopExists
  <2>3. QED BY <2>2 DEF Turns
<1>6. \A i \in 1 .. N : i \in 0 .. N /\ i - 1 \in 0 .. N /\ i # 0
  BY <1>1
<1>7. \A i \in 1 .. N : g[i] = SpanTurn(g[i - 1], nodes[i])
  BY <1>4, <1>5, <1>6
<1>8. g = body(g)
  <2>1. \A i \in 0 .. N : g[i] = IF i = 0 THEN <<>> ELSE SpanTurn(g[i - 1], nodes[i])
    <3>1. \A i \in 0 .. N : i = 0 \/ i \in 1 .. N
      BY <1>1
    <3>2. QED BY <1>5, <1>6, <1>7, <3>1
  <2>2. g = [i \in 0 .. N |-> g[i]]
    BY <1>5
  <2>3. QED BY <2>1, <2>2
<1>9. spans = body(spans)
  BY <1>8
<1>10. FilterSpans(nodes) = spans[N]
  BY DEF FilterSpans, SpanTurn, N
<1> HIDE DEF spans
<1>11. spans[0] = <<>> /\ \A i \in 1 .. N : spans[i] = SpanTurn(spans[i - 1], nodes[i])
  <2>1. \A f : body(f)[0] = <<>> /\ \A i \in 1 .. N : body(f)[i] = SpanTurn(f[i - 1], nodes[i])
    BY <1>1, <1>6
  <2> HIDE DEF body
  <2>2. QED BY <1>9, <2>1
<1>12. \A i \in 0 .. N : spans[i] = g[i]
  <2>1. \A i \in 1 .. N : spans[i - 1] = g[i - 1] => spans[i] = g[i]
    BY <1>7, <1>11
  <2>2. spans[0] = g[0]
    BY <1>5, <1>11
  <2>3. GoAlike(spans, g, N)
    BY <2>1, <2>2 DEF GoAlike
  <2>4. QED BY <1>1, <2>3, LoopsAgree
<1>13. FilterSpans(nodes) = g[N]
  BY <1>1, <1>10, <1>12
<1>14. QED BY <1>5, <1>7, <1>13 DEF Gathers, N


LEMMA SpansType ==
  ASSUME NEW nodes \in Seq(NodeRecord)
  PROVE  /\ FilterSpans(nodes) \in Seq(TapeSpan)
         /\ Len(nodes) = 0 => FilterSpans(nodes) = <<>>
<1>1. PICK f : Gathers(f, nodes) /\ FilterSpans(nodes) = f[Len(nodes)]
  BY SpansLoop
<1>2. Len(nodes) \in Nat /\ Len(nodes) \in 0 .. Len(nodes)
  OBVIOUS
<1>3. QED BY <1>1, <1>2 DEF Gathers

\* One more node, one more turn.
LEMMA SpansGrow ==
  ASSUME NEW nodes \in Seq(NodeRecord), NEW later \in Seq(NodeRecord),
         Len(later) = Len(nodes) + 1, \A i \in 1 .. Len(nodes) : later[i] = nodes[i]
  PROVE  FilterSpans(later) = SpanTurn(FilterSpans(nodes), later[Len(nodes) + 1])
<1>1. PICK f : Gathers(f, nodes) /\ FilterSpans(nodes) = f[Len(nodes)]
  BY SpansLoop
<1>2. PICK g : Gathers(g, later) /\ FilterSpans(later) = g[Len(later)]
  BY SpansLoop
<1>3. PICK N \in Nat : N = Len(nodes) /\ Len(later) = N + 1
  OBVIOUS
<1>4. \A i \in 0 .. N : f[i] = g[i]
  <2>1. f[0] = g[0]
    BY <1>1, <1>2 DEF Gathers
  <2>2. \A i \in 1 .. N : f[i] = SpanTurn(f[i - 1], nodes[i])
    BY <1>1, <1>3 DEF Gathers
  <2>3. \A i \in 1 .. N : i \in 1 .. N + 1 /\ later[i] = nodes[i]
    BY <1>3
  <2>4. \A i \in 1 .. N + 1 : g[i] = SpanTurn(g[i - 1], later[i])
    BY <1>2, <1>3 DEF Gathers
  <2>5. \A i \in 1 .. N : g[i] = SpanTurn(g[i - 1], nodes[i])
    BY <2>3, <2>4
  <2>6. GoAlike(f, g, N)
    BY <2>1, <2>2, <2>5 DEF GoAlike
  <2>7. QED BY <1>3, <2>6, LoopsAgree
<1>5. g[N + 1] = SpanTurn(g[(N + 1) - 1], later[N + 1])
  BY <1>2, <1>3 DEF Gathers
<1>6. (N + 1) - 1 = N /\ N \in 0 .. N
  BY <1>3
<1>7. QED BY <1>1, <1>2, <1>3, <1>4, <1>5, <1>6

\* f goes through the calls, the next one first.
SerialCall(m, frontier, w, c) ==
  SerialPiece(m, IF c.parent = 0 THEN frontier ELSE <<>>, w, c.piece)
Awaits(f, m, frontier, calls) ==
  /\ f \in [0 .. Len(calls) -> Layout]
  /\ \A i \in 1 .. Len(calls) : f[i] = SerialCall(m, frontier, f[i - 1], calls[i])

\* The first call's pieces take its place.
Spliced(later, b, q, calls) ==
  /\ later \in Seq(CallRecord) /\ calls \in Seq(CallRecord) /\ q \in Seq(PieceRecord)
  /\ b # 0 /\ Len(calls) >= 1 /\ Len(later) = Len(q) + (Len(calls) - 1)
  /\ \A i \in 1 .. Len(q) : later[i] = Call(b, i, q[i])
  /\ \A i \in 2 .. Len(calls) : later[Len(q) + (i - 1)] = calls[i]

LEMMA AwaitsSpliced ==
  ASSUME NEW m, NEW frontier, NEW calls, NEW later, NEW b, NEW q, Spliced(later, b, q, calls),
         NEW f, Awaits(f, m, frontier, calls), NEW w, NEW g, Lays(g, m, q, w), g[Len(q)] = f[1]
  PROVE  \E h : /\ Awaits(h, m, frontier, later) /\ h[0] = w
                /\ h[Len(later)] = f[Len(calls)]
<1>1. PICK L \in Nat, N \in Nat : /\ L = Len(q) /\ N = Len(calls) /\ N >= 1
                                  /\ Len(later) = L + (N - 1)
  BY DEF Spliced
<1>2. g \in [0 .. L -> Layout] /\ f \in [0 .. N -> Layout] /\ g[0] = w /\ g[L] = f[1]
  BY <1>1 DEF Lays, Awaits
<1> DEFINE M == L + (N - 1)
           h == [i \in 0 .. M |-> IF i <= L THEN g[i] ELSE f[(i - L) + 1]]
<1>3. \A i \in 0 .. M : /\ i <= L => i \in 0 .. L
                        /\ i > L => (i - L) + 1 \in 2 .. N /\ (i - L) + 1 \in 0 .. N
  BY <1>1
<1>4. h \in [0 .. M -> Layout]
  BY <1>2, <1>3
<1>5. \A i \in 0 .. M : h[i] = IF i <= L THEN g[i] ELSE f[(i - L) + 1]
  OBVIOUS
<1>6. M \in Nat /\ Len(later) = M
  BY <1>1
<1> HIDE DEF h
<1>7. ASSUME NEW i \in 1 .. M PROVE h[i] = SerialCall(m, frontier, h[i - 1], later[i])
  <2>1. i \in 0 .. M /\ i - 1 \in 0 .. M
    BY <1>6
  <2>2. CASE i <= L
    <3>1. i \in 1 .. L /\ i - 1 <= L
      BY <1>1, <2>1, <2>2
    <3>2. g[i] = SerialPiece(m, <<>>, g[i - 1], q[i])
      BY <1>1, <3>1 DEF Lays
    <3>3. h[i] = g[i] /\ h[i - 1] = g[i - 1]
      BY <1>5, <2>1, <2>2, <3>1
    <3>4. later[i] = Call(b, i, q[i]) /\ b # 0
      BY <1>1, <3>1 DEF Spliced
    <3>5. later[i].parent = b /\ later[i].piece = q[i]
      BY <3>4 DEF Call
    <3>6. QED BY <3>2, <3>3, <3>4, <3>5 DEF SerialCall
  <2>3. CASE i > L
    <3>1. PICK j \in 2 .. N : j = (i - L) + 1 /\ j - 1 \in 1 .. N /\ i = L + (j - 1)
      <4>1. i \in Nat /\ i <= L + (N - 1) /\ i > L
        BY <1>1, <1>6, <2>3
      <4> DEFINE k == (i - L) + 1
      <4>2. k \in 2 .. N /\ k - 1 \in 1 .. N /\ i = L + (k - 1)
        BY <1>1, <4>1
      <4>3. QED BY <4>2
    <3>2. j \in 1 .. N
      BY <1>1
    <3>3. f[j] = SerialCall(m, frontier, f[j - 1], calls[j])
      BY <1>1, <3>2 DEF Awaits
    <3>4. ~ (i <= L)
      BY <1>1, <2>1, <2>3
    <3>5. h[i] = f[j]
      BY <1>5, <2>1, <3>1, <3>4
    <3>6. h[i - 1] = f[j - 1]
      <4>1. CASE i - 1 <= L
        <5>1. i - 1 = L /\ j - 1 = 1
          BY <1>1, <1>6, <2>3, <3>1, <4>1
        <5>2. h[i - 1] = g[i - 1]
          BY <1>5, <2>1, <4>1
        <5>3. QED BY <1>2, <5>1, <5>2
      <4>2. CASE ~ (i - 1 <= L)
        <5>1. ((i - 1) - L) + 1 = j - 1
          BY <1>1, <1>6, <3>1
        <5>2. h[i - 1] = f[((i - 1) - L) + 1]
          BY <1>5, <2>1, <4>2
        <5>3. QED BY <5>1, <5>2
      <4>3. QED BY <4>1, <4>2
    <3>7. later[i] = calls[j]
      BY <1>1, <3>1 DEF Spliced
    <3>8. QED BY <3>3, <3>5, <3>6, <3>7
  <2>4. i <= L \/ i > L
    BY <1>1, <1>6
  <2>5. QED BY <2>2, <2>3, <2>4
<1>8. h[0] = w
  <2>1. 0 \in 0 .. M /\ 0 <= L
    BY <1>1, <1>6
  <2>2. QED BY <1>2, <1>5, <2>1
<1>9. h[M] = f[N]
  <2>1. M \in 0 .. M
    BY <1>6
  <2>2. CASE M <= L
    <3>1. M = L /\ N = 1
      BY <1>1, <2>2
    <3>2. h[M] = g[M]
      BY <1>5, <2>1, <2>2
    <3>3. QED BY <1>2, <3>1, <3>2
  <2>3. CASE ~ (M <= L)
    <3>1. (M - L) + 1 = N
      BY <1>1
    <3>2. h[M] = f[(M - L) + 1]
      BY <1>5, <2>1, <2>3
    <3>3. QED BY <3>1, <3>2
  <2>4. QED BY <2>2, <2>3
<1> HIDE DEF M
<1>10. Awaits(h, m, frontier, later)
  BY <1>4, <1>6, <1>7 DEF Awaits
<1>11. QED BY <1>1, <1>6, <1>8, <1>9, <1>10

Laid == [swo |-> plan.swo, ofr |-> plan.ofr, forks |-> plan.forks,
         filters |-> FilterSpans(plan.nodes)]

\* The calls that wait go on from the plan to the end of the serial layout.
LayoutInv ==
  \E f : /\ Awaits(f, shape.m, shape.frontier, todo) /\ f[0] = Laid
         /\ f[Len(todo)] = Serial(shape.frontier, shape.n, shape.m, shape.k)

LEMMA LaidType ==
  ASSUME PlanTypes
  PROVE  Laid \in Layout
<1>1. FilterSpans(plan.nodes) \in Seq(TapeSpan)
  BY SpansType DEF PlanTypes
<1>2. plan.forks \in Seq(TapeSpan) /\ plan.swo \in Nat /\ plan.ofr \in Nat
  BY DEF PlanTypes, ForkRecord, TapeSpan
<1>3. QED BY <1>1, <1>2 DEF Laid, Layout

LEMMA InitLaid ==
  ASSUME Init, ShapeInv, PlanInv
  PROVE  LayoutInv
<1>1. plan.nodes = <<>> /\ plan.forks = <<>> /\ plan.swo = 0 /\ plan.ofr = 0
  BY DEF Init, NoPlan
<1>2. todo = <<RootCall>>
  BY <1>1 DEF PlanInv, RootInv, Nodes
<1>3. PlanTypes /\ Laid \in Layout
  BY LaidType DEF PlanInv
<1>4. Laid = Unwritten
  <2>1. FilterSpans(plan.nodes) = <<>>
    BY <1>1, <1>3, SpansType DEF PlanTypes
  <2>2. QED BY <1>1, <2>1 DEF Laid, Unwritten
<1>5. /\ shape.n \in Nat /\ shape.m \in Nat /\ shape.k \in Positive
      /\ shape.frontier \in Seq(Edge)
  BY DEF ShapeInv, Positive
<1> DEFINE root == Piece(shape.n, shape.k, 0, 0)
<1>6. PICK p : /\ p = root /\ RootCall.piece = p /\ RootCall.parent = 0
               /\ p.n = shape.n /\ p.k = shape.k /\ p.parent_n = 0
  <2>1. root.n = shape.n /\ root.k = shape.k /\ root.parent_n = 0
    BY DEF Piece
  <2>2. RootCall.piece = root /\ RootCall.parent = 0
    BY DEF RootCall, Call
  <2>3. QED BY <2>1, <2>2
<1>7. Start(Unwritten, p) = Unwritten
  <2>1. ~ (shape.n < 0)
    BY <1>5
  <2>2. QED BY <1>6, <2>1 DEF Start, Filters
<1> DEFINE end == SerialCall(shape.m, shape.frontier, Unwritten, RootCall)
<1>8. end = Serial(shape.frontier, shape.n, shape.m, shape.k)
  BY <1>6, <1>7 DEF SerialCall, SerialPiece, Serial
<1>9. end \in Layout
  <2>1. SerialPiece(shape.m, shape.frontier, Unwritten, p) \in Layout
    BY <1>3, <1>4, <1>5, <1>6, PieceLaid
  <2>2. QED BY <1>6, <2>1 DEF SerialCall
<1> HIDE DEF end
<1> DEFINE f == [i \in 0 .. 1 |-> IF i = 0 THEN Unwritten ELSE end]
<1>10. f \in [0 .. 1 -> Layout] /\ f[0] = Unwritten /\ f[1] = end
  BY <1>3, <1>4, <1>9
<1> HIDE DEF f
<1>11. Len(todo) = 1 /\ todo[1] = RootCall
  BY <1>2
<1>12. Awaits(f, shape.m, shape.frontier, todo)
  <2>1. f[1] = SerialCall(shape.m, shape.frontier, f[1 - 1], todo[1])
    BY <1>10, <1>11 DEF end
  <2>2. \A i \in 1 .. 1 : i = 1
    OBVIOUS
  <2>3. QED BY <1>10, <1>11, <2>1, <2>2 DEF Awaits
<1>13. QED BY <1>4, <1>8, <1>10, <1>11, <1>12 DEF LayoutInv

\* The node of a call is on the tapes next.
LEMMA NodeLaid ==
  ASSUME NEW c, NEW b, NEW q, Adding(c, b, q), PlanTypes', c.piece \in PieceRecord
  PROVE  Laid' = Opened(Start(Laid, c.piece), shape.m, c.piece)
<1> DEFINE p == c.piece
           span == [offset |-> plan.swo, count |-> p.parent_n]
           start == Start(Laid, p)
<1>1. PlanTypes /\ Added(c, b, q)
  BY DEF Adding, PlanInv
<1>2. FilterSpans(plan.nodes)' = SpanTurn(FilterSpans(plan.nodes), Node(b)')
  <2>1. PICK w, r : w = plan.nodes /\ r = plan'.nodes
    OBVIOUS
  <2>2. w \in Seq(NodeRecord) /\ r \in Seq(NodeRecord)
    BY <1>1, <2>1 DEF PlanTypes
  <2>3. /\ DOMAIN w = 1 .. b - 1 /\ DOMAIN r = 1 .. b /\ \A a \in 1 .. b - 1 : r[a] = w[a]
        /\ r[b] = Node(b)'
    BY <1>1, <2>1 DEF Added, Nodes, Node
  <2>4. b \in Nat \ {0}
    BY DEF Adding, CallKnown
  <2>5. Len(w) = b - 1 /\ Len(r) = b
    BY <2>2, <2>3, <2>4
  <2>6. FilterSpans(r) = SpanTurn(FilterSpans(w), r[Len(w) + 1])
    BY <2>2, <2>3, <2>4, <2>5, SpansGrow
  <2>7. Len(w) + 1 = b
    BY <2>4, <2>5
  <2>8. QED BY <2>1, <2>3, <2>6, <2>7
<1>3. /\ Node(b)'.filter = Filters(p) /\ Node(b)'.position = plan.swo
      /\ Node(b)'.parent_n = p.parent_n
  BY <1>1 DEF Added
<1>4. FilterSpans(plan.nodes)' =
        IF Filters(p) THEN Append(FilterSpans(plan.nodes), span) ELSE FilterSpans(plan.nodes)
  BY <1>2, <1>3 DEF SpanTurn
<1>5. start = IF Filters(p)
              THEN [swo |-> plan.swo + p.parent_n, ofr |-> plan.ofr, forks |-> plan.forks,
                    filters |-> Append(FilterSpans(plan.nodes), span)]
              ELSE Laid
  BY DEF Start, FilterSpan, Laid
<1>6. /\ start.swo = plan.swo + FilterBits(p) /\ start.ofr = plan.ofr /\ start.forks = plan.forks
      /\ start.filters = FilterSpans(plan.nodes)'
  <2>1. CASE Filters(p)
    BY <1>4, <1>5, <2>1 DEF FilterBits
  <2>2. CASE ~ Filters(p)
    <3>1. plan.swo \in Nat /\ plan.swo + 0 = plan.swo
      BY <1>1 DEF PlanTypes
    <3>2. QED BY <1>4, <1>5, <2>2, <3>1 DEF FilterBits, Laid
  <2>3. QED BY <2>1, <2>2
<1>7. /\ plan'.forks = IF Fork(p.n, shape.m, p.k)
                       THEN Append(plan.forks, [offset |-> plan.ofr, count |-> Gates(shape.m, p)])
                       ELSE plan.forks
      /\ plan'.swo = plan.swo + FilterBits(p) /\ plan'.ofr = plan.ofr + Gates(shape.m, p)
  BY <1>1 DEF Added
<1>8. Laid' = [swo |-> plan'.swo, ofr |-> plan'.ofr, forks |-> plan'.forks,
               filters |-> FilterSpans(plan.nodes)']
  BY DEF Laid
<1>9. start \in Layout
  BY <1>1, LaidType, StartGrows DEF PieceRecord
<1> HIDE DEF p, start
<1>10. CASE Fork(p.n, shape.m, p.k)
  BY <1>6, <1>7, <1>8, <1>10 DEF Opened, ForkSpan, p, start
<1>11. CASE ~ Fork(p.n, shape.m, p.k)
  <2>1. Gates(shape.m, p) = 0 /\ plan.ofr \in Nat /\ plan.ofr + 0 = plan.ofr
    BY <1>1, <1>11 DEF Gates, PlanTypes
  <2>2. start = [swo |-> start.swo, ofr |-> start.ofr, forks |-> start.forks,
                 filters |-> start.filters]
    BY <1>9 DEF Layout
  <2>3. Laid' = start
    BY <1>6, <1>7, <1>8, <1>11, <2>1, <2>2
  <2>4. QED BY <1>11, <2>3 DEF Opened, p, start
<1>12. QED BY <1>10, <1>11

LEMMA StepLaid ==
  ASSUME NEW c, NEW b, NEW q, Adding(c, b, q), PlanTypes', c = Head(todo), LayoutInv
  PROVE  LayoutInv'
<1>1. /\ CallKnown(c, b, q) /\ Added(c, b, q) /\ NextTodo(c, b, q) /\ ShapeInv /\ PlanInv
  BY DEF Adding
<1>2. PICK f : /\ Awaits(f, shape.m, shape.frontier, todo) /\ f[0] = Laid
               /\ f[Len(todo)] = Serial(shape.frontier, shape.n, shape.m, shape.k)
  BY DEF LayoutInv
<1>3. PICK p \in PieceRecord : p = c.piece
  BY <1>1 DEF CallKnown, CallRecord
<1>4. Laid \in Layout
  BY <1>1, LaidType DEF PlanInv
<1>5. PICK fr : fr = IF c.parent = 0 THEN shape.frontier ELSE <<>>
  OBVIOUS
<1>6. fr = IF b = 1 THEN shape.frontier ELSE <<>>
  <2>1. CASE b = 1
    <3>1. c.parent = 0
      BY <1>1, <2>1 DEF CallKnown, RootCall, Call
    <3>2. QED BY <1>5, <2>1, <3>1
  <2>2. CASE b # 1
    <3>1. c.parent \in Nodes /\ Nodes = 1 .. b - 1
      BY <1>1, <2>2 DEF CallKnown, Added
    <3>2. c.parent # 0
      BY <3>1
    <3>3. QED BY <1>5, <2>2, <3>2
  <2>3. QED BY <2>1, <2>2
<1>7. q = Pieces(fr, shape.m, p) /\ FrontierFits(fr, p.n, shape.m, p.k) /\ q \in Seq(PieceRecord)
  BY <1>1, <1>3, <1>6 DEF CallKnown
<1>8. PICK s : Sound(p, shape.m, s, shape.k)
  BY <1>1, <1>3 DEF CallKnown
<1>9. shape.m \in Nat \ {0} /\ shape.k \in Nat
  BY <1>1 DEF ShapeInv
<1>10. PICK w \in Layout : w = Start(Laid, p)
  BY <1>3, <1>4, StartGrows DEF PieceRecord
<1>11. LaidOut(shape.m, fr, w, p, q)
  BY <1>7, <1>8, <1>9, <1>10, PiecesLaid
<1>12. PICK g : /\ Lays(g, shape.m, q, Opened(w, shape.m, p))
                /\ g[Len(q)] = SerialFrom(SerialNode(shape.m), w, fr, p.n, shape.m, p.k)
  BY <1>11 DEF LaidOut
<1>13. Len(todo) >= 1 /\ Len(todo) \in Nat /\ todo[1] = c /\ 1 \in 1 .. Len(todo)
  BY <1>1 DEF NextTodo
<1>14. f[1] = SerialCall(shape.m, shape.frontier, f[1 - 1], c)
  BY <1>2, <1>13 DEF Awaits
<1>15. f[1] = g[Len(q)]
  BY <1>2, <1>3, <1>5, <1>10, <1>12, <1>14 DEF SerialCall, SerialPiece
<1>16. Spliced(todo', b, q, todo)
  BY <1>1, <1>7 DEF Spliced, NextTodo, CallKnown
<1>17. PICK h : /\ Awaits(h, shape.m, shape.frontier, todo') /\ h[0] = Opened(w, shape.m, p)
                /\ h[Len(todo')] = f[Len(todo)]
  BY <1>2, <1>12, <1>15, <1>16, AwaitsSpliced
<1>18. Laid' = Opened(w, shape.m, p)
  BY <1>3, <1>10, NodeLaid
<1>19. shape' = shape
  BY <1>1 DEF Added
<1>20. /\ Awaits(h, shape'.m, shape'.frontier, todo') /\ h[0] = Laid'
       /\ h[Len(todo')] = Serial(shape'.frontier, shape'.n, shape'.m, shape'.k)
  BY <1>2, <1>17, <1>18, <1>19
<1>21. QED BY <1>20 DEF LayoutInv

LEMMA LayoutInvStep ==
  ASSUME RunInv, LayoutInv, [Next]_vars
  PROVE  LayoutInv'
<1>1. ShapeInv /\ PlanInv
  BY DEF RunInv
<1>2. CASE PlanNode
  <2>1. PICK c, b, q : c = Head(todo) /\ b = Len(plan.nodes) + 1
                       /\ q = Pieces(FrontierOf(c), shape.m, c.piece)
    OBVIOUS
  <2>2. Adding(c, b, q)
    BY <1>1, <1>2, <2>1, PlanNodeAdds
  <2>3. PlanTypes'
    BY <1>1, <1>2, PlanStep DEF PlanInv
  <2>4. QED BY <2>1, <2>2, <2>3, StepLaid
<1>3. ASSUME Unmoved, todo' = todo PROVE LayoutInv'
  <2>1. Laid' = Laid /\ shape' = shape
    BY <1>3 DEF Laid, Unmoved
  <2>2. PICK f : /\ Awaits(f, shape.m, shape.frontier, todo) /\ f[0] = Laid
                 /\ f[Len(todo)] = Serial(shape.frontier, shape.n, shape.m, shape.k)
    BY DEF LayoutInv
  <2>3. /\ Awaits(f, shape'.m, shape'.frontier, todo') /\ f[0] = Laid'
        /\ f[Len(todo')] = Serial(shape'.frontier, shape'.n, shape'.m, shape'.k)
    BY <1>3, <2>1, <2>2
  <2>4. QED BY <2>3 DEF LayoutInv
<1>4. CASE NextStage
  <2>1. Unmoved /\ todo' = todo
    BY <1>4 DEF NextStage, Unmoved
  <2>2. QED BY <1>3, <2>1
<1>5. ASSUME NEW t, Step(t) PROVE LayoutInv'
  BY <1>3, <1>5, StepUnmoved
<1>6. CASE UNCHANGED vars
  <2>1. Unmoved /\ todo' = todo
    BY <1>6 DEF vars, Unmoved
  <2>2. QED BY <1>3, <2>1
<1>7. QED BY <1>2, <1>4, <1>5, <1>6 DEF Next

\* The root's records and samples are as long on the tapes as they are counted.
LEMMA RootCounts ==
  ASSUME NEW m \in Nat, NEW n \in Nat, n >= m, NEW k \in Positive,
         NEW frontier, FrontierFits(frontier, n, m, k)
  PROVE  LET count == Count(frontier, n, m, k)
         IN count = [swo |-> Serial(frontier, n, m, k).swo, ofr |-> Serial(frontier, n, m, k).ofr]
<1> DEFINE count == CountFrom(CountNode(m), frontier, n, m, k)
           serial == SerialFrom(SerialNode(m), Unwritten, frontier, n, m, k)
<1>1. k \in Nat /\ k # 0 /\ k \in Nat \ {0}
  BY DEF Positive
<1>2. PICK e : e = Edges(frontier, k)
  OBVIOUS
<1>3. k > 1 => ShareOut(e, k)
  <2>1. SUFFICES ASSUME k > 1 PROVE ShareOut(e, k)
    OBVIOUS
  <2>2. CASE frontier = <<>>
    <3>1. e = Halves(k)
      BY <1>2, <2>1, <2>2 DEF Edges
    <3>2. QED BY <1>1, <2>1, <3>1, HalvesShare
  <2>3. CASE frontier # <<>>
    <3>1. e = frontier
      BY <1>2, <2>1, <2>3 DEF Edges
    <3>2. frontier \in Seq(Edge) /\ FrontierOK(frontier, n, m, k)
      BY <2>3 DEF FrontierFits
    <3>3. ShareOut(frontier, k)
      BY <1>1, <2>3, <3>2, FrontierShares
    <3>4. QED BY <3>1, <3>3
  <2>4. QED BY <2>2, <2>3
<1>4. k > 1 => /\ e \in Seq(Edge)
               /\ \A i \in 1 .. Len(e) : e[i].count \in Positive /\ CountsRight(m, e[i].count)
  <2>1. SUFFICES ASSUME k > 1
                 PROVE  /\ e \in Seq(Edge)
                        /\ \A i \in 1 .. Len(e) : e[i].count \in Positive
                                                  /\ CountsRight(m, e[i].count)
    OBVIOUS
  <2>2. e \in Seq(Edge) /\ \A i \in 1 .. Len(e) : e[i].count >= 1
    BY <1>3, <2>1 DEF ShareOut
  <2>3. \A x \in Edge : x.count >= 1 => x.count \in Positive
    BY DEF Edge, Positive
  <2>4. ASSUME NEW i \in 1 .. Len(e) PROVE e[i].count \in Positive /\ CountsRight(m, e[i].count)
    <3>1. e[i] \in Edge /\ e[i].count >= 1
      BY <2>2
    <3>2. e[i].count \in Positive
      BY <2>3, <3>1
    <3>3. QED BY <3>2, AllCountRight
  <2>5. QED BY <2>2, <2>4
<1>5. \A j \in 1 .. k - 1 : CountsRight(m, j)
  <2>1. \A j \in 1 .. k - 1 : j \in Positive
    BY <1>1 DEF Positive
  <2>2. QED BY <2>1, AllCountRight
<1>6. Unwritten \in Layout
  BY DEF Unwritten, Layout
<1>7. Ahead(serial, Unwritten, count)
  BY <1>2, <1>4, <1>5, <1>6, NodeCounts
<1>8. count \in Bits
  <2>1. k > 1 => k \div 2 \in Positive /\ k - k \div 2 \in Positive
    BY <1>1 DEF Positive
  <2>2. k > 1 => CountNode(m)[k \div 2] \in CountRows /\ CountNode(m)[k - k \div 2] \in CountRows
    BY <2>1, NodesReached
  <2>3. k > 1 => Counts(CountNode(m), e)
    BY <1>4, NodesReached DEF Counts
  <2>4. Tells(CountNode(m), frontier, k)
    BY <1>2, <1>4, <2>2, <2>3 DEF Tells
  <2>5. QED BY <2>4, CountFromType
<1>9. Count(frontier, n, m, k) = count /\ Serial(frontier, n, m, k) = serial
  BY DEF Count, Serial
<1> HIDE DEF count, serial
<1>10. count.swo \in Nat /\ count.ofr \in Nat /\ count = [swo |-> count.swo, ofr |-> count.ofr]
  BY <1>8 DEF Bits
<1>11. serial.swo = 0 + count.swo /\ serial.ofr = 0 + count.ofr
  BY <1>7 DEF Ahead, Unwritten
<1>12. serial.swo = count.swo /\ serial.ofr = count.ofr
  BY <1>10, <1>11
<1>13. QED BY <1>9, <1>10, <1>12

LEMMA LayoutAgreesNow ==
  ASSUME RunInv, LayoutInv
  PROVE  LayoutAgrees
<1>1. SUFFICES ASSUME todo = <<>>
               PROVE  /\ Serial(shape.frontier, shape.n, shape.m, shape.k) = Laid
                      /\ Count(shape.frontier, shape.n, shape.m, shape.k)
                           = [swo |-> plan.swo, ofr |-> plan.ofr]
  BY DEF LayoutAgrees, Laid
<1>2. ShapeInv /\ PlanInv
  BY DEF RunInv
<1>3. Serial(shape.frontier, shape.n, shape.m, shape.k) = Laid
  <2>1. PICK f : /\ f[0] = Laid
                 /\ f[Len(todo)] = Serial(shape.frontier, shape.n, shape.m, shape.k)
    BY DEF LayoutInv
  <2>2. Len(todo) = 0
    BY <1>1
  <2>3. QED BY <2>1, <2>2
<1>4. FrontierOK(shape.frontier, shape.n, shape.m, shape.k)
  <2>1. todo # <<RootCall>>
    BY <1>1
  <2>2. QED BY <1>2, <2>1 DEF PlanInv, RootInv
<1>5. FrontierFits(shape.frontier, shape.n, shape.m, shape.k)
  BY <1>2, <1>4 DEF FrontierFits, ShapeInv
<1>6. shape.n \in Nat /\ shape.m \in Nat /\ shape.n >= shape.m /\ shape.k \in Positive
  BY <1>2 DEF ShapeInv, Positive
<1>7. Count(shape.frontier, shape.n, shape.m, shape.k)
        = [swo |-> Serial(shape.frontier, shape.n, shape.m, shape.k).swo,
           ofr |-> Serial(shape.frontier, shape.n, shape.m, shape.k).ofr]
  BY <1>5, <1>6, RootCounts
<1>8. Laid.swo = plan.swo /\ Laid.ofr = plan.ofr
  BY DEF Laid
<1>9. QED BY <1>3, <1>7, <1>8

\* For dimensions, frontiers and threads of every size, the plan lays the tapes out
\* as the serial writer and reader go through them, and as long as CountNode has
\* them allocated.
THEOREM LayoutAgreesHolds == Spec => []LayoutAgrees
<1>1. Init => LayoutInv
  BY InitPlan, InitLaid
<1>2. RunInv /\ LayoutInv /\ [Next]_vars => LayoutInv'
  BY LayoutInvStep
<1>3. RunInv /\ LayoutInv => LayoutAgrees
  BY LayoutAgreesNow
<1>4. QED BY <1>1, <1>2, <1>3, RunInvariant, PTL DEF Spec

=============================================================================
