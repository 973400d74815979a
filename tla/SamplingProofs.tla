--------------------------- MODULE SamplingProofs ---------------------------
(***************************************************************************)
(* Proofs about what every sampler starts from, and about the baselines.   *)
(* Exactly m of n records are marked, for all n and m and any number of    *)
(* different coins; and the coins are never drawn twice, for any number of *)
(* threads and buffers of any size.                                        *)
(* For every number of places and every key the permutation that PSQF_SWO  *)
(* draws a sample by is one.  Its four rounds mix the cells of a grid one  *)
(* to one, and the grid has a cell for every place because Newton's method *)
(* finds the root; the walk back below N therefore ends, and two walks     *)
(* that met would have started together.                                   *)
(* Every baseline delivers M different records to every sample.  Those     *)
(* that draw one sample after the other keep the buffer a permutation of   *)
(* the records, whatever they have moved.  A scan of PSQF_SWO has, at each *)
(* record, as many copies of a sample as places below M that the sample's  *)
(* permutation gives to the records so far; at the end that is M for each, *)
(* and grouping puts the copy that has r of its sample before it into the  *)
(* r-th place of that sample.                                              *)
(***************************************************************************)
EXTENDS Mark, Baselines, RandomPool, FiniteSetTheorems, WellFoundedInduction, TLAPS

-----------------------------------------------------------------------------
(* The marking loops.                                                       *)

\* A quotient between multiples of the divisor.
LEMMA Quotient ==
  ASSUME NEW a \in Nat, NEW d \in Nat \ {0}, NEW q \in Nat
  PROVE  /\ a < q * d => a \div d < q
         /\ a >= q * d => a \div d >= q
<1> DEFINE r == a \div d
<1>1. r \in Nat /\ a = d * r + (a % d) /\ a % d \in 0 .. d - 1
  OBVIOUS
<1> HIDE DEF r
<1>2. ASSUME a < q * d, r >= q  PROVE FALSE
  <2>1. d * r >= d * q
    BY <1>1, <1>2
  <2>2. QED BY <1>1, <1>2, <2>1
<1>3. ASSUME a >= q * d, r < q  PROVE FALSE
  <2>1. d * (r + 1) <= d * q
    BY <1>1, <1>3
  <2>2. d * (r + 1) = d * r + d
    BY <1>1
  <2>3. QED BY <1>1, <1>3, <2>1, <2>2
<1>4. QED BY <1>1, <1>2, <1>3 DEF r

\* No coin marks when no mark is left, and every coin does when all that remain
\* have to be marked.
LEMMA CoinForced ==
  ASSUME i < n, n \in Nat, i \in Nat, left \in Nat, left <= Remaining,
         NEW coin \in 0 .. Coins - 1
  PROVE  /\ Marks(coin) => left > 0
         /\ ~ Marks(coin) => left < Remaining
<1> DEFINE R == Remaining
<1>1. R \in Nat \ {0} /\ left \in 0 .. R /\ coin \in Nat /\ coin < Coins /\ Coins \in Nat \ {0}
  BY CoinsAssumption DEF Remaining
<1> HIDE DEF R
<1>2. MarksBelow(coin) => left > 0
  <2>1. SUFFICES ASSUME left = 0  PROVE ~ MarksBelow(coin)
    BY <1>1
  <2>2. left * Coins = 0 /\ 0 \div R = 0
    BY <1>1, <2>1
  <2>3. QED BY <1>1, <2>2 DEF MarksBelow, R
<1>3. ~ MarksBelow(coin) => left < R
  <2>1. SUFFICES ASSUME left = R  PROVE MarksBelow(coin)
    BY <1>1
  <2>2. left * Coins \in Nat /\ left * Coins >= Coins * R
    BY <1>1, <2>1
  <2>3. (left * Coins) \div R >= Coins /\ (left * Coins) \div R \in Nat
    BY <1>1, <2>2, Quotient
  <2>4. QED BY <1>1, <2>3 DEF MarksBelow, R
<1>4. R * coin \in Nat /\ R * coin < R * Coins
  BY <1>1
<1>5. (R * coin) \div Coins < R /\ (R * coin) \div Coins \in Nat
  BY <1>1, <1>4, Quotient
<1>6. MarksScaled(coin) => left > 0
  BY <1>1, <1>5 DEF MarksScaled, R
<1>7. ~ MarksScaled(coin) => left < R
  BY <1>1, <1>5 DEF MarksScaled, R
<1>8. QED BY <1>2, <1>3, <1>6, <1>7 DEF Marks, R

\* The inductive invariant.
Inv ==
  /\ n \in Nat /\ m \in Nat /\ m <= n /\ i \in 0 .. n
  /\ marked \subseteq 0 .. i - 1
  /\ left \in Nat /\ left <= Remaining
  /\ IsFiniteSet(marked) /\ Cardinality(marked) = m - left

LEMMA InitInv == Init => Inv
BY FS_EmptySet, MaxNAssumption DEF Init, Inv, Remaining

LEMMA DrawInv ==
  ASSUME Inv, NEW mark \in BOOLEAN, Draw(mark)
  PROVE  Inv'
<1>1. PICK coin \in 0 .. Coins - 1 : Marks(coin) <=> mark
  BY DEF Draw
<1>2. /\ mark => left > 0
      /\ ~ mark => left < Remaining
  BY <1>1, CoinForced DEF Draw, Inv
<1>3. /\ n' = n /\ m' = m /\ i' = i + 1 /\ i < n
      /\ left' = IF mark THEN left - 1 ELSE left
      /\ marked' = IF mark THEN marked \cup {i} ELSE marked
  BY DEF Draw
<1>4. i \notin marked
  BY DEF Inv
<1>5. /\ IsFiniteSet(marked')
      /\ Cardinality(marked') = m - left'
  <2>1. CASE mark
    <3>1. /\ IsFiniteSet(marked \cup {i})
          /\ Cardinality(marked \cup {i}) = Cardinality(marked) + 1
      BY <1>4, FS_AddElement DEF Inv
    <3>2. QED BY <1>3, <2>1, <3>1 DEF Inv
  <2>2. CASE ~ mark
    BY <1>3, <2>2 DEF Inv
  <2>3. QED BY <2>1, <2>2
<1>6. /\ left' \in Nat /\ left' <= Remaining'
  BY <1>2, <1>3 DEF Inv, Remaining
<1>7. marked' \subseteq 0 .. i' - 1
  BY <1>3 DEF Inv
<1>8. QED BY <1>3, <1>5, <1>6, <1>7 DEF Inv

LEMMA StepInv == Inv /\ [Next]_vars => Inv'
<1>1. ASSUME Inv, UNCHANGED vars  PROVE Inv'
  BY <1>1 DEF Inv, Remaining, vars
<1>2. QED BY <1>1, DrawInv DEF Next, FFOS_CMark, markGen

\* Every sample has exactly its m records when the last coin has been used
\* (FFOS_CMark, markGenMulti, markGen and MarkHalf).
THEOREM MarksExactHolds == Spec => []MarksExact
<1>1. Inv => MarksExact
  BY DEF Inv, MarksExact, Remaining
<1>2. QED BY <1>1, InitInv, StepInv, PTL DEF Spec

-----------------------------------------------------------------------------
(* The random pool.                                                         *)

Purpose == {"none", "coins", "bits", "vector"}
Held == [fills : 0 .. MaxFills, ptr : 0 .. BufferSize, left : 0 .. BufferSize]
Asked == [purpose : Purpose, size : 0 .. BufferSize, pieces : SUBSET Nat]

\* How far a buffer's stream has been handed out.
Served(b) == (b.fills - 1) * BufferSize + b.ptr

\* A buffer has been filled, and its pointer and count agree.
Full(b) == b.fills >= 1 /\ b.ptr + b.left = BufferSize

BufferInv(t) ==
  \/ buffers[t] = Empty /\ reach[t] = 0
  \/ Full(buffers[t]) /\ reach[t] = Served(buffers[t])

\* A request under way has copied the next pieces of its thread's buffer.
RequestInv(t) ==
  request[t] # Idle =>
    /\ Full(buffers[t]) /\ nthreads > 0 /\ request[t].size >= 1
    /\ request[t].pieces = Pieces(buffers[t], Min({request[t].size, buffers[t].left}))
    /\ request[t].size >= buffers[t].left => buffers[t].fills < MaxFills
    /\ request[t].purpose = "coins" => request[t].size <= MaxCoins

PoolInv ==
  /\ pools \in 0 .. MaxPools /\ nthreads \in 0 .. MaxThreads
  /\ started \in BOOLEAN /\ failed \in BOOLEAN
  /\ buffers \in [Threads -> Held] /\ request \in [Threads -> Asked]
  /\ coinsleft \in [Threads -> 0 .. MaxCoins]
  /\ PRB_rand_bits_remaining \in [Threads -> 0 .. Bits - 1]
  /\ reach \in [Threads -> Nat]
  /\ \A t \in Threads : BufferInv(t) /\ RequestInv(t)
  /\ reused = FALSE

LEMMA MinIs ==
  ASSUME NEW a \in Int, NEW b \in Int
  PROVE  Min({a, b}) = IF a < b THEN a ELSE b
<1> DEFINE c == IF a < b THEN a ELSE b
<1>1. c \in {a, b} /\ \A y \in {a, b} : c <= y
  OBVIOUS
<1>2. \A x \in {a, b} : (\A y \in {a, b} : x <= y) => x = c
  OBVIOUS
<1> HIDE DEF c
<1>3. QED BY <1>1, <1>2 DEF Min, c

\* Pieces that follow what has been handed out.
LEMMA PiecesAre ==
  ASSUME NEW b, b.fills \in Nat, b.fills >= 1, b.ptr \in Nat, NEW count \in Nat
  PROVE  /\ Served(b) \in Nat
         /\ Pieces(b, count) = Served(b) .. Served(b) + count - 1
<1> DEFINE f == b.fills - 1
           r == f * BufferSize + b.ptr
<1>1. f \in Nat /\ BufferSize \in Nat
  BY PoolAssumption
<1>2. f * BufferSize \in Nat
  <2> HIDE DEF f
  <2>1. QED BY <1>1
<1>3. r \in Nat
  <2> HIDE DEF f
  <2>1. QED BY <1>2
<1>4. Pieces(b, count) = {r + x : x \in 0 .. count - 1}
  BY DEF Pieces
<1> HIDE DEF r, f
<1>5. {r + x : x \in 0 .. count - 1} = r .. r + count - 1
  <2>1. ASSUME NEW y \in r .. r + count - 1 PROVE y \in {r + x : x \in 0 .. count - 1}
    <3>1. y - r \in 0 .. count - 1 /\ r + (y - r) = y
      BY <1>3, <2>1
    <3>2. QED BY <3>1
  <2>2. \A x \in 0 .. count - 1 : r + x \in r .. r + count - 1
    BY <1>3
  <2>3. QED BY <2>1, <2>2
<1>6. QED BY <1>3, <1>4, <1>5 DEF Served, r, f

\* What a request gets: the next pieces of the stream, as many as it asks for,
\* across the end of the stretch as well.
LEMMA Advances ==
  ASSUME NEW b \in Held, Full(b), NEW size \in 1 .. BufferSize,
         size >= b.left => b.fills < MaxFills
  PROVE  /\ Served(b) \in Nat
         /\ Pieces(b, Min({size, b.left})) \cup
              (IF size < b.left THEN {} ELSE Pieces(Filled(b), size - b.left))
            = Served(b) .. Served(b) + size - 1
         /\ After(b, size) \in Held /\ Full(After(b, size))
         /\ Served(After(b, size)) = Served(b) + size
<1>1. /\ b.fills \in Nat /\ b.fills >= 1 /\ b.ptr \in Nat /\ b.left \in Nat
      /\ b.ptr + b.left = BufferSize /\ BufferSize \in Nat /\ size \in Nat /\ size >= 1
      /\ b.fills <= MaxFills /\ MaxFills \in Nat
  BY PoolAssumption DEF Held, Full
<1>2. Served(b) \in Nat
  BY <1>1, PiecesAre
<1>3. Min({size, b.left}) = IF size < b.left THEN size ELSE b.left
  BY <1>1, MinIs
<1>4. CASE size < b.left
  <2>1. Pieces(b, size) = Served(b) .. Served(b) + size - 1
    BY <1>1, PiecesAre
  <2>2. After(b, size) = [b EXCEPT !.ptr = @ + size, !.left = @ - size]
    BY <1>4 DEF After
  <2>3. /\ After(b, size) \in Held /\ After(b, size).fills = b.fills
        /\ After(b, size).ptr = b.ptr + size /\ After(b, size).left = b.left - size
    <3>1. b = [fills |-> b.fills, ptr |-> b.ptr, left |-> b.left]
      BY DEF Held
    <3>2. After(b, size) = [fills |-> b.fills, ptr |-> b.ptr + size, left |-> b.left - size]
      BY <2>2, <3>1
    <3>3. b.ptr + size \in 0 .. BufferSize /\ b.left - size \in 0 .. BufferSize /\ b.fills \in 0 .. MaxFills
      BY <1>1, <1>4
    <3>4. QED BY <3>2, <3>3 DEF Held
  <2>4. Full(After(b, size))
    BY <1>1, <1>4, <2>3 DEF Full
  <2>5. Served(After(b, size)) = Served(b) + size
    <3> DEFINE w == (b.fills - 1) * BufferSize
    <3>1. w \in Int
      <4>1. b.fills - 1 \in Int
        BY <1>1
      <4> DEFINE f == b.fills - 1
      <4> HIDE DEF f
      <4>2. f * BufferSize \in Int
        BY <1>1, <4>1 DEF f
      <4>3. QED BY <4>2 DEF f
    <3>2. Served(After(b, size)) = w + (b.ptr + size) /\ Served(b) = w + b.ptr
      BY <2>3 DEF Served
    <3> HIDE DEF w
    <3>3. QED BY <1>1, <3>1, <3>2
  <2>6. QED BY <1>2, <1>3, <1>4, <2>1, <2>3, <2>4, <2>5
<1>5. CASE ~ (size < b.left)
  <2> DEFINE rest == size - b.left
             b2 == Filled(b)
  <2>1. rest \in Nat /\ rest <= BufferSize
    BY <1>1, <1>5
  <2>2. b2.fills = b.fills + 1 /\ b2.ptr = 0 /\ b2.left = BufferSize
    BY DEF Filled
  <2>3. After(b, size) = [b2 EXCEPT !.ptr = rest, !.left = BufferSize - rest]
    BY <1>5 DEF After
  <2>4. /\ After(b, size).fills = b.fills + 1 /\ After(b, size).ptr = rest
        /\ After(b, size).left = BufferSize - rest /\ After(b, size) \in Held
    <3>1. b.fills + 1 \in 0 .. MaxFills
      BY <1>1, <1>5
    <3>2. b2 = [fills |-> b.fills + 1, ptr |-> 0, left |-> BufferSize]
      BY DEF Filled
    <3> HIDE DEF rest, b2
    <3>3. After(b, size) = [fills |-> b.fills + 1, ptr |-> rest, left |-> BufferSize - rest]
      BY <2>3, <3>2
    <3>4. rest \in 0 .. BufferSize /\ BufferSize - rest \in 0 .. BufferSize
      BY <1>1, <2>1
    <3>5. QED BY <3>1, <3>3, <3>4 DEF Held
  <2>5. Full(After(b, size))
    <3> HIDE DEF rest
    <3>1. QED BY <1>1, <2>1, <2>4 DEF Full
  <2>6. Served(b2) = Served(b) + b.left /\ Served(After(b, size)) = Served(b) + b.left + rest
    <3> DEFINE f == b.fills - 1
               w == f * BufferSize
    <3>1. f \in Nat /\ b.fills = f + 1
      BY <1>1
    <3>2. ((b.fills + 1) - 1) = f + 1
      BY <3>1
    <3>3. Served(b) = w + b.ptr /\ Served(b2) = (f + 1) * BufferSize + 0
          /\ Served(After(b, size)) = (f + 1) * BufferSize + rest
      BY <2>2, <2>4, <3>2 DEF Served
    <3> HIDE DEF f, b2, rest
    <3>4. w \in Nat /\ (f + 1) * BufferSize = w + BufferSize
      BY <1>1, <3>1
    <3> HIDE DEF w
    <3>5. QED BY <1>1, <2>1, <3>3, <3>4
  <2>7. Pieces(b, b.left) = Served(b) .. Served(b) + b.left - 1
    BY <1>1, PiecesAre
  <2>8. Pieces(b2, rest) = Served(b2) .. Served(b2) + rest - 1
    <3>1. b2.fills \in Nat /\ b2.fills >= 1 /\ b2.ptr \in Nat
      BY <1>1, <2>2
    <3> HIDE DEF rest, b2
    <3>2. QED BY <2>1, <3>1, PiecesAre
  <2>9. Pieces(b, b.left) \cup Pieces(b2, rest) = Served(b) .. Served(b) + size - 1
    <3> DEFINE r == Served(b)
               l == b.left
    <3>1. size = l + rest
      BY <1>1
    <3>2. Pieces(b, l) = r .. r + l - 1 /\ Pieces(b2, rest) = r + l .. r + l + rest - 1 /\ r \in Nat /\ l \in Nat
      BY <1>1, <1>2, <2>6, <2>7, <2>8
    <3> HIDE DEF r, l, rest, b2
    <3>3. (r .. r + l - 1) \cup (r + l .. r + l + rest - 1) = r .. r + (l + rest) - 1
      BY <2>1, <3>2
    <3>4. QED BY <3>1, <3>2, <3>3 DEF r, l
  <2>10. Served(After(b, size)) = Served(b) + size
    <3>1. size = b.left + rest
      BY <1>1
    <3> HIDE DEF rest
    <3>2. QED BY <1>1, <1>2, <2>1, <2>6, <3>1
  <2>11. QED BY <1>2, <1>3, <1>5, <2>4, <2>5, <2>9, <2>10
<1>6. QED BY <1>4, <1>5

\* The pieces of a request are new and as many as it asks for.
LEMMA HandedOut ==
  ASSUME NEW r \in Nat, NEW size \in Nat, size >= 1, NEW pieces, pieces = r .. r + size - 1
  PROVE  /\ Cardinality(pieces) = size
         /\ \A p \in pieces : ~ (p < r)
         /\ Max(pieces \cup {r - 1}) + 1 = r + size
<1>1. r + size - 1 \in Int /\ r \in Int
  OBVIOUS
<1> DEFINE b == r + size - 1
<1>2. Cardinality(pieces) = size
  <2>1. b \in Int /\ r <= b /\ b - r + 1 = size
    OBVIOUS
  <2>2. pieces = r .. b
    OBVIOUS
  <2> HIDE DEF b
  <2>3. QED BY <1>1, <2>1, <2>2, FS_Interval
<1>3. Max(pieces \cup {r - 1}) = b
  <2> DEFINE S == pieces \cup {r - 1}
  <2>1. b \in S /\ \A y \in S : b >= y /\ y \in Int
    OBVIOUS
  <2>2. b \in Int
    OBVIOUS
  <2> HIDE DEF b, S
  <2>3. \A x \in S : (\A y \in S : x >= y) => x = b
    BY <2>1, <2>2
  <2>4. QED BY <2>1, <2>3 DEF Max, S
<1>4. QED BY <1>2, <1>3

\* A step that leaves a thread's buffer alone.
LEMMA ThreadKept ==
  ASSUME NEW t \in Threads, BufferInv(t), RequestInv(t), nthreads' = nthreads,
         buffers'[t] = buffers[t], reach'[t] = reach[t], request'[t] \in {request[t], Idle}
  PROVE  BufferInv(t)' /\ RequestInv(t)'
BY DEF BufferInv, RequestInv

LEMMA CopyKeeps ==
  ASSUME PoolInv, NEW t \in Threads, NEW purpose \in {"coins", "bits", "vector"},
         NEW size \in 1 .. BufferSize, Copy(t, purpose, size),
         purpose = "coins" => size <= MaxCoins
  PROVE  PoolInv'
<1> DEFINE held == buffers[t]
           b == IF held = Empty THEN Filled(held) ELSE held
<1>1. /\ Drawing(t) /\ request[t] = Idle
      /\ size >= b.left => b.fills < MaxFills
      /\ buffers' = [buffers EXCEPT ![t] = b]
      /\ request' = [request EXCEPT
             ![t] = [purpose |-> purpose, size |-> size,
                     pieces |-> Pieces(b, Min({size, b.left}))]]
      /\ UNCHANGED <<pools, nthreads, started, coinsleft, PRB_rand_bits_remaining, reach, reused,
                     failed>>
  BY DEF Copy, Buffer
<1>2. /\ buffers \in [Threads -> Held] /\ request \in [Threads -> Asked] /\ reach \in [Threads -> Nat]
      /\ \A u \in Threads : BufferInv(u) /\ RequestInv(u)
  BY DEF PoolInv
<1>3. b \in Held /\ Full(b) /\ reach[t] = Served(b)
  <2>1. CASE held = Empty
    <3>1. b.fills = 1 /\ b.ptr = 0 /\ b.left = BufferSize /\ b = [fills |-> 1, ptr |-> 0, left |-> BufferSize]
      BY <2>1 DEF Filled, Empty
    <3>2. reach[t] = 0
      <4>1. ~ Full(held)
        BY <2>1 DEF Full, Empty
      <4>2. QED BY <1>2, <4>1 DEF BufferInv
    <3>3. b \in Held /\ Full(b)
      BY <3>1, PoolAssumption DEF Held, Full
    <3>4. Served(b) = 0
      <4>1. (1 - 1) * BufferSize + 0 = 0
        BY PoolAssumption
      <4>2. QED BY <3>1, <4>1 DEF Served
    <3>5. QED BY <3>2, <3>3, <3>4
  <2>2. CASE held # Empty
    BY <1>2, <2>2 DEF BufferInv
  <2>3. QED BY <2>1, <2>2
<1>4. Drawing(t) => nthreads > 0
  BY DEF Drawing
<1> HIDE DEF b, held
<1>5. buffers' \in [Threads -> Held]
  BY <1>1, <1>2, <1>3
<1>6. request' \in [Threads -> Asked]
  <2>1. Pieces(b, Min({size, b.left})) \subseteq Nat
    <3>1. /\ b.fills \in Nat /\ b.fills >= 1 /\ b.ptr \in Nat /\ b.left \in Nat /\ size \in Nat
      BY <1>3, PoolAssumption DEF Held, Full
    <3>2. Min({size, b.left}) \in Nat
      BY <3>1, MinIs
    <3> DEFINE c == Min({size, b.left})
    <3> HIDE DEF c
    <3>3. Served(b) \in Nat /\ Pieces(b, c) = Served(b) .. Served(b) + c - 1
      BY <3>1, <3>2, PiecesAre DEF c
    <3>4. c \in Nat
      BY <3>2 DEF c
    <3>5. Served(b) .. Served(b) + c - 1 \subseteq Nat
      BY <3>3, <3>4
    <3>6. QED BY <3>3, <3>5 DEF c
  <2>2. [purpose |-> purpose, size |-> size, pieces |-> Pieces(b, Min({size, b.left}))] \in Asked
    <3>1. size \in 0 .. BufferSize /\ purpose \in Purpose
      BY PoolAssumption DEF Purpose
    <3>2. QED BY <2>1, <3>1 DEF Asked
  <2>3. QED BY <1>1, <1>2, <2>2
<1>7. BufferInv(t)' /\ RequestInv(t)'
  <2>1. buffers'[t] = b /\ reach'[t] = reach[t] /\ nthreads' > 0
    BY <1>1, <1>2, <1>4
  <2>2. /\ request'[t].size = size /\ request'[t].purpose = purpose
        /\ request'[t].pieces = Pieces(b, Min({size, b.left}))
    BY <1>1, <1>2
  <2>3. size >= 1
    BY PoolAssumption
  <2>4. QED BY <1>1, <1>3, <2>1, <2>2, <2>3 DEF BufferInv, RequestInv
<1>8. ASSUME NEW u \in Threads, u # t PROVE BufferInv(u)' /\ RequestInv(u)'
  <2>1. buffers'[u] = buffers[u] /\ reach'[u] = reach[u] /\ request'[u] = request[u] /\ nthreads' = nthreads
    BY <1>1, <1>2, <1>8
  <2>2. QED BY <1>2, <2>1, ThreadKept
<1>9. QED BY <1>1, <1>5, <1>6, <1>7, <1>8 DEF PoolInv

LEMMA AdvanceKeeps ==
  ASSUME PoolInv, NEW t \in Threads, Advance(t)
  PROVE  PoolInv'
<1> DEFINE b == buffers[t]
           size == request[t].size
           got == request[t].pieces \cup (IF size < b.left THEN {} ELSE Pieces(Filled(b), size - b.left))
<1>1. /\ request[t] # Idle
      /\ buffers' = [buffers EXCEPT ![t] = After(b, size)]
      /\ HandsOut(t, got, size)
      /\ request' = [request EXCEPT ![t] = Idle]
      /\ coinsleft' = (IF request[t].purpose = "coins"
                       THEN [coinsleft EXCEPT ![t] = size] ELSE coinsleft)
      /\ PRB_rand_bits_remaining' =
           (IF request[t].purpose = "bits"
            THEN [PRB_rand_bits_remaining EXCEPT ![t] = Bits - 1] ELSE PRB_rand_bits_remaining)
      /\ UNCHANGED <<pools, nthreads, started, failed>>
  BY DEF Advance, Buffer
<1>2. /\ buffers \in [Threads -> Held] /\ request \in [Threads -> Asked] /\ reach \in [Threads -> Nat]
      /\ coinsleft \in [Threads -> 0 .. MaxCoins]
      /\ PRB_rand_bits_remaining \in [Threads -> 0 .. Bits - 1]
      /\ \A u \in Threads : BufferInv(u) /\ RequestInv(u)
      /\ reused = FALSE
  BY DEF PoolInv
<1>3. /\ Full(b) /\ size >= 1
      /\ size >= b.left => b.fills < MaxFills
      /\ request[t].pieces = Pieces(b, Min({size, b.left}))
      /\ request[t].purpose = "coins" => size <= MaxCoins
  BY <1>1, <1>2 DEF RequestInv
<1>4. size \in 1 .. BufferSize /\ b \in Held /\ size \in Nat
  <2>1. b \in Held /\ request[t] \in Asked
    BY <1>2
  <2>2. size \in 0 .. BufferSize
    BY <2>1 DEF Asked
  <2>3. QED BY <1>3, <2>1, <2>2, PoolAssumption
<1>5. reach[t] = Served(b)
  <2>1. b # Empty
    <3>1. Empty.fills = 0
      BY DEF Empty
    <3>2. ~ (0 >= 1)
      OBVIOUS
    <3>3. QED BY <1>3, <3>1, <3>2 DEF Full
  <2>2. QED BY <1>2, <2>1 DEF BufferInv
<1>6. /\ Served(b) \in Nat /\ got = Served(b) .. Served(b) + size - 1
      /\ After(b, size) \in Held /\ Full(After(b, size))
      /\ Served(After(b, size)) = Served(b) + size
  <2> HIDE DEF b, size
  <2>1. /\ Served(b) \in Nat
        /\ Pieces(b, Min({size, b.left})) \cup
             (IF size < b.left THEN {} ELSE Pieces(Filled(b), size - b.left))
           = Served(b) .. Served(b) + size - 1
        /\ After(b, size) \in Held /\ Full(After(b, size))
        /\ Served(After(b, size)) = Served(b) + size
    BY <1>3, <1>4, Advances
  <2>2. QED BY <1>3, <2>1
<1> HIDE DEF b, got, size
<1>7. /\ Cardinality(got) = size /\ \A p \in got : ~ (p < reach[t])
      /\ Max(got \cup {reach[t] - 1}) + 1 = reach[t] + size
  BY <1>3, <1>4, <1>5, <1>6, HandedOut
<1>8. reused' = FALSE
  BY <1>1, <1>2, <1>7 DEF HandsOut
<1>9. reach' = [reach EXCEPT ![t] = reach[t] + size]
  BY <1>1, <1>2, <1>7 DEF HandsOut
<1>10. /\ buffers' \in [Threads -> Held] /\ reach' \in [Threads -> Nat]
       /\ request' \in [Threads -> Asked]
  <2>1. Idle \in Asked
    BY PoolAssumption DEF Idle, Asked, Purpose
  <2>2. reach[t] + size \in Nat
    BY <1>2, <1>4
  <2>3. QED BY <1>1, <1>2, <1>6, <1>9, <2>1, <2>2
<1>11. coinsleft' \in [Threads -> 0 .. MaxCoins]
  <2>1. request[t].purpose = "coins" => size \in 0 .. MaxCoins
    BY <1>3, <1>4
  <2>2. QED BY <1>1, <1>2, <2>1
<1>12. PRB_rand_bits_remaining' \in [Threads -> 0 .. Bits - 1]
  <2>1. Bits - 1 \in 0 .. Bits - 1
    BY PoolAssumption
  <2>2. QED BY <1>1, <1>2, <2>1
<1>13. BufferInv(t)' /\ RequestInv(t)'
  <2>1. buffers'[t] = After(b, size) /\ request'[t] = Idle /\ reach'[t] = Served(b) + size
    BY <1>1, <1>2, <1>5, <1>9
  <2>2. QED BY <1>6, <2>1 DEF BufferInv, RequestInv
<1>14. ASSUME NEW u \in Threads, u # t PROVE BufferInv(u)' /\ RequestInv(u)'
  <2>1. buffers'[u] = buffers[u] /\ reach'[u] = reach[u] /\ request'[u] = request[u] /\ nthreads' = nthreads
    BY <1>1, <1>2, <1>9, <1>14
  <2>2. QED BY <1>2, <2>1, ThreadKept
<1>15. QED BY <1>1, <1>8, <1>10, <1>11, <1>12, <1>13, <1>14 DEF PoolInv

\* The steps that draw nothing.
LEMMA DrawersKeep ==
  ASSUME PoolInv, NEW t \in Threads, UNCHANGED <<pools, nthreads, started, buffers, reach, reused>>,
         failed' \in BOOLEAN, coinsleft' \in [Threads -> 0 .. MaxCoins],
         PRB_rand_bits_remaining' \in [Threads -> 0 .. Bits - 1],
         request' = request \/ request' = [request EXCEPT ![t] = Idle]
  PROVE  PoolInv'
<1>1. request \in [Threads -> Asked] /\ \A u \in Threads : BufferInv(u) /\ RequestInv(u)
  BY DEF PoolInv
<1>2. request' \in [Threads -> Asked] /\ \A u \in Threads : request'[u] \in {request[u], Idle}
  <2>1. Idle \in Asked
    BY PoolAssumption DEF Idle, Asked, Purpose
  <2>2. QED BY <1>1, <2>1
<1>3. \A u \in Threads : BufferInv(u)' /\ RequestInv(u)'
  BY <1>1, <1>2, ThreadKept
<1>4. QED BY <1>2, <1>3 DEF PoolInv

LEMMA ThreadStepKeeps ==
  ASSUME PoolInv, NEW t \in Threads,
         FetchCoins(t) \/ Coin(t) \/ RandomBit(t) \/ Advance(t) \/ EncryptFails(t)
  PROVE  PoolInv'
<1>1. /\ coinsleft \in [Threads -> 0 .. MaxCoins] /\ PRB_rand_bits_remaining \in [Threads -> 0 .. Bits - 1]
      /\ failed \in BOOLEAN /\ MaxCoins \in Nat /\ Bits \in Nat /\ BufferSize \in Nat
      /\ MaxCoins <= BufferSize /\ 1 <= BufferSize
  BY PoolAssumption DEF PoolInv
<1>2. CASE FetchCoins(t)
  <2>1. PICK size \in 1 .. MaxCoins : Copy(t, "coins", size)
    BY <1>2 DEF FetchCoins
  <2>2. size \in 1 .. BufferSize /\ size <= MaxCoins
    BY <1>1
  <2>3. QED BY <2>1, <2>2, CopyKeeps
<1>3. CASE Coin(t)
  <2>1. PICK rest \in {0, coinsleft[t] - 1} : coinsleft' = [coinsleft EXCEPT ![t] = rest]
    BY <1>3 DEF Coin
  <2>2. coinsleft[t] > 0 /\ UNCHANGED <<pools, nthreads, started, buffers, request,
                     PRB_rand_bits_remaining, reach, reused, failed>>
    BY <1>3 DEF Coin
  <2>3. rest \in 0 .. MaxCoins
    BY <1>1, <2>2
  <2>4. coinsleft' \in [Threads -> 0 .. MaxCoins]
    BY <1>1, <2>1, <2>3
  <2>5. QED BY <1>1, <2>2, <2>4, DrawersKeep
<1>4. CASE RandomBit(t)
  <2>1. CASE Copy(t, "bits", 1)
    <3>1. 1 \in 1 .. BufferSize
      BY <1>1
    <3>2. QED BY <2>1, <3>1, CopyKeeps
  <2>2. CASE /\ PRB_rand_bits_remaining[t] > 0
             /\ PRB_rand_bits_remaining' = [PRB_rand_bits_remaining EXCEPT ![t] = @ - 1]
             /\ UNCHANGED <<pools, nthreads, started, buffers, request, coinsleft, reach, reused, failed>>
    <3>1. PRB_rand_bits_remaining[t] - 1 \in 0 .. Bits - 1
      BY <1>1, <2>2
    <3>2. PRB_rand_bits_remaining' \in [Threads -> 0 .. Bits - 1]
      BY <1>1, <2>2, <3>1
    <3>3. QED BY <1>1, <2>2, <3>2, DrawersKeep
  <2>3. QED BY <1>4, <2>1, <2>2 DEF RandomBit
<1>5. CASE Advance(t)
  BY <1>5, AdvanceKeeps
<1>6. CASE EncryptFails(t)
  BY <1>1, <1>6, DrawersKeep DEF EncryptFails
<1>7. QED BY <1>2, <1>3, <1>4, <1>5, <1>6

LEMMA FreshPool ==
  ASSUME PoolInv, buffers' = [t \in Threads |-> Empty], reach' = [t \in Threads |-> 0],
         \A t \in Threads : request[t] = Idle,
         UNCHANGED <<request, coinsleft, PRB_rand_bits_remaining, reused, failed>>,
         nthreads' \in 0 .. MaxThreads, pools' \in 0 .. MaxPools, started' \in BOOLEAN
  PROVE  PoolInv'
<1>1. buffers' \in [Threads -> Held] /\ reach' \in [Threads -> Nat]
  <2>1. Empty \in Held
    BY PoolAssumption DEF Empty, Held
  <2>2. QED BY <2>1
<1>2. \A t \in Threads : BufferInv(t)' /\ RequestInv(t)'
  BY DEF BufferInv, RequestInv
<1>3. QED BY <1>1, <1>2 DEF PoolInv

LEMMA PoolStepKeeps ==
  ASSUME PoolInv, (\E count \in 1 .. MaxThreads : PRB_pool_init(count)) \/ threadpool_init \/ PRB_pool_shutdown
  PROVE  PoolInv'
<1>1. /\ pools \in 0 .. MaxPools /\ nthreads \in 0 .. MaxThreads /\ started \in BOOLEAN /\ failed \in BOOLEAN
      /\ coinsleft \in [Threads -> 0 .. MaxCoins] /\ PRB_rand_bits_remaining \in [Threads -> 0 .. Bits - 1]
      /\ MaxPools \in Nat /\ MaxThreads \in Nat /\ Bits \in Nat \ {0}
      /\ \A t \in Threads : BufferInv(t) /\ RequestInv(t)
  BY PoolAssumption DEF PoolInv
<1>2. ASSUME NEW count \in 1 .. MaxThreads, PRB_pool_init(count) PROVE PoolInv'
  <2>1. /\ nthreads = 0 /\ pools < MaxPools /\ pools' = pools + 1 /\ nthreads' = count
        /\ buffers' = [t \in Threads |-> Empty] /\ reach' = [t \in Threads |-> 0]
        /\ UNCHANGED <<started, request, coinsleft, PRB_rand_bits_remaining, reused, failed>>
    BY <1>2 DEF PRB_pool_init
  <2>2. \A t \in Threads : request[t] = Idle
    <3>1. ~ (0 > 0)
      OBVIOUS
    <3>2. QED BY <1>1, <2>1, <3>1 DEF RequestInv
  <2>3. pools' \in 0 .. MaxPools /\ nthreads' \in 0 .. MaxThreads /\ started' \in BOOLEAN
    BY <1>1, <2>1
  <2>4. QED BY <2>1, <2>2, <2>3, FreshPool
<1>3. CASE threadpool_init
  <2>1. PRB_rand_bits_remaining' \in [Threads -> 0 .. Bits - 1]
    <3>1. 0 \in 0 .. Bits - 1
      BY <1>1
    <3>2. QED BY <1>1, <1>3, <3>1 DEF threadpool_init
  <2>2. UNCHANGED <<pools, nthreads, buffers, request, coinsleft, reach, reused, failed>> /\ started' = TRUE
    BY <1>3 DEF threadpool_init
  <2>3. \A t \in Threads : BufferInv(t)' /\ RequestInv(t)'
    BY <1>1, <2>2, ThreadKept
  <2>4. QED BY <2>1, <2>2, <2>3 DEF PoolInv
<1>4. CASE PRB_pool_shutdown
  <2>1. 0 \in 0 .. MaxThreads /\ FALSE \in BOOLEAN
    BY <1>1
  <2>2. QED BY <1>1, <1>4, <2>1, FreshPool DEF PRB_pool_shutdown
<1>5. QED BY <1>2, <1>3, <1>4

\* The invariant of the random pool, and with it its types.
THEOREM RandomPoolInvariant == PoolSpec => [](PoolInv /\ PoolTypeOK)
<1>1. PoolInit => PoolInv
  <2>1. Empty \in Held /\ Idle \in Asked /\ 0 \in 0 .. MaxCoins /\ 0 \in 0 .. Bits - 1
        /\ 0 \in 0 .. MaxPools /\ 0 \in 0 .. MaxThreads
    BY PoolAssumption DEF Empty, Held, Idle, Asked, Purpose
  <2>2. SUFFICES ASSUME PoolInit PROVE PoolInv
    OBVIOUS
  <2>3. /\ buffers \in [Threads -> Held] /\ request \in [Threads -> Asked]
        /\ coinsleft \in [Threads -> 0 .. MaxCoins] /\ PRB_rand_bits_remaining \in [Threads -> 0 .. Bits - 1]
        /\ reach \in [Threads -> Nat] /\ pools = 0 /\ nthreads = 0 /\ started = FALSE /\ failed = FALSE
        /\ reused = FALSE
    BY <2>1, <2>2 DEF PoolInit
  <2>4. \A t \in Threads : BufferInv(t) /\ RequestInv(t)
    BY <2>2 DEF PoolInit, BufferInv, RequestInv
  <2>5. QED BY <2>1, <2>3, <2>4 DEF PoolInv
<1>2. PoolInv /\ [PoolNext]_pool_vars => PoolInv'
  <2>1. SUFFICES ASSUME PoolInv, [PoolNext]_pool_vars PROVE PoolInv'
    OBVIOUS
  <2>2. CASE Vector
    <3>1. 0 \in Threads /\ VectorSize \in 1 .. BufferSize
      BY PoolAssumption DEF Threads
    <3>2. QED BY <2>1, <2>2, <3>1, CopyKeeps DEF Vector
  <2>3. CASE UNCHANGED pool_vars
    <3>1. UNCHANGED <<pools, nthreads, started, buffers, request, coinsleft,
               PRB_rand_bits_remaining, reach, reused, failed>>
      BY <2>3 DEF pool_vars
    <3>2. 0 \in Threads
      BY PoolAssumption DEF Threads
    <3>3. QED BY <2>1, <3>1, <3>2, DrawersKeep DEF PoolInv
  <2>4. QED BY <2>1, <2>2, <2>3, PoolStepKeeps, ThreadStepKeeps DEF PoolNext
<1>3. PoolInv => PoolTypeOK
  <2>1. SUFFICES ASSUME PoolInv PROVE reach \in [Threads -> 0 .. MaxFills * BufferSize]
    BY DEF PoolInv, PoolTypeOK, Held
  <2>2. ASSUME NEW t \in Threads PROVE reach[t] \in 0 .. MaxFills * BufferSize
    <3>1. BufferInv(t) /\ buffers[t] \in Held /\ reach[t] \in Nat /\ MaxFills \in Nat /\ BufferSize \in Nat
      BY <2>1, PoolAssumption DEF PoolInv
    <3>2. MaxFills * BufferSize \in Nat
      BY <3>1
    <3>3. CASE reach[t] = 0
      BY <3>2, <3>3
    <3>4. CASE Full(buffers[t]) /\ reach[t] = Served(buffers[t])
      <4> DEFINE f == buffers[t].fills - 1
                 g == MaxFills - f - 1
                 p == buffers[t].ptr
      <4>1. f \in Nat /\ g \in Nat /\ p \in Nat /\ p <= BufferSize /\ MaxFills = f + g + 1
            /\ reach[t] = f * BufferSize + p
        BY <3>1, <3>4 DEF Held, Full, Served
      <4> HIDE DEF f, g, p
      <4>2. (f + g + 1) * BufferSize = f * BufferSize + g * BufferSize + BufferSize
            /\ f * BufferSize \in Nat /\ g * BufferSize \in Nat
        BY <3>1, <4>1
      <4>3. reach[t] <= MaxFills * BufferSize
        <5> DEFINE x == f * BufferSize
                   y == g * BufferSize
        <5>1. MaxFills * BufferSize = x + y + BufferSize /\ reach[t] = x + p /\ x \in Nat /\ y \in Nat
          BY <4>1, <4>2
        <5> HIDE DEF x, y
        <5>2. QED BY <3>1, <4>1, <5>1
      <4>4. QED BY <3>1, <3>2, <4>3
    <3>5. QED BY <3>1, <3>3, <3>4 DEF BufferInv
  <2>3. reach \in [Threads -> Nat]
    BY <2>1 DEF PoolInv
  <2>4. QED BY <2>2, <2>3
<1>4. QED BY <1>1, <1>2, <1>3, PTL DEF PoolSpec

\* No piece of the key stream becomes two random numbers, and none is taken from
\* beyond it, for every number of threads and every size of the buffers.
THEOREM StreamUsedOnceHolds == PoolSpec => []StreamUsedOnce
<1>1. PoolInv => StreamUsedOnce
  BY DEF PoolInv, StreamUsedOnce
<1>2. QED BY <1>1, RandomPoolInvariant, PTL

-----------------------------------------------------------------------------
(* The permutation of PSQF_SWO.                                             *)

LEMMA LeastNumber ==
  ASSUME NEW T, T \subseteq Nat, T # {}
  PROVE  \E M \in T : \A k \in T : M <= k
<1>1. PICK M \in T : \A k \in T : ~ (<<k, M>> \in OpToRel(<, Nat))
  BY NatLessThanWellFounded, WFMin
<1>2. \A k \in T : ~ (k < M)
  BY <1>1 DEF OpToRel
<1>3. QED BY <1>2

\* What a quotient and its remainder are.
LEMMA Divided ==
  ASSUME NEW x \in Nat, NEW d \in Nat \ {0}
  PROVE  x \div d \in Nat /\ x % d \in 0 .. d - 1 /\ x = d * (x \div d) + (x % d)
OBVIOUS

LEMMA Times ==
  ASSUME NEW u \in Nat, NEW v \in Nat, NEW d \in Nat, u < v
  PROVE  u * d \in Nat /\ v * d \in Nat /\ u * d + d <= v * d
<1>1. (u + 1) * d <= v * d
  OBVIOUS
<1>2. (u + 1) * d = u * d + d
  OBVIOUS
<1>3. QED BY <1>1, <1>2

\* A cell of the grid has one number.
LEMMA CellIs ==
  ASSUME NEW a \in Nat \ {0}, NEW b \in Nat \ {0}, NEW u \in Nat, NEW v \in Nat,
         NEW r \in 0 .. b - 1, NEW s \in 0 .. b - 1
  PROVE  /\ u < a => u * b + r \in 0 .. a * b - 1
         /\ u * b + r = v * b + s => u = v /\ r = s
<1> DEFINE ub == u * b
           vb == v * b
           ab == a * b
<1>1. ub \in Nat /\ vb \in Nat /\ ab \in Nat
  OBVIOUS
<1>2. /\ u < a => ub + b <= ab
      /\ u < v => ub + b <= vb
      /\ v < u => vb + b <= ub
  BY Times
<1>3. u = v => ub = vb
  OBVIOUS
<1> HIDE DEF ub, vb, ab
<1>4. u < a => ub + r \in 0 .. ab - 1
  BY <1>1, <1>2
<1>5. ub + r = vb + s => u = v /\ r = s
  BY <1>1, <1>2, <1>3
<1>6. QED BY <1>4, <1>5 DEF ub, vb, ab

LEMMA RowIs ==
  ASSUME NEW a \in Nat \ {0}, NEW b \in Nat \ {0}, NEW x \in 0 .. a * b - 1
  PROVE  /\ x \div b \in 0 .. a - 1 /\ x % b \in 0 .. b - 1
         /\ x = (x \div b) * b + (x % b)
<1> DEFINE q == x \div b
           r == x % b
           qb == q * b
           ab == a * b
<1>1. ab \in Nat /\ x \in Nat /\ x < ab
  OBVIOUS
<1>2. q \in Nat /\ r \in 0 .. b - 1 /\ x = qb + r
  <2>1. x = b * q + r /\ q \in Nat /\ r \in 0 .. b - 1
    BY <1>1, Divided
  <2> HIDE DEF q, r
  <2>2. b * q = q * b
    BY <2>1
  <2>3. QED BY <2>1, <2>2
<1>3. q < a
  <2>1. a < q => ab + b <= qb
    <3> HIDE DEF q, r
    <3>1. QED BY <1>2, Times
  <2>2. a = q => ab = qb
    OBVIOUS
  <2>3. qb \in Nat
    <3> HIDE DEF q, r
    <3>1. QED BY <1>2
  <2> HIDE DEF q, r, qb, ab
  <2>4. QED BY <1>1, <1>2, <2>1, <2>2, <2>3
<1>4. QED BY <1>2, <1>3

\* Adding the same number to two remainders does not make them equal.
LEMMA ShiftApart ==
  ASSUME NEW M \in Nat \ {0}, NEW u \in 0 .. M - 1, NEW v \in 0 .. M - 1, NEW c \in Nat,
         (u + c) % M = (v + c) % M
  PROVE  u = v
<1> DEFINE p == (u + c) \div M
           q == (v + c) \div M
           r == (u + c) % M
<1>1. p \in Nat /\ q \in Nat /\ r \in 0 .. M - 1 /\ u + c = M * p + r /\ v + c = M * q + r
  <2>1. u + c \in Nat /\ v + c \in Nat
    OBVIOUS
  <2>2. QED BY <2>1, Divided
<1> HIDE DEF p, q, r
<1> DEFINE mp == p * M
           mq == q * M
<1>2. mp \in Nat /\ mq \in Nat /\ u + c = mp + r /\ v + c = mq + r
  <2>1. M * p = p * M /\ M * q = q * M
    BY <1>1
  <2>2. QED BY <1>1, <2>1
<1>3. (p < q => mp + M <= mq) /\ (q < p => mq + M <= mp) /\ (p = q => mp = mq)
  BY <1>1, Times
<1> HIDE DEF mp, mq
<1>4. QED BY <1>1, <1>2, <1>3

\* A key has a number for each half that a round may meet on the right.
IsKey(key, a, b) ==
  \A r \in 0 .. 3 : \A h \in 0 .. Modulus(r + 1, a, b) - 1 : key[r][h] \in Nat

Halves(a, b) == [L : 0 .. a - 1, R : 0 .. b - 1]

\* A round takes one grid to the other and no two cells to the same one.
LEMMA RoundIs ==
  ASSUME NEW a \in Nat \ {0}, NEW b \in Nat \ {0}, NEW key, IsKey(key, a, b), NEW r \in 0 .. 3,
         NEW x \in Halves(Modulus(r, a, b), Modulus(r + 1, a, b)),
         NEW y \in Halves(Modulus(r, a, b), Modulus(r + 1, a, b))
  PROVE  /\ Round(key, r, a, b, x) \in Halves(Modulus(r + 1, a, b), Modulus(r, a, b))
         /\ Round(key, r, a, b, x) = Round(key, r, a, b, y) => x = y
<1> DEFINE M == Modulus(r, a, b)
           k == Modulus(r + 1, a, b)
<1>1. M \in Nat \ {0} /\ k \in Nat \ {0}
  BY DEF Modulus
<1>2. \A h \in 0 .. k - 1 : key[r][h] \in Nat
  BY DEF IsKey
<1>3. x \in Halves(M, k) /\ y \in Halves(M, k)
  OBVIOUS
<1>4. /\ Round(key, r, a, b, x) = [L |-> x.R, R |-> (x.L + key[r][x.R]) % M]
      /\ Round(key, r, a, b, y) = [L |-> y.R, R |-> (y.L + key[r][y.R]) % M]
  BY DEF Round
<1> HIDE DEF M, k
<1>5. /\ x.L \in 0 .. M - 1 /\ x.R \in 0 .. k - 1 /\ key[r][x.R] \in Nat
      /\ y.L \in 0 .. M - 1 /\ y.R \in 0 .. k - 1
      /\ x = [L |-> x.L, R |-> x.R] /\ y = [L |-> y.L, R |-> y.R]
  BY <1>2, <1>3 DEF Halves
<1>6. (x.L + key[r][x.R]) % M \in 0 .. M - 1
  <2>1. x.L + key[r][x.R] \in Nat
    BY <1>1, <1>5
  <2>2. QED BY <1>1, <2>1, Divided
<1>7. Round(key, r, a, b, x) \in Halves(k, M)
  BY <1>4, <1>5, <1>6 DEF Halves
<1>8. ASSUME Round(key, r, a, b, x) = Round(key, r, a, b, y) PROVE x = y
  <2>1. x.R = y.R /\ (x.L + key[r][x.R]) % M = (y.L + key[r][y.R]) % M
    BY <1>4, <1>8
  <2>2. x.L = y.L
    BY <1>1, <1>5, <2>1, ShiftApart
  <2>3. QED BY <1>5, <2>1, <2>2
<1>9. QED BY <1>7, <1>8 DEF M, k

\* The network takes every cell of the grid to another one.
LEMMA NetworkPermutes ==
  ASSUME NEW a \in Nat \ {0}, NEW b \in Nat \ {0}, NEW key, IsKey(key, a, b),
         NEW x \in 0 .. a * b - 1, NEW y \in 0 .. a * b - 1
  PROVE  /\ generalized_feistel(key, a, b, x) \in 0 .. a * b - 1
         /\ generalized_feistel(key, a, b, x) = generalized_feistel(key, a, b, y) => x = y
<1> DEFINE start(z) == [L |-> z \div b, R |-> z % b]
           one(z) == Round(key, 0, a, b, start(z))
           two(z) == Round(key, 1, a, b, one(z))
           three(z) == Round(key, 2, a, b, two(z))
           four(z) == Round(key, 3, a, b, three(z))
<1>1. /\ Modulus(0, a, b) = a /\ Modulus(1, a, b) = b /\ Modulus(2, a, b) = a
      /\ Modulus(3, a, b) = b /\ Modulus(4, a, b) = a
  BY DEF Modulus
<1>2. ASSUME NEW z \in 0 .. a * b - 1
      PROVE  start(z) \in Halves(a, b) /\ z = start(z).L * b + start(z).R
  BY <1>2, RowIs DEF Halves
<1>3. 0 + 1 = 1 /\ 1 + 1 = 2 /\ 2 + 1 = 3 /\ 3 + 1 = 4
  OBVIOUS
<1>4. /\ generalized_feistel(key, a, b, x) = four(x).L * b + four(x).R
      /\ generalized_feistel(key, a, b, y) = four(y).L * b + four(y).R
  BY DEF generalized_feistel
<1>5. start(x) \in Halves(a, b) /\ start(y) \in Halves(a, b)
  BY <1>2
<1> HIDE DEF start
<1>6. one(x) \in Halves(b, a) /\ one(y) \in Halves(b, a) /\ (one(x) = one(y) => start(x) = start(y))
  BY <1>1, <1>3, <1>5, RoundIs
<1> HIDE DEF one
<1>7. two(x) \in Halves(a, b) /\ two(y) \in Halves(a, b) /\ (two(x) = two(y) => one(x) = one(y))
  BY <1>1, <1>3, <1>6, RoundIs
<1> HIDE DEF two
<1>8. three(x) \in Halves(b, a) /\ three(y) \in Halves(b, a)
      /\ (three(x) = three(y) => two(x) = two(y))
  BY <1>1, <1>3, <1>7, RoundIs
<1> HIDE DEF three
<1>9. four(x) \in Halves(a, b) /\ four(y) \in Halves(a, b)
      /\ (four(x) = four(y) => three(x) = three(y))
  BY <1>1, <1>3, <1>8, RoundIs
<1> HIDE DEF four
<1>10. /\ four(x).L \in 0 .. a - 1 /\ four(x).R \in 0 .. b - 1
       /\ four(x) = [L |-> four(x).L, R |-> four(x).R]
       /\ four(y).L \in 0 .. a - 1 /\ four(y).R \in 0 .. b - 1
       /\ four(y) = [L |-> four(y).L, R |-> four(y).R]
  BY <1>9 DEF Halves
<1>11. generalized_feistel(key, a, b, x) \in 0 .. a * b - 1
  BY <1>4, <1>10, CellIs
<1>12. ASSUME generalized_feistel(key, a, b, x) = generalized_feistel(key, a, b, y) PROVE x = y
  <2>1. four(x) = four(y)
    <3> DEFINE xl == four(x).L
               yl == four(y).L
               xr == four(x).R
               yr == four(y).R
    <3>1. /\ xl \in Nat /\ yl \in Nat /\ xr \in 0 .. b - 1 /\ yr \in 0 .. b - 1
          /\ xl * b + xr = yl * b + yr
      BY <1>4, <1>10, <1>12
    <3> HIDE DEF xl, yl, xr, yr
    <3>2. xl = yl /\ xr = yr
      BY <3>1, CellIs
    <3>3. QED BY <1>10, <3>2 DEF xl, yl, xr, yr
  <2>2. start(x) = start(y)
    BY <1>6, <1>7, <1>8, <1>9, <2>1
  <2>3. QED BY <1>2, <2>2
<1>13. QED BY <1>11, <1>12

-----------------------------------------------------------------------------
(* The walk back below N.                                                   *)

\* w goes on from x by F.
Walks(w, F, D, x, M) ==
  /\ w \in [0 .. M -> D]
  /\ w[0] = x
  /\ \A I \in 1 .. M : w[I] = F[w[I - 1]]

LEMMA WalkExists ==
  ASSUME NEW D, NEW F \in [D -> D], NEW x \in D
  PROVE  \A M \in Nat : \E w : Walks(w, F, D, x, M)
<1> DEFINE T == {M \in Nat : ~ \E w : Walks(w, F, D, x, M)}
<1>1. SUFFICES ASSUME T # {} PROVE FALSE
  OBVIOUS
<1>2. PICK M \in T : \A k \in T : M <= k
  BY <1>1, LeastNumber
<1>3. M \in Nat /\ ~ \E w : Walks(w, F, D, x, M)
  OBVIOUS
<1>4. CASE M = 0
  <2> DEFINE w == [I \in 0 .. 0 |-> x]
  <2>1. Walks(w, F, D, x, 0)
    BY DEF Walks
  <2>2. QED BY <1>3, <1>4, <2>1
<1>5. CASE M # 0
  <2>1. M - 1 \in Nat /\ ~ (M <= M - 1)
    BY <1>3, <1>5
  <2>2. PICK w : Walks(w, F, D, x, M - 1)
    BY <1>2, <2>1
  <2>3. /\ w \in [0 .. M - 1 -> D] /\ w[0] = x
        /\ \A I \in 1 .. M - 1 : w[I] = F[w[I - 1]]
    BY <2>2 DEF Walks
  <2> DEFINE u == [I \in 0 .. M |-> IF I = M THEN F[w[M - 1]] ELSE w[I]]
  <2>4. M - 1 \in 0 .. M - 1 /\ 0 \in 0 .. M /\ 0 # M /\ \A I \in 0 .. M : I # M => I \in 0 .. M - 1
    BY <2>1
  <2>5. u \in [0 .. M -> D] /\ u[0] = x
    BY <2>3, <2>4
  <2>6. ASSUME NEW I \in 1 .. M PROVE u[I] = F[u[I - 1]]
    <3>1. I \in 0 .. M /\ I - 1 \in 0 .. M /\ I - 1 # M /\ I - 1 \in 0 .. M - 1
      BY <1>3
    <3>2. u[I - 1] = w[I - 1]
      BY <3>1
    <3>3. CASE I = M
      BY <3>1, <3>2, <3>3
    <3>4. CASE I # M
      <4>1. I \in 1 .. M - 1
        BY <1>3, <3>4
      <4>2. u[I] = w[I]
        BY <3>1, <3>4
      <4>3. QED BY <2>3, <3>2, <4>1, <4>2
    <3>5. QED BY <3>3, <3>4
  <2> HIDE DEF u
  <2>7. Walks(u, F, D, x, M)
    BY <2>5, <2>6 DEF Walks
  <2>8. QED BY <1>3, <2>7
<1>6. QED BY <1>4, <1>5

OneToOne(F, D) == F \in [D -> D] /\ \A c, d \in D : F[c] = F[d] => c = d

\* Walks that meet have come the same way.
LEMMA WalkedTogether ==
  ASSUME NEW D, NEW F, OneToOne(F, D), NEW x \in D, NEW y \in D,
         NEW M \in Nat, NEW w, Walks(w, F, D, x, M), NEW v, Walks(v, F, D, y, M)
  PROVE  \A I, t \in 0 .. M : I <= t /\ w[I] = v[t] => x = v[t - I]
<1> SUFFICES ASSUME NEW I \in 0 .. M, NEW t \in 0 .. M, I <= t, w[I] = v[t]
             PROVE  x = v[t - I]
  OBVIOUS
<1> DEFINE T == {d \in 0 .. I : w[I - d] # v[t - d]}
<1>1. CASE T = {}
  <2>1. I \in 0 .. I /\ I - I = 0 /\ I \in Nat
    OBVIOUS
  <2>2. w[I - I] = v[t - I]
    BY <1>1, <2>1
  <2>3. QED BY <2>1, <2>2 DEF Walks
<1>2. ASSUME T # {} PROVE FALSE
  <2>1. PICK d \in T : \A k \in T : d <= k
    <3>1. T \subseteq Nat
      OBVIOUS
    <3> HIDE DEF T
    <3>2. QED BY <1>2, <3>1, LeastNumber
  <2>2. d \in 0 .. I /\ w[I - d] # v[t - d]
    OBVIOUS
  <2>3. d # 0
    <3>1. I - 0 = I /\ t - 0 = t
      OBVIOUS
    <3>2. QED BY <2>2, <3>1
  <2> DEFINE g == I - d
             f == t - d
  <2>4. d - 1 \in 0 .. I /\ ~ (d <= d - 1) /\ I - (d - 1) = g + 1 /\ t - (d - 1) = f + 1
        /\ g \in 0 .. M /\ f \in 0 .. M /\ g + 1 \in 1 .. M /\ f + 1 \in 1 .. M
        /\ (g + 1) - 1 = g /\ (f + 1) - 1 = f
    BY <2>2, <2>3
  <2>5. w[I - (d - 1)] = v[t - (d - 1)]
    BY <2>1, <2>4
  <2> HIDE DEF g, f, T
  <2>6. w[g + 1] = v[f + 1]
    BY <2>4, <2>5
  <2>7. w[g + 1] = F[w[g]] /\ v[f + 1] = F[v[f]] /\ w[g] \in D /\ v[f] \in D
    BY <2>4 DEF Walks
  <2>8. w[g] = v[f]
    BY <2>6, <2>7 DEF OneToOne
  <2>9. QED BY <2>2, <2>8 DEF g, f
<1>3. QED BY <1>1, <1>2

LEMMA WalkRepeats ==
  ASSUME NEW D, NEW F, OneToOne(F, D), NEW x \in D,
         NEW M \in Nat, NEW w, Walks(w, F, D, x, M)
  PROVE  \A I, t \in 0 .. M : I <= t /\ w[I] = w[t] => x = w[t - I]
BY WalkedTogether

\* A walk of as many steps as there are cells comes back to where it started.
LEMMA WalkReturns ==
  ASSUME NEW D, IsFiniteSet(D), NEW F, OneToOne(F, D), NEW x \in D,
         NEW M \in Nat, Cardinality(D) = M, NEW w, Walks(w, F, D, x, M)
  PROVE  \E I \in 1 .. M : w[I] = x
<1> DEFINE S == 0 .. M
<1>1. IsFiniteSet(S) /\ Cardinality(D) < Cardinality(S)
  <2>1. 0 \in Int /\ M \in Int
    OBVIOUS
  <2>2. IsFiniteSet(S) /\ Cardinality(S) = IF 0 > M THEN 0 ELSE M - 0 + 1
    BY <2>1, FS_Interval
  <2> HIDE DEF S
  <2>3. QED BY <2>2
<1>2. w \in [S -> D]
  BY DEF Walks
<1>3. \E I, t \in S : I # t /\ w[I] = w[t]
  <2> HIDE DEF S
  <2>1. QED BY <1>1, <1>2, FS_PigeonHole
<1>4. PICK I \in S, t \in S : I < t /\ w[I] = w[t]
  <2>1. PICK k \in S, l \in S : k # l /\ w[k] = w[l]
    BY <1>3
  <2>2. k < l \/ l < k
    BY <2>1
  <2> HIDE DEF S
  <2>3. QED BY <2>1, <2>2
<1>5. \A k, l \in 0 .. M : k <= l /\ w[k] = w[l] => x = w[l - k]
  BY WalkRepeats
<1>6. t - I \in 1 .. M /\ I <= t
  BY <1>4
<1>7. QED BY <1>4, <1>5, <1>6

\* What the loop of prp_index computes is a walk.
LEMMA MixingWalks ==
  ASSUME NEW a \in Nat \ {0}, NEW b \in Nat \ {0}, NEW key, IsKey(key, a, b),
         NEW x \in 0 .. a * b - 1
  PROVE  LET F == [z \in 0 .. a * b - 1 |-> generalized_feistel(key, a, b, z)]
             walk[I \in 0 .. a * b] ==
               IF I = 0 THEN x ELSE generalized_feistel(key, a, b, walk[I - 1])
         IN /\ OneToOne(F, 0 .. a * b - 1)
            /\ Walks(walk, F, 0 .. a * b - 1, x, a * b)
<1> DEFINE M == a * b
           D == 0 .. M - 1
           F == [z \in D |-> generalized_feistel(key, a, b, z)]
           Step(f) == [I \in 0 .. M |->
                         IF I = 0 THEN x ELSE generalized_feistel(key, a, b, f[I - 1])]
           walk == CHOOSE f : f = Step(f)
<1>1. M \in Nat
  OBVIOUS
<1>2. F \in [D -> D]
  BY NetworkPermutes
<1>3. OneToOne(F, D)
  <2>1. ASSUME NEW c \in D, NEW d \in D, F[c] = F[d] PROVE c = d
    BY <2>1, NetworkPermutes
  <2>2. QED BY <1>2, <2>1 DEF OneToOne
<1>4. x \in D
  OBVIOUS
<1>5. \A z \in D : F[z] = generalized_feistel(key, a, b, z)
  OBVIOUS
<1> HIDE DEF M, D, F
<1>6. PICK w : Walks(w, F, D, x, M)
  BY <1>1, <1>2, <1>4, WalkExists
<1>7. w \in [0 .. M -> D] /\ w[0] = x /\ \A I \in 1 .. M : w[I] = F[w[I - 1]]
  BY <1>6 DEF Walks
<1>8. w = Step(w)
  <2>1. ASSUME NEW I \in 0 .. M
        PROVE  w[I] = IF I = 0 THEN x ELSE generalized_feistel(key, a, b, w[I - 1])
    <3>1. CASE I = 0
      BY <1>7, <3>1
    <3>2. CASE I # 0
      <4>1. I \in 1 .. M /\ I - 1 \in 0 .. M
        BY <1>1, <3>2
      <4>2. w[I] = F[w[I - 1]] /\ w[I - 1] \in D
        BY <1>7, <4>1
      <4>3. QED BY <1>5, <3>2, <4>2
    <3>3. QED BY <3>1, <3>2
  <2>2. QED BY <1>7, <2>1
<1>9. walk = Step(walk)
  <2> HIDE DEF Step
  <2>1. QED BY <1>8
<1>10. \A I \in 0 .. M : walk[I] = IF I = 0 THEN x ELSE generalized_feistel(key, a, b, walk[I - 1])
  <2> HIDE DEF walk
  <2>1. QED BY <1>9
<1>11. walk = [I \in 0 .. M |-> walk[I]]
  <2>1. Step(walk) = [I \in 0 .. M |-> Step(walk)[I]]
    OBVIOUS
  <2> HIDE DEF walk, Step
  <2>2. QED BY <1>9, <2>1
<1>12. \A I \in 0 .. M : walk[I] = w[I]
  <2> DEFINE T == {I \in 0 .. M : walk[I] # w[I]}
  <2> HIDE DEF walk
  <2>1. ASSUME T # {} PROVE FALSE
    <3>1. PICK I \in T : \A k \in T : I <= k
      <4>1. T \subseteq Nat
        BY <1>1
      <4> HIDE DEF T
      <4>2. QED BY <2>1, <4>1, LeastNumber
    <3>2. I \in 0 .. M /\ walk[I] # w[I]
      OBVIOUS
    <3>3. I # 0
      BY <1>7, <1>10, <3>2
    <3>4. I - 1 \in 0 .. M /\ ~ (I <= I - 1) /\ I \in 1 .. M
      BY <1>1, <3>2, <3>3
    <3>5. walk[I - 1] = w[I - 1]
      BY <3>1, <3>4
    <3> HIDE DEF T
    <3>6. w[I] = F[w[I - 1]] /\ w[I - 1] \in D
      BY <1>7, <3>4
    <3>7. walk[I] = generalized_feistel(key, a, b, walk[I - 1])
      BY <1>10, <3>2, <3>3
    <3>8. QED BY <1>5, <3>2, <3>5, <3>6, <3>7
  <2>2. QED BY <2>1
<1>13. Walks(walk, F, D, x, M)
  <2> HIDE DEF walk
  <2>1. walk = w
    BY <1>7, <1>11, <1>12
  <2>2. QED BY <1>6, <2>1
<1>14. QED BY <1>3, <1>13 DEF M, D, F

-----------------------------------------------------------------------------
(* The grid.                                                                *)

\* One step of Newton's method.
Newton(N, x) == (x + N \div x) \div 2

LEMMA Squares ==
  ASSUME NEW s \in Nat, NEW t \in Nat, NEW y \in Nat, s + t <= 2 * y
  PROVE  s * t <= y * y
<1>1. (s - t) * (s - t) >= 0
  <2>1. CASE s >= t
    <3> DEFINE d == s - t
    <3>1. d \in Nat
      BY <2>1
    <3> HIDE DEF d
    <3>2. d * d \in Nat
      BY <3>1
    <3>3. QED BY <3>2 DEF d
  <2>2. CASE s < t
    <3> DEFINE d == t - s
    <3>1. d \in Nat
      BY <2>2
    <3>2. (s - t) * (s - t) = d * d
      OBVIOUS
    <3> HIDE DEF d
    <3>3. d * d \in Nat
      BY <3>1
    <3>4. QED BY <3>2, <3>3
  <2>3. QED BY <2>1, <2>2
<1>2. (s + t) * (s + t) = (s - t) * (s - t) + 4 * (s * t)
  OBVIOUS
<1>3. (s + t) * (s + t) <= (2 * y) * (2 * y)
  <2> DEFINE p == s + t
             q == 2 * y
  <2>1. p \in Nat /\ q \in Nat /\ p <= q
    OBVIOUS
  <2> HIDE DEF p, q
  <2>2. p * p <= q * p /\ q * p <= q * q
    BY <2>1
  <2>3. p * p <= q * q
    BY <2>1, <2>2
  <2>4. QED BY <2>3 DEF p, q
<1>4. (2 * y) * (2 * y) = 4 * (y * y)
  OBVIOUS
<1>5. s * t \in Int /\ y * y \in Int /\ (s + t) * (s + t) \in Int /\ (s - t) * (s - t) \in Int
  OBVIOUS
<1> DEFINE st == s * t
           yy == y * y
           u == (s + t) * (s + t)
           v == (s - t) * (s - t)
<1>6. v >= 0 /\ u = v + 4 * st /\ u <= 4 * yy /\ st \in Int /\ yy \in Int /\ u \in Int /\ v \in Int
  BY <1>1, <1>2, <1>3, <1>4, <1>5
<1> HIDE DEF st, yy, u, v
<1>7. st <= yy
  BY <1>6
<1>8. QED BY <1>7 DEF st, yy

\* A step does not fall below the root, and if it does not fall at all, it started
\* from the root.
LEMMA NewtonIs ==
  ASSUME NEW N \in Nat, NEW x \in 1 .. N
  PROVE  /\ Newton(N, x) \in 1 .. N
         /\ N < (Newton(N, x) + 1) * (Newton(N, x) + 1)
         /\ Newton(N, x) >= x => x * x <= N
<1> DEFINE q == N \div x
           r == N % x
           y == Newton(N, x)
           xq == x * q
<1>1. q \in Nat /\ r \in 0 .. x - 1 /\ N = xq + r /\ x \in Nat \ {0}
  <2>1. x \in Nat \ {0}
    OBVIOUS
  <2>2. QED BY <2>1, Divided
<1>2. y = (x + q) \div 2
  BY DEF Newton
<1> HIDE DEF q, r, y
<1>3. xq \in Nat /\ (q = 0 => xq = 0) /\ q <= xq
  <2>1. q = 0 => xq = 0
    BY <1>1
  <2>2. x * q >= 1 * q
    BY <1>1
  <2>3. QED BY <1>1, <2>1, <2>2
<1>4. y \in Nat /\ 2 * y <= x + q /\ x + q <= 2 * y + 1
  BY <1>1, <1>2
<1>5. y \in 1 .. N
  <2> HIDE DEF xq
  <2>1. q >= 1
    BY <1>1, <1>3
  <2>2. q <= N
    BY <1>1, <1>3
  <2>3. QED BY <1>1, <1>4, <2>1, <2>2
<1>6. N < (y + 1) * (y + 1)
  <2>1. x * (q + 1) <= (y + 1) * (y + 1)
    <3>1. x \in Nat /\ q + 1 \in Nat /\ y + 1 \in Nat /\ x + (q + 1) <= 2 * (y + 1)
      BY <1>1, <1>4
    <3>2. QED BY <3>1, Squares
  <2>2. x * (q + 1) = xq + x
    BY <1>1
  <2>3. (y + 1) * (y + 1) \in Int
    BY <1>4
  <2> DEFINE yy == (y + 1) * (y + 1)
  <2>4. xq + x <= yy /\ yy \in Int
    BY <2>1, <2>2, <2>3
  <2> HIDE DEF yy, xq
  <2>5. N < yy
    BY <1>1, <1>3, <2>4
  <2>6. QED BY <2>5 DEF yy
<1>7. ASSUME y >= x PROVE x * x <= N
  <2>1. q >= x
    BY <1>1, <1>4, <1>7
  <2>2. x * x <= x * q
    BY <1>1, <2>1
  <2>3. x * x \in Nat
    BY <1>1
  <2> DEFINE xx == x * x
  <2> HIDE DEF xx, xq
  <2>4. xx <= xq
    BY <2>2 DEF xx, xq
  <2>5. QED BY <1>1, <1>3, <2>3, <2>4 DEF xx
<1>8. QED BY <1>5, <1>6, <1>7 DEF y

IsRoot(N, r) == r \in Nat /\ r * r <= N /\ N < (r + 1) * (r + 1)

\* g is what the iteration makes of the numbers up to M.
Descends(g, N, M) ==
  /\ DOMAIN g = 1 .. M
  /\ \A x \in 1 .. M : g[x] = IF Newton(N, x) < x THEN g[Newton(N, x)] ELSE x

LEMMA DescentExists ==
  ASSUME NEW N \in Nat
  PROVE  \E g : Descends(g, N, N)
<1> DEFINE T == {M \in 0 .. N : ~ \E g : Descends(g, N, M)}
<1>1. CASE T = {}
  <2>1. N \in 0 .. N
    OBVIOUS
  <2>2. QED BY <1>1, <2>1
<1>2. ASSUME T # {} PROVE FALSE
  <2>1. PICK M \in T : \A k \in T : M <= k
    <3>1. T \subseteq Nat
      OBVIOUS
    <3> HIDE DEF T
    <3>2. QED BY <1>2, <3>1, LeastNumber
  <2>2. M \in 0 .. N /\ ~ \E g : Descends(g, N, M)
    OBVIOUS
  <2>3. CASE M = 0
    <3> DEFINE g == [x \in 1 .. 0 |-> 0]
    <3>1. Descends(g, N, 0)
      BY DEF Descends
    <3>2. QED BY <2>2, <2>3, <3>1
  <2>4. CASE M # 0
    <3>1. M - 1 \in 0 .. N /\ ~ (M <= M - 1) /\ M \in 1 .. N
      BY <2>2, <2>4
    <3>2. PICK g : Descends(g, N, M - 1)
      BY <2>1, <3>1
    <3>3. /\ DOMAIN g = 1 .. M - 1
          /\ \A x \in 1 .. M - 1 : g[x] = IF Newton(N, x) < x THEN g[Newton(N, x)] ELSE x
      BY <3>2 DEF Descends
    <3> DEFINE h == [x \in 1 .. M |-> IF x < M THEN g[x]
                                      ELSE IF Newton(N, M) < M THEN g[Newton(N, M)] ELSE M]
    <3>4. ASSUME NEW x \in 1 .. M PROVE h[x] = IF Newton(N, x) < x THEN h[Newton(N, x)] ELSE x
      <4>1. Newton(N, x) \in 1 .. N /\ x \in 1 .. N
        BY <2>2, NewtonIs
      <4>2. ASSUME Newton(N, x) < x PROVE h[Newton(N, x)] = g[Newton(N, x)]
        <5>1. Newton(N, x) \in 1 .. M /\ Newton(N, x) < M
          BY <2>2, <4>1, <4>2
        <5>2. QED BY <5>1
      <4>3. CASE x < M
        <5>1. x \in 1 .. M - 1
          BY <2>2, <4>3
        <5>2. h[x] = g[x]
          BY <4>3
        <5> HIDE DEF h
        <5>3. QED BY <3>3, <4>2, <5>1, <5>2
      <4>4. CASE ~ (x < M)
        <5>1. x = M
          BY <2>2, <4>4
        <5>2. h[M] = IF Newton(N, M) < M THEN g[Newton(N, M)] ELSE M
          BY <4>4, <5>1
        <5> HIDE DEF h
        <5>3. QED BY <4>2, <5>1, <5>2
      <4>5. QED BY <4>3, <4>4
    <3>5. DOMAIN h = 1 .. M
      OBVIOUS
    <3> HIDE DEF h
    <3>6. Descends(h, N, M)
      BY <3>4, <3>5 DEF Descends
    <3>7. QED BY <2>2, <3>6
  <2>5. QED BY <2>3, <2>4
<1>3. QED BY <1>1, <1>2

\* integer_sqrt is the root, rounded down, of any number.
LEMMA RootIs ==
  ASSUME NEW N \in Nat
  PROVE  IsRoot(N, integer_sqrt(N))
<1>1. CASE N <= 1
  <2>1. integer_sqrt(N) = N
    BY <1>1 DEF integer_sqrt
  <2>2. N = 0 \/ N = 1
    BY <1>1
  <2>3. QED BY <2>1, <2>2 DEF IsRoot
<1>2. CASE N > 1
  <2> DEFINE Step(f) == [x \in 1 .. N |->
                           IF (x + N \div x) \div 2 < x THEN f[(x + N \div x) \div 2] ELSE x]
             root == CHOOSE f : f = Step(f)
             half == N \div 2
  <2>1. integer_sqrt(N) = root[half]
    <3>1. ~ (N <= 1)
      BY <1>2
    <3>2. QED BY <3>1 DEF integer_sqrt
  <2>2. PICK g : Descends(g, N, N)
    BY DescentExists
  <2>3. \E f : f = Step(f)
    <3> DEFINE h == [x \in 1 .. N |-> g[x]]
    <3>1. ASSUME NEW x \in 1 .. N PROVE h[x] = Step(h)[x]
      <4>1. Newton(N, x) \in 1 .. N
        BY NewtonIs
      <4>2. h[x] = IF Newton(N, x) < x THEN h[Newton(N, x)] ELSE x
        BY <2>2, <4>1 DEF Descends
      <4> HIDE DEF h
      <4>3. QED BY <4>2 DEF Newton
    <3>2. h = [x \in 1 .. N |-> h[x]] /\ Step(h) = [x \in 1 .. N |-> Step(h)[x]]
      OBVIOUS
    <3> HIDE DEF h, Step
    <3>3. h = Step(h)
      BY <3>1, <3>2
    <3>4. QED BY <3>3
  <2>4. root = Step(root)
    <3> HIDE DEF Step
    <3>1. QED BY <2>3
  <2>5. ASSUME NEW x \in 1 .. N PROVE root[x] = IF Newton(N, x) < x THEN root[Newton(N, x)] ELSE x
    <3> HIDE DEF root
    <3>1. QED BY <2>4 DEF Newton
  <2> HIDE DEF root
  <2>6. \A x \in 1 .. N : N < (x + 1) * (x + 1) => IsRoot(N, root[x])
    <3> DEFINE T == {x \in 1 .. N : N < (x + 1) * (x + 1) /\ ~ IsRoot(N, root[x])}
    <3>1. ASSUME T # {} PROVE FALSE
      <4>1. PICK x \in T : \A k \in T : x <= k
        <5>1. T \subseteq Nat
          OBVIOUS
        <5> HIDE DEF T
        <5>2. QED BY <3>1, <5>1, LeastNumber
      <4>2. x \in 1 .. N /\ N < (x + 1) * (x + 1) /\ ~ IsRoot(N, root[x])
        OBVIOUS
      <4>3. /\ Newton(N, x) \in 1 .. N /\ N < (Newton(N, x) + 1) * (Newton(N, x) + 1)
            /\ Newton(N, x) >= x => x * x <= N
        BY <4>2, NewtonIs
      <4>4. CASE Newton(N, x) < x
        <5>1. root[x] = root[Newton(N, x)]
          BY <2>5, <4>2, <4>4
        <5>2. ~ (x <= Newton(N, x))
          BY <4>2, <4>3, <4>4
        <5>3. IsRoot(N, root[Newton(N, x)])
          BY <4>1, <4>3, <5>2
        <5>4. QED BY <4>2, <5>1, <5>3
      <4>5. CASE ~ (Newton(N, x) < x)
        <5>1. root[x] = x
          BY <2>5, <4>2, <4>5
        <5>2. Newton(N, x) >= x
          BY <4>2, <4>3, <4>5
        <5>3. QED BY <4>2, <4>3, <5>1, <5>2 DEF IsRoot
      <4>6. QED BY <4>4, <4>5
    <3>2. QED BY <3>1
  <2>7. half \in 1 .. N /\ N < (half + 1) * (half + 1)
    <3>1. half \in Nat /\ half >= 1 /\ half <= N /\ N <= 2 * half + 1
      BY <1>2
    <3> HIDE DEF half
    <3>2. (half + 1) * (half + 1) = half * half + 2 * half + 1
      BY <3>1
    <3>3. half * half >= 1 * half
      BY <3>1
    <3> DEFINE hh == half * half
    <3>4. hh \in Nat /\ hh >= half /\ (half + 1) * (half + 1) = hh + 2 * half + 1
      BY <3>1, <3>2, <3>3
    <3> HIDE DEF hh
    <3>5. QED BY <3>1, <3>4
  <2>8. QED BY <2>1, <2>6, <2>7
<1>3. QED BY <1>1, <1>2

\* The grid has a cell for every number below N, and is a square or one column
\* short of it.
LEMMA GridFits ==
  ASSUME NEW N \in Nat \ {0}
  PROVE  /\ GridA(N) \in Nat \ {0} /\ GridB(N) \in Nat \ {0} /\ N <= GridA(N) * GridB(N)
         /\ GridB(N) \in GridA(N) - 1 .. GridA(N)
<1> DEFINE r == integer_sqrt(N)
           a == GridA(N)
           b == GridB(N)
<1>1. r \in Nat /\ r * r <= N /\ N < (r + 1) * (r + 1)
  BY RootIs DEF IsRoot
<1>2. a = (IF r * r < N THEN r + 1 ELSE r) /\ b = (N + a - 1) \div a
  BY DEF GridA, GridB
<1> HIDE DEF r, a, b
<1> DEFINE rr == r * r
           c == a - 1
           cc == c * c
           aa == a * a
<1>3. rr \in Nat /\ rr <= N /\ N < rr + 2 * r + 1
  <2>1. rr \in Nat /\ (r + 1) * (r + 1) = rr + 2 * r + 1
    BY <1>1
  <2>2. QED BY <1>1, <2>1
<1>4. r >= 1
  <2>1. r = 0 => rr = 0
    BY <1>1
  <2> HIDE DEF rr
  <2>2. QED BY <1>1, <1>3, <2>1
<1>5. c \in Nat /\ a = c + 1 /\ a \in Nat \ {0} /\ (rr < N => a = r + 1) /\ (~ (rr < N) => a = r)
  BY <1>1, <1>2, <1>4
<1>6. N <= aa /\ cc < N /\ aa = cc + 2 * c + 1 /\ cc \in Nat /\ aa \in Nat
  <2>1. cc \in Nat /\ aa \in Nat /\ aa = cc + 2 * c + 1
    BY <1>5
  <2>2. CASE rr < N
    <3>1. a = r + 1 /\ c = r /\ cc = rr
      <4>1. a = r + 1
        BY <1>5, <2>2
      <4>2. c = r
        BY <1>1, <4>1
      <4> HIDE DEF c
      <4>3. QED BY <4>1, <4>2
    <3> HIDE DEF rr, cc, aa, c
    <3>2. QED BY <1>1, <1>3, <2>1, <2>2, <3>1
  <2>3. CASE ~ (rr < N)
    <3>1. a = r /\ aa = rr
      BY <1>5, <2>3
    <3> HIDE DEF rr, cc, aa
    <3>2. QED BY <1>1, <1>3, <1>5, <2>1, <2>3, <3>1
  <2>4. QED BY <2>2, <2>3
<1> DEFINE ba == b * a
           s == (N + a - 1) % a
<1>7. b \in Nat /\ s \in Nat /\ s < a /\ N + a - 1 = ba + s
  <2>1. N + a - 1 \in Nat
    BY <1>5
  <2>2. b \in Nat /\ s \in 0 .. a - 1 /\ N + a - 1 = a * b + s
    BY <1>2, <1>5, <2>1, Divided
  <2>3. a * b = b * a
    BY <1>5, <2>2
  <2>4. QED BY <1>5, <2>2, <2>3
<1> HIDE DEF s, rr
<1>8. N <= ba /\ ba \in Nat /\ ba <= N + a - 1
  <2>1. ba \in Nat
    BY <1>5, <1>7
  <2> HIDE DEF ba
  <2>2. QED BY <1>5, <1>7, <2>1
<1>9. b <= a
  <2>1. b > a => aa + a <= ba
    BY <1>5, <1>7, Times
  <2> HIDE DEF ba, aa, cc
  <2>2. QED BY <1>5, <1>6, <1>7, <1>8, <2>1
<1>10. b >= c
  <2>1. b < c => ba + a <= c * a
    BY <1>5, <1>7, Times
  <2>2. c * a = cc + c
    BY <1>5
  <2> HIDE DEF ba, aa, cc
  <2>3. QED BY <1>5, <1>6, <1>7, <1>8, <2>1, <2>2
<1>11. b # 0
  <2>1. b = 0 => ba = 0
    BY <1>5
  <2> HIDE DEF ba
  <2>2. QED BY <1>8, <2>1
<1>12. N <= a * b
  <2>1. a * b = ba
    BY <1>5, <1>7
  <2>2. QED BY <1>8, <2>1
<1>13. QED BY <1>5, <1>7, <1>9, <1>10, <1>11, <1>12 DEF a, b

-----------------------------------------------------------------------------
(* The permutation.                                                         *)

\* I is the first step of a walk that is below N.
FirstHit(w, M, N, I) ==
  /\ I \in 1 .. M /\ w[I] \in 0 .. N - 1
  /\ \A h \in 1 .. M : w[h] < N => I <= h

LEMMA IndexIs ==
  ASSUME NEW N \in Nat, N > 1, NEW key, IsKey(key, GridA(N), GridB(N)), NEW x \in 0 .. N - 1
  PROVE  LET M == GridA(N) * GridB(N)
             D == 0 .. M - 1
             F == [z \in D |-> generalized_feistel(key, GridA(N), GridB(N), z)]
         IN /\ x \in D /\ OneToOne(F, D) /\ M \in Nat
            /\ \E w, I : Walks(w, F, D, x, M) /\ FirstHit(w, M, N, I) /\ prp_index(key, N, x) = w[I]
<1> DEFINE a == GridA(N)
           b == GridB(N)
           M == a * b
           D == 0 .. M - 1
           F == [z \in D |-> generalized_feistel(key, a, b, z)]
           walk[I \in 0 .. M] == IF I = 0 THEN x ELSE generalized_feistel(key, a, b, walk[I - 1])
           hits == {I \in 1 .. M : walk[I] < N}
           hit == CHOOSE I \in hits : \A h \in hits : I <= h
<1>1. a \in Nat \ {0} /\ b \in Nat \ {0} /\ N <= M /\ IsKey(key, a, b)
  BY GridFits
<1>2. prp_index(key, N, x) = IF hits = {} THEN N ELSE walk[hit]
  <2>1. ~ (N <= 1)
    OBVIOUS
  <2>2. QED BY <2>1 DEF prp_index
<1> HIDE DEF a, b
<1>3. M \in Nat
  BY <1>1
<1>4. x \in 0 .. a * b - 1
  <2> HIDE DEF M
  <2>1. x \in 0 .. M - 1
    BY <1>1, <1>3
  <2>2. QED BY <2>1 DEF M
<1>5. OneToOne(F, D) /\ Walks(walk, F, D, x, M)
  BY <1>1, <1>4, MixingWalks
<1> HIDE DEF walk, F
<1>6. IsFiniteSet(D) /\ Cardinality(D) = M
  <2> HIDE DEF M
  <2>1. 0 \in Int /\ M - 1 \in Int
    BY <1>3
  <2>2. IsFiniteSet(D) /\ Cardinality(D) = IF 0 > M - 1 THEN 0 ELSE (M - 1) - 0 + 1
    BY <2>1, FS_Interval
  <2> HIDE DEF D
  <2>3. QED BY <1>3, <2>2
<1>7. x \in D
  BY <1>4
<1> HIDE DEF M
<1>8. PICK I \in 1 .. M : walk[I] = x
  <2> HIDE DEF D
  <2>1. QED BY <1>3, <1>5, <1>6, <1>7, WalkReturns
<1>9. hits # {} /\ hits \subseteq Nat
  BY <1>3, <1>8
<1>10. hit \in hits /\ \A h \in hits : hit <= h
  <2> HIDE DEF hits
  <2>1. \E k \in hits : \A h \in hits : k <= h
    BY <1>9, LeastNumber
  <2>2. QED BY <2>1
<1> HIDE DEF hit
<1>11. FirstHit(walk, M, N, hit)
  <2>1. hit \in 1 .. M /\ walk[hit] < N
    BY <1>10
  <2>2. walk[hit] \in D
    <3>1. hit \in 0 .. M
      BY <1>3, <2>1
    <3> HIDE DEF D
    <3>2. QED BY <1>5, <3>1 DEF Walks
  <2>3. walk[hit] \in 0 .. N - 1
    BY <1>3, <2>1, <2>2
  <2>4. QED BY <1>10, <2>1, <2>3 DEF FirstHit
<1> HIDE DEF D
<1>12. prp_index(key, N, x) = walk[hit]
  BY <1>2, <1>9
<1>13. QED BY <1>3, <1>5, <1>7, <1>11, <1>12 DEF a, b, M, D, F

\* For every number of places and every key, prp_index is a permutation of the
\* places: the walk back below N ends, and no place is hit twice
\* (PSQF_SWO.hpp:126-167).
THEOREM PrpPermutes ==
  ASSUME NEW N \in Nat \ {0}, NEW key, IsKey(key, GridA(N), GridB(N))
  PROVE  {prp_index(key, N, x) : x \in 0 .. N - 1} = 0 .. N - 1
<1>1. CASE N = 1
  <2>1. \A x \in 0 .. N - 1 : prp_index(key, N, x) = 0
    BY <1>1 DEF prp_index
  <2>2. 0 .. N - 1 = {0}
    BY <1>1
  <2>3. QED BY <2>1, <2>2
<1>2. CASE N > 1
  <2> DEFINE M == GridA(N) * GridB(N)
             D == 0 .. M - 1
             F == [z \in D |-> generalized_feistel(key, GridA(N), GridB(N), z)]
             S == 0 .. N - 1
             p == [x \in S |-> prp_index(key, N, x)]
  <2>1. ASSUME NEW x \in S
        PROVE  /\ x \in D /\ OneToOne(F, D) /\ M \in Nat
               /\ \E w, I : Walks(w, F, D, x, M) /\ FirstHit(w, M, N, I) /\ p[x] = w[I]
    <3>1. p[x] = prp_index(key, N, x)
      OBVIOUS
    <3> HIDE DEF p
    <3>2. /\ x \in D /\ OneToOne(F, D) /\ M \in Nat
          /\ \E w, I : Walks(w, F, D, x, M) /\ FirstHit(w, M, N, I) /\ prp_index(key, N, x) = w[I]
      <4>1. x \in 0 .. N - 1 /\ N \in Nat
        OBVIOUS
      <4>2. QED BY <1>2, <4>1, IndexIs
    <3> HIDE DEF M, D, F
    <3>3. QED BY <3>1, <3>2
  <2> HIDE DEF p, F, M
  <2>2. ASSUME NEW x \in S PROVE p[x] \in S
    BY <2>1 DEF FirstHit
  \* The walk that is hit no later than the other one started on it.
  <2>3. ASSUME NEW x \in S, NEW y \in S, NEW w, NEW v, NEW I, NEW t,
               Walks(w, F, D, x, M), FirstHit(w, M, N, I), Walks(v, F, D, y, M),
               FirstHit(v, M, N, t), I <= t, w[I] = v[t]
        PROVE  x = y
    <3>1. I \in 1 .. M /\ t \in 1 .. M /\ M \in Nat
      BY <2>1, <2>3 DEF FirstHit
    <3>2. I \in 0 .. M /\ t \in 0 .. M /\ t - I \in 0 .. M
      BY <2>3, <3>1
    <3>3. x = v[t - I]
      <4>1. \A k, l \in 0 .. M : k <= l /\ w[k] = v[l] => x = v[l - k]
        <5>1. OneToOne(F, D) /\ M \in Nat /\ x \in D /\ y \in D
          BY <2>1, <2>3
        <5> HIDE DEF D
        <5>2. QED BY <2>3, <5>1, WalkedTogether
      <4>2. QED BY <2>3, <3>2, <4>1
    <3>4. CASE I = t
      <4>1. t - I = 0
        BY <3>1, <3>4
      <4>2. QED BY <2>3, <3>3, <4>1 DEF Walks
    <3>5. CASE I # t
      <4>1. t - I \in 1 .. M /\ ~ (t <= t - I)
        BY <2>3, <3>1, <3>5
      <4>2. ~ (v[t - I] < N)
        BY <2>3, <4>1 DEF FirstHit
      <4>3. x < N
        BY <2>3
      <4>4. QED BY <3>3, <4>2, <4>3
    <3>6. QED BY <3>4, <3>5
  <2>4. ASSUME NEW x \in S, NEW y \in S, p[x] = p[y] PROVE x = y
    <3>1. PICK w, I : Walks(w, F, D, x, M) /\ FirstHit(w, M, N, I) /\ p[x] = w[I]
      BY <2>1
    <3>2. PICK v, t : Walks(v, F, D, y, M) /\ FirstHit(v, M, N, t) /\ p[y] = v[t]
      BY <2>1
    <3>3. I \in 1 .. M /\ t \in 1 .. M /\ M \in Nat
      BY <2>1, <3>1, <3>2 DEF FirstHit
    <3>4. I <= t \/ t <= I
      BY <3>3
    <3> HIDE DEF D, S
    <3>5. CASE I <= t
      BY <2>3, <2>4, <3>1, <3>2, <3>5
    <3>6. CASE t <= I
      <4>1. y = x
        BY <2>3, <2>4, <3>1, <3>2, <3>6
      <4>2. QED BY <4>1
    <3>7. QED BY <3>4, <3>5, <3>6
  <2>5. p \in Injection(S, S)
    <3>1. p \in [S -> S]
      <4>1. p = [x \in S |-> p[x]]
        BY DEF p
      <4>2. QED BY <2>2, <4>1
    <3> HIDE DEF S
    <3>2. QED BY <2>4, <3>1 DEF Injection, IsInjective
  <2>6. IsFiniteSet(S)
    <3>1. 0 \in Int /\ N - 1 \in Int
      OBVIOUS
    <3>2. QED BY <3>1, FS_Interval
  <2>7. p \in Surjection(S, S)
    <3> HIDE DEF S
    <3>1. QED BY <2>5, <2>6, FS_Injection
  <2>8. \A y \in S : \E x \in S : p[x] = y
    <3> HIDE DEF S
    <3>1. QED BY <2>7 DEF Surjection
  <2>9. \A x \in S : p[x] = prp_index(key, N, x)
    BY DEF p
  <2> HIDE DEF S
  <2>10. {prp_index(key, N, x) : x \in S} = S
    BY <2>2, <2>8, <2>9
  <2>11. QED BY <2>10 DEF S
<1>3. QED BY <1>1, <1>2

-----------------------------------------------------------------------------
(* Every key that is drawn.                                                 *)

\* A key that is drawn for a sample has a number for every half.
LEMMA DrawnKey ==
  ASSUME NEW N \in Nat \ {0}, NEW k \in Nat \ {0}, NEW keys_ \in SampleKeys(N, k),
         NEW s \in 0 .. k - 1
  PROVE  IsKey(keys_[s], GridA(N), GridB(N))
<1> DEFINE a == GridA(N)
           b == GridB(N)
<1>1. a \in Nat \ {0} /\ b \in Nat \ {0}
  BY GridFits
<1>2. PICK key \in GridKeys(a, b), step \in 0 .. (IF k = 1 THEN 0 ELSE 1) :
        keys_ = [q \in 0 .. k - 1 |->
                  [r \in 0 .. 3 |-> [x \in DOMAIN key[r + 1] |-> key[r + 1][x] + q * step]]]
  <2> DEFINE Steps == 0 .. (IF k = 1 THEN 0 ELSE 1)
             All(key, step) ==
               [q \in 0 .. k - 1 |->
                 [r \in 0 .. 3 |-> [x \in DOMAIN key[r + 1] |-> key[r + 1][x] + q * step]]]
  <2>1. SampleKeys(N, k) = {All(key, step) : key \in GridKeys(a, b), step \in Steps}
    BY DEF SampleKeys
  <2> HIDE DEF All, a, b, Steps
  <2>2. \E key \in GridKeys(a, b), step \in Steps : keys_ = All(key, step)
    BY <2>1
  <2>3. QED BY <2>2 DEF All, Steps
<1> HIDE DEF a, b
<1>3. /\ key[1] \in [0 .. b - 1 -> 0 .. a - 1] /\ key[2] \in [0 .. a - 1 -> 0 .. b - 1]
      /\ key[3] \in [0 .. b - 1 -> 0 .. a - 1] /\ key[4] \in [0 .. a - 1 -> 0 .. b - 1]
  <2> DEFINE Ls == [0 .. b - 1 -> 0 .. a - 1]
             Rs == [0 .. a - 1 -> 0 .. b - 1]
  <2>1. GridKeys(a, b) = IF a * b <= MaxGrid
                         THEN {<<f, g, h, I>> : f, h \in Ls, g, I \in Rs}
                         ELSE {<<f, g, f, g>> : f \in Ls, g \in Rs}
    BY DEF GridKeys
  <2> HIDE DEF Ls, Rs
  <2>2. \E f \in Ls, g \in Rs, h \in Ls, I \in Rs : key = <<f, g, h, I>>
    <3>1. CASE a * b <= MaxGrid
      <4>1. key \in {<<f, g, h, I>> : f, h \in Ls, g, I \in Rs}
        BY <1>2, <2>1, <3>1
      <4>2. QED BY <4>1
    <3>2. CASE ~ (a * b <= MaxGrid)
      <4>1. key \in {<<f, g, f, g>> : f \in Ls, g \in Rs}
        BY <1>2, <2>1, <3>2
      <4>2. QED BY <4>1
    <3>3. QED BY <3>1, <3>2
  <2>3. PICK f \in Ls, g \in Rs, h \in Ls, I \in Rs : key = <<f, g, h, I>>
    BY <2>2
  <2>4. key[1] = f /\ key[2] = g /\ key[3] = h /\ key[4] = I
    BY <2>3
  <2>5. QED BY <2>3, <2>4 DEF Ls, Rs
<1>4. s * step \in Nat
  BY <1>2
<1>5. ASSUME NEW r \in 0 .. 3, NEW h \in 0 .. Modulus(r + 1, a, b) - 1
      PROVE  keys_[s][r][h] \in Nat
  <2> DEFINE half == key[r + 1]
  <2>1. keys_[s][r] = [x \in DOMAIN half |-> half[x] + s * step]
    BY <1>2
  <2>2. h \in DOMAIN half /\ half[h] \in Nat
    <3>1. r = 0 \/ r = 1 \/ r = 2 \/ r = 3
      OBVIOUS
    <3>2. CASE r = 0 \/ r = 2
      <4>1. h \in 0 .. b - 1 /\ (half = key[1] \/ half = key[3])
        BY <3>2 DEF Modulus
      <4> HIDE DEF half
      <4>2. half \in [0 .. b - 1 -> 0 .. a - 1]
        BY <1>3, <4>1
      <4>3. QED BY <1>1, <4>1, <4>2
    <3>3. CASE r = 1 \/ r = 3
      <4>1. h \in 0 .. a - 1 /\ (half = key[2] \/ half = key[4])
        BY <3>3 DEF Modulus
      <4> HIDE DEF half
      <4>2. half \in [0 .. a - 1 -> 0 .. b - 1]
        BY <1>3, <4>1
      <4>3. QED BY <1>1, <4>1, <4>2
    <3>4. QED BY <3>1, <3>2, <3>3
  <2> HIDE DEF half
  <2>3. QED BY <1>4, <2>1, <2>2
<1>6. QED BY <1>5 DEF IsKey, a, b

-----------------------------------------------------------------------------
(* Counting.                                                                *)

LEMMA UpTo ==
  ASSUME NEW N \in Nat
  PROVE  /\ IsFiniteSet(0 .. N - 1) /\ Cardinality(0 .. N - 1) = N
         /\ IsFiniteSet(1 .. N) /\ Cardinality(1 .. N) = N
<1>1. 0 \in Int /\ 1 \in Int /\ N \in Int /\ N - 1 \in Int
  OBVIOUS
<1>2. Cardinality(0 .. N - 1) = IF 0 > N - 1 THEN 0 ELSE (N - 1) - 0 + 1
  BY <1>1, FS_Interval
<1>3. Cardinality(1 .. N) = IF 1 > N THEN 0 ELSE N - 1 + 1
  BY <1>1, FS_Interval
<1>4. IsFiniteSet(0 .. N - 1) /\ IsFiniteSet(1 .. N)
  BY <1>1, FS_Interval
<1> DEFINE c == Cardinality(0 .. N - 1)
           d == Cardinality(1 .. N)
<1> HIDE DEF c, d
<1>5. c = N /\ d = N
  BY <1>2, <1>3 DEF c, d
<1>6. QED BY <1>4, <1>5 DEF c, d

\* A set that leaves out an element of another one has fewer.
LEMMA FewerThan ==
  ASSUME NEW T, IsFiniteSet(T), NEW S, S \subseteq T, NEW x \in T, x \notin S
  PROVE  /\ IsFiniteSet(S) /\ Cardinality(S) \in Nat /\ Cardinality(T) \in Nat
         /\ Cardinality(S) < Cardinality(T)
<1>1. /\ IsFiniteSet(S) /\ Cardinality(S) <= Cardinality(T)
      /\ Cardinality(T) = Cardinality(S) => T = S
  BY FS_Subset
<1>2. Cardinality(S) \in Nat /\ Cardinality(T) \in Nat
  BY <1>1, FS_CardinalityType
<1>3. T # S
  OBVIOUS
<1>4. QED BY <1>1, <1>2, <1>3

\* An image under a function that is one to one on T has as many elements.
LEMMA SameSize ==
  ASSUME NEW T, IsFiniteSet(T), NEW f, \A x, y \in T : f[x] = f[y] => x = y
  PROVE  /\ IsFiniteSet({f[x] : x \in T})
         /\ Cardinality({f[x] : x \in T}) = Cardinality(T)
<1> DEFINE U == {f[x] : x \in T}
           g == [x \in T |-> f[x]]
<1>1. g \in Injection(T, U)
  BY DEF Injection, IsInjective
<1>2. g \in Surjection(T, U)
  BY DEF Surjection
<1>3. ExistsBijection(T, U)
  BY <1>1, <1>2 DEF ExistsBijection, Bijection
<1> HIDE DEF U, g
<1>4. IsFiniteSet(U) /\ Cardinality(U) = Cardinality(T)
  BY <1>3, FS_Bijection
<1>5. QED BY <1>4 DEF U

\* Different numbers for the elements of T.
Ranked(T, g) == \A x, y \in T : g[x] \in Int /\ (g[x] = g[y] => x = y)

\* Those of T that have a lower number.
Lower(T, g, x) == {y \in T : g[y] < g[x]}

\* For every number below the size of a set one element has that many before it.
RanksFill(T, g) ==
  /\ \A x \in T : Cardinality(Lower(T, g, x)) \in 0 .. Cardinality(T) - 1
  /\ \A x, y \in T : g[x] < g[y] => Cardinality(Lower(T, g, x)) < Cardinality(Lower(T, g, y))
  /\ \A x, y \in T : Cardinality(Lower(T, g, x)) = Cardinality(Lower(T, g, y)) => x = y
  /\ \A r \in 0 .. Cardinality(T) - 1 : \E x \in T : Cardinality(Lower(T, g, x)) = r

LEMMA RankIs ==
  ASSUME NEW T, IsFiniteSet(T), NEW g, Ranked(T, g)
  PROVE  RanksFill(T, g)
<1> DEFINE N == Cardinality(T)
           rank(x) == Cardinality(Lower(T, g, x))
<1>1. N \in Nat
  BY FS_CardinalityType
<1>2. ASSUME NEW x \in T PROVE rank(x) \in 0 .. N - 1 /\ IsFiniteSet(Lower(T, g, x))
  <2>1. Lower(T, g, x) \subseteq T /\ x \notin Lower(T, g, x)
    BY DEF Ranked, Lower
  <2>2. QED BY <1>1, <2>1, FewerThan
<1>3. ASSUME NEW x \in T, NEW y \in T, g[x] < g[y] PROVE rank(x) < rank(y)
  <2>1. Lower(T, g, x) \subseteq Lower(T, g, y) /\ x \in Lower(T, g, y) /\ x \notin Lower(T, g, x)
    BY <1>3 DEF Ranked, Lower
  <2>2. QED BY <1>2, <2>1, FewerThan
<1>4. ASSUME NEW x \in T, NEW y \in T, rank(x) = rank(y) PROVE x = y
  <2>1. g[x] \in Int /\ g[y] \in Int /\ (g[x] = g[y] => x = y)
    BY DEF Ranked
  <2>2. rank(x) \in Nat /\ rank(y) \in Nat
    BY <1>2
  <2>3. ~ (g[x] < g[y]) /\ ~ (g[y] < g[x])
    <3> HIDE DEF rank
    <3>1. QED BY <1>3, <1>4, <2>2
  <2>4. QED BY <2>1, <2>3
<1>5. ASSUME NEW r \in 0 .. N - 1 PROVE \E x \in T : rank(x) = r
  <2> DEFINE S == 0 .. N - 1
             f == [x \in T |-> rank(x)]
  <2>1. IsFiniteSet(S) /\ Cardinality(S) = N
    BY <1>1, UpTo
  <2>2. f \in Injection(T, S)
    <3> HIDE DEF rank
    <3>1. QED BY <1>2, <1>4 DEF Injection, IsInjective
  <2> HIDE DEF S
  <2>3. f \in Surjection(T, S)
    <3> HIDE DEF f
    <3>1. QED BY <2>1, <2>2, FS_Injection
  <2>4. r \in S
    BY DEF S
  <2>5. \E x \in T : f[x] = r
    <3> HIDE DEF f
    <3>1. QED BY <2>3, <2>4 DEF Surjection
  <2>6. QED BY <2>5
<1>6. QED BY <1>2, <1>3, <1>4, <1>5 DEF RanksFill

\* Places that are divided among so many owners, none of whom has more than M.
Owned(D, f, s) == {x \in D : f[x] = s}
SharedOut(D, f, M, k) ==
  LET c == Cardinality({x \in D : f[x] < k})
  IN (\A s \in 0 .. k - 1 : Cardinality(Owned(D, f, s)) <= M) =>
       /\ c <= k * M
       /\ (\E s \in 0 .. k - 1 : Cardinality(Owned(D, f, s)) < M) => c < k * M
       /\ (\A s \in 0 .. k - 1 : Cardinality(Owned(D, f, s)) = M) => c = k * M

LEMMA Shares ==
  ASSUME NEW D, IsFiniteSet(D), NEW f, \A x \in D : f[x] \in Nat, NEW M \in Nat
  PROVE  \A k \in Nat : SharedOut(D, f, M, k)
<1> DEFINE At(s) == Cardinality({x \in D : f[x] = s})
           Below(k) == Cardinality({x \in D : f[x] < k})
           Good(k) == (\A s \in 0 .. k - 1 : At(s) <= M) =>
                        /\ Below(k) <= k * M
                        /\ (\E s \in 0 .. k - 1 : At(s) < M) => Below(k) < k * M
                        /\ (\A s \in 0 .. k - 1 : At(s) = M) => Below(k) = k * M
<1>1. ASSUME NEW k \in Nat PROVE At(k) \in Nat /\ Below(k) \in Nat
  <2>1. {x \in D : f[x] = k} \in SUBSET D /\ {x \in D : f[x] < k} \in SUBSET D
    OBVIOUS
  <2>2. IsFiniteSet({x \in D : f[x] = k}) /\ IsFiniteSet({x \in D : f[x] < k})
    BY <2>1, FS_Subset
  <2>3. QED BY <2>2, FS_CardinalityType
<1>2. Good(0)
  <2>1. {x \in D : f[x] < 0} = {}
    OBVIOUS
  <2>2. Below(0) = 0
    BY <2>1, FS_EmptySet
  <2> HIDE DEF At, Below
  <2>3. QED BY <2>2
<1>3. ASSUME NEW k \in Nat PROVE Below(k + 1) = Below(k) + At(k)
  <2> DEFINE A == {x \in D : f[x] < k}
             B == {x \in D : f[x] = k}
             C == {x \in D : f[x] < k + 1}
  <2>1. A \cup B = C /\ A \cap B = {} /\ A \in SUBSET D /\ B \in SUBSET D
    OBVIOUS
  <2> HIDE DEF A, B, C
  <2>2. IsFiniteSet(A) /\ IsFiniteSet(B)
    BY <2>1, FS_Subset
  <2>3. Cardinality(A \cup B) = Cardinality(A) + Cardinality(B)
    <3>1. Cardinality(A \cup B) = Cardinality(A) + Cardinality(B) - Cardinality({})
      BY <2>1, <2>2, FS_Union
    <3>2. Cardinality(A) \in Nat /\ Cardinality(B) \in Nat /\ Cardinality({}) = 0
      BY <2>2, FS_CardinalityType, FS_EmptySet
    <3>3. QED BY <3>1, <3>2
  <2>4. QED BY <2>1, <2>3 DEF A, B, C
<1> HIDE DEF At, Below
<1>4. ASSUME NEW k \in Nat, Good(k) PROVE Good(k + 1)
  <2> SUFFICES ASSUME \A s \in 0 .. k : At(s) <= M
               PROVE  /\ Below(k + 1) <= (k + 1) * M
                      /\ (\E s \in 0 .. k : At(s) < M) => Below(k + 1) < (k + 1) * M
                      /\ (\A s \in 0 .. k : At(s) = M) => Below(k + 1) = (k + 1) * M
    OBVIOUS
  <2> DEFINE km == k * M
  <2>1. (k + 1) * M = km + M /\ km \in Nat
    OBVIOUS
  <2>2. /\ Below(k) <= km
        /\ (\E s \in 0 .. k - 1 : At(s) < M) => Below(k) < km
        /\ (\A s \in 0 .. k - 1 : At(s) = M) => Below(k) = km
    BY <1>4
  <2> HIDE DEF km
  <2>3. Below(k) \in Nat /\ At(k) \in Nat /\ At(k) <= M /\ Below(k + 1) = Below(k) + At(k)
    BY <1>1, <1>3
  <2>4. \A s \in 0 .. k : s = k \/ s \in 0 .. k - 1
    OBVIOUS
  <2>5. QED BY <2>1, <2>2, <2>3, <2>4
<1> HIDE DEF Good
<1>5. \A k \in Nat : Good(k)
  <2> DEFINE T == {k \in Nat : ~ Good(k)}
  <2>1. ASSUME T # {} PROVE FALSE
    <3>1. PICK k \in T : \A l \in T : k <= l
      BY <2>1, LeastNumber
    <3>2. k \in Nat /\ ~ Good(k) /\ k # 0
      BY <1>2
    <3>3. k - 1 \in Nat /\ ~ (k <= k - 1) /\ (k - 1) + 1 = k
      BY <3>2
    <3>4. Good(k - 1)
      BY <3>1, <3>3
    <3>5. QED BY <1>4, <3>2, <3>3, <3>4
  <2>2. QED BY <2>1
<1>6. QED BY <1>5 DEF Good, At, Below, SharedOut, Owned

-----------------------------------------------------------------------------
(* The copies of one place.                                                 *)

Numbers(T) == [x \in T |-> x]

\* A set of numbers is ranked by the numbers themselves.
LEMMA NumbersRanked ==
  ASSUME NEW T, T \subseteq Int
  PROVE  /\ Ranked(T, Numbers(T))
         /\ \A x \in T : Lower(T, Numbers(T), x) = {y \in T : y < x} /\ Numbers(T)[x] = x
BY DEF Ranked, Lower, Numbers

\* One copy of a record for every member of T.
OneEach(c, record, T) ==
  /\ c \in [1 .. Cardinality(T) -> [record : {record}, sid : T]]
  /\ \A x, y \in 1 .. Cardinality(T) : c[x].sid = c[y].sid => x = y
  /\ \A s \in T : \E x \in 1 .. Cardinality(T) : c[x].sid = s

LEMMA CopiesOfIs ==
  ASSUME NEW record, NEW T, IsFiniteSet(T), T \subseteq Int
  PROVE  OneEach(CopiesOf(record, T), record, T)
<1> DEFINE N == Cardinality(T)
           c == CopiesOf(record, T)
           rank(s) == Cardinality({q \in T : q < s})
           member(x) == CHOOSE s \in T : rank(s) = x - 1
<1>1. N \in Nat
  BY FS_CardinalityType
<1>2. /\ \A s \in T : rank(s) \in 0 .. N - 1
      /\ \A s, q \in T : rank(s) = rank(q) => s = q
      /\ \A r \in 0 .. N - 1 : \E s \in T : rank(s) = r
  <2> DEFINE g == Numbers(T)
             low(s) == Cardinality(Lower(T, g, s))
  <2>1. \A s \in T : low(s) = rank(s)
    BY NumbersRanked
  <2>2. /\ \A s \in T : low(s) \in 0 .. N - 1
        /\ \A s, q \in T : low(s) = low(q) => s = q
        /\ \A r \in 0 .. N - 1 : \E s \in T : low(s) = r
    <3>1. Ranked(T, g)
      BY NumbersRanked
    <3> HIDE DEF g
    <3>2. RanksFill(T, g)
      BY <3>1, RankIs
    <3>3. QED BY <3>2 DEF RanksFill
  <2> HIDE DEF low, rank
  <2>3. QED BY <2>1, <2>2
<1>3. c = [x \in 1 .. N |-> [record |-> record, sid |-> member(x)]]
  BY DEF CopiesOf
<1> HIDE DEF rank, c
<1>4. ASSUME NEW x \in 1 .. N PROVE member(x) \in T /\ rank(member(x)) = x - 1
  <2>1. x - 1 \in 0 .. N - 1
    BY <1>1
  <2>2. QED BY <1>2, <2>1
<1> HIDE DEF member
<1>5. \A x \in 1 .. N : c[x] = [record |-> record, sid |-> member(x)] /\ c[x].sid = member(x)
  BY <1>3
<1>6. ASSUME NEW s \in T PROVE \E x \in 1 .. N : member(x) = s
  <2>1. rank(s) + 1 \in 1 .. N /\ (rank(s) + 1) - 1 = rank(s)
    BY <1>1, <1>2
  <2>2. rank(member(rank(s) + 1)) = rank(s) /\ member(rank(s) + 1) \in T
    BY <1>4, <2>1
  <2>3. QED BY <1>2, <2>1, <2>2
<1>7. ASSUME NEW x \in 1 .. N, NEW y \in 1 .. N, member(x) = member(y) PROVE x = y
  <2>1. x - 1 = y - 1
    BY <1>4, <1>7
  <2>2. QED BY <1>1, <2>1
<1>8. c \in [1 .. N -> [record : {record}, sid : T]]
  BY <1>3, <1>4
<1>9. OneEach(c, record, T)
  BY <1>4, <1>5, <1>6, <1>7, <1>8 DEF OneEach
<1>10. QED BY <1>9 DEF c

-----------------------------------------------------------------------------
(* Orders.                                                                  *)

\* Every number below N once.
Permutes(p, N) ==
  /\ p \in [0 .. N - 1 -> 0 .. N - 1]
  /\ \A x, y \in 0 .. N - 1 : p[x] = p[y] => x = y

LEMMA PermutesOnto ==
  ASSUME NEW N \in Nat, NEW p, Permutes(p, N)
  PROVE  \A y \in 0 .. N - 1 : \E x \in 0 .. N - 1 : p[x] = y
<1> DEFINE S == 0 .. N - 1
<1>1. IsFiniteSet(S)
  BY UpTo
<1>2. p \in [S -> S] /\ \A x, y \in S : p[x] = p[y] => x = y
  BY DEF Permutes
<1> HIDE DEF S
<1>3. p \in Injection(S, S)
  BY <1>2 DEF Injection, IsInjective
<1>4. p \in Surjection(S, S)
  BY <1>1, <1>3, FS_Injection
<1>5. \A y \in S : \E x \in S : p[x] = y
  BY <1>4 DEF Surjection
<1>6. QED BY <1>5 DEF S

\* The other way round.
LEMMA OntoPermutes ==
  ASSUME NEW N \in Nat, NEW p, p \in [0 .. N - 1 -> 0 .. N - 1],
         \A y \in 0 .. N - 1 : \E x \in 0 .. N - 1 : p[x] = y
  PROVE  Permutes(p, N)
<1> DEFINE S == 0 .. N - 1
<1>1. IsFiniteSet(S)
  BY UpTo
<1>2. p \in [S -> S] /\ \A y \in S : \E x \in S : p[x] = y
  OBVIOUS
<1> HIDE DEF S
<1>3. p \in Surjection(S, S)
  BY <1>2 DEF Surjection
<1>4. p \in Injection(S, S)
  BY <1>1, <1>3, FS_SurjSameCardinalityImpliesInj
<1>5. \A x, y \in S : p[x] = p[y] => x = y
  BY <1>2, <1>4 DEF Injection, IsInjective
<1>6. QED BY <1>2, <1>5 DEF S, Permutes

LEMMA PermutesTwice ==
  ASSUME NEW N \in Nat, NEW f, Permutes(f, N), NEW p, Permutes(p, N)
  PROVE  Permutes([I \in 0 .. N - 1 |-> f[p[I]]], N)
BY DEF Permutes

LEMMA OrdersPermute ==
  ASSUME NEW N \in Nat \ {0}, NEW p \in Orders(N)
  PROVE  Permutes(p, N)
<1>1. CASE N <= 4
  <2>1. p \in [0 .. N - 1 -> 0 .. N - 1] /\ IsInjective(p)
    BY <1>1 DEF Orders
  <2>2. QED BY <2>1 DEF IsInjective, Permutes
<1>2. CASE ~ (N <= 4)
  <2> DEFINE turned(by, back) ==
               [I \in 0 .. N - 1 |-> (IF back THEN N - 1 - I + by ELSE I + by) % N]
  <2>1. Orders(N) = {turned(by, back) : by \in 0 .. N - 1, back \in BOOLEAN}
    BY <1>2 DEF Orders
  <2> HIDE DEF turned
  <2>2. PICK by \in 0 .. N - 1, back \in BOOLEAN : p = turned(by, back)
    BY <2>1
  <2> DEFINE from(I) == IF back THEN N - 1 - I ELSE I
  <2>3. ASSUME NEW I \in 0 .. N - 1
        PROVE  from(I) \in 0 .. N - 1 /\ p[I] = (from(I) + by) % N /\ p[I] \in 0 .. N - 1
    <3>1. from(I) \in 0 .. N - 1
      OBVIOUS
    <3>2. p[I] = (from(I) + by) % N
      BY <2>2 DEF turned
    <3> HIDE DEF from
    <3>3. from(I) + by \in Nat
      BY <3>1
    <3>4. (from(I) + by) % N \in 0 .. N - 1
      BY <3>3, Divided
    <3>5. QED BY <3>1, <3>2, <3>4
  <2>4. p \in [0 .. N - 1 -> 0 .. N - 1]
    <3>1. p = [I \in 0 .. N - 1 |-> p[I]]
      BY <2>2 DEF turned
    <3> HIDE DEF from
    <3>2. QED BY <2>3, <3>1
  <2>5. ASSUME NEW x \in 0 .. N - 1, NEW y \in 0 .. N - 1, p[x] = p[y] PROVE x = y
    <3>1. from(x) = from(y)
      <4>1. from(x) \in 0 .. N - 1 /\ from(y) \in 0 .. N - 1 /\ by \in Nat
            /\ (from(x) + by) % N = (from(y) + by) % N
        <5> HIDE DEF from
        <5>1. QED BY <2>3, <2>5
      <4> HIDE DEF from
      <4>2. QED BY <4>1, ShiftApart
    <3>2. QED BY <3>1
  <2>6. QED BY <2>4, <2>5 DEF Permutes
<1>3. QED BY <1>1, <1>2

\* Compaction takes the rows, those selected in front.
FirstOf(b, M) == {b[x] : x \in 0 .. M - 1}
Takes(p, f, N, T) ==
  /\ Permutes(p, N)
  /\ Compact(f, 0, N, 1, [r \in 0 .. N - 1 |-> r \in T]) = [I \in 0 .. N - 1 |-> f[p[I]]]
  /\ FirstOf(p, Cardinality(T)) = T

LEMMA CompactIs ==
  ASSUME NEW N \in Nat \ {0}, NEW T, T \subseteq 0 .. N - 1,
         NEW f, DOMAIN f = 0 .. N - 1
  PROVE  \E source : Takes(source, f, N, T)
<1> DEFINE S == 0 .. N - 1
           flags == [r \in S |-> r \in T]
           before(r, s) == IF flags[r] = flags[s] THEN r > s ELSE flags[r]
           place == [r \in S |-> Cardinality({s \in S : before(s, r)})]
           source == [q \in S |-> CHOOSE r \in S : place[r] = q]
           g == [r \in S |-> IF r \in T THEN N - r ELSE 2 * N - r]
           M == Cardinality(T)
<1>1. IsFiniteSet(S) /\ Cardinality(S) = N
  BY UpTo
<1>2. ASSUME NEW r \in S, NEW s \in S PROVE before(s, r) <=> g[s] < g[r]
  <2>1. /\ flags[s] = (s \in T) /\ flags[r] = (r \in T)
        /\ g[s] = (IF s \in T THEN N - s ELSE 2 * N - s)
        /\ g[r] = (IF r \in T THEN N - r ELSE 2 * N - r)
    OBVIOUS
  <2> HIDE DEF flags, g
  <2>2. CASE s \in T /\ r \in T
    BY <2>1, <2>2
  <2>3. CASE s \in T /\ r \notin T
    <3>1. flags[s] /\ ~ flags[r]
      BY <2>1, <2>3
    <3>2. before(s, r)
      BY <3>1, Zenon
    <3>3. g[s] < g[r]
      BY <2>1, <2>3
    <3>4. QED BY <3>2, <3>3
  <2>4. CASE s \notin T /\ r \in T
    <3>1. ~ flags[s] /\ flags[r]
      BY <2>1, <2>4
    <3>2. ~ before(s, r)
      BY <3>1, Zenon
    <3>3. ~ (g[s] < g[r])
      BY <2>1, <2>4
    <3>4. QED BY <3>2, <3>3
  <2>5. CASE s \notin T /\ r \notin T
    BY <2>1, <2>5
  <2>6. QED BY <2>2, <2>3, <2>4, <2>5
<1>3. Ranked(S, g)
  BY DEF Ranked
<1>4. \A r \in S : place[r] = Cardinality(Lower(S, g, r))
  <2>1. ASSUME NEW r \in S PROVE {s \in S : before(s, r)} = Lower(S, g, r)
    <3> HIDE DEF before, g, S
    <3>1. QED BY <1>2 DEF Lower
  <2> HIDE DEF before
  <2>2. QED BY <2>1
<1>5. RanksFill(S, g)
  <2> HIDE DEF S, g
  <2>1. QED BY <1>1, <1>3, RankIs
<1> HIDE DEF place
<1>6. /\ \A r \in S : place[r] \in S
      /\ \A r, s \in S : place[r] = place[s] => r = s
      /\ \A q \in S : \E r \in S : place[r] = q
  <2>1. \A q \in S : q \in 0 .. Cardinality(S) - 1
    BY <1>1
  <2>2. \A q \in 0 .. Cardinality(S) - 1 : q \in S
    BY <1>1
  <2> HIDE DEF S, g
  <2>3. QED BY <1>4, <1>5, <2>1, <2>2 DEF RanksFill
<1> HIDE DEF source
<1>7. \A q \in S : source[q] \in S /\ place[source[q]] = q
  <2> HIDE DEF S
  <2>1. QED BY <1>6 DEF source
<1>8. Permutes(source, N)
  <2>1. source = [q \in S |-> source[q]]
    BY DEF source
  <2>2. QED BY <1>7, <2>1 DEF Permutes
<1>9. ASSUME NEW r \in S PROVE r \in T <=> place[r] < M
  <2>1. IsFiniteSet(T) /\ M \in Nat
    <3>1. T \in SUBSET S
      OBVIOUS
    <3> HIDE DEF S
    <3>2. QED BY <1>1, <3>1, FS_Subset, FS_CardinalityType
  <2>2. CASE r \in T
    <3>1. Lower(S, g, r) \subseteq T /\ r \notin Lower(S, g, r)
      BY <2>2 DEF Lower
    <3> HIDE DEF g, S
    <3>2. Cardinality(Lower(S, g, r)) < M
      BY <2>1, <2>2, <3>1, FewerThan
    <3>3. QED BY <1>4, <2>2, <3>2
  <2>3. CASE r \notin T
    <3>1. T \subseteq Lower(S, g, r) /\ Lower(S, g, r) \subseteq S
      BY <2>3 DEF Lower
    <3> HIDE DEF g, S, M
    <3>2. IsFiniteSet(Lower(S, g, r))
      BY <1>1, <3>1, FS_Subset
    <3>3. M <= Cardinality(Lower(S, g, r)) /\ Cardinality(Lower(S, g, r)) \in Nat
      BY <3>1, <3>2, FS_Subset, FS_CardinalityType DEF M
    <3>4. QED BY <1>4, <2>1, <2>3, <3>3
  <2>4. QED BY <2>2, <2>3
<1>10. {source[I] : I \in 0 .. M - 1} = T
  <2>1. M \in Nat /\ M <= N
    <3>1. T \in SUBSET S
      OBVIOUS
    <3> HIDE DEF S
    <3>2. QED BY <1>1, <3>1, FS_Subset, FS_CardinalityType
  <2> HIDE DEF M
  <2>2. ASSUME NEW I \in 0 .. M - 1 PROVE source[I] \in T
    <3>1. I \in S /\ I < M
      BY <2>1
    <3> HIDE DEF S
    <3>2. QED BY <1>7, <1>9, <3>1
  <2>3. ASSUME NEW r \in T PROVE \E I \in 0 .. M - 1 : source[I] = r
    <3>1. r \in S
      OBVIOUS
    <3>2. place[r] < M /\ place[r] \in S
      <4> HIDE DEF S
      <4>1. QED BY <1>6, <1>9, <3>1
    <3>3. place[r] \in 0 .. M - 1
      BY <2>1, <3>2
    <3>4. source[place[r]] = r
      <4> HIDE DEF S
      <4>1. QED BY <1>6, <1>7, <3>1, <3>2
    <3>5. QED BY <3>3, <3>4
  <2>4. QED BY <2>2, <2>3
<1>11. Compact(f, 0, N, 1, flags) = [I \in S |-> f[source[I]]]
  <2>1. Compact(f, 0, N, 1, flags) =
          [I \in S |-> IF I < 0 \/ I >= 0 + N * 1 THEN f[I]
                       ELSE f[0 + source[(I - 0) \div 1] * 1 + ((I - 0) % 1)]]
    BY DEF Compact, source, place
  <2>2. ASSUME NEW I \in S
        PROVE  f[source[I]] = IF I < 0 \/ I >= 0 + N * 1 THEN f[I]
                              ELSE f[0 + source[(I - 0) \div 1] * 1 + ((I - 0) % 1)]
    <3>1. ~ (I < 0 \/ I >= 0 + N * 1) /\ (I - 0) \div 1 = I /\ (I - 0) % 1 = 0
      OBVIOUS
    <3>2. 0 + source[I] * 1 + 0 = source[I]
      BY <1>7
    <3>3. QED BY <3>1, <3>2
  <2>3. QED BY <2>1, <2>2
<1>12. Takes(source, f, N, T)
  BY <1>8, <1>10, <1>11 DEF Takes, FirstOf
<1>13. QED BY <1>12

-----------------------------------------------------------------------------
(* Copies.                                                                  *)

CopyOf(N, k) == [record : 0 .. N - 1, sid : 0 .. k - 1]

\* The copies in c of a sample, and that no two of c are the same.
Of(c, s) == {x \in DOMAIN c : c[x].sid = s}
Distinct(c) == \A x, y \in DOMAIN c : c[x] = c[y] => x = y

LEMMA OfFinite ==
  ASSUME NEW S, NEW c \in Seq(S), NEW s
  PROVE  /\ IsFiniteSet(DOMAIN c) /\ IsFiniteSet(Of(c, s)) /\ Of(c, s) \subseteq 1 .. Len(c)
         /\ Cardinality(Of(c, s)) \in Nat /\ DOMAIN c = 1 .. Len(c) /\ Len(c) \in Nat
<1>1. DOMAIN c = 1 .. Len(c) /\ Len(c) \in Nat
  OBVIOUS
<1>2. IsFiniteSet(DOMAIN c)
  BY <1>1, UpTo
<1>3. Of(c, s) \in SUBSET DOMAIN c
  BY DEF Of
<1>4. IsFiniteSet(Of(c, s))
  BY <1>2, <1>3, FS_Subset
<1>5. QED BY <1>1, <1>2, <1>3, <1>4, FS_CardinalityType

LEMMA Appended ==
  ASSUME NEW S, NEW c \in Seq(S), NEW d \in Seq(S)
  PROVE  c \o d \in Seq(S) /\ Len(c \o d) = Len(c) + Len(d)
OBVIOUS

\* w is c with the copies of one record more.
Lacks(c, record) == \A x \in DOMAIN c : c[x].record # record
Extends(w, c, record, T, N, k) ==
  /\ w \in Seq(CopyOf(N, k)) /\ Distinct(w) /\ Cardinality(T) \in Nat
  /\ Len(w) = Len(c) + Cardinality(T) /\ (Cardinality(T) = 0 <=> T = {})
  /\ \A x \in DOMAIN w : (x \in DOMAIN c /\ w[x] = c[x]) \/ w[x].record = record
  /\ \A s \in 0 .. k - 1 :
       Cardinality(Of(w, s)) = Cardinality(Of(c, s)) + (IF s \in T THEN 1 ELSE 0)

LEMMA AppendCopies ==
  ASSUME NEW N \in Nat \ {0}, NEW k \in Nat \ {0}, NEW c \in Seq(CopyOf(N, k)), Distinct(c),
         NEW record \in 0 .. N - 1, Lacks(c, record),
         NEW T, T \subseteq 0 .. k - 1, NEW w, w = c \o CopiesOf(record, T)
  PROVE  Extends(w, c, record, T, N, k)
<1> DEFINE d == CopiesOf(record, T)
           t == Cardinality(T)
           l == Len(c)
<1>1. IsFiniteSet(T)
  <2>1. T \in SUBSET (0 .. k - 1) /\ IsFiniteSet(0 .. k - 1)
    BY UpTo
  <2>2. QED BY <2>1, FS_Subset
<1>2. t \in Nat /\ OneEach(d, record, T)
  <2>1. T \subseteq Int
    OBVIOUS
  <2>2. QED BY <1>1, <2>1, CopiesOfIs, FS_CardinalityType
<1>3. t = 0 <=> T = {}
  BY <1>1, FS_EmptySet
<1> HIDE DEF d
<1>4. /\ d \in Seq(CopyOf(N, k)) /\ Len(d) = t
      /\ \A x \in 1 .. t : d[x].record = record /\ d[x].sid \in T
  <2>1. d \in [1 .. t -> [record : {record}, sid : T]]
    BY <1>2 DEF OneEach
  <2>2. [record : {record}, sid : T] \subseteq CopyOf(N, k)
    BY DEF CopyOf
  <2> HIDE DEF t
  <2>3. d \in [1 .. t -> CopyOf(N, k)]
    BY <2>1, <2>2
  <2>4. QED BY <1>2, <2>1, <2>3
<1>5. /\ \A x, y \in 1 .. t : d[x].sid = d[y].sid => x = y
      /\ \A s \in T : \E x \in 1 .. t : d[x].sid = s
  BY <1>2 DEF OneEach
<1> HIDE DEF t
<1>6. w \in Seq(CopyOf(N, k)) /\ Len(w) = l + t /\ l \in Nat
  <2>1. w = c \o d
    BY DEF d
  <2>2. c \o d \in Seq(CopyOf(N, k)) /\ Len(c \o d) = Len(c) + Len(d)
    BY <1>4, Appended
  <2>3. QED BY <1>4, <2>1, <2>2
<1>7. DOMAIN w = 1 .. l + t /\ DOMAIN c = 1 .. l
  BY <1>6
<1>8. /\ \A x \in 1 .. l : w[x] = c[x]
      /\ \A x \in l + 1 .. l + t : w[x] = d[x - l] /\ x - l \in 1 .. t
  <2>1. w = c \o d
    BY DEF d
  <2>2. QED BY <1>2, <1>4, <1>6, <2>1
<1>9. \A x \in l + 1 .. l + t : w[x].record = record /\ w[x].sid = d[x - l].sid
  BY <1>4, <1>8
<1>10. \A x \in 1 .. l : c[x] \in CopyOf(N, k)
  OBVIOUS
<1> HIDE DEF l
<1>11. \A x \in 1 .. l + t : x \in 1 .. l \/ x \in l + 1 .. l + t
  BY <1>2, <1>6
<1>12. Distinct(w)
  <2> SUFFICES ASSUME NEW x \in 1 .. l + t, NEW y \in 1 .. l + t, w[x] = w[y] PROVE x = y
    BY <1>7 DEF Distinct
  <2>1. CASE x \in 1 .. l /\ y \in 1 .. l
    BY <1>7, <1>8, <2>1 DEF Distinct
  <2>2. CASE x \in l + 1 .. l + t /\ y \in l + 1 .. l + t
    <3>1. d[x - l].sid = d[y - l].sid /\ x - l \in 1 .. t /\ y - l \in 1 .. t
      <4>1. w[x].sid = w[y].sid
        OBVIOUS
      <4>2. QED BY <1>8, <1>9, <2>2, <4>1
    <3>2. x - l = y - l
      BY <1>5, <3>1
    <3>3. QED BY <1>2, <1>6, <3>2
  <2>3. ASSUME NEW u \in 1 .. l, NEW v \in l + 1 .. l + t PROVE w[u] # w[v]
    <3>1. w[u] = c[u] /\ c[u].record # record /\ w[v].record = record
      BY <1>7, <1>8, <1>9 DEF Lacks
    <3>2. QED BY <3>1
  <2>4. QED BY <1>11, <2>1, <2>2, <2>3
<1>13. ASSUME NEW s \in 0 .. k - 1
       PROVE  Cardinality(Of(w, s)) = Cardinality(Of(c, s)) + (IF s \in T THEN 1 ELSE 0)
  <2>1. /\ IsFiniteSet(Of(c, s)) /\ Cardinality(Of(c, s)) \in Nat
    BY OfFinite
  <2>2. CASE s \in T
    <3>1. PICK x \in 1 .. t : d[x].sid = s
      BY <1>5, <2>2
    <3>2. l + x \in l + 1 .. l + t /\ (l + x) - l = x /\ l + x \notin 1 .. l
      BY <1>2, <1>6
    <3>3. Of(w, s) = Of(c, s) \cup {l + x}
      <4>1. ASSUME NEW y \in l + 1 .. l + t PROVE w[y].sid = s <=> y = l + x
        <5>1. w[y].sid = d[y - l].sid /\ y - l \in 1 .. t
          BY <1>8, <1>9
        <5>2. w[y].sid = s => y - l = x
          BY <1>5, <3>1, <5>1
        <5>3. y - l = x <=> y = l + x
          BY <1>2, <1>6
        <5>4. QED BY <3>1, <5>1, <5>2, <5>3
      <4>2. ASSUME NEW y \in 1 .. l PROVE w[y].sid = s <=> c[y].sid = s
        BY <1>8
      <4>3. \A y \in 1 .. l : y \in 1 .. l + t
        BY <1>2, <1>6
      <4>4. \A y \in l + 1 .. l + t : y \in 1 .. l + t
        BY <1>2, <1>6
      <4>5. QED BY <1>7, <1>11, <3>2, <4>1, <4>2, <4>3, <4>4 DEF Of
    <3>4. l + x \notin Of(c, s)
      BY <1>7, <3>2 DEF Of
    <3>5. QED BY <2>1, <2>2, <3>3, <3>4, FS_AddElement
  <2>3. CASE s \notin T
    <3>1. ASSUME NEW y \in l + 1 .. l + t PROVE w[y].sid # s
      <4>1. w[y].sid = d[y - l].sid /\ y - l \in 1 .. t
        BY <1>8, <1>9
      <4>2. w[y].sid \in T
        BY <1>4, <4>1
      <4>3. QED BY <2>3, <4>2
    <3>2. \A y \in 1 .. l : y \in 1 .. l + t
      BY <1>2, <1>6
    <3>3. Of(w, s) = Of(c, s)
      BY <1>7, <1>8, <1>11, <3>1, <3>2 DEF Of
    <3>4. QED BY <2>1, <2>3, <3>3
  <2>4. QED BY <2>2, <2>3
<1>14. \A x \in DOMAIN w : (x \in DOMAIN c /\ w[x] = c[x]) \/ w[x].record = record
  BY <1>7, <1>8, <1>9, <1>11
<1>15. QED BY <1>2, <1>3, <1>6, <1>12, <1>13, <1>14 DEF t, l, Extends

\* The places, of the first I, that a key gives its sample.
Has(key, N, M, I) == {x \in 0 .. I - 1 : prp_index(key, N, x) < M}

\* A sample has M of all places, and one more at most for every place scanned.
PlacesCounted(key, N, M) ==
  /\ \A I \in 0 .. N : Cardinality(Has(key, N, M, I)) \in 0 .. M
  /\ \A I \in 0 .. N - 1 :
       Cardinality(Has(key, N, M, I + 1)) =
         Cardinality(Has(key, N, M, I)) + (IF prp_index(key, N, I) < M THEN 1 ELSE 0)
  /\ Cardinality(Has(key, N, M, N)) = M

LEMMA PlacesOf ==
  ASSUME NEW N \in Nat \ {0}, NEW M \in 1 .. N, NEW key, IsKey(key, GridA(N), GridB(N))
  PROVE  PlacesCounted(key, N, M)
<1> DEFINE S == 0 .. N - 1
           p == [x \in S |-> prp_index(key, N, x)]
           H(I) == Has(key, N, M, I)
<1>1. Permutes(p, N)
  <2>1. {prp_index(key, N, x) : x \in S} = S
    BY PrpPermutes
  <2>2. p \in [S -> S]
    <3> HIDE DEF S
    <3>1. QED BY <2>1
  <2>3. \A y \in S : \E x \in S : p[x] = y
    <3> HIDE DEF S
    <3>1. QED BY <2>1
  <2>4. QED BY <2>2, <2>3, OntoPermutes
<1>2. \A x \in S : p[x] = prp_index(key, N, x)
  OBVIOUS
<1> HIDE DEF p
<1>3. \A I \in 0 .. N : H(I) = {x \in S : x < I /\ p[x] < M}
  BY <1>2 DEF Has
<1>4. \A x \in S : p[x] \in S
  BY <1>1 DEF Permutes
<1>5. IsFiniteSet(S)
  BY UpTo
<1>6. ASSUME NEW I \in 0 .. N PROVE IsFiniteSet(H(I)) /\ Cardinality(H(I)) \in Nat
  <2>1. H(I) \in SUBSET S
    BY <1>3
  <2> HIDE DEF S, H
  <2>2. QED BY <1>5, <2>1, FS_Subset, FS_CardinalityType
<1>8. Cardinality(H(N)) = M
  <2>1. \A x, y \in H(N) : p[x] = p[y] => x = y
    BY <1>1, <1>3 DEF Permutes
  <2>2. {p[x] : x \in H(N)} = 0 .. M - 1
    <3>1. ASSUME NEW x \in H(N) PROVE p[x] \in 0 .. M - 1
      BY <1>3, <1>4
    <3>2. ASSUME NEW y \in 0 .. M - 1 PROVE \E x \in H(N) : p[x] = y
      <4>1. y \in S
        OBVIOUS
      <4>2. PICK x \in S : p[x] = y
        BY <1>1, <4>1, PermutesOnto
      <4>3. x \in H(N)
        BY <1>3, <4>2
      <4>4. QED BY <4>2, <4>3
    <3> HIDE DEF H
    <3>3. QED BY <3>1, <3>2
  <2>3. IsFiniteSet(H(N))
    BY <1>6
  <2> HIDE DEF H
  <2>4. Cardinality({p[x] : x \in H(N)}) = Cardinality(H(N))
    BY <2>1, <2>3, SameSize
  <2>5. Cardinality(0 .. M - 1) = M
    BY UpTo
  <2>6. QED BY <2>2, <2>4, <2>5
<1>9. ASSUME NEW I \in 0 .. N PROVE Cardinality(H(I)) \in 0 .. M
  <2>1. H(I) \in SUBSET H(N)
    BY <1>3
  <2>2. IsFiniteSet(H(N)) /\ Cardinality(H(I)) \in Nat
    BY <1>6
  <2> HIDE DEF H
  <2>3. Cardinality(H(I)) <= Cardinality(H(N))
    BY <2>1, <2>2, FS_Subset
  <2>4. QED BY <1>8, <2>2, <2>3
<1>10. ASSUME NEW I \in S
       PROVE  Cardinality(H(I + 1)) =
                Cardinality(H(I)) + (IF prp_index(key, N, I) < M THEN 1 ELSE 0)
  <2>1. IsFiniteSet(H(I)) /\ I \notin H(I) /\ I \in 0 .. N /\ I + 1 \in 0 .. N
    BY <1>3, <1>6
  <2>2. /\ H(I) = {x \in S : x < I /\ p[x] < M}
        /\ H(I + 1) = {x \in S : x < I + 1 /\ p[x] < M}
    BY <1>3, <2>1
  <2>3. Cardinality(H(I)) \in Nat
    BY <1>6, <2>1
  <2> HIDE DEF H
  <2>4. CASE p[I] < M
    <3>1. H(I + 1) = H(I) \cup {I}
      BY <2>2, <2>4
    <3>2. Cardinality(H(I) \cup {I}) = Cardinality(H(I)) + 1
      BY <2>1, FS_AddElement
    <3>3. QED BY <1>2, <2>4, <3>1, <3>2
  <2>5. CASE ~ (p[I] < M)
    <3>1. H(I + 1) = H(I)
      BY <2>2, <2>5
    <3>2. QED BY <1>2, <2>3, <2>5, <3>1
  <2>6. QED BY <2>4, <2>5
<1>11. QED BY <1>8, <1>9, <1>10 DEF PlacesCounted

\* When no sample has more than M copies, there are N in all only if each has M.
LEMMA Counted ==
  ASSUME NEW N \in Nat \ {0}, NEW k \in Nat \ {0}, NEW M \in Nat, k * M = N,
         NEW c \in Seq(CopyOf(N, k)), \A s \in 0 .. k - 1 : Cardinality(Of(c, s)) <= M
  PROVE  /\ Len(c) <= N
         /\ Len(c) >= N => \A s \in 0 .. k - 1 : Cardinality(Of(c, s)) = M
         /\ (\A s \in 0 .. k - 1 : Cardinality(Of(c, s)) = M) => Len(c) = N
<1> DEFINE D == DOMAIN c
           f == [x \in D |-> c[x].sid]
<1>1. IsFiniteSet(D) /\ Len(c) \in Nat /\ Cardinality(D) = Len(c)
  BY UpTo
<1>2. ASSUME NEW x \in D PROVE f[x] \in 0 .. k - 1 /\ f[x] = c[x].sid
  <2>1. c[x] \in CopyOf(N, k)
    OBVIOUS
  <2>2. QED BY <2>1 DEF CopyOf
<1> HIDE DEF D, f
<1>3. ASSUME NEW s \in 0 .. k - 1
      PROVE  {x \in D : f[x] = s} = Of(c, s) /\ Cardinality(Of(c, s)) \in Nat
  <2>1. {x \in D : f[x] = s} = Of(c, s)
    BY <1>2 DEF Of, D
  <2>2. QED BY <2>1, OfFinite
<1>4. {x \in D : f[x] < k} = D
  BY <1>2
<1>5. \A x \in D : f[x] \in Nat
  BY <1>2
<1>6. SharedOut(D, f, M, k)
  BY <1>1, <1>5, Shares
<1>7. \A s \in 0 .. k - 1 : Cardinality(Owned(D, f, s)) <= M
  BY <1>3 DEF Owned
<1>8. /\ Len(c) <= N
      /\ (\E s \in 0 .. k - 1 : Cardinality(Of(c, s)) < M) => Len(c) < N
      /\ (\A s \in 0 .. k - 1 : Cardinality(Of(c, s)) = M) => Len(c) = N
  <2>1. \A s \in 0 .. k - 1 : Owned(D, f, s) = Of(c, s)
    BY <1>3 DEF Owned
  <2>2. QED BY <1>1, <1>4, <1>6, <1>7, <2>1 DEF SharedOut
<1>9. QED BY <1>1, <1>3, <1>8

\* M different copies for each of k samples, N in all.
FullCopies(c, N, M, k) ==
  /\ c \in Seq(CopyOf(N, k)) /\ Len(c) = N /\ Distinct(c)
  /\ \A s \in 0 .. k - 1 : Cardinality(Of(c, s)) = M

LEMMA CopiesPermuted ==
  ASSUME NEW N \in Nat \ {0}, NEW M \in Nat, NEW k \in Nat, NEW c, FullCopies(c, N, M, k),
         NEW p, Permutes(p, N)
  PROVE  FullCopies([x \in DOMAIN c |-> c[p[x - 1] + 1]], N, M, k)
<1> DEFINE f == [x \in 1 .. N |-> p[x - 1] + 1]
           d == [x \in 1 .. N |-> c[f[x]]]
<1>1. c \in Seq(CopyOf(N, k)) /\ Len(c) = N /\ DOMAIN c = 1 .. N /\ Distinct(c)
  BY DEF FullCopies
<1>2. \A x \in 1 .. N : f[x] \in 1 .. N
  <2> SUFFICES ASSUME NEW x \in 1 .. N PROVE p[x - 1] + 1 \in 1 .. N
    OBVIOUS
  <2>1. x - 1 \in 0 .. N - 1
    OBVIOUS
  <2>2. p[x - 1] \in 0 .. N - 1
    BY <2>1 DEF Permutes
  <2>3. QED BY <2>2
<1>3. \A x, y \in 1 .. N : f[x] = f[y] => x = y
  <2> SUFFICES ASSUME NEW x \in 1 .. N, NEW y \in 1 .. N, f[x] = f[y] PROVE x = y
    OBVIOUS
  <2>1. x - 1 \in 0 .. N - 1 /\ y - 1 \in 0 .. N - 1
    OBVIOUS
  <2>2. p[x - 1] \in 0 .. N - 1 /\ p[y - 1] \in 0 .. N - 1
    BY <2>1 DEF Permutes
  <2>3. p[x - 1] = p[y - 1]
    BY <2>2
  <2>4. x - 1 = y - 1
    BY <2>1, <2>3 DEF Permutes
  <2>5. QED BY <2>4
<1>4. \A y \in 1 .. N : \E x \in 1 .. N : f[x] = y
  <2> SUFFICES ASSUME NEW y \in 1 .. N PROVE \E x \in 1 .. N : f[x] = y
    OBVIOUS
  <2>1. y - 1 \in 0 .. N - 1
    OBVIOUS
  <2>2. PICK q \in 0 .. N - 1 : p[q] = y - 1
    BY <2>1, PermutesOnto
  <2>3. q + 1 \in 1 .. N /\ (q + 1) - 1 = q
    OBVIOUS
  <2>4. f[q + 1] = y
    BY <2>2, <2>3
  <2>5. QED BY <2>3, <2>4
<1>5. [x \in DOMAIN c |-> c[p[x - 1] + 1]] = d
  BY <1>1
<1> HIDE DEF f
<1>6. \A x \in 1 .. N : d[x] = c[f[x]] /\ c[f[x]] \in CopyOf(N, k)
  BY <1>1, <1>2
<1>7. d \in Seq(CopyOf(N, k)) /\ Len(d) = N /\ DOMAIN d = 1 .. N
  <2>1. d \in [1 .. N -> CopyOf(N, k)]
    BY <1>6
  <2>2. QED BY <2>1
<1> HIDE DEF d
<1>8. Distinct(d)
  BY <1>1, <1>2, <1>3, <1>6, <1>7 DEF Distinct
<1>9. ASSUME NEW s \in 0 .. k - 1 PROVE Cardinality(Of(d, s)) = M
  <2>1. Of(d, s) \subseteq 1 .. N /\ Of(c, s) \subseteq 1 .. N /\ IsFiniteSet(Of(d, s))
    BY <1>1, <1>7, OfFinite
  <2>2. \A x \in 1 .. N : x \in Of(d, s) <=> f[x] \in Of(c, s)
    BY <1>1, <1>2, <1>6, <1>7 DEF Of
  <2>3. {f[x] : x \in Of(d, s)} = Of(c, s)
    BY <1>4, <2>1, <2>2
  <2>4. Cardinality({f[x] : x \in Of(d, s)}) = Cardinality(Of(d, s))
    <3>1. \A x, y \in Of(d, s) : f[x] = f[y] => x = y
      BY <1>3, <2>1
    <3>2. QED BY <2>1, <3>1, SameSize
  <2>5. QED BY <2>3, <2>4 DEF FullCopies
<1>10. QED BY <1>5, <1>7, <1>8, <1>9 DEF FullCopies

\* The copies of the same sample before the x-th.
Before(c, x) == {y \in 1 .. x - 1 : c[y].sid = c[x].sid}

\* Each of the first M numbers counts what is before one copy of a sample.
InGroups(c, N, M, k) ==
  /\ \A x \in 1 .. N : Cardinality(Before(c, x)) \in 0 .. M - 1
  /\ \A x, y \in 1 .. N :
       c[x].sid = c[y].sid /\ Cardinality(Before(c, x)) = Cardinality(Before(c, y)) => x = y
  /\ \A s \in 0 .. k - 1 : \A r \in 0 .. M - 1 :
       \E x \in 1 .. N : c[x].sid = s /\ Cardinality(Before(c, x)) = r

LEMMA Grouped ==
  ASSUME NEW N \in Nat \ {0}, NEW M \in Nat, NEW k \in Nat, NEW c, FullCopies(c, N, M, k)
  PROVE  InGroups(c, N, M, k)
<1>1. c \in Seq(CopyOf(N, k)) /\ Len(c) = N /\ DOMAIN c = 1 .. N
  BY DEF FullCopies
<1>2. ASSUME NEW s \in 0 .. k - 1
      PROVE  /\ \A x \in Of(c, s) : Cardinality(Before(c, x)) \in 0 .. M - 1
             /\ \A x, y \in Of(c, s) : Cardinality(Before(c, x)) = Cardinality(Before(c, y)) => x = y
             /\ \A r \in 0 .. M - 1 : \E x \in Of(c, s) : Cardinality(Before(c, x)) = r
  <2> DEFINE T == Of(c, s)
             g == Numbers(T)
  <2>1. IsFiniteSet(T) /\ T \subseteq 1 .. N
    BY <1>1, OfFinite
  <2>2. Cardinality(T) = M
    BY DEF FullCopies
  <2>3. Ranked(T, g) /\ \A x \in T : Lower(T, g, x) = {y \in T : y < x}
    <3>1. T \subseteq Int
      BY <2>1
    <3> HIDE DEF T
    <3>2. QED BY <3>1, NumbersRanked
  <2>4. RanksFill(T, g)
    <3> HIDE DEF T, g
    <3>1. QED BY <2>1, <2>3, RankIs
  <2>5. \A x \in T : Before(c, x) = Lower(T, g, x)
    <3> SUFFICES ASSUME NEW x \in T PROVE Before(c, x) = {y \in T : y < x}
      BY <2>3
    <3>1. x \in 1 .. N /\ c[x].sid = s /\ \A y : y \in T <=> y \in 1 .. N /\ c[y].sid = s
      BY <1>1, <2>1 DEF Of
    <3> HIDE DEF T
    <3>2. \A y : y \in 1 .. x - 1 <=> y \in 1 .. N /\ y < x
      BY <3>1
    <3>3. QED BY <3>1, <3>2 DEF Before
  <2> HIDE DEF T, g
  <2>6. /\ \A x \in T : Cardinality(Before(c, x)) \in 0 .. M - 1
        /\ \A x, y \in T : Cardinality(Before(c, x)) = Cardinality(Before(c, y)) => x = y
        /\ \A r \in 0 .. M - 1 : \E x \in T : Cardinality(Before(c, x)) = r
    BY <2>2, <2>4, <2>5 DEF RanksFill
  <2>7. QED BY <2>6 DEF T
<1>3. \A x \in 1 .. N : c[x].sid \in 0 .. k - 1 /\ x \in Of(c, c[x].sid)
  <2> SUFFICES ASSUME NEW x \in 1 .. N PROVE c[x].sid \in 0 .. k - 1 /\ x \in Of(c, c[x].sid)
    OBVIOUS
  <2>1. c[x] \in CopyOf(N, k)
    BY <1>1
  <2>2. c[x].sid \in 0 .. k - 1
    BY <2>1 DEF CopyOf
  <2>3. QED BY <1>1, <2>2 DEF Of
<1>4. \A s \in 0 .. k - 1 : \A x \in Of(c, s) : x \in 1 .. N /\ c[x].sid = s
  BY <1>1 DEF Of
<1>5. ASSUME NEW x \in 1 .. N, NEW y \in 1 .. N, c[x].sid = c[y].sid,
             Cardinality(Before(c, x)) = Cardinality(Before(c, y))
      PROVE  x = y
  <2>1. y \in Of(c, c[x].sid)
    BY <1>3, <1>5
  <2>2. QED BY <1>2, <1>3, <1>5, <2>1
<1>6. ASSUME NEW x \in 1 .. N PROVE Cardinality(Before(c, x)) \in 0 .. M - 1
  BY <1>2, <1>3
<1>7. ASSUME NEW s \in 0 .. k - 1, NEW r \in 0 .. M - 1
      PROVE  \E x \in 1 .. N : c[x].sid = s /\ Cardinality(Before(c, x)) = r
  BY <1>2, <1>4
<1>8. QED BY <1>5, <1>6, <1>7 DEF InGroups

-----------------------------------------------------------------------------
(* The invariant.                                                           *)

\* Whatever has been delivered of sample s: so many different records.
SlotsOf(f, M, s) == {f[s * M + x] : x \in 0 .. M - 1}
SampleFilled(f, N, M, s) == SlotsOf(f, M, s) \subseteq 0 .. N - 1 /\ Cardinality(SlotsOf(f, M, s)) = M

\* The three that draw one sample after the other.
SerialInv ==
  /\ pc \in {"sample", "done", "failed"}
  /\ j \in 0 .. dims.k
  /\ pc = "sample" => j < dims.k
  /\ pc = "done" => j = dims.k
  /\ \A s \in 0 .. j - 1 : SampleFilled(samples, dims.n, dims.m, s)
  /\ baseline = "CompactionBased" =>
       /\ drawn \in Seq(SUBSET (0 .. dims.n - 1)) /\ Len(drawn) = j
       /\ \A s \in 0 .. j - 1 : SlotsOf(samples, dims.m, s) = drawn[s + 1]

\* While the places are scanned every sample has as many copies as it has of the
\* places so far; the copies are of the records before the one that is next, whose
\* number is how many copies there are.
ScanInv ==
  /\ keys \in SampleKeys(dims.n, dims.k)
  /\ j \in 0 .. dims.n
  /\ copies \in Seq(CopyOf(dims.n, dims.k)) /\ Distinct(copies)
  /\ \A s \in 0 .. dims.k - 1 :
       Cardinality(Of(copies, s)) = Cardinality(Has(keys[s], dims.n, dims.m, j))
  /\ \A x \in DOMAIN copies :
       \E y \in 0 .. dims.n - 1 : y < Len(copies) /\ copies[x].record = buffer[y]
  /\ Len(copies) < dims.n => e = Len(copies) /\ e_next = Len(copies)

\* A copy that has been grouped is behind those of its sample before it.
GroupInv ==
  /\ FullCopies(copies, dims.n, dims.m, dims.k)
  /\ j \in 0 .. dims.n
  /\ \A x \in 1 .. j :
       samples[copies[x].sid * dims.m + Cardinality(Before(copies, x))] = copies[x].record

SwoInv ==
  /\ pc \in {"sample", "scan", "group", "done", "failed"}
  /\ dims.k * dims.m = dims.n
  /\ pc = "sample" => j = 0 /\ e = 0 /\ e_next = 0 /\ copies = << >>
  /\ pc = "scan" => ScanInv
  /\ pc \in {"group", "done"} => GroupInv
  /\ pc = "done" => j = dims.n

BaselineInv ==
  /\ baseline \in {"CompactionBased", "ShuffleBased", "PSQF_single", "PSQF_SWO"}
  /\ dims.n \in Nat \ {0} /\ dims.m \in 1 .. dims.n /\ dims.k \in Nat \ {0}
  /\ Permutes(buffer, dims.n)
  /\ DOMAIN samples = 0 .. dims.m * dims.k - 1
  /\ baseline # "PSQF_SWO" => SerialInv
  /\ baseline = "PSQF_SWO" => SwoInv

-----------------------------------------------------------------------------
(* One sample after the other.                                              *)

\* Every sample has M places of its own in the output.
LEMMA SlotPlace ==
  ASSUME NEW M \in Nat \ {0}, NEW k \in Nat \ {0}, NEW s \in 0 .. k - 1, NEW q \in 0 .. k - 1,
         NEW x \in 0 .. M - 1, NEW y \in 0 .. M - 1
  PROVE  /\ s * M + x \in 0 .. M * k - 1
         /\ s * M + x = q * M + y => s = q /\ x = y
<1>1. M * k = k * M
  OBVIOUS
<1>2. s \in Nat /\ q \in Nat /\ s < k
  OBVIOUS
<1>3. s * M + x \in 0 .. k * M - 1 /\ (s * M + x = q * M + y => s = q /\ x = y)
  BY <1>2, CellIs
<1>4. QED BY <1>1, <1>3

SlotsDelivered(h, f, M, k, I, b) ==
  /\ DOMAIN h = 0 .. M * k - 1
  /\ SlotsOf(h, M, I) = FirstOf(b, M)
  /\ \A s \in 0 .. k - 1 : s # I => SlotsOf(h, M, s) = SlotsOf(f, M, s)

LEMMA DeliveredSlots ==
  ASSUME NEW M \in Nat \ {0}, NEW k \in Nat \ {0}, NEW f, DOMAIN f = 0 .. M * k - 1,
         NEW I \in 0 .. k - 1, NEW b, NEW h, h = Copied(f, I * M, b, 0, M)
  PROVE  SlotsDelivered(h, f, M, k, I, b)
<1> DEFINE im == I * M
           D == 0 .. M * k - 1
<1>1. h = [q \in D |-> IF q \in im .. im + M - 1 THEN b[0 + q - im] ELSE f[q]]
  BY DEF Copied
<1>2. im \in Nat
  OBVIOUS
<1>3. ASSUME NEW x \in 0 .. M - 1 PROVE h[I * M + x] = b[x]
  <2>1. I * M + x \in D
    BY SlotPlace
  <2> HIDE DEF D, im
  <2>2. im + x \in D /\ im + x \in im .. im + M - 1 /\ 0 + (im + x) - im = x
    BY <1>2, <2>1 DEF im
  <2>3. h[im + x] = b[0 + (im + x) - im]
    BY <1>1, <2>2
  <2>4. QED BY <2>2, <2>3 DEF im
<1>4. ASSUME NEW s \in 0 .. k - 1, s # I, NEW x \in 0 .. M - 1 PROVE h[s * M + x] = f[s * M + x]
  <2> DEFINE sm == s * M
  <2>1. sm + x \in D
    BY SlotPlace
  <2>2. sm + x \notin im .. im + M - 1
    <3>1. ASSUME NEW y \in 0 .. M - 1 PROVE sm + x # im + y
      BY <1>4, SlotPlace
    <3>2. sm \in Nat
      OBVIOUS
    <3>3. ASSUME sm + x \in im .. im + M - 1 PROVE FALSE
      <4> HIDE DEF sm, im
      <4>1. (sm + x) - im \in 0 .. M - 1 /\ sm + x = im + ((sm + x) - im)
        BY <1>2, <3>2, <3>3
      <4>2. QED BY <3>1, <4>1
    <3>4. QED BY <3>3
  <2> HIDE DEF sm, im, D
  <2>3. h[sm + x] = f[sm + x]
    BY <1>1, <2>1, <2>2
  <2>4. QED BY <2>3 DEF sm
<1>5. SlotsOf(h, M, I) = FirstOf(b, M)
  BY <1>3 DEF SlotsOf, FirstOf
<1>6. ASSUME NEW s \in 0 .. k - 1, s # I PROVE SlotsOf(h, M, s) = SlotsOf(f, M, s)
  <2>1. \A x \in 0 .. M - 1 : h[s * M + x] = f[s * M + x]
    BY <1>4, <1>6
  <2>2. QED BY <2>1 DEF SlotsOf
<1>7. DOMAIN h = D
  BY <1>1
<1>8. QED BY <1>5, <1>6, <1>7 DEF SlotsDelivered

\* The front of an order has different records.
LEMMA FrontOf ==
  ASSUME NEW N \in Nat \ {0}, NEW M \in 1 .. N, NEW b, Permutes(b, N)
  PROVE  FirstOf(b, M) \subseteq 0 .. N - 1 /\ Cardinality(FirstOf(b, M)) = M
<1>1. \A x \in 0 .. M - 1 : x \in 0 .. N - 1
  OBVIOUS
<1>2. IsFiniteSet(0 .. M - 1) /\ Cardinality(0 .. M - 1) = M
  BY UpTo
<1>3. \A x, y \in 0 .. M - 1 : b[x] = b[y] => x = y
  BY <1>1 DEF Permutes
<1>4. Cardinality({b[x] : x \in 0 .. M - 1}) = Cardinality(0 .. M - 1)
  BY <1>2, <1>3, SameSize
<1>5. {b[x] : x \in 0 .. M - 1} \subseteq 0 .. N - 1
  BY <1>1 DEF Permutes
<1>6. QED BY <1>2, <1>4, <1>5 DEF FirstOf

\* A sample that is drawn is delivered beside those before it.
LEMMA DeliverKeeps ==
  ASSUME BaselineInv, baseline # "PSQF_SWO", pc = "sample",
         NEW b, Permutes(b, dims.n), Deliver(b),
         baseline = "CompactionBased" =>
           \E T \in SUBSET (0 .. dims.n - 1) :
             drawn' = Append(drawn, T) /\ FirstOf(b, dims.m) = T
  PROVE  BaselineInv'
<1> DEFINE N == dims.n
           M == dims.m
           k == dims.k
<1>1. /\ N \in Nat \ {0} /\ M \in 1 .. N /\ k \in Nat \ {0} /\ DOMAIN samples = 0 .. M * k - 1
      /\ j \in 0 .. k - 1 /\ SerialInv
  BY DEF BaselineInv, SerialInv
<1>2. /\ buffer' = b /\ samples' = Copied(samples, j * M, b, 0, M) /\ j' = j + 1
      /\ pc' = (IF j + 1 = k THEN "done" ELSE "sample")
      /\ baseline' = baseline /\ dims' = dims
  BY DEF Deliver
<1>3. /\ DOMAIN (samples') = 0 .. M * k - 1
      /\ SlotsOf(samples', M, j) = FirstOf(b, M)
      /\ \A s \in 0 .. k - 1 : s # j => SlotsOf(samples', M, s) = SlotsOf(samples, M, s)
  <2>1. M \in Nat \ {0}
    BY <1>1
  <2>2. SlotsDelivered(samples', samples, M, k, j, b)
    <3> HIDE DEF N, M, k
    <3>1. QED BY <1>1, <1>2, <2>1, DeliveredSlots
  <2>3. QED BY <2>2 DEF SlotsDelivered
<1>4. FirstOf(b, M) \subseteq 0 .. N - 1 /\ Cardinality(FirstOf(b, M)) = M
  BY <1>1, FrontOf
<1>5. \A s \in 0 .. j : s = j \/ (s \in 0 .. j - 1 /\ s \in 0 .. k - 1 /\ s # j)
  BY <1>1
<1>6. \A s \in 0 .. j : SampleFilled(samples', N, M, s)
  BY <1>1, <1>3, <1>4, <1>5 DEF SampleFilled, SerialInv
<1>7. ASSUME baseline = "CompactionBased"
      PROVE  /\ drawn' \in Seq(SUBSET (0 .. N - 1)) /\ Len(drawn') = j + 1
             /\ \A s \in 0 .. j : SlotsOf(samples', M, s) = drawn'[s + 1]
  <2>1. PICK T \in SUBSET (0 .. N - 1) :
          drawn' = Append(drawn, T) /\ FirstOf(b, M) = T
    BY <1>7
  <2>2. /\ drawn \in Seq(SUBSET (0 .. N - 1)) /\ Len(drawn) = j
        /\ \A s \in 0 .. j - 1 : SlotsOf(samples, M, s) = drawn[s + 1]
    BY <1>1, <1>7 DEF SerialInv
  <2>3. /\ drawn' \in Seq(SUBSET (0 .. N - 1)) /\ Len(drawn') = j + 1
        /\ drawn'[j + 1] = T /\ \A s \in 0 .. j - 1 : drawn'[s + 1] = drawn[s + 1]
    <3> HIDE DEF N
    <3>1. QED BY <1>1, <2>1, <2>2
  <2>4. QED BY <1>3, <1>5, <2>1, <2>2, <2>3
<1>8. SerialInv'
  <2>1. j' \in 0 .. k /\ j' - 1 = j
    BY <1>1, <1>2
  <2>2. /\ pc' \in {"sample", "done", "failed"} /\ (pc' = "sample" => j' < k)
        /\ (pc' = "done" => j' = k)
    BY <1>1, <1>2
  <2>3. QED BY <1>2, <1>6, <1>7, <2>1, <2>2 DEF SerialInv
<1>9. QED BY <1>1, <1>2, <1>3, <1>8 DEF BaselineInv

LEMMA CompactSampleKeeps == BaselineInv /\ CompactSample => BaselineInv'
<1> SUFFICES ASSUME BaselineInv, CompactSample PROVE BaselineInv'
  OBVIOUS
<1>1. /\ dims.n \in Nat \ {0} /\ Permutes(buffer, dims.n)
      /\ baseline = "CompactionBased" /\ pc = "sample"
  BY DEF BaselineInv, CompactSample
<1>2. PICK T \in kSubset(dims.m, 0 .. dims.n - 1) :
        /\ Deliver(Compact(buffer, 0, dims.n, 1, [I \in 0 .. dims.n - 1 |-> I \in T]))
        /\ drawn' = Append(drawn, {buffer[I] : I \in T})
  BY DEF CompactSample
<1>3. T \subseteq 0 .. dims.n - 1 /\ Cardinality(T) = dims.m
  BY DEF kSubset
<1>4. PICK source : Takes(source, buffer, dims.n, T)
  <2>1. DOMAIN buffer = 0 .. dims.n - 1
    BY <1>1 DEF Permutes
  <2>2. QED BY <1>1, <1>3, <2>1, CompactIs
<1>5. PICK b : b = [I \in 0 .. dims.n - 1 |-> buffer[source[I]]]
  OBVIOUS
<1>6. Permutes(b, dims.n)
  BY <1>1, <1>4, <1>5, PermutesTwice DEF Takes
<1>7. Deliver(b)
  BY <1>2, <1>4, <1>5 DEF Takes
<1>8. FirstOf(b, dims.m) = {buffer[I] : I \in T}
  <2>1. \A x \in 0 .. dims.m - 1 : x \in 0 .. dims.n - 1
    BY <1>1 DEF BaselineInv
  <2>2. \A x \in 0 .. dims.m - 1 : b[x] = buffer[source[x]]
    BY <1>5, <2>1
  <2>3. {source[I] : I \in 0 .. dims.m - 1} = T
    BY <1>3, <1>4 DEF Takes, FirstOf
  <2>4. QED BY <2>2, <2>3 DEF FirstOf
<1>9. {buffer[I] : I \in T} \in SUBSET (0 .. dims.n - 1)
  BY <1>1, <1>3 DEF Permutes
<1>10. QED BY <1>1, <1>2, <1>6, <1>7, <1>8, <1>9, DeliverKeeps

LEMMA ShuffleSampleKeeps == BaselineInv /\ ShuffleSample => BaselineInv'
<1> SUFFICES ASSUME BaselineInv, ShuffleSample PROVE BaselineInv'
  OBVIOUS
<1>1. /\ dims.n \in Nat \ {0} /\ Permutes(buffer, dims.n)
      /\ baseline \in {"ShuffleBased", "PSQF_single"} /\ pc = "sample"
  BY DEF BaselineInv, ShuffleSample
<1>2. PICK p \in Orders(dims.n) : Deliver(Shuffled(buffer, p))
  BY DEF ShuffleSample
<1>3. PICK b : b = [I \in 0 .. dims.n - 1 |-> buffer[p[I]]]
  OBVIOUS
<1>4. Permutes(b, dims.n)
  BY <1>1, <1>3, OrdersPermute, PermutesTwice
<1>5. Deliver(b)
  <2>1. DOMAIN buffer = 0 .. dims.n - 1
    BY <1>1 DEF Permutes
  <2>2. Shuffled(buffer, p) = b
    BY <1>3, <2>1 DEF Shuffled
  <2>3. QED BY <1>2, <2>2
<1>6. QED BY <1>1, <1>4, <1>5, DeliverKeeps

-----------------------------------------------------------------------------
(* PSQF_SWO.                                                                *)

LEMMA BeginKeeps == BaselineInv /\ Begin => BaselineInv'
<1> SUFFICES ASSUME BaselineInv, Begin PROVE BaselineInv'
  OBVIOUS
<1> DEFINE N == dims.n
           M == dims.m
           k == dims.k
<1>1. /\ N \in Nat \ {0} /\ M \in 1 .. N /\ k \in Nat \ {0} /\ baseline = "PSQF_SWO" /\ k * M = N
      /\ j = 0 /\ e = 0 /\ e_next = 0 /\ copies = << >>
  BY DEF BaselineInv, SwoInv, Begin
<1>2. /\ keys' \in SampleKeys(N, k) /\ pc' = "scan"
      /\ UNCHANGED <<baseline, dims, buffer, j, e, e_next, copies, samples, drawn>>
  BY DEF Begin
<1>3. ASSUME NEW s \in 0 .. k - 1
      PROVE  Cardinality(Of(<< >>, s)) = Cardinality(Has(keys'[s], N, M, 0))
  <2>1. Of(<< >>, s) = {}
    BY DEF Of
  <2>2. Has(keys'[s], N, M, 0) = {}
    BY DEF Has
  <2>3. QED BY <2>1, <2>2
<1>4. << >> \in Seq(CopyOf(N, k)) /\ Distinct(<< >>) /\ Len(<< >>) = 0 /\ DOMAIN << >> = {}
  BY DEF Distinct
<1>5. ScanInv'
  <2>1. j' \in 0 .. N
    BY <1>1, <1>2
  <2> HIDE DEF N, M, k
  <2>2. QED BY <1>1, <1>2, <1>3, <1>4, <2>1 DEF ScanInv, N, M, k
<1>6. SwoInv'
  BY <1>1, <1>2, <1>5 DEF SwoInv
<1>7. QED BY <1>1, <1>2, <1>6 DEF BaselineInv

LEMMA ReplicateKeeps == BaselineInv /\ Replicate => BaselineInv'
<1> SUFFICES ASSUME BaselineInv, Replicate PROVE BaselineInv'
  OBVIOUS
<1>1. PICK N, M, k, c, record, I :
        N = dims.n /\ M = dims.m /\ k = dims.k /\ c = copies /\ record = buffer[e] /\ I = j
  OBVIOUS
<1>2. baseline = "PSQF_SWO" /\ pc = "scan" /\ SwoInv /\ ScanInv
  <2>1. pc = "scan"
    BY DEF Replicate
  <2>2. baseline = "PSQF_SWO"
    BY <2>1 DEF BaselineInv, SerialInv
  <2>3. QED BY <2>1, <2>2 DEF BaselineInv, SwoInv
<1>3. /\ N \in Nat \ {0} /\ M \in 1 .. N /\ k \in Nat \ {0} /\ Permutes(buffer, N)
      /\ I \in 0 .. N - 1 /\ Len(c) < N /\ k * M = N
  BY <1>1, <1>2 DEF BaselineInv, SwoInv, ScanInv, Replicate
<1>4. /\ c \in Seq(CopyOf(N, k)) /\ Distinct(c) /\ e = Len(c) /\ e_next = Len(c)
      /\ keys \in SampleKeys(N, k)
      /\ \A x \in DOMAIN c : \E y \in 0 .. N - 1 : y < Len(c) /\ c[x].record = buffer[y]
      /\ \A s \in 0 .. k - 1 : Cardinality(Of(c, s)) = Cardinality(Has(keys[s], N, M, I))
  BY <1>1, <1>2, <1>3 DEF ScanInv
<1>5. PICK T : T = {s \in 0 .. k - 1 : samplemember(s, I)}
  OBVIOUS
<1>6. PICK w : w = c \o CopiesOf(record, T)
  OBVIOUS
<1>7. /\ copies' = w /\ e_next' = (IF T = {} THEN e_next ELSE NextRecord(Len(w)))
      /\ e' = e_next' /\ j' = I + 1
      /\ UNCHANGED <<baseline, dims, pc, buffer, keys, samples, drawn>>
  BY <1>1, <1>5, <1>6 DEF Replicate
<1>8. Len(c) \in 0 .. N - 1 /\ record = buffer[Len(c)] /\ record \in 0 .. N - 1
      /\ Lacks(c, record)
  <2>1. Len(c) \in 0 .. N - 1
    <3>1. Len(c) \in Nat
      BY <1>4
    <3>2. QED BY <1>3, <3>1
  <2>2. record = buffer[Len(c)]
    BY <1>1, <1>4
  <2>3. record \in 0 .. N - 1
    BY <1>3, <2>1, <2>2 DEF Permutes
  <2>4. ASSUME NEW x \in DOMAIN c PROVE c[x].record # record
    <3>1. PICK y \in 0 .. N - 1 : y < Len(c) /\ c[x].record = buffer[y]
      BY <1>4
    <3>2. y # Len(c)
      BY <2>1, <3>1
    <3>3. buffer[y] # buffer[Len(c)]
      BY <1>3, <2>1, <3>2 DEF Permutes
    <3>4. QED BY <2>2, <3>1, <3>3
  <2>5. QED BY <2>1, <2>2, <2>3, <2>4 DEF Lacks
<1>9. /\ w \in Seq(CopyOf(N, k)) /\ Distinct(w) /\ Cardinality(T) \in Nat
      /\ Len(w) = Len(c) + Cardinality(T) /\ (Cardinality(T) = 0 <=> T = {})
      /\ \A x \in DOMAIN w : (x \in DOMAIN c /\ w[x] = c[x]) \/ w[x].record = record
      /\ \A s \in 0 .. k - 1 :
           Cardinality(Of(w, s)) = Cardinality(Of(c, s)) + (IF s \in T THEN 1 ELSE 0)
  <2>1. T \subseteq 0 .. k - 1
    BY <1>5
  <2>2. Extends(w, c, record, T, N, k)
    BY <1>3, <1>4, <1>6, <1>8, <2>1, AppendCopies
  <2>3. QED BY <2>2 DEF Extends
<1>10. ASSUME NEW s \in 0 .. k - 1
       PROVE  Cardinality(Of(w, s)) = Cardinality(Has(keys[s], N, M, I + 1))
  <2>1. IsKey(keys[s], GridA(N), GridB(N))
    BY <1>3, <1>4, DrawnKey
  <2>2. Cardinality(Has(keys[s], N, M, I + 1)) =
          Cardinality(Has(keys[s], N, M, I)) + (IF prp_index(keys[s], N, I) < M THEN 1 ELSE 0)
    <3>1. PlacesCounted(keys[s], N, M)
      BY <1>3, <2>1, PlacesOf
    <3>2. QED BY <1>3, <3>1 DEF PlacesCounted
  <2>3. s \in T <=> prp_index(keys[s], N, I) < M
    BY <1>1, <1>5 DEF samplemember
  <2>4. QED BY <1>4, <1>9, <2>2, <2>3
<1>11. ASSUME NEW x \in DOMAIN w
       PROVE  \E y \in 0 .. N - 1 : y < Len(w) /\ w[x].record = buffer[y]
  <2>1. CASE x \in DOMAIN c /\ w[x] = c[x]
    <3>1. PICK y \in 0 .. N - 1 : y < Len(c) /\ c[x].record = buffer[y]
      BY <1>4, <2>1
    <3>2. y < Len(w)
      BY <1>8, <1>9, <3>1
    <3>3. QED BY <2>1, <3>1, <3>2
  <2>2. CASE ~ (x \in DOMAIN c /\ w[x] = c[x])
    <3>1. w[x].record = record
      BY <1>9, <2>2
    <3>2. T # {}
      <4>1. ASSUME T = {} PROVE FALSE
        <5>1. Len(w) = Len(c)
          BY <1>8, <1>9, <4>1
        <5>2. DOMAIN w = DOMAIN c
          BY <1>4, <1>9, <5>1
        <5>3. w = c
          <6>1. CopiesOf(record, T) = << >>
            BY <1>9, <4>1 DEF CopiesOf
          <6>2. QED BY <1>4, <1>6, <6>1
        <5>4. QED BY <2>2, <5>2, <5>3
      <4>2. QED BY <4>1
    <3>3. Len(c) < Len(w)
      BY <1>8, <1>9, <3>2
    <3>4. QED BY <1>8, <3>1, <3>3
  <2>3. QED BY <2>1, <2>2
<1>12. Len(w) < N => e' = Len(w) /\ e_next' = Len(w)
  BY <1>1, <1>4, <1>7, <1>8, <1>9 DEF NextRecord
<1>13. ScanInv'
  <2>1. I + 1 \in 0 .. N
    BY <1>3
  <2>2. dims'.n = N /\ dims'.m = M /\ dims'.k = k /\ keys' = keys /\ buffer' = buffer /\ copies' = w
    BY <1>1, <1>7
  <2>3. QED BY <1>4, <1>7, <1>9, <1>10, <1>11, <1>12, <2>1, <2>2 DEF ScanInv
<1>14. SwoInv'
  BY <1>1, <1>2, <1>3, <1>7, <1>13 DEF SwoInv
<1>15. QED BY <1>2, <1>7, <1>14 DEF BaselineInv

LEMMA ShuffleCopiesKeeps == BaselineInv /\ ShuffleCopies => BaselineInv'
<1> SUFFICES ASSUME BaselineInv, ShuffleCopies PROVE BaselineInv'
  OBVIOUS
<1>1. PICK N, M, k, c : N = dims.n /\ M = dims.m /\ k = dims.k /\ c = copies
  OBVIOUS
<1>2. baseline = "PSQF_SWO" /\ pc = "scan" /\ SwoInv /\ ScanInv
  <2>1. pc = "scan"
    BY DEF ShuffleCopies
  <2>2. baseline = "PSQF_SWO"
    BY <2>1 DEF BaselineInv, SerialInv
  <2>3. QED BY <2>1, <2>2 DEF BaselineInv, SwoInv
<1>3. N \in Nat \ {0} /\ M \in 1 .. N /\ M \in Nat /\ k \in Nat \ {0} /\ k * M = N /\ j \in 0 .. N
  BY <1>1, <1>2 DEF BaselineInv, SwoInv, ScanInv
<1>4. /\ c \in Seq(CopyOf(N, k)) /\ Distinct(c) /\ keys \in SampleKeys(N, k) /\ Len(c) \in Nat
      /\ \A s \in 0 .. k - 1 : Cardinality(Of(c, s)) = Cardinality(Has(keys[s], N, M, j))
      /\ Len(c) >= N \/ j = N
  <2>1. c \in Seq(CopyOf(N, k))
    BY <1>1, <1>2 DEF ScanInv
  <2>2. Len(c) \in Nat
    BY <2>1
  <2>3. ~ (Len(c) < N /\ j < N)
    BY <1>1 DEF ShuffleCopies
  <2>4. QED BY <1>1, <1>2, <1>3, <2>1, <2>2, <2>3 DEF ScanInv
<1>5. PICK p \in Orders(N) : copies' = [x \in DOMAIN c |-> c[p[x - 1] + 1]]
  BY <1>1 DEF ShuffleCopies
<1>6. j' = 0 /\ pc' = "group" /\ UNCHANGED <<baseline, dims, buffer, keys, e, e_next, samples, drawn>>
  BY DEF ShuffleCopies
<1>7. ASSUME NEW s \in 0 .. k - 1
      PROVE  Cardinality(Of(c, s)) \in 0 .. M /\ (j = N => Cardinality(Of(c, s)) = M)
  <2>1. IsKey(keys[s], GridA(N), GridB(N))
    BY <1>3, <1>4, DrawnKey
  <2>2. /\ Cardinality(Has(keys[s], N, M, j)) \in 0 .. M
        /\ Cardinality(Has(keys[s], N, M, N)) = M
    <3>1. PlacesCounted(keys[s], N, M)
      BY <1>3, <2>1, PlacesOf
    <3>2. QED BY <1>3, <3>1 DEF PlacesCounted
  <2>3. QED BY <1>4, <2>2
<1>8. FullCopies(c, N, M, k)
  <2>1. \A s \in 0 .. k - 1 : Cardinality(Of(c, s)) <= M
    BY <1>3, <1>7
  <2>2. /\ Len(c) <= N
        /\ Len(c) >= N => \A s \in 0 .. k - 1 : Cardinality(Of(c, s)) = M
        /\ (\A s \in 0 .. k - 1 : Cardinality(Of(c, s)) = M) => Len(c) = N
    BY <1>3, <1>4, <2>1, Counted
  <2>3. \A s \in 0 .. k - 1 : Cardinality(Of(c, s)) = M
    BY <1>4, <1>7, <2>2
  <2>4. QED BY <1>4, <2>2, <2>3 DEF FullCopies
<1>9. FullCopies(copies', N, M, k)
  BY <1>3, <1>5, <1>8, OrdersPermute, CopiesPermuted
<1>10. GroupInv'
  <2>1. \A x : x \notin 1 .. 0
    OBVIOUS
  <2>2. 0 \in 0 .. N
    BY <1>3
  <2>3. QED BY <1>1, <1>6, <1>9, <2>1, <2>2 DEF GroupInv
<1>11. SwoInv'
  BY <1>1, <1>3, <1>6, <1>10 DEF SwoInv
<1>12. QED BY <1>2, <1>6, <1>11 DEF BaselineInv

LEMMA GroupKeeps == BaselineInv /\ Group => BaselineInv'
<1> SUFFICES ASSUME BaselineInv, Group PROVE BaselineInv'
  OBVIOUS
<1>1. PICK N, M, k, c, I : N = dims.n /\ M = dims.m /\ k = dims.k /\ c = copies /\ I = j
  OBVIOUS
<1>2. baseline = "PSQF_SWO" /\ pc = "group" /\ SwoInv /\ GroupInv
  <2>1. pc = "group"
    BY DEF Group
  <2>2. baseline = "PSQF_SWO"
    BY <2>1 DEF BaselineInv, SerialInv
  <2>3. QED BY <2>1, <2>2 DEF BaselineInv, SwoInv
<1>3. /\ N \in Nat \ {0} /\ M \in 1 .. N /\ M \in Nat \ {0} /\ k \in Nat \ {0} /\ k * M = N
      /\ I \in 0 .. N /\ FullCopies(c, N, M, k) /\ DOMAIN samples = 0 .. M * k - 1
      /\ \A x \in 1 .. I : samples[c[x].sid * M + Cardinality(Before(c, x))] = c[x].record
  BY <1>1, <1>2 DEF BaselineInv, SwoInv, GroupInv
<1>4. UNCHANGED <<baseline, dims, buffer, keys, e, e_next, copies, drawn>>
  BY DEF Group
<1>5. CASE j = dims.n
  <2>1. pc' = "done" /\ j' = j /\ samples' = samples
    BY <1>5 DEF Group
  <2>2. GroupInv'
    BY <1>2, <1>4, <2>1 DEF GroupInv
  <2>3. SwoInv'
    BY <1>2, <1>4, <1>5, <2>1, <2>2 DEF SwoInv
  <2>4. QED BY <1>2, <1>4, <2>1, <2>3 DEF BaselineInv
<1>6. CASE j # dims.n
  <2> DEFINE x1 == I + 1
             sid == c[x1].sid
             count == Cardinality(Before(c, x1))
  <2>1. x1 \in 1 .. N /\ I < N /\ I \in 0 .. N - 1
    BY <1>1, <1>3, <1>6
  <2>2. InGroups(c, N, M, k)
    BY <1>3, Grouped
  <2>3. \A x \in 1 .. N : c[x].sid \in 0 .. k - 1 /\ Cardinality(Before(c, x)) \in 0 .. M - 1
    <3> SUFFICES ASSUME NEW x \in 1 .. N
                 PROVE  c[x].sid \in 0 .. k - 1 /\ Cardinality(Before(c, x)) \in 0 .. M - 1
      OBVIOUS
    <3>1. c[x] \in CopyOf(N, k)
      <4>1. c \in Seq(CopyOf(N, k)) /\ Len(c) = N
        BY <1>3 DEF FullCopies
      <4>2. QED BY <1>3, <4>1
    <3>2. c[x].sid \in 0 .. k - 1
      BY <3>1 DEF CopyOf
    <3>3. QED BY <2>2, <3>2 DEF InGroups
  <2>4. sid \in 0 .. k - 1 /\ count \in 0 .. M - 1
    BY <2>1, <2>3
  <2>5. Cardinality({x \in 1 .. I : c[x].sid = c[x1].sid}) = count
    <3>1. x1 - 1 = I
      BY <1>3
    <3>2. QED BY <3>1 DEF Before
  <2>6. /\ samples' = [samples EXCEPT ![sid * M + count] = c[x1].record]
        /\ j' = I + 1 /\ pc' = "group"
    <3>1. /\ samples' = (IF Cardinality({x \in 1 .. j : copies[x].sid = copies[j + 1].sid}) < dims.m
                         THEN [samples EXCEPT
                                 ![copies[j + 1].sid * dims.m
                                     + Cardinality({x \in 1 .. j : copies[x].sid = copies[j + 1].sid})]
                                   = copies[j + 1].record]
                         ELSE samples)
          /\ j' = j + 1 /\ pc' = pc
      BY <1>6 DEF Group
    <3>2. count < M
      BY <1>3, <2>4
    <3> HIDE DEF count
    <3>3. QED BY <1>1, <1>2, <2>5, <3>1, <3>2
  <2>7. sid * M + count \in DOMAIN samples
    <3> HIDE DEF sid, count
    <3>1. QED BY <1>3, <2>4, SlotPlace
  <2>8. ASSUME NEW x \in 1 .. I
        PROVE  c[x].sid * M + Cardinality(Before(c, x)) # sid * M + count
    <3>1. x \in 1 .. N /\ x # x1
      BY <1>3
    <3>2. c[x].sid \in 0 .. k - 1 /\ Cardinality(Before(c, x)) \in 0 .. M - 1
      BY <2>3, <3>1
    <3>3. ~ (c[x].sid = sid /\ Cardinality(Before(c, x)) = count)
      BY <2>1, <2>2, <3>1 DEF InGroups
    <3> DEFINE q == c[x].sid
               r == Cardinality(Before(c, x))
    <3>4. q \in 0 .. k - 1 /\ r \in 0 .. M - 1 /\ ~ (q = sid /\ r = count)
      BY <3>2, <3>3
    <3> HIDE DEF sid, count, q, r
    <3>5. q * M + r # sid * M + count
      <4>1. M \in Nat \ {0} /\ k \in Nat \ {0} /\ sid \in 0 .. k - 1 /\ count \in 0 .. M - 1
            /\ q \in 0 .. k - 1 /\ r \in 0 .. M - 1
        BY <1>3, <2>4, <3>4
      <4>2. q * M + r = sid * M + count => q = sid /\ r = count
        BY ONLY <4>1, SlotPlace
      <4>3. QED BY <3>4, <4>2
    <3>6. QED BY <3>5 DEF q, r
  <2> HIDE DEF count, sid
  <2>9. samples'[sid * M + count] = c[x1].record
    BY <2>6, <2>7
  <2>10. ASSUME NEW x \in 1 .. I
         PROVE  samples'[c[x].sid * M + Cardinality(Before(c, x))] = c[x].record
    <3>1. c[x].sid * M + Cardinality(Before(c, x)) \in DOMAIN samples
      <4>1. x \in 1 .. N
        BY <1>3
      <4>2. c[x].sid \in 0 .. k - 1 /\ Cardinality(Before(c, x)) \in 0 .. M - 1
        BY <2>3, <4>1
      <4> DEFINE q == c[x].sid
                 r == Cardinality(Before(c, x))
      <4>3. q \in 0 .. k - 1 /\ r \in 0 .. M - 1
        BY <4>2
      <4> HIDE DEF q, r
      <4>4. q * M + r \in 0 .. M * k - 1
        BY <1>3, <4>3, SlotPlace
      <4>5. QED BY <1>3, <4>4 DEF q, r
    <3>2. samples'[c[x].sid * M + Cardinality(Before(c, x))]
            = samples[c[x].sid * M + Cardinality(Before(c, x))]
      BY <2>6, <2>8, <3>1
    <3>3. QED BY <1>3, <3>2
  <2>11. \A x \in 1 .. I + 1 :
           samples'[c[x].sid * M + Cardinality(Before(c, x))] = c[x].record
    <3>1. \A x \in 1 .. I + 1 : x \in 1 .. I \/ x = x1
      BY <1>3
    <3>2. samples'[c[x1].sid * M + Cardinality(Before(c, x1))] = c[x1].record
      BY <2>9 DEF sid, count
    <3> HIDE DEF x1
    <3>3. QED BY <2>10, <3>1, <3>2
  <2>12. GroupInv'
    <3>1. j' \in 0 .. N
      BY <2>1, <2>6
    <3>2. FullCopies(copies', N, M, k)
      BY <1>1, <1>3, <1>4
    <3>3. dims'.n = N /\ dims'.m = M /\ dims'.k = k /\ copies' = c
      BY <1>1, <1>4
    <3>4. QED BY <2>6, <2>11, <3>1, <3>2, <3>3 DEF GroupInv
  <2>13. SwoInv'
    BY <1>2, <1>4, <2>6, <2>12 DEF SwoInv
  <2>14. DOMAIN samples' = DOMAIN samples
    BY <2>6
  <2>15. QED BY <1>2, <1>4, <2>13, <2>14 DEF BaselineInv
<1>7. QED BY <1>5, <1>6

LEMMA AllocationFailsKeeps == BaselineInv /\ AllocationFails => BaselineInv'
<1> SUFFICES ASSUME BaselineInv, AllocationFails PROVE BaselineInv'
  OBVIOUS
<1>1. /\ pc = "sample" /\ pc' = "failed"
      /\ UNCHANGED <<baseline, dims, buffer, keys, j, e, e_next, copies, samples, drawn>>
  BY DEF AllocationFails
<1>2. baseline = "PSQF_SWO" => SwoInv'
  BY <1>1 DEF BaselineInv, SwoInv
<1>3. baseline # "PSQF_SWO" => SerialInv'
  BY <1>1 DEF BaselineInv, SerialInv
<1>4. QED BY <1>1, <1>2, <1>3 DEF BaselineInv

LEMMA BaselineInitInv == BaselineInit => BaselineInv
<1> SUFFICES ASSUME BaselineInit PROVE BaselineInv
  OBVIOUS
<1>1. /\ baseline \in {"CompactionBased", "ShuffleBased", "PSQF_single", "PSQF_SWO"}
      /\ pc = "sample" /\ j = 0 /\ e = 0 /\ e_next = 0 /\ copies = << >> /\ drawn = << >>
      /\ samples = [I \in 0 .. dims.m * dims.k - 1 |-> None]
  BY DEF BaselineInit
<1>2. PICK N \in 1 .. MaxRecords, k \in 1 .. MaxRepeats : \E M \in 1 .. N :
        dims = Dims(baseline, N, M, k) /\ buffer = [I \in 0 .. N - 1 |-> I]
  BY DEF BaselineInit
<1>3. PICK M \in 1 .. N : dims = Dims(baseline, N, M, k) /\ buffer = [I \in 0 .. N - 1 |-> I]
  BY <1>2
<1>4. N \in Nat \ {0} /\ k \in Nat \ {0} /\ M \in Nat \ {0} /\ M <= N
  BY BaselinesAssumption
<1>5. /\ dims.n = N /\ dims.m \in 1 .. N /\ dims.k \in Nat \ {0}
      /\ baseline = "PSQF_SWO" => dims.k * dims.m = N
  <2>1. CASE baseline # "PSQF_SWO"
    BY <1>1, <1>3, <1>4, <2>1 DEF Dims
  <2>2. CASE baseline = "PSQF_SWO" /\ N % M # 0
    BY <1>3, <1>4, <2>2 DEF Dims
  <2>3. CASE baseline = "PSQF_SWO" /\ N % M = 0
    <3>1. dims = [n |-> N, m |-> M, k |-> N \div M]
      BY <1>3, <2>3 DEF Dims
    <3> DEFINE q == N \div M
    <3>2. q \in Nat /\ N = M * q + (N % M)
      BY <1>4, Divided
    <3>3. dims.n = N /\ dims.m = M /\ dims.k = q
      BY <3>1
    <3> HIDE DEF q
    <3>4. M * q = q * M /\ (q = 0 => M * q = 0)
      BY <1>4, <3>2
    <3>5. N = M * q
      BY <1>4, <2>3, <3>2
    <3>6. QED BY <1>4, <3>2, <3>3, <3>4, <3>5
  <2>4. QED BY <2>1, <2>2, <2>3
<1>6. Permutes(buffer, dims.n)
  BY <1>3, <1>4, <1>5 DEF Permutes
<1>7. baseline # "PSQF_SWO" => SerialInv
  <2>1. \A s : s \notin 0 .. 0 - 1
    OBVIOUS
  <2>2. << >> \in Seq(SUBSET (0 .. dims.n - 1)) /\ Len(<< >>) = 0
    OBVIOUS
  <2>3. QED BY <1>1, <1>5, <2>1, <2>2 DEF SerialInv
<1>8. baseline = "PSQF_SWO" => SwoInv
  BY <1>1, <1>5 DEF SwoInv
<1>9. QED BY <1>1, <1>4, <1>5, <1>6, <1>7, <1>8 DEF BaselineInv

-----------------------------------------------------------------------------
(* The theorems.                                                            *)

\* The invariant of the baselines, for every number of records, every sample size
\* and every key: what has been delivered and, of PSQF_SWO, how many copies each
\* sample has, of which records, and where those that are grouped lie.
THEOREM BaselineInvariant == BaselineSpec => []BaselineInv
<1>1. BaselineInv /\ [BaselineNext]_baseline_vars => BaselineInv'
  <2> SUFFICES ASSUME BaselineInv, [BaselineNext]_baseline_vars PROVE BaselineInv'
    OBVIOUS
  <2>1. CASE AllocationFails
    BY <2>1, AllocationFailsKeeps
  <2>2. CASE CompactSample
    BY <2>2, CompactSampleKeeps
  <2>3. CASE ShuffleSample
    BY <2>3, ShuffleSampleKeeps
  <2>4. CASE Begin
    BY <2>4, BeginKeeps
  <2>5. CASE Replicate
    BY <2>5, ReplicateKeeps
  <2>6. CASE ShuffleCopies
    BY <2>6, ShuffleCopiesKeeps
  <2>7. CASE Group
    BY <2>7, GroupKeeps
  <2>8. CASE UNCHANGED baseline_vars
    BY <2>8 DEF baseline_vars, BaselineInv, SerialInv, SwoInv, ScanInv, GroupInv
  <2>9. QED BY <2>1, <2>2, <2>3, <2>4, <2>5, <2>6, <2>7, <2>8 DEF BaselineNext
<1>2. QED BY <1>1, BaselineInitInv, PTL DEF BaselineSpec

\* Whenever PSQF_SWO begins to scan, every sample has a permutation of the places
\* (PSQF_SWO.hpp:126-180).
THEOREM PrpIsPermutationHolds == BaselineSpec => []PrpIsPermutation
<1>1. BaselineInv => PrpIsPermutation
  <2> SUFFICES ASSUME BaselineInv, pc = "scan", NEW s \in 0 .. dims.k - 1
               PROVE  {prp_index(keys[s], dims.n, x) : x \in 0 .. dims.n - 1} = 0 .. dims.n - 1
    BY DEF PrpIsPermutation
  <2>1. /\ keys \in SampleKeys(dims.n, dims.k) /\ dims.n \in Nat \ {0} /\ dims.k \in Nat \ {0}
    BY DEF BaselineInv, SerialInv, SwoInv, ScanInv
  <2>2. IsKey(keys[s], GridA(dims.n), GridB(dims.n))
    BY <2>1, DrawnKey
  <2>3. QED BY <2>1, <2>2, PrpPermutes
<1>2. QED BY <1>1, BaselineInvariant, PTL

\* At the end every sample of every baseline has its M records, none of them
\* twice; those of CompactionBasedSWO are the records that were marked
\* (PSQF_SWO.cpp:164-222, CompactionBasedSWO.cpp:62-77, ShuffleBasedSWO.cpp:33-39).
THEOREM BaselinesDeliverHolds == BaselineSpec => []BaselinesDeliver
<1>1. BaselineInv => BaselinesDeliver
  <2> SUFFICES ASSUME BaselineInv, pc = "done", NEW s \in 0 .. dims.k - 1
               PROVE  /\ Slots(s) \subseteq 0 .. dims.n - 1
                      /\ Cardinality(Slots(s)) = dims.m
                      /\ baseline = "CompactionBased" => Slots(s) = drawn[s + 1]
    BY DEF BaselinesDeliver
  <2>1. Slots(s) = SlotsOf(samples, dims.m, s)
    BY DEF Slots, SlotsOf
  <2>2. CASE baseline # "PSQF_SWO"
    <3>1. SerialInv /\ s \in 0 .. j - 1
      BY <2>2 DEF BaselineInv, SerialInv
    <3>2. QED BY <2>1, <3>1 DEF SerialInv, SampleFilled
  <2>3. CASE baseline = "PSQF_SWO"
    <3>1. PICK N, M, k, c : N = dims.n /\ M = dims.m /\ k = dims.k /\ c = copies
      OBVIOUS
    <3>2. /\ N \in Nat \ {0} /\ M \in Nat /\ k \in Nat \ {0} /\ FullCopies(c, N, M, k)
          /\ \A x \in 1 .. N : samples[c[x].sid * M + Cardinality(Before(c, x))] = c[x].record
      BY <2>3, <3>1 DEF BaselineInv, SwoInv, GroupInv
    <3>3. InGroups(c, N, M, k)
      BY <3>2, Grouped
    <3>4. c \in Seq(CopyOf(N, k)) /\ Len(c) = N /\ DOMAIN c = 1 .. N /\ Distinct(c)
      BY <3>2 DEF FullCopies
    <3>5. \A x \in 1 .. N : c[x].record \in 0 .. N - 1 /\ c[x] = [record |-> c[x].record, sid |-> c[x].sid]
      <4>1. \A x \in 1 .. N : c[x] \in CopyOf(N, k)
        BY <3>4
      <4>2. QED BY <4>1 DEF CopyOf
    <3> DEFINE T == Of(c, s)
               f == [x \in 1 .. N |-> c[x].record]
    <3>6. IsFiniteSet(T) /\ Cardinality(T) = M /\ \A x : x \in T <=> x \in 1 .. N /\ c[x].sid = s
      <4>1. IsFiniteSet(T)
        BY <3>4, OfFinite
      <4>2. Cardinality(T) = M
        BY <3>1, <3>2 DEF FullCopies
      <4>3. QED BY <3>4, <4>1, <4>2 DEF Of
    <3> HIDE DEF T
    <3>7. \A x, y \in T : f[x] = f[y] => x = y
      <4> SUFFICES ASSUME NEW x \in T, NEW y \in T, f[x] = f[y] PROVE x = y
        OBVIOUS
      <4>1. x \in 1 .. N /\ y \in 1 .. N /\ c[x].sid = c[y].sid /\ c[x].record = c[y].record
        BY <3>6
      <4>2. c[x] = c[y]
        BY <3>5, <4>1
      <4>3. QED BY <3>4, <4>1, <4>2 DEF Distinct
    <3>8. SlotsOf(samples, M, s) = {f[x] : x \in T}
      <4>1. ASSUME NEW r \in 0 .. M - 1 PROVE \E x \in T : samples[s * M + r] = f[x]
        <5>1. PICK x \in 1 .. N : c[x].sid = s /\ Cardinality(Before(c, x)) = r
          BY <3>1, <3>3 DEF InGroups
        <5>2. QED BY <3>2, <3>6, <5>1
      <4>2. ASSUME NEW x \in T PROVE \E r \in 0 .. M - 1 : samples[s * M + r] = f[x]
        <5>1. x \in 1 .. N /\ c[x].sid = s
          BY <3>6
        <5>2. Cardinality(Before(c, x)) \in 0 .. M - 1
          BY <3>3, <5>1 DEF InGroups
        <5>3. QED BY <3>2, <5>1, <5>2
      <4> HIDE DEF f
      <4>3. QED BY <4>1, <4>2 DEF SlotsOf
    <3>9. {f[x] : x \in T} \subseteq 0 .. N - 1
      BY <3>5, <3>6
    <3> HIDE DEF f
    <3>10. Cardinality({f[x] : x \in T}) = M
      BY <3>6, <3>7, SameSize
    <3>11. QED BY <2>1, <2>3, <3>1, <3>8, <3>9, <3>10
  <2>4. QED BY <2>2, <2>3
<1>2. QED BY <1>1, BaselineInvariant, PTL

=============================================================================
