------------------------------ MODULE FfosPlan ------------------------------
(***************************************************************************)
(* The plan of FFOS_FR (SubSample_v2/FFOS_FR): how k samples of m out of n *)
(* records are taken apart into a tree of nodes.  A node of n records and  *)
(* k samples is a leaf (n = m, k = 1), a fork, whose records all go to one *)
(* half of the samples or to both (n = m * k), or a filter, each of whose  *)
(* edges compacts the records that a part of the samples needs.  Every     *)
(* fork owns a span of the OFR tape and every filtering edge one of the    *)
(* SWO tape, and every node a slice of the output.                         *)
(*                                                                         *)
(* Everything here depends on the public dimensions only.                  *)
(***************************************************************************)
EXTENDS OFRQuota, Sequences, SequencesExt, FiniteSets

\* FfosCNodeCapacity
NodeCapacity(n, m, k) == Smaller(n, m * k)

Leaf(n, m, k) == k = 1 /\ n = m
Fork(n, m, k) == k > 1 /\ n = m * k

\* FfosCChildren
Halves(k) == <<[start |-> 0, count |-> k \div 2],
               [start |-> k \div 2, count |-> k - k \div 2]>>

\* The edges of a filter.  Only the root has a frontier.
Edges(frontier, k) ==
  IF k = 1 THEN <<[start |-> 0, count |-> 1]>>
  ELSE IF frontier = <<>> THEN Halves(k) ELSE frontier

\* CheckFrontier
FrontierOK(frontier, n, m, k) ==
  frontier # <<>> =>
    /\ \A i \in DOMAIN frontier :
         /\ frontier[i].count > 0 /\ m * frontier[i].count <= n
         /\ frontier[i].start = IF i = 1 THEN 0
                                ELSE frontier[i - 1].start + frontier[i - 1].count
    /\ Last(frontier).start + Last(frontier).count = k

CeilDiv(a, b) == a \div b + (IF a % b = 0 THEN 0 ELSE 1)

\* FFOS_CFrontier
Frontier(n, m, k) ==
  LET nodes == CeilDiv(k, n \div m)
      base == k \div nodes
      larger == k % nodes
  IN [v \in 1 .. nodes |->
        [start |-> (v - 1) * base + Smaller(v - 1, larger),
         count |-> base + (IF v <= larger THEN 1 ELSE 0)]]

\* WorkspaceDepth
WorkspaceDepth[k \in Nat] ==
  IF k <= 1 THEN 2 ELSE 1 + WorkspaceDepth[Ceil(k)]

-----------------------------------------------------------------------------
(* ParallelPlan::Add, call by call.  A plan is its nodes, the numbers of    *)
(* their children, the spans of its forks (controls.nodes) and the next     *)
(* free positions of the tapes.                                             *)

NoPlan == [nodes |-> <<>>, children |-> <<>>, forks |-> <<>>, swo |-> 0, ofr |-> 0]

\* What a call of Add is for; parent_n is the number of records at the other end of
\* a filter's edge, 0 for the root and below a fork.
Piece(n, k, output, parent_n) ==
  [n |-> n, k |-> k, output |-> output, parent_n |-> parent_n]

\* Mutant: the right half's output is counted in samples.
ForkPiecesBySamples(n, m, k, output) ==
  LET left_n == m * (k \div 2)
  IN <<Piece(left_n, k \div 2, output, 0),
       Piece(n - left_n, k - k \div 2, output + k \div 2, 0)>>

ForkPieces(n, m, k, output) ==
  LET left_n == m * (k \div 2)
  IN <<Piece(left_n, k \div 2, output, 0),
       Piece(n - left_n, k - k \div 2, output + left_n, 0)>>

FilterPieces(frontier, n, m, k, output) ==
  [i \in DOMAIN Edges(frontier, k) |->
     LET edge == Edges(frontier, k)[i]
     IN Piece(NodeCapacity(n, m, edge.count), edge.count, output + m * edge.start, n)]

\* The calls that a call makes.
Pieces(frontier, m, piece) ==
  IF Leaf(piece.n, m, piece.k) THEN <<>>
  ELSE IF Fork(piece.n, m, piece.k) THEN ForkPieces(piece.n, m, piece.k, piece.output)
  ELSE FilterPieces(frontier, piece.n, m, piece.k, piece.output)

\* Mutant: an edge that keeps every record has a span too.
KeepsSome(piece) == piece.parent_n > 0

\* Whether the edge to a node filters.
Filters(piece) == piece.n < piece.parent_n

\* Mutant: bits for every edge.
FilterBitsAlways(piece) == piece.parent_n

\* The bits of the edge to a node.
FilterBits(piece) == IF Filters(piece) THEN piece.parent_n ELSE 0

\* The gates of a node.
Gates(m, piece) ==
  IF Fork(piece.n, m, piece.k) THEN ControlCount[piece.n][m * (piece.k \div 2)] ELSE 0

\* A call of Add up to its own calls: it takes the next number and the next
\* positions.  Its caller puts the number among its children.
Add(p, frontier, m, call) ==
  LET piece == call.piece
      fork == Fork(piece.n, m, piece.k)
      node == [n |-> piece.n, k |-> piece.k, output |-> piece.output,
               metadata |-> IF fork THEN Len(p.forks) + 1 ELSE 0,
               filter |-> Filters(piece), position |-> p.swo, parent_n |-> piece.parent_n]
      linked == [a \in DOMAIN p.children |->
                   IF a # call.parent THEN p.children[a]
                   ELSE [p.children[a] EXCEPT ![call.index] = Len(p.nodes) + 1]]
  IN [nodes |-> Append(p.nodes, node),
      children |-> Append(linked, [i \in DOMAIN Pieces(frontier, m, piece) |-> 0]),
      forks |-> IF fork THEN Append(p.forks, [offset |-> p.ofr, count |-> Gates(m, piece)])
                ELSE p.forks,
      swo |-> p.swo + FilterBits(piece),
      ofr |-> p.ofr + Gates(m, piece)]

\* A call made by the node parent, for its child of this index.
Call(parent, index, piece) == [parent |-> parent, index |-> index, piece |-> piece]
CallsFor(parent, pieces) == [i \in DOMAIN pieces |-> Call(parent, i, pieces[i])]

-----------------------------------------------------------------------------
(* ThreadShare: the part of the threads that the left half of a group gets. *)

ThreadShare(budget, left, total) ==
  Larger(1, Smaller(budget - 1, (budget * left) \div total))

=============================================================================
