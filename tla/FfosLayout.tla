----------------------------- MODULE FfosLayout -----------------------------
(***************************************************************************)
(* What the serial code of FFOS_FR does with the tapes, without a plan:    *)
(* how long it has them allocated, and in which order it writes and reads  *)
(* them.  What is done with a node of n records and k samples further down *)
(* is below[k][n].                                                         *)
(***************************************************************************)
EXTENDS FfosPlan

NoBits == [swo |-> 0, ofr |-> 0]

\* CountNode: an edge of the loop.
CountEdge(below, sum, n, m, edge) ==
  LET child_n == NodeCapacity(n, m, edge.count)
      child == below[edge.count][child_n]
  IN [swo |-> sum.swo + (IF child_n < n THEN n ELSE 0) + child.swo,
      ofr |-> sum.ofr + child.ofr]

CountEdges(below, n, m, edges) ==
  LET sum[i \in 0 .. Len(edges)] ==
        IF i = 0 THEN NoBits ELSE CountEdge(below, sum[i - 1], n, m, edges[i])
  IN sum[Len(edges)]

\* CountNode
CountFrom(below, frontier, n, m, k) ==
  IF k = 1 THEN [swo |-> IF n = m THEN 0 ELSE n, ofr |-> 0]
  ELSE IF Fork(n, m, k)
  THEN LET left_n == m * (k \div 2)
           left == below[k \div 2][left_n]
           right == below[k - k \div 2][n - left_n]
       IN [swo |-> left.swo + right.swo,
           ofr |-> ControlCount[n][left_n] + left.ofr + right.ofr]
  ELSE CountEdges(below, n, m, Edges(frontier, k))

CountNode(m) ==
  LET node[k \in Nat \ {0}] == [n \in Nat |-> CountFrom(node, <<>>, n, m, k)]
  IN node

Count(frontier, n, m, k) == CountFrom(CountNode(m), frontier, n, m, k)

-----------------------------------------------------------------------------
\* The positions on the tapes, and the spans so far.
TapeSpan == [offset : Nat, count : Nat]
Layout == [swo : Nat, ofr : Nat, forks : Seq(TapeSpan), filters : Seq(TapeSpan)]
Unwritten == [swo |-> 0, ofr |-> 0, forks |-> <<>>, filters |-> <<>>]

\* The next bits for an edge that filters n records, and the next gates for a fork.
FilterSpan(w, n) ==
  [swo |-> w.swo + n, ofr |-> w.ofr, forks |-> w.forks,
   filters |-> Append(w.filters, [offset |-> w.swo, count |-> n])]
ForkSpan(w, count) ==
  [swo |-> w.swo, ofr |-> w.ofr + count,
   forks |-> Append(w.forks, [offset |-> w.ofr, count |-> count]), filters |-> w.filters]

\* WriteNode and ValidateReadPlanNode, w being the positions and the spans so
\* far: an edge of the loop.
SerialEdge(below, w, n, m, edge) ==
  LET child_n == NodeCapacity(n, m, edge.count)
      here == IF child_n < n THEN FilterSpan(w, n) ELSE w
  IN IF edge.count > 1 THEN below[edge.count][child_n][here] ELSE here

SerialEdges(below, w, n, m, edges) ==
  LET after[i \in 0 .. Len(edges)] ==
        IF i = 0 THEN w ELSE SerialEdge(below, after[i - 1], n, m, edges[i])
  IN after[Len(edges)]

\* WriteNode and ValidateReadPlanNode
SerialFrom(below, w, frontier, n, m, k) ==
  IF Leaf(n, m, k) THEN w
  ELSE IF Fork(n, m, k)
  THEN LET left_n == m * (k \div 2)
           here == ForkSpan(w, ControlCount[n][left_n])
       IN below[k - k \div 2][n - left_n][below[k \div 2][left_n][here]]
  ELSE SerialEdges(below, w, n, m, Edges(frontier, k))

SerialNode(m) ==
  LET node[k \in Nat \ {0}] ==
        [n \in Nat |-> [w \in Layout |-> SerialFrom(node, w, <<>>, n, m, k)]]
  IN node

Serial(frontier, n, m, k) == SerialFrom(SerialNode(m), Unwritten, frontier, n, m, k)

=============================================================================
