----------------------------- MODULE OFRNetwork -----------------------------
(***************************************************************************)
(* The oblivious fork-routing network of SubSample_v2/OFR/OFR.cpp.         *)
(*                                                                         *)
(* n records carry tags: which of the two outputs, of n_left and n_right   *)
(* records, want a copy.  Offline, a control is written for every gate and *)
(* the rows of memberships are routed along; online, the controls are      *)
(* applied to the payload.  A gate takes two records and makes either of   *)
(* them each of its outputs.  A node of the network is a layer of gates    *)
(* between neighbours and two half-size nodes, on the even and on the odd  *)
(* lanes.  The recursion is a stack of nodes; one step is one node.        *)
(***************************************************************************)
EXTENDS OFRQuota, Sequences, FiniteSets

CONSTANT MaxRouted   \* bound: the records

ASSUME RoutedAssumption == MaxRouted \in Nat

VARIABLES
  n, n_left,  \* the shape: n_right is n - n_left
  wanted,     \* the tags the caller gave
  tags,       \* the tags as they are normalized and balanced
  rows,       \* which record is at each place, offline
  controls,   \* the tape
  data,       \* which record is at each place, online
  position,   \* the controls applied
  stack,      \* the nodes still to do, the next one first
  stage       \* "normalize", "write", "apply" or "done"

routing_vars == <<n, n_left, wanted, tags, rows, controls, data, position, stack, stage>>

Place == 0 .. n - 1

-----------------------------------------------------------------------------
(* Tags and gates.                                                          *)

\* A tag is the set of the outputs that want the record.
Side == {"left", "right"}
Tag == SUBSET Side

Xor(a, b) == (a \cup b) \ (a \cap b)

\* A control is the set of the gate's outputs that take the second record.
Control == SUBSET {"top", "bottom"}

\* Mutant: the fork copies the first record.
GateControlCopiesFirst(x, y, top) ==
  IF top = x THEN {"bottom"} ELSE IF top = y THEN {"top"} ELSE {}

\* GateControlForBalancedPair
GateControl(x, y, top) ==
  IF top = x THEN {"bottom"}
  ELSE IF top = y THEN {"top"}
  ELSE IF "left" \in y THEN {"top", "bottom"} ELSE {}

\* ApplyOFork and RouteMembershipGate
Gate(f, a, b, c) == [f EXCEPT ![a] = IF "top" \in c THEN f[b] ELSE f[a],
                              ![b] = IF "bottom" \in c THEN f[b] ELSE f[a]]

-----------------------------------------------------------------------------
(* Nodes.                                                                   *)

Root == [base |-> 0, stride |-> 1, n |-> n, left |-> n_left]

Lane(nd) == {nd.base + i * nd.stride : i \in 0 .. nd.n - 1}
Gates(nd) == 0 .. nd.n \div 2 - 1
First(nd, g) == nd.base + 2 * g * nd.stride
Second(nd, g) == First(nd, g) + nd.stride

\* A node that routes to one output only has no gates.
Trivial(nd) == nd.left \in {0, nd.n}

\* The two recursive calls.
Children(nd) ==
  LET s == SplitCapacities(nd.n, nd.left)
  IN <<[base |-> nd.base, stride |-> 2 * nd.stride, n |-> s.n_top, left |-> s.top_left],
       [base |-> nd.base + nd.stride, stride |-> 2 * nd.stride, n |-> s.n_bottom,
        left |-> nd.left - s.top_left]>>

-----------------------------------------------------------------------------
(* A layer: the classes of its pairs, the quotas and the new tags.          *)

Diagonal(nd, g) == {tags[First(nd, g)], tags[Second(nd, g)]} = {{"left"}, {"right"}}
Fixed(nd, g) == tags[First(nd, g)] \cap tags[Second(nd, g)]
Variable(nd, g) ==
  IF Diagonal(nd, g) THEN {} ELSE Xor(tags[First(nd, g)], tags[Second(nd, g)])

\* Of an odd node, the record without a pair goes to the top half.
Unpaired(nd, side) ==
  IF nd.n % 2 = 1 /\ side \in tags[nd.base + (nd.n - 1) * nd.stride] THEN 1 ELSE 0

Counts(nd) ==
  [diagonal |-> Cardinality({g \in Gates(nd) : Diagonal(nd, g)}),
   fixed_left |-> Cardinality({g \in Gates(nd) : "left" \in Fixed(nd, g)}),
   fixed_right |-> Cardinality({g \in Gates(nd) : "right" \in Fixed(nd, g)}),
   last_left |-> Unpaired(nd, "left"),
   last_right |-> Unpaired(nd, "right")]

\* CtLessSize of a rank and a quota: a negative quota is a large size_t.
Within(rank, quota) == quota < 0 \/ rank < quota

RankDiagonal(nd, g) == Cardinality({h \in 0 .. g - 1 : Diagonal(nd, h)})
Rank(nd, g, side) == Cardinality({h \in 0 .. g - 1 : side \in Variable(nd, h)})

Quotas(nd, c) ==
  [diagonal |-> QuotaDiagonal(nd.n, nd.left, c),
   left |-> QuotaLeft(nd.n, nd.left, c),
   right |-> QuotaRight(nd.n, nd.left, c)]

\* The tag of a gate's top output, for quotas q and the comparison of a rank
\* with one.
TopTag(nd, q, within(_, _), g) ==
  Fixed(nd, g)
    \cup (IF ~ Diagonal(nd, g) THEN {}
          ELSE IF within(RankDiagonal(nd, g), q.diagonal) THEN {"left"} ELSE {"right"})
    \cup {side \in Variable(nd, g) : within(Rank(nd, g, side), q[side])}

\* The tags of the gate's outputs and its control.  Two records with one place
\* in either output need no quotas.
Output(nd, q, within(_, _), g) ==
  LET x == tags[First(nd, g)]
      y == tags[Second(nd, g)]
      top == TopTag(nd, q, within, g)
  IN IF nd.n = 2
     THEN [top |-> {"left"}, bottom |-> {"right"},
           control |-> {side \in {"top", "bottom"} :
                          (IF side = "top" THEN "left" ELSE "right") \notin x}]
     ELSE [top |-> top, bottom |-> Xor(Xor(x, y), top), control |-> GateControl(x, y, top)]

\* The gate of a place of a node.
GateOf(nd, p) == ((p - nd.base) \div nd.stride) \div 2
Gated(nd, p) == p \in Lane(nd) /\ GateOf(nd, p) \in Gates(nd)

\* A function on places after the gates of a node have acted on it.
Through(nd, f, control(_)) ==
  [p \in Place |->
     IF ~ Gated(nd, p) THEN f[p]
     ELSE LET g == GateOf(nd, p)
          IN Gate(f, First(nd, g), Second(nd, g), control(g))[p]]

\* The tags after a layer whose gates have these outputs.
Retagged(nd, output(_)) ==
  [p \in Place |->
     IF ~ Gated(nd, p) THEN tags[p]
     ELSE LET g == GateOf(nd, p)
          IN IF p = First(nd, g) THEN output(g).top ELSE output(g).bottom]

-----------------------------------------------------------------------------

\* The records that want an output fit in it: the callers see to that.
RoutingInit ==
  /\ n \in 1 .. MaxRouted
  /\ n_left \in 0 .. n
  /\ wanted \in [Place -> Tag]
  /\ Cardinality({p \in Place : "left" \in wanted[p]}) <= n_left
  /\ Cardinality({p \in Place : "right" \in wanted[p]}) <= n - n_left
  /\ tags = wanted
  /\ rows = [p \in Place |-> p]
  /\ data = [p \in Place |-> p]
  /\ controls = << >>
  /\ position = 0
  /\ stack = << >>
  /\ stage = "normalize"

\* OFRNormalizeOwnedInPlace: records that nobody wants take the places left
\* over, the left ones first.
Normalize ==
  /\ stage = "normalize"
  /\ LET free(side, places) == places - Cardinality({p \in Place : side \in wanted[p]})
         rank(p) == Cardinality({q \in 0 .. p - 1 : wanted[q] = {}})
         assign_left == free("left", n_left)
     IN tags' = [p \in Place |->
                   IF wanted[p] # {} THEN wanted[p]
                   ELSE IF rank(p) < assign_left THEN {"left"}
                   ELSE IF rank(p) < assign_left + free("right", n - n_left) THEN {"right"}
                   ELSE {}]
  /\ stack' = <<Root>>
  /\ stage' = "write"
  /\ UNCHANGED <<n, n_left, wanted, rows, controls, data, position>>

\* The nodes that are left when the next one's layer is done.
Rest == IF Head(stack).n = 2 THEN Tail(stack) ELSE Children(Head(stack)) \o Tail(stack)

\* OFRControlWriteAndRouteImpl: one node.
Write ==
  /\ stage = "write"
  /\ stack # << >>
  /\ LET nd == Head(stack)
         c == Counts(nd)
         output(g) == Output(nd, Quotas(nd, c), Within, g)
     IN IF Trivial(nd) THEN stack' = Tail(stack) /\ UNCHANGED <<tags, rows, controls>>
        ELSE /\ tags' = Retagged(nd, output)
             /\ rows' = Through(nd, rows, LAMBDA g : output(g).control)
             /\ controls' = controls \o [i \in 1 .. nd.n \div 2 |-> output(i - 1).control]
             /\ stack' = Rest
  /\ UNCHANGED <<n, n_left, wanted, data, position, stage>>

Written ==
  /\ stage = "write"
  /\ stack = << >>
  /\ stack' = <<Root>>
  /\ stage' = "apply"
  /\ UNCHANGED <<n, n_left, wanted, tags, rows, controls, data, position>>

\* OFRApplyStrided: one node.
Apply ==
  /\ stage = "apply"
  /\ stack # << >>
  /\ LET nd == Head(stack)
     IN IF Trivial(nd) THEN stack' = Tail(stack) /\ UNCHANGED <<data, position>>
        ELSE /\ data' = Through(nd, data, LAMBDA g : controls[position + g + 1])
             /\ position' = position + nd.n \div 2
             /\ stack' = Rest
  /\ UNCHANGED <<n, n_left, wanted, tags, rows, controls, stage>>

Applied ==
  /\ stage = "apply"
  /\ stack = << >>
  /\ stage' = "done"
  /\ UNCHANGED <<n, n_left, wanted, tags, rows, controls, data, position, stack>>

Finished == stage = "done" /\ UNCHANGED routing_vars

RoutingNext == Normalize \/ Write \/ Written \/ Apply \/ Applied \/ Finished

RoutingSpec == RoutingInit /\ [][RoutingNext]_routing_vars

-----------------------------------------------------------------------------
(* Properties.                                                              *)

\* Type invariant.
RoutingTypeOK ==
  /\ n \in 1 .. MaxRouted /\ n_left \in 0 .. n
  /\ wanted \in [Place -> Tag] /\ tags \in [Place -> Tag]
  /\ rows \in [Place -> Place] /\ data \in [Place -> Place]
  /\ \A i \in DOMAIN controls : controls[i] \in Control
  /\ position \in 0 .. Len(controls)
  /\ \A i \in DOMAIN stack : Lane(stack[i]) \subseteq Place /\ stack[i].left \in 0 .. stack[i].n
  /\ stage \in {"normalize", "write", "apply", "done"}

\* Every copy that is wanted is, at every moment, the responsibility of exactly
\* one place, at which the record is: gates neither lose nor duplicate one.
ResponsibilityKept ==
  stage # "normalize" => \A i \in Place : \A side \in wanted[i] :
    Cardinality({p \in Place : rows[p] = i /\ side \in tags[p]}) = 1

\* At the end each record that wants an output is in it, once.
Delivered ==
  stage = "done" => \A i \in Place :
    /\ "left" \in wanted[i] => Cardinality({p \in 0 .. n_left - 1 : data[p] = i}) = 1
    /\ "right" \in wanted[i] => Cardinality({p \in n_left .. n - 1 : data[p] = i}) = 1

\* The tape has the length that the shape alone determines, and applying it
\* uses it up and moves the payload as the rows have been moved.
ReplayAgrees ==
  /\ stage \in {"apply", "done"} => Len(controls) = ControlCount[n][n_left]
  /\ stage = "done" => position = Len(controls) /\ data = rows

=============================================================================
