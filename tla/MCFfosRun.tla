------------------------------ MODULE MCFfosRun ------------------------------
(***************************************************************************)
(* FfosRun for TLC, with the serial code's layout of the tapes to compare. *)
(***************************************************************************)
EXTENDS FfosRun, FfosLayout

\* The spans of the edges that filter, in the order of the nodes at their ends.
FilterSpans(nodes) ==
  LET spans[i \in 0 .. Len(nodes)] ==
        IF i = 0 THEN <<>>
        ELSE IF nodes[i].filter
        THEN Append(spans[i - 1], [offset |-> nodes[i].position, count |-> nodes[i].parent_n])
        ELSE spans[i - 1]
  IN spans[Len(nodes)]

\* The plan lays the tapes out as the serial writer and reader go through them,
\* span by span, and as long as CountNode has them allocated
\* (FFOS_FR.cpp:761-770 and 871-873).
LayoutAgrees ==
  stage = "plan" /\ todo = <<>> =>
    LET serial == Serial(shape.frontier, shape.n, shape.m, shape.k)
        count == Count(shape.frontier, shape.n, shape.m, shape.k)
    IN /\ serial = [swo |-> plan.swo, ofr |-> plan.ofr, forks |-> plan.forks,
                    filters |-> FilterSpans(plan.nodes)]
       /\ count = [swo |-> plan.swo, ofr |-> plan.ofr]

=============================================================================
