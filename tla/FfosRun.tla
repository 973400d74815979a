------------------------------- MODULE FfosRun -------------------------------
(***************************************************************************)
(* The parallel writer and reader of FFOS_FR (FFOS_FR.cpp,                 *)
(* ParallelPlan.tcc and ParallelRead.tcc) on a pool of threads.  Offline,  *)
(* the nodes of the plan write the control tapes and hand the memberships  *)
(* of their children down in workspaces; online, they apply the tapes and  *)
(* hand the records down.  RunPlanGroups shares the children of a node out *)
(* among a range of threads, forking at every split (ForkTree models the   *)
(* forks, and what they do with exceptions).                               *)
(*                                                                         *)
(* A thread is a stack of calls.  The content of a buffer, of a bit of a   *)
(* tape and of a block of the output is the node it was made for.          *)
(***************************************************************************)
EXTENDS FfosPlan

CONSTANTS
  MaxN, MaxK,   \* bounds: the records and the samples
  MaxThreads,   \* bound: the threads
  MinBlocks     \* FFOS_FR_PAR_MIN_BLOCKS

ASSUME RunAssumption ==
  /\ MaxN \in Nat \ {0} /\ MaxK \in Nat \ {0} /\ MaxThreads \in Nat \ {0}
  /\ MinBlocks \in Nat

VARIABLES
  shape,     \* the public dimensions: n, m, k, the frontier and the threads
  plan,      \* the plan
  todo,      \* the calls of Add that are still to be made, the next one first
  stage,     \* "plan", "write", "read" or "done"
  stack,     \* the calls of every thread, the running one last
  space,     \* the workspaces of every thread and depth
  swo, ofr,  \* the tapes
  out        \* the output

vars == <<shape, plan, todo, stage, stack, space, swo, ofr, out>>

-----------------------------------------------------------------------------
(* The plan.                                                                *)

Nodes == DOMAIN plan.nodes
Node(id) == plan.nodes[id]
ChildrenOf(id) == plan.children[id]
IsLeaf(id) == Leaf(Node(id).n, shape.m, Node(id).k)
IsFork(id) == Fork(Node(id).n, shape.m, Node(id).k)

Span(first, length) == first .. first + length - 1

\* The parts of the tapes and of the output that belong to a node; those of the
\* SWO tape to the node at the end of the edge.
OfrSpan(id) == Span(plan.forks[Node(id).metadata].offset, plan.forks[Node(id).metadata].count)
SwoSpan(id) == Span(Node(id).position, IF Node(id).filter THEN Node(id).parent_n ELSE 0)
Slice(id) == Span(Node(id).output, shape.m * Node(id).k)

Fill(tape, places, id) == [i \in DOMAIN tape |-> IF i \in places THEN id ELSE tape[i]]

-----------------------------------------------------------------------------
(* Threads.                                                                 *)

Thread == 0 .. shape.threads - 1

\* The indices of a context's workspaces.
Depth == 0 .. WorkspaceDepth[shape.k]

Top(t) == Last(stack[t])
Busy(t) == stack[t] # <<>>

\* Where a node's input is.
Root == [at |-> "root"]
Output == [at |-> "output"]
Buffer(t, depth, name) == [at |-> "space", thread |-> t, depth |-> depth, name |-> name]
Buffers == {Buffer(t, depth, name) :
              t \in Thread, depth \in Depth, name \in {"left", "right", "child"}}

\* What the code finds there is the input of id.
Holds(input, id) ==
  \/ input.at = "root" /\ id = 1
  \/ input.at = "output" /\ \A b \in Slice(id) : out[b] = id
  \/ input.at = "space" /\ space[input] = id

\* Calls: of WriteNode or ReadParallelNode, of RunPlanGroups for the children
\* first to end of id, and of Fork while its left branch runs.
Visit(id, input, depth, budget) ==
  [call |-> "visit", id |-> id, input |-> input, depth |-> depth, budget |-> budget]
Groups(id, input, depth, budget, first, end, home) ==
  [call |-> "groups", id |-> id, input |-> input, depth |-> depth, budget |-> budget,
   first |-> first, end |-> end, home |-> home]
Joining(t) == [call |-> "join", thread |-> t]

NoSpace == [b \in Buffers |-> 0]

\* The frontier that FFOS_C computes, whether or not it is accepted, and every
\* other that is: where the parts start.
Frontiers(n, m, k) ==
  {<<>>, Frontier(n, m, k)} \cup {f \in {LET s == SetToSortSeq(S \cup {0, k}, <)
                      IN [i \in 1 .. Len(s) - 1 |->
                            [start |-> s[i], count |-> s[i + 1] - s[i]]]
                      : S \in SUBSET (1 .. k - 1)} :
                     f \in Seq([start : Nat, count : Nat]) /\ FrontierOK(f, n, m, k)}

Init ==
  /\ \E n \in 1 .. MaxN, k \in 1 .. MaxK :
       \E m \in 1 .. n :
         \E f \in Frontiers(n, m, k),
            threads \in IF n < MinBlocks THEN {1} ELSE 1 .. Smaller(k, MaxThreads) :
           /\ shape = [n |-> n, m |-> m, k |-> k, frontier |-> f, threads |-> threads]
           /\ todo = <<Call(0, 0, Piece(n, k, 0, 0))>>
  /\ plan = NoPlan
  /\ stage = "plan"
  /\ stack = [t \in Thread |-> <<>>]
  /\ space = NoSpace
  /\ swo = <<>> /\ ofr = <<>>
  /\ out = [b \in Span(0, shape.m * shape.k) |-> 0]

-----------------------------------------------------------------------------
(* Stages.                                                                  *)

\* The edges of the node that a call adds.
FrontierOf(call) == IF call.parent = 0 THEN shape.frontier ELSE <<>>

\* One call of Add in BuildControls, and alike in ReadParallel, which a frontier
\* that CheckFrontier refuses does not reach.
PlanNode ==
  /\ stage = "plan" /\ todo # <<>>
  /\ FrontierOK(shape.frontier, shape.n, shape.m, shape.k)
  /\ LET call == Head(todo)
     IN /\ plan' = Add(plan, FrontierOf(call), shape.m, call)
        /\ todo' = CallsFor(Len(plan.nodes) + 1, Pieces(FrontierOf(call), shape.m, call.piece))
                      \o Tail(todo)
  /\ UNCHANGED <<shape, stage, stack, space, swo, ofr, out>>

\* Thread 0 begins with the root.
Enter(next) ==
  /\ stage' = next
  /\ stack' = [stack EXCEPT ![0] = <<Visit(1, Root, 0, shape.threads)>>]
  /\ space' = NoSpace

\* BuildControls, ReadParallel and ApplyKnownControls, with tapes as long as the plan.
NextStage ==
  /\ \A t \in Thread : ~ Busy(t)
  /\ \/ /\ stage = "plan" /\ todo = <<>>
        /\ Enter("write")
        /\ swo' = [i \in Span(0, plan.swo) |-> 0]
        /\ ofr' = [i \in Span(0, plan.ofr) |-> 0]
     \/ /\ stage = "write"
        /\ Enter("read")
        /\ UNCHANGED <<swo, ofr>>
     \/ /\ stage = "read"
        /\ stage' = "done"
        /\ UNCHANGED <<stack, space, swo, ofr>>
  /\ UNCHANGED <<shape, plan, todo, out>>

-----------------------------------------------------------------------------
(* The nodes.                                                               *)

Becomes(t, calls) == stack' = [stack EXCEPT ![t] = Front(@) \o calls]

Children(t, f) ==
  Becomes(t, <<Groups(f.id, f.input, f.depth, f.budget, 1,
                      Len(ChildrenOf(f.id)) + 1, t)>>)

Side(i) == IF i = 1 THEN "left" ELSE "right"

\* Where a fork puts the memberships of a half, if they are ever looked at.
Projected(t, f, i) ==
  IF IsLeaf(ChildrenOf(f.id)[i]) THEN {} ELSE {Buffer(t, f.depth, Side(i))}

\* WriteNode of a fork: it writes its part of the tape and projects the
\* memberships of its two halves.
WriteFork(t, f) ==
  /\ stage = "write" /\ IsFork(f.id)
  /\ ofr' = Fill(ofr, OfrSpan(f.id), f.id)
  /\ LET half(i) == ChildrenOf(f.id)[i]
     IN space' = Fill(Fill(space, Projected(t, f, 1), half(1)), Projected(t, f, 2), half(2))
  /\ Children(t, f)
  /\ UNCHANGED <<swo, out>>

\* ReadParallelNode of a fork: it moves its records to its slice of the output
\* and routes them there.
ReadFork(t, f) ==
  /\ stage = "read" /\ IsFork(f.id)
  /\ out' = Fill(Fill(out, Slice(ChildrenOf(f.id)[1]), ChildrenOf(f.id)[1]),
                 Slice(ChildrenOf(f.id)[2]), ChildrenOf(f.id)[2])
  /\ Children(t, f)
  /\ UNCHANGED <<space, swo, ofr>>

\* A leaf of the reader puts its sample out.
ReadLeaf(t, f) ==
  /\ stage = "read" /\ IsLeaf(f.id)
  /\ out' = Fill(out, Slice(f.id), f.id)
  /\ Becomes(t, <<>>)
  /\ UNCHANGED <<space, swo, ofr>>

WriteLeaf(t, f) ==
  /\ stage = "write" /\ IsLeaf(f.id)
  /\ Becomes(t, <<>>)
  /\ UNCHANGED <<space, swo, ofr, out>>

Filter(t, f) ==
  /\ ~ IsFork(f.id) /\ ~ IsLeaf(f.id)
  /\ Children(t, f)
  /\ UNCHANGED <<space, swo, ofr, out>>

VisitNode(t) ==
  /\ Busy(t) /\ Top(t).call = "visit"
  /\ \/ WriteFork(t, Top(t)) \/ ReadFork(t, Top(t))
     \/ ReadLeaf(t, Top(t)) \/ WriteLeaf(t, Top(t))
     \/ Filter(t, Top(t))
  /\ UNCHANGED <<shape, plan, todo, stage>>

-----------------------------------------------------------------------------
(* RunPlanGroups.                                                           *)

Size(f) == f.end - f.first
Parallel(f) == Size(f) > 1 /\ f.budget > 1 /\ Node(f.id).n >= MinBlocks
InGroups(t) == Busy(t) /\ Top(t).call = "groups"

\* f for the children first to end only.
Some(f, first, end, budget) == Groups(f.id, f.input, f.depth, budget, first, end, f.home)

\* Mutant: the loop does not advance.
RestStuck(f) == IF Size(f) = 1 THEN <<>> ELSE <<Some(f, f.first, f.end, 1)>>

\* What is left to do of f after its first child, which gets this budget.
Rest(f) == IF Size(f) = 1 THEN <<>> ELSE <<Some(f, f.first + 1, f.end, 1)>>
Budget(f) == IF Size(f) = 1 THEN f.budget ELSE 1

\* The child of a fork finds its input in the workspace of the thread that ran
\* the fork, or in its slice of the output.
ForkEdge(t, f) ==
  /\ IsFork(f.id)
  /\ LET input == IF stage = "read" THEN Output
                  ELSE Buffer(f.home, f.depth, Side(f.first))
     IN Becomes(t, Append(Rest(f), Visit(ChildrenOf(f.id)[f.first], input,
                                         f.depth + 1, Budget(f))))
  /\ UNCHANGED <<space, swo, ofr, out>>

\* Mutant: the workspace of the thread that runs the parent.
WorkspaceOfParent(t, f) == f.home

\* Context: a branch works in the workspaces of its own thread.
Workspace(t, f) == t

\* A branch of a filter makes the child's input from the parent's; the writer
\* writes the branch's part of the tape, and is done with a single sample.
FilterEdge(t, f) ==
  LET child == ChildrenOf(f.id)[f.first]
      w == Workspace(t, f)
      visit == Visit(child, Buffer(w, f.depth, "child"), f.depth + 1, Budget(f))
  IN /\ ~ IsFork(f.id)
     /\ space' = Fill(space, {Buffer(w, f.depth, "child")}, child)
     /\ swo' = IF stage = "write" THEN Fill(swo, SwoSpan(child), child) ELSE swo
     /\ Becomes(t, IF stage = "write" /\ Node(child).k = 1 THEN Rest(f)
                   ELSE Append(Rest(f), visit))
     /\ UNCHANGED <<ofr, out>>

RunChild(t) ==
  /\ InGroups(t) /\ ~ Parallel(Top(t))
  /\ ForkEdge(t, Top(t)) \/ FilterEdge(t, Top(t))
  /\ UNCHANGED <<shape, plan, todo, stage>>

Middle(f) == f.first + Size(f) \div 2
Samples(f, first, end) ==
  LET k == [i \in DOMAIN ChildrenOf(f.id) |-> Node(ChildrenOf(f.id)[i]).k]
  IN MapThenSumSet(LAMBDA i : k[i], first .. end - 1)
LeftThreads(f) ==
  ThreadShare(f.budget, Samples(f, f.first, Middle(f)), Samples(f, f.first, f.end))
RightId(t, f) == t + LeftThreads(f)

\* Mutant: the right branch is given all the threads.
RightBudgetWhole(f) == f.budget

RightBudget(f) == f.budget - LeftThreads(f)

\* The halves of the children run on disjoint ranges of threads.
Split(t) ==
  /\ InGroups(t) /\ Parallel(Top(t))
  /\ LET f == Top(t)
         left == Some(f, f.first, Middle(f), LeftThreads(f))
         right == Some(f, Middle(f), f.end, RightBudget(f))
     IN /\ RightId(t, f) \in Thread /\ ~ Busy(RightId(t, f))
        /\ stack' = [stack EXCEPT ![t] = Front(@) \o <<Joining(RightId(t, f)), left>>,
                                  ![RightId(t, f)] = <<right>>]
  /\ UNCHANGED <<shape, plan, todo, stage, space, swo, ofr, out>>

Join(t) ==
  /\ Busy(t) /\ Top(t).call = "join" /\ ~ Busy(Top(t).thread)
  /\ Becomes(t, <<>>)
  /\ UNCHANGED <<shape, plan, todo, stage, space, swo, ofr, out>>

-----------------------------------------------------------------------------

Step(t) == t \in Thread /\ (VisitNode(t) \/ RunChild(t) \/ Split(t) \/ Join(t))

Next == PlanNode \/ NextStage \/ \E t \in Thread : Step(t)

Spec == Init /\ [][Next]_vars /\ WF_vars(PlanNode) /\ WF_vars(NextStage)
             /\ \A t \in 0 .. MaxThreads - 1 : WF_vars(Step(t))

-----------------------------------------------------------------------------
(* Properties.                                                              *)

Calls(t) == {stack[t][i] : i \in DOMAIN stack[t]}

\* Type invariant.
TypeOK ==
  /\ stage \in {"plan", "write", "read", "done"}
  /\ DOMAIN stack = Thread
  /\ \A t \in Thread : \A c \in Calls(t) :
       /\ c.call \in {"visit", "groups", "join"}
       /\ c.call = "join" => c.thread \in Thread
       /\ c.call # "join" => c.id \in Nodes /\ c.budget \in 1 .. shape.threads
       /\ c.call = "groups" =>
            /\ c.home \in Thread
            /\ {c.first, c.end - 1} \subseteq DOMAIN ChildrenOf(c.id)
  /\ space \in [Buffers -> Nodes \cup {0}]
  /\ stage # "plan" => /\ swo \in [Span(0, plan.swo) -> Nodes \cup {0}]
                       /\ ofr \in [Span(0, plan.ofr) -> Nodes \cup {0}]
  /\ out \in [Span(0, shape.m * shape.k) -> Nodes \cup {0}]

\* Whoever still has to read an input finds it as it was made: no thread, and no
\* later sibling on the same thread, reuses a workspace or a slice of the output
\* too early, and no call goes deeper than there are workspaces (FFOS_FR.cpp:408-420
\* and 433-467, ParallelRead.tcc:52-82, WorkspaceDepth of FFOS_C/helper.cpp).
InputIntact ==
  \A t \in Thread : \A c \in Calls(t) :
    /\ c.call = "groups" /\ (stage = "write" \/ ~ IsFork(c.id)) => c.depth \in Depth
    /\ c.call = "visit" /\ (stage = "read" \/ ~ IsLeaf(c.id)) => Holds(c.input, c.id)
    /\ c.call = "groups" /\ ~ IsFork(c.id) => Holds(c.input, c.id)
    /\ c.call = "groups" /\ IsFork(c.id) =>
         \A i \in c.first .. c.end - 1 :
           LET child == ChildrenOf(c.id)[i]
           IN IF stage = "read" THEN Holds(Output, child)
              ELSE IsLeaf(child) \/
                   Holds(Buffer(c.home, c.depth, Side(i)), child)

\* A fork always finds its right thread in range and idle, so that dispatch
\* never refuses it (ParallelPlan.tcc:97-101, ThreadPool.cpp:148-163).
ForksFit ==
  \A t \in Thread : InGroups(t) /\ Parallel(Top(t)) =>
    /\ RightId(t, Top(t)) \in Thread
    /\ ~ Busy(RightId(t, Top(t)))
    /\ RightBudget(Top(t)) >= 1

\* Once the writers have joined, every part of the tapes holds what the node to
\* which the readers' plan gives it has written, and nothing is unwritten.
TapesComplete ==
  stage \in {"read", "done"} =>
    /\ \A id \in Nodes : /\ IsFork(id) => \A i \in OfrSpan(id) : ofr[i] = id
                        /\ \A i \in SwoSpan(id) : swo[i] = id
    /\ 0 \notin {swo[i] : i \in DOMAIN swo} \cup {ofr[i] : i \in DOMAIN ofr}

\* In the end every sample has its place in the output, and no other has it.
SamplesDelivered ==
  stage = "done" =>
    \A j \in 0 .. shape.k - 1 : \E id \in Nodes :
      /\ IsLeaf(id) /\ Slice(id) = Span(shape.m * j, shape.m)
      /\ \A b \in Slice(id) : out[b] = id

\* Every run of the writer and the reader ends: no frontier that the program
\* computes is refused, and no fork waits for a branch that never ends.
Ends == <>(stage = "done")

=============================================================================
