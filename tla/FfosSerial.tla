------------------------------ MODULE FfosSerial ------------------------------
(***************************************************************************)
(* The serial samplers: FFOS_C, FFOS_C_Opt and FFOS_FR with one thread     *)
(* (SubSample_v2).                                                         *)
(*                                                                         *)
(* Offline, from which records every sample has, each node of the tree     *)
(* writes a bit for every record of its parent that says whether one of    *)
(* the node's samples has it, and compacts its memberships; online, the    *)
(* records are compacted by the same bits.  FFOS_C copies a node's input   *)
(* to the workspace of its depth.  FFOS_C_Opt goes through pairs of        *)
(* siblings, projects a parent's rows in place, keeps one backup for the   *)
(* right sibling and, online, works in the output itself.  FFOS_FR does as *)
(* FFOS_C until a node's samples fill its records, and from there on       *)
(* routes the rows in place, and the records in the output, through forks. *)
(***************************************************************************)
EXTENDS FfosLayout, MarkRows

CONSTANTS
  MaxRecords, MaxSamples    \* bounds: the records and the samples

VARIABLES
  sampler,   \* "FFOS_C", "FFOS_C_Opt" or "FFOS_FR"
  dims,      \* n, m, k and the root nodes
  member,    \* the samples that have a record
  phase,     \* "write", "read" or, when a check of the reader fails, "failed"
  calls,     \* the calls, the running one last
  mem,       \* the buffers: of words offline, of records online
  tape,      \* the control bits
  position,  \* the next of them
  ofr,       \* the controls of the forks
  ofr_position,  \* the next of them
  tree,      \* the nodes of FFOS_C_OptControls; the forks of FFOS_FRControls
  forks,     \* how many of the latter have been read
  samples,   \* the output
  written    \* the blocks of it that are written

fork_vars == <<ofr, ofr_position, forks>>
sampling_vars == <<sampler, dims, member, phase, calls, mem, tape, position,
                   fork_vars, tree, samples, written>>

\* What no record is called.
None == -1

-----------------------------------------------------------------------------
(* A node's rows.                                                           *)

\* UnpackControlBitsToBoolArray
Unpacked(offset, n) == [r \in 0 .. n - 1 |-> tape[offset + r]]

\* CompactMarkToWorkspaceAndControl, ProjectMarkToWorkspace and ProjectCompact:
\* the rows of from, of so many words, projected to those of to on a node's
\* samples, their flags written on the tape, and compacted by them; without flags
\* when the node keeps every record.  b is the buffers and the tape.
ProjectCompact(b, from, words, to, node) ==
  LET width == MarkWords(node.count)
      mem_ == Project(b.mem, from, 0, words, to, node.n, node.start, node.count)
      flags == Flags(mem_[to], node.n, width)
  IN IF NodeCapacity(node.n, dims.m, node.count) < node.n
     THEN [mem |-> [mem_ EXCEPT ![to] = Compact(@, 0, node.n, width, flags)],
           tape |-> Copied(b.tape, node.offset, flags, 0, node.n)]
     ELSE [mem |-> mem_, tape |-> b.tape]

-----------------------------------------------------------------------------
(* The tree.                                                                *)

RootNodes(frontier, k) == IF frontier # << >> THEN frontier
                          ELSE IF k = 1 THEN <<[start |-> 0, count |-> 1]>> ELSE Halves(k)

\* FFOS_CControlCount
RECURSIVE ControlBits(_, _, _)
ControlBits(parts, n, m) ==
  FoldLeft(LAMBDA bits, part :
             LET nv == NodeCapacity(n, m, part.count)
             IN bits + (IF nv < n THEN n ELSE 0)
                     + (IF part.count > 1 THEN ControlBits(Halves(part.count), nv, m) ELSE 0),
           0, parts)

\* AddNode: the nodes in front order, with the positions of their bits.
RECURSIVE AddNode(_, _, _, _, _)
AddNode(p, n, m, start, count) ==
  LET id == Len(p.nodes) + 1
      here == [nodes |-> Append(p.nodes, [n |-> n, start |-> start, count |-> count,
                                          offset |-> p.position, left |-> 0, right |-> 0]),
               position |-> p.position + (IF m * count < n THEN n ELSE 0)]
      left == AddNode(here, m * count, m, 0, count \div 2)
      right == AddNode(left, m * count, m, count \div 2, count - count \div 2)
  IN IF count = 1 THEN here
     ELSE [right EXCEPT !.nodes[id].left = id + 1,
                        !.nodes[id].right = Len(left.nodes) + 1]

\* The nodes of all roots and, last, the roots' indices.
Plan(d) ==
  FoldLeft(LAMBDA p, part :
             LET q == AddNode([nodes |-> p.nodes, position |-> p.position],
                              d.n, d.m, part.start, part.count)
             IN [nodes |-> q.nodes, position |-> q.position,
                 roots |-> Append(p.roots, Len(p.nodes) + 1)],
           [nodes |-> << >>, position |-> 0, roots |-> << >>], d.roots)

\* The lengths of the tapes.
TapeLengths(s, d) ==
  IF s = "FFOS_FR" THEN Count(d.roots, d.n, d.m, d.k)
  ELSE [swo |-> ControlBits(d.roots, d.n, d.m), ofr |-> 0]

\* k samples that fill n exactly need no compaction at the root.
ExactRoot(d) == d.m * d.k = d.n /\ d.k > 1

-----------------------------------------------------------------------------
(* Buffers and calls.                                                       *)

\* The memberships or the data, the backup of FFOS_C_Opt, and the workspaces of
\* a depth.
Buffers(k) == ({"root", "backup"} \X {0}) \cup ({"child", "left", "right"} \X (0 .. WorkspaceDepth[k]))
RootBuffer == <<"root", 0>>
Backup == <<"backup", 0>>

\* FFOS_CControlWrite and FFOS_CControlRead: where a node's n rows are and the
\* parts of it that are left.
Visit(from, words, n, parts, depth) ==
  [call |-> "visit", from |-> from, words |-> words, n |-> n, parts |-> parts, depth |-> depth]
\* The loop over the roots.
Roots(ids) == [call |-> "roots", ids |-> ids]
\* WritePair and ReadPair, of rows in a buffer or of records from at on.
Pair(from, words, at, left, right, depth) ==
  [call |-> "pair", from |-> from, words |-> words, at |-> at,
   left |-> left, right |-> right, depth |-> depth]
\* A fork of FFOS_FR: its rows, or its records, are in a buffer.
ForkCall(from, words, n, k, depth) ==
  [call |-> "fork", from |-> from, words |-> words, n |-> n, k |-> k, depth |-> depth]
\* ReadPreparedForkTreeInPlace: a fork of the records from at on in the output,
\* none for a leaf.
Tree(at, n, k) == IF k = 1 THEN << >> ELSE <<[call |-> "tree", at |-> at, n |-> n, k |-> k]>>
\* The pair of a node's children, none for a leaf.
Children(from, at, id, depth) ==
  IF tree[id].count = 1 THEN << >>
  ELSE <<Pair(from, MarkWords(tree[id].count), at, tree[id].left, tree[id].right, depth)>>

\* The call that runs, and what is left to do after it.
Current == Last(calls)
Calling(call) == calls # << >> /\ Current.call = call
Rest(f) == Front(calls) \o f

\* The node of count samples whose n rows or records are in a buffer.
Below(s, d, from, n, parts, count, depth) ==
  IF s = "FFOS_FR" /\ Fork(n, d.m, count)
  THEN <<ForkCall(from, MarkWords(count), n, count, depth)>>
  ELSE <<Visit(from, MarkWords(count), n, parts, depth)>>

\* The only node of FFOS_FR is a leaf.
RootLeaf(s, d) == s = "FFOS_FR" /\ Leaf(d.n, d.m, d.k)

\* The calls of a pass, s being the sampler's name.
Start(s, d) ==
  IF RootLeaf(s, d) THEN << >>
  ELSE IF s # "FFOS_C_Opt" THEN Below(s, d, RootBuffer, d.n, d.roots, d.k, 0)
  ELSE LET roots == Plan(d).roots
       IN IF ExactRoot(d) THEN <<Pair(RootBuffer, MarkWords(d.k), 0, roots[1], roots[2], 0)>>
          ELSE <<Roots(roots)>>

-----------------------------------------------------------------------------

\* Every sample has m of the records; a frontier is computed when the samples
\* do not fit the records.
Init ==
  /\ sampler \in {"FFOS_C", "FFOS_C_Opt", "FFOS_FR"}
  /\ \E n \in 1 .. MaxRecords, k \in 1 .. MaxSamples : \E m \in 1 .. n :
       /\ dims = [n |-> n, m |-> m, k |-> k,
                  roots |-> RootNodes(IF m * k > n THEN Frontier(n, m, k) ELSE << >>, k)]
       /\ \E drawn \in Draws(n, m, k) :
            member = [r \in 0 .. n - 1 |-> {j \in 0 .. k - 1 : r \in drawn[j]}]
       /\ mem = [b \in Buffers(k) |->
                   IF b = RootBuffer THEN Rows(member, n, k)
                   ELSE [i \in 0 .. n * MarkWords(k) - 1 |-> {}]]
  /\ phase = "write"
  /\ tree = (IF sampler = "FFOS_C_Opt" THEN Plan(dims).nodes ELSE << >>)
  /\ calls = Start(sampler, dims)
  /\ tape = [i \in 0 .. TapeLengths(sampler, dims).swo - 1 |-> FALSE]
  /\ ofr = [i \in 0 .. TapeLengths(sampler, dims).ofr - 1 |-> None]
  /\ ofr_position = 0 /\ forks = 0
  /\ position = 0
  /\ samples = << >>
  /\ written = 0

-----------------------------------------------------------------------------
(* FFOS_C, and the filters of FFOS_FR.                                      *)

\* The next part of the node that is visited, its capacity and the calls after
\* it: its own parts, from its workspace, before the node's.
Part == Head(Current.parts)
Capacity == NodeCapacity(Current.n, dims.m, Part.count)
Child == <<"child", Current.depth>>

AfterPart ==
  Rest((IF Len(Current.parts) = 1 THEN << >> ELSE <<[Current EXCEPT !.parts = Tail(@)]>>)
       \o (IF Part.count = 1 THEN << >>
           ELSE Below(sampler, dims, Child, Capacity, Halves(Part.count), Part.count,
                      Current.depth + 1)))

\* What FFOS_CControlWrite, FFOS_CControlRead, WriteNode and ReadNode add to the position.
Advance == position' = position + (IF Capacity < Current.n THEN Current.n ELSE 0)

\* One part in FFOS_CControlWrite or WriteNode.
WritePart ==
  /\ phase = "write" /\ Calling("visit")
  /\ LET node == [n |-> Current.n, start |-> Part.start, count |-> Part.count,
                  offset |-> position]
         after == ProjectCompact([mem |-> mem, tape |-> tape],
                                 Current.from, Current.words, Child, node)
     IN mem' = after.mem /\ tape' = after.tape
  /\ Advance
  /\ calls' = AfterPart
  /\ UNCHANGED <<sampler, dims, member, phase, tree, samples, written,
                fork_vars>>

\* One part in FFOS_CControlRead or ReadNode.
ReadPart ==
  /\ phase = "read" /\ Calling("visit")
  /\ LET n == Current.n
         copy == Copied(mem[Child], 0, mem[Current.from], 0, n)
         child == IF Capacity < n THEN Compact(copy, 0, n, 1, Unpacked(position, n)) ELSE copy
     IN /\ mem' = [mem EXCEPT ![Child] = child]
        /\ IF Part.count = 1
           THEN /\ samples' = Copied(samples, written, child, 0, dims.m)
                /\ written' = written + dims.m
           ELSE UNCHANGED <<samples, written>>
  /\ Advance
  /\ calls' = AfterPart
  /\ UNCHANGED <<sampler, dims, member, phase, tape, tree, fork_vars>>

-----------------------------------------------------------------------------
(* The forks of FFOS_FR.                                                    *)

\* HasMembership: the rows of f that have one of count bits from start on.
HasMembership(f, n, words, start, count) ==
  {r \in 0 .. n - 1 :
     \E w \in 0 .. MarkWords(count) - 1 : Slice(f, r * words, words, start, count, w) # {}}

\* The first so many of a set of rows.
FirstOf(rows, count) == {r \in rows : Cardinality({s \in rows : s < r}) < count}

\* Where the rows of a fork come from.  A row goes to the halves that need it;
\* OFRNormalizeOwnedInPlace fills the places left over in the left half, then
\* those in the right, with rows that neither needs.  The network puts all of
\* the left half's in front of all of the right's; that either come in reverse
\* stands for whatever order it leaves them in.
Routed(f, n, words, left_n, left_k, right_k) ==
  LET has_left == HasMembership(f, n, words, 0, left_k)
      has_right == HasMembership(f, n, words, left_k, right_k)
      neither == (0 .. n - 1) \ (has_left \cup has_right)
      fill_left == FirstOf(neither, left_n - Cardinality(has_left))
      fill_right == FirstOf(neither \ fill_left, n - left_n - Cardinality(has_right))
      descending(rows) == SetToSortSeq(rows, LAMBDA r, s : r > s)
  IN descending(has_left \cup fill_left) \o descending(has_right \cup fill_right)

\* f with its n rows from base on, so many cells wide, taken from those at source.
Route(f, base, n, width, source) ==
  [i \in DOMAIN f |->
     IF i < base \/ i >= base + n * width THEN f[i]
     ELSE f[base + source[(i - base) \div width + 1] * width + ((i - base) % width)]]

\* One fork in WriteNode: its gates are written and its rows routed in place by
\* them; the rows of a half that is no leaf are projected to the half's
\* workspace, and the left half is written before the right.
WriteFork ==
  /\ phase = "write" /\ Calling("fork")
  /\ LET c == Current
         left_k == c.k \div 2
         right_k == c.k - left_k
         left_n == dims.m * left_k
         right_n == c.n - left_n
         count == ControlCount[c.n][left_n]
         source == Routed(mem[c.from], c.n, c.words, left_n, left_k, right_k)
         routed == [mem EXCEPT ![c.from] = Route(@, 0, c.n, c.words, source)]
         left == <<"left", c.depth>>
         right == <<"right", c.depth>>
         one == IF left_k = 1 THEN routed
                ELSE Project(routed, c.from, 0, c.words, left, left_n, 0, left_k)
     IN /\ mem' = (IF right_k = 1 THEN one
                   ELSE Project(one, c.from, left_n, c.words, right, right_n,
                                left_k, right_k))
        /\ ofr' = [x \in DOMAIN ofr |->
                      IF x \in ofr_position .. ofr_position + count - 1 THEN source
                      ELSE ofr[x]]
        /\ ofr_position' = ofr_position + count
        /\ tree' = Append(tree, [offset |-> ofr_position, count |-> count,
                                 n |-> c.n, left_n |-> left_n])
        /\ calls' =
             Rest((IF right_k = 1 THEN << >>
                   ELSE Below(sampler, dims, right, right_n, Halves(right_k), right_k,
                              c.depth + 1))
                  \o (IF left_k = 1 THEN << >>
                      ELSE Below(sampler, dims, left, left_n, Halves(left_k), left_k,
                                 c.depth + 1)))
  /\ UNCHANGED <<sampler, dims, member, phase, tape, position, forks, samples, written>>

\* The first fork of a branch in ReadNode copies its records to the output.
ReadFork ==
  /\ phase = "read" /\ Calling("fork")
  /\ samples' = Copied(samples, written, mem[Current.from], 0, Current.n)
  /\ written' = written + Current.n
  /\ calls' = Rest(Tree(written, Current.n, Current.k))
  /\ UNCHANGED <<sampler, dims, member, phase, mem, tape, position, tree, fork_vars>>

\* ReadPreparedForkTreeInPlace: the next node must be the fork that is read, at
\* its place on the tape; its records are routed in place, then those of the left
\* half, then those of the right.
ReadTree ==
  /\ phase = "read" /\ Calling("tree")
  /\ LET c == Current
         left_k == c.k \div 2
         left_n == dims.m * left_k
         node == tree[forks + 1]
     IN IF /\ forks < Len(tree)
           /\ node = [offset |-> ofr_position, count |-> ControlCount[c.n][left_n],
                      n |-> c.n, left_n |-> left_n]
        THEN /\ samples' = Route(samples, c.at, c.n, 1, ofr[ofr_position])
             /\ ofr_position' = ofr_position + node.count
             /\ forks' = forks + 1
             /\ calls' = Rest(Tree(c.at + left_n, c.n - left_n, c.k - left_k)
                              \o Tree(c.at, left_n, left_k))
             /\ UNCHANGED phase
        ELSE /\ phase' = "failed" /\ calls' = << >>
             /\ UNCHANGED <<samples, ofr_position, forks>>
  /\ UNCHANGED <<sampler, dims, member, mem, tape, position, ofr, tree, written>>

-----------------------------------------------------------------------------
(* FFOS_C_Opt.                                                              *)

\* One side of a pair in WritePair: projected in place and, unless the node is
\* a leaf, copied to the side's workspace.
Side(b, from, words, id, to) ==
  LET node == tree[id]
      after == ProjectCompact(b, from, words, from, node)
  IN IF node.count = 1 THEN after
     ELSE [after EXCEPT !.mem[to] =
             Copied(@, 0, after.mem[from], 0, dims.m * node.count * MarkWords(node.count))]

\* WritePair: both sides, then the pairs below them, the left one's first.
WritePair ==
  /\ phase = "write" /\ Calling("pair")
  /\ LET p == Current
         backup == [mem EXCEPT ![Backup] =
                      Copied(@, 0, mem[p.from], 0, tree[p.left].n * p.words)]
         one == Side([mem |-> backup, tape |-> tape], p.from, p.words, p.left,
                     <<"left", p.depth>>)
         two == Side(one, Backup, p.words, p.right, <<"right", p.depth>>)
     IN /\ mem' = two.mem /\ tape' = two.tape
        /\ calls' = Rest(Children(<<"right", p.depth>>, 0, p.right, p.depth + 1)
                         \o Children(<<"left", p.depth>>, 0, p.left, p.depth + 1))
  /\ UNCHANGED <<sampler, dims, member, phase, position, tree, samples,
                written, fork_vars>>

\* The next root, and the roots after it.
Root == tree[Head(Current.ids)]
MoreRoots == IF Len(Current.ids) = 1 THEN << >> ELSE <<Roots(Tail(Current.ids))>>
WholeRoot == Root.count = 1 /\ dims.m = dims.n

\* One root in Build; a sample that has every record needs nothing.
WriteRoot ==
  /\ phase = "write" /\ Calling("roots")
  /\ IF WholeRoot THEN calls' = Rest(MoreRoots) /\ UNCHANGED <<mem, tape>>
     ELSE LET after == ProjectCompact([mem |-> mem, tape |-> tape],
                                      RootBuffer, MarkWords(dims.k), <<"child", 0>>, Root)
          IN /\ mem' = after.mem /\ tape' = after.tape
             /\ calls' = Rest(MoreRoots \o Children(<<"child", 0>>, 0, Head(Current.ids), 1))
  /\ UNCHANGED <<sampler, dims, member, phase, position, tree, samples,
                written, fork_vars>>

CompactData(f, base, id) ==
  IF dims.m * tree[id].count = tree[id].n THEN f
  ELSE Compact(f, base, tree[id].n, 1, Unpacked(tree[id].offset, tree[id].n))

\* ReadPair: the records of a pair, from at on in the output, are replaced by
\* those of its left side, and followed by those of its right side.
ReadPair ==
  /\ phase = "read" /\ Calling("pair")
  /\ LET p == Current
         right_at == p.at + dims.m * tree[p.left].count
         backup == CompactData(Copied(mem[Backup], 0, samples, p.at, tree[p.left].n), 0, p.right)
     IN /\ mem' = [mem EXCEPT ![Backup] = backup]
        /\ samples' = Copied(CompactData(samples, p.at, p.left), right_at,
                             backup, 0, dims.m * tree[p.right].count)
        /\ calls' = Rest(Children(RootBuffer, right_at, p.right, p.depth + 1)
                         \o Children(RootBuffer, p.at, p.left, p.depth + 1))
  /\ UNCHANGED <<sampler, dims, member, phase, tape, position, tree, written,
                fork_vars>>

\* One root in FFOS_C_OptControlRead.
ReadRoot ==
  /\ phase = "read" /\ Calling("roots")
  /\ LET backup == CompactData(Copied(mem[Backup], 0, mem[RootBuffer], 0, dims.n),
                               0, Head(Current.ids))
         blocks == dims.m * Root.count
     IN IF WholeRoot
        THEN /\ samples' = Copied(samples, written, mem[RootBuffer], 0, dims.n)
             /\ calls' = Rest(MoreRoots)
             /\ UNCHANGED mem
        ELSE /\ mem' = [mem EXCEPT ![Backup] = backup]
             /\ samples' = Copied(samples, written, backup, 0, blocks)
             /\ calls' = Rest(MoreRoots \o Children(RootBuffer, written, Head(Current.ids), 1))
  /\ written' = written + dims.m * Root.count
  /\ UNCHANGED <<sampler, dims, member, phase, tape, position, tree, fork_vars>>

-----------------------------------------------------------------------------

\* Between the passes: the memberships are given up and the records come.  Two
\* roots of FFOS_C_Opt that fill the records go through the output from the
\* start, and a leaf that is the root of FFOS_FR is copied there.
Online ==
  /\ phase = "write" /\ calls = << >>
  /\ phase' = "read"
  /\ calls' = Start(sampler, dims)
  /\ mem' = [b \in DOMAIN mem |->
               [r \in 0 .. dims.n - 1 |-> IF b = RootBuffer THEN r ELSE None]]
  /\ samples' = [x \in 0 .. dims.m * dims.k - 1 |->
                   IF \/ sampler = "FFOS_C_Opt" /\ ExactRoot(dims)
                      \/ RootLeaf(sampler, dims)
                   THEN x ELSE None]
  /\ written' = (IF RootLeaf(sampler, dims) THEN dims.m ELSE 0)
  /\ position' = 0 /\ ofr_position' = 0
  /\ UNCHANGED <<sampler, dims, member, tape, ofr, tree, forks>>

Next == \/ WritePart \/ ReadPart
        \/ WriteFork \/ ReadFork \/ ReadTree
        \/ WritePair \/ WriteRoot \/ ReadPair \/ ReadRoot
        \/ Online

Spec == Init /\ [][Next]_sampling_vars

-----------------------------------------------------------------------------
(* Properties.                                                              *)

\* No check of the reader fails and, once it has returned, every sample's slice
\* of the output has exactly the m records that were drawn for it, and FFOS_C and
\* FFOS_FR have gone through the whole of their tapes and filled the output, as
\* FFOS_CApply, DecFFOS_C and ApplyKnownControls check.
SerialDelivered ==
  /\ phase # "failed"
  /\ phase = "read" /\ calls = << >> =>
       /\ \A j \in 0 .. dims.k - 1 :
            {samples[x] : x \in j * dims.m .. (j + 1) * dims.m - 1}
              = {r \in 0 .. dims.n - 1 : j \in member[r]}
       /\ sampler # "FFOS_C_Opt" => /\ position = Cardinality(DOMAIN tape)
                                    /\ ofr_position = Cardinality(DOMAIN ofr)
                                    /\ forks = Len(tree)
                                    /\ written = dims.m * dims.k

=============================================================================
