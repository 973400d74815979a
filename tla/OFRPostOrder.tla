---------------------------- MODULE OFRPostOrder ----------------------------
(***************************************************************************)
(* The other layouts of the tape of a balanced network on a power of two   *)
(* of records (SubSample_v2/OFR/OFR.cpp).                                   *)
(*                                                                         *)
(* OFRNetwork writes the tape depth first.  Here the tape is either        *)
(* converted, to the order of the levels or to the post-order in which     *)
(* contiguous blocks can be replayed, or written in post-order at once:    *)
(* level by level, with the residues modulo the stride, each of which is a *)
(* node, in tiles, and the place of a control computed by the carries of   *)
(* a counter.  How many gates a vector counts at a time, and how wide its  *)
(* counters are, depends on the length of the nodes.                       *)
(***************************************************************************)
EXTENDS OFRNetwork, TLC

CONSTANTS
  MaxPower,                 \* bound: the records of a balanced network
  ByteValues, ShortValues, IntValues,    \* what the lanes of a vector can hold
  ByteLanes, ShortLanes, IntLanes,       \* how many there are
  PrefixStride, PrefixLength             \* where four gates of a node are one vector

VARIABLES
  order,      \* the layout: "dfs", "level", "converted" or "post"
  words,      \* the words of a row
  stride, residue  \* the level being written in post-order, and its next node

layout_vars == <<order, words, stride, residue>>

\* IsBalancedPowerOfTwo
Powers == {2, 4, 8, 16, 32}
IsBalancedPowerOfTwo(m, left) == m \in Powers /\ left = m \div 2

-----------------------------------------------------------------------------
(* Conversions of a tape that was written depth first.                      *)

\* BuildDfsControlStarts: where the controls of a node begin.
RECURSIVE DfsControlStarts(_, _, _, _)
DfsControlStarts(length, s, r, start) ==
  (s + r :> start) @@
    IF length = 2 THEN << >>
    ELSE LET half == length \div 2
             top == start + half
         IN DfsControlStarts(half, 2 * s, r, top)
              @@ DfsControlStarts(half, 2 * s, r + s, top + ControlCount[half][half \div 2])

\* WritePostOrderFromDfs: the controls of two blocks come before those of the
\* gates between them.
RECURSIVE PostOrderFromDfs(_, _, _, _)
PostOrderFromDfs(source, starts, base, length) ==
  LET half == length \div 2
      own == [i \in 1 .. half |-> source[starts[half + i - 1] + (base \div length) + 1]]
  IN IF length = 2 THEN own
     ELSE PostOrderFromDfs(source, starts, base, half)
            \o PostOrderFromDfs(source, starts, base + half, half) \o own

\* WriteLevelOrderControls: the gates of depth d act at distance 2^d, and are
\* ordered by their block and then by their residue.
LevelOrderFromDfs(source, starts) ==
  [i \in 1 .. Len(source) |->
     LET s == 2 ^ ((i - 1) \div (n \div 2))
         gate == (i - 1) % (n \div 2)
     IN source[starts[s + (gate % s)] + (gate \div s) + 1]]

-----------------------------------------------------------------------------
(* Replaying: blocks of records, of which the gates act across the halves.  *)

RECURSIVE PostOrderBlocks(_, _)
PostOrderBlocks(base, length) ==
  LET half == length \div 2
      own == <<[base |-> base, length |-> length]>>
  IN IF length = 2 THEN own
     ELSE PostOrderBlocks(base, half) \o PostOrderBlocks(base + half, half) \o own

RECURSIVE LevelOrderBlocks(_)
LevelOrderBlocks(length) ==
  IF length > n THEN << >>
  ELSE [b \in 1 .. n \div length |-> [base |-> (b - 1) * length, length |-> length]]
         \o LevelOrderBlocks(2 * length)

\* ApplyContiguousGateRun
AcrossHalves(f, block, tape) ==
  LET half == block.length \div 2
      low(p) == p \in block.base .. block.base + half - 1
      high(p) == p \in block.base + half .. block.base + block.length - 1
  IN [p \in Place |->
        IF low(p) THEN Gate(f, p, p + half, tape[p - block.base + 1])[p]
        ELSE IF high(p) THEN Gate(f, p - half, p, tape[p - half - block.base + 1])[p]
        ELSE f[p]]

-----------------------------------------------------------------------------
(* Writing in post-order.                                                   *)

Depth == CHOOSE d \in 0 .. 5 : 2 ^ d = stride
Length == n \div stride

\* 2 to the number of trailing zeros.
LowBit(a) == CHOOSE b \in {1, 2, 4, 8, 16} : a % b = 0 /\ a % (2 * b) # 0

\* Mutant: the carries of the gate after the next one.
LayerStartEarly ==
  LET start[g \in 0 .. n] ==
        IF g = 0 THEN stride * Depth
        ELSE start[g - 1] + stride * (Depth + 1 + 2 * LowBit(g + 1) - 2)
  IN start

\* Where the controls of gate g of the level's nodes are.
LayerStart ==
  LET start[g \in 0 .. n] ==
        IF g = 0 THEN stride * Depth
        ELSE start[g - 1] + stride * (Depth + 1 + 2 * LowBit(g) - 2)
  IN start

\* The same in pairs, for the first level, by OFRPostOrderPrefixImpl.
PairStart ==
  LET start[g \in 0 .. n] ==
        IF g = 0 THEN 0
        ELSE IF g % 2 = 1 THEN start[g - 1] + 1
        ELSE start[g - 2] + 2 * LowBit(g)
  IN start

\* The nodes that a vector of four gates serves.
Prefixed == stride <= PrefixStride /\ Length >= PrefixLength /\ n < IntValues \div 2

\* ResidueTileSize: the counters, tags and rows of a tile fit 24 KiB.
ResidueTileSize(counter_bytes) ==
  IF words > (24 * 1024) \div 16 THEN 1
  ELSE LET limit == Smaller(256, (24 * 1024) \div (9 * counter_bytes + 2 + 16 * words))
       IN CHOOSE t \in {2 ^ e : e \in 0 .. 8} : t <= Larger(limit, 1) /\ 2 * t > limit

Tile ==
  LET kind == IF Length <= ByteValues THEN [lanes |-> ByteLanes, bytes |-> 1]
              ELSE IF Length <= ShortValues THEN [lanes |-> ShortLanes, bytes |-> 2]
              ELSE IF n < IntValues \div 2 THEN [lanes |-> IntLanes, bytes |-> 4]
              ELSE [lanes |-> 1, bytes |-> 8]
      size == ResidueTileSize(kind.bytes)
  IN Smaller(stride, IF size < kind.lanes THEN ResidueTileSize(8) ELSE size)

NodeAt(r) == [base |-> r, stride |-> stride, n |-> Length, left |-> Length \div 2]

\* One tile: the nodes of some residues, whose gates' outputs are given.
WriteNodes(residues, start, output(_, _)) ==
  LET r(p) == p % stride
      out(p) == output(NodeAt(r(p)), GateOf(NodeAt(r(p)), p))
  IN /\ tags' = [p \in Place |->
                   IF r(p) \notin residues THEN tags[p]
                   ELSE IF p = First(NodeAt(r(p)), GateOf(NodeAt(r(p)), p))
                        THEN out(p).top ELSE out(p).bottom]
     /\ rows' = [p \in Place |->
                   IF r(p) \notin residues THEN rows[p]
                   ELSE Through(NodeAt(r(p)), rows,
                                LAMBDA g : output(NodeAt(r(p)), g).control)[p]]
     /\ controls' = [i \in DOMAIN controls |->
                       LET here == {rg \in residues \X (0 .. Length \div 2 - 1) :
                                      start[rg[2]] + rg[1] + 1 = i}
                       IN IF here = {} THEN controls[i]
                          ELSE LET rg == CHOOSE rg \in here : TRUE
                               IN output(NodeAt(rg[1]), rg[2]).control]
     /\ LET next == residue + Cardinality(residues)
        IN IF next < stride THEN residue' = next /\ UNCHANGED stride
           ELSE residue' = 0 /\ stride' = 2 * stride

Writing == stage = "write" /\ order = "post" /\ stride < n
Unwritten == <<n, n_left, wanted, data, position, stack, stage, order, words>>

Residues == residue .. residue + Tile - 1

\* A tile in vectors whose lanes hold so many values.
WriteTile(values) ==
  /\ Writing /\ ~ Prefixed
  /\ WriteNodes(Residues, LayerStart,
                LAMBDA nd, g : Output(nd, LaneQuotas(nd.n, Counts(nd), values),
                                      LAMBDA a, b : LaneWithin(a, b, values), g))
  /\ UNCHANGED Unwritten

\* Which of them does it, the narrowest that can.
InBytes == Length <= ByteValues /\ Tile >= ByteLanes

InShorts == ~ InBytes /\ Length <= ShortValues /\ Tile >= ShortLanes
InInts == ~ InBytes /\ ~ InShorts /\ n < IntValues \div 2 /\ Tile >= IntLanes

OFRPostOrderTile8 == InBytes /\ WriteTile(ByteValues)
OFRPostOrderTile16 == InShorts /\ WriteTile(ShortValues)
OFRPostOrderTile32 == InInts /\ WriteTile(IntValues)

\* OFRControlPostOrderTiledImpl: a tile that no vector does.
OFRPostOrderScalar ==
  /\ Writing /\ ~ Prefixed /\ ~ InBytes /\ ~ InShorts /\ ~ InInts
  /\ WriteNodes(Residues, LayerStart,
                LAMBDA nd, g : Output(nd, Quotas(nd, Counts(nd)), Within, g))
  /\ UNCHANGED Unwritten

\* OFRPostOrderPrefixImpl: one node, four gates at a time.  It takes from a
\* quota what the earlier fours have, and compares a gate's rank among its four
\* with the rest, which is to compare its rank with the quota.
OFRPostOrderPrefix ==
  /\ Writing /\ Prefixed
  /\ WriteNodes({residue}, IF stride = 1 THEN PairStart ELSE LayerStart,
                LAMBDA nd, g : Output(nd, LaneQuotas(nd.n, Counts(nd), IntValues),
                                      LAMBDA a, b : LaneWithin(a, b, IntValues), g))
  /\ UNCHANGED Unwritten

-----------------------------------------------------------------------------

\* A place of the tape that has not been written.
Missing == {"none"}

\* Tags that ask for exactly the places of a balanced network, every such ones
\* of up to eight records and repeated ones of more.
BalancedTags(m) ==
  LET exact(f) == \A side \in Side :
                    2 * Cardinality({p \in DOMAIN f : side \in f[p]}) = Cardinality(DOMAIN f)
  IN IF m <= 8 THEN {f \in [0 .. m - 1 -> Tag] : exact(f)}
     ELSE LET short == {f \in [0 .. 3 -> Tag] : exact(f)}
          IN {[p \in 0 .. m - 1 |-> f[p % 4]] : f \in short}
               \cup {[p \in 0 .. m - 1 |-> f[p \div (m \div 4)]] : f \in short}

PostInit ==
  \/ RoutingInit /\ order = "dfs" /\ words = 1 /\ stride = 1 /\ residue = 0
  \/ /\ n \in {m \in Powers : m <= MaxPower}
     /\ n_left = n \div 2
     /\ wanted \in BalancedTags(n)
     /\ tags = wanted
     /\ rows = [p \in Place |-> p]
     /\ data = [p \in Place |-> p]
     /\ position = 0
     /\ stage = "write"
     /\ order \in {"level", "converted", "post"}
     /\ words \in (IF order = "post" THEN {1, 600, 2000} ELSE {1})
     /\ stride = 1
     /\ residue = 0
     /\ stack = (IF order = "post" THEN << >> ELSE <<Root>>)
     /\ controls = (IF order = "post" THEN [i \in 1 .. ControlCount[n][n_left] |-> Missing]
                    ELSE << >>)

\* OFRNetwork's own steps.
DepthFirst ==
  /\ order = "dfs"
  /\ Normalize \/ Written \/ Apply
  /\ UNCHANGED layout_vars

WriteDepthFirst == Write /\ order # "post" /\ UNCHANGED layout_vars

\* Written in full, whichever way, the tape is replayed.
Replay(tape, blocks) ==
  /\ controls' = tape
  /\ stack' = blocks
  /\ stage' = "apply"
  /\ UNCHANGED <<n, n_left, wanted, tags, rows, data, position>>
  /\ UNCHANGED layout_vars

Convert ==
  /\ stage = "write" /\ stack = << >>
  /\ IsBalancedPowerOfTwo(n, n_left)
  /\ LET starts == DfsControlStarts(n, 1, 0, 0)
     IN \/ order = "level"
           /\ Replay(LevelOrderFromDfs(controls, starts), LevelOrderBlocks(2))
        \/ order = "converted"
           /\ Replay(PostOrderFromDfs(controls, starts, 0, n), PostOrderBlocks(0, n))

PostWritten ==
  /\ stage = "write" /\ order = "post" /\ stride = n
  /\ Replay(controls, PostOrderBlocks(0, n))

\* ApplyLevelOrderedGates and ApplyPostOrderGates: one block.
ApplyBlock ==
  /\ stage = "apply" /\ order # "dfs"
  /\ stack # << >>
  /\ LET half == Head(stack).length \div 2
     IN /\ data' = AcrossHalves(data, Head(stack), SubSeq(controls, position + 1, position + half))
        /\ position' = position + half
  /\ stack' = Tail(stack)
  /\ UNCHANGED <<n, n_left, wanted, tags, rows, controls, stage>>
  /\ UNCHANGED layout_vars

PostFinished == Finished /\ UNCHANGED layout_vars

PostNext ==
  \/ DepthFirst \/ WriteDepthFirst \/ Convert
  \/ OFRPostOrderTile8 \/ OFRPostOrderTile16 \/ OFRPostOrderTile32
  \/ OFRPostOrderScalar \/ OFRPostOrderPrefix \/ PostWritten
  \/ ApplyBlock
  \/ Applied /\ UNCHANGED layout_vars
  \/ PostFinished

PostSpec == PostInit /\ [][PostNext]_<<routing_vars, layout_vars>>

-----------------------------------------------------------------------------
(* Properties.                                                              *)

\* Type invariant of the layouts.
PostTypeOK ==
  /\ order \in {"dfs", "level", "converted", "post"}
  /\ stride \in {1} \cup Powers /\ residue \in 0 .. stride - 1
  /\ order # "post" \/ stage # "write" => \A i \in DOMAIN controls : controls[i] \in Control

=============================================================================
