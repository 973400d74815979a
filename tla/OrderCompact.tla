---------------------------- MODULE OrderCompact ----------------------------
(***************************************************************************)
(* Order-preserving compaction (OP_TightCompact in TightCompaction_v2.tcc, *)
(* compute_LS_distances in TightCompaction_v2.cpp): every selected record  *)
(* is told how far it has to move to the left, and moves by the bits of    *)
(* that distance, the lowest first, one level of the network for each.     *)
(*                                                                         *)
(* The distances of the records that are not selected are never written:   *)
(* they are what the allocation happens to hold.                           *)
(***************************************************************************)
EXTENDS TightCompact

CONSTANT
  Garbage    \* what an allocated uint64_t may hold

ASSUME GarbageAssumption == Garbage \subseteq Nat /\ Garbage # {}

\* selected (selected_list) and buf are those of the compaction.
VARIABLES
  LS_distance,      \* how far the record at a place is still to move
  level, fop_index  \* the level and the pair of the network that come next

order_own == <<LS_distance, level, fop_index>>
order_vars == <<vars, order_own>>

N == Cardinality(DOMAIN buf)

\* comparator_dist, by level
Hop[e \in Nat] == IF e = 0 THEN 1 ELSE 2 * Hop[e - 1]

\* The smallest number of bits that can count the values below k.
calculatelog2(k) == CHOOSE e \in 0 .. k : k <= Hop[e] /\ \A d \in 0 .. e - 1 : Hop[d] < k

\* compute_LS_distances in an array of garbage.
OrderInit ==
  /\ \E n \in MinN .. MaxN : \E garbage \in [0 .. n - 1 -> Garbage] :
       /\ selected \in SUBSET (0 .. n - 1)
       /\ buf = [p \in 0 .. n - 1 |-> p]
       /\ LS_distance = [k \in 0 .. n - 1 |-> IF k \in selected THEN k - Selected(0, k)
                                              ELSE garbage[k]]
  /\ level = 0
  /\ fop_index = 0
  /\ threads = 1 /\ tree = {} /\ done = {}

\* The bit of the level in the distance at a place, in place.
MoveDist(p) == ((LS_distance[p] \div Hop[level]) % 2) * Hop[level]

\* Mutant: the loop leaves out the last pair.
OswapsButOne == N - Hop[level] - 1

num_oswaps == N - Hop[level]

\* One pair of process_TCN: the record moves with what is left of its distance.
Oswap ==
  LET sop_index == fop_index + Hop[level]
      rest == LS_distance[sop_index] - MoveDist(sop_index)
  IN /\ level < calculatelog2(N)
     /\ fop_index < num_oswaps
     /\ IF MoveDist(sop_index) > 0
        THEN /\ buf' = [buf EXCEPT ![fop_index] = buf[sop_index], ![sop_index] = buf[fop_index]]
             /\ LS_distance' = [LS_distance EXCEPT ![fop_index] = rest, ![sop_index] = 0]
        ELSE UNCHANGED <<buf, LS_distance>>
     /\ fop_index' = fop_index + 1
     /\ UNCHANGED <<level, threads, selected, tree, done>>

NextLevel ==
  /\ level < calculatelog2(N)
  /\ fop_index >= num_oswaps
  /\ level' = level + 1
  /\ fop_index' = 0
  /\ UNCHANGED <<vars, LS_distance>>

OrderNext == Oswap \/ NextLevel

OrderSpec == OrderInit /\ [][OrderNext]_order_vars

-----------------------------------------------------------------------------
(* Properties.                                                              *)

\* Type invariant.
OrderTypeOK ==
  /\ selected \subseteq DOMAIN buf
  /\ buf \in [DOMAIN buf -> DOMAIN buf]
  /\ DOMAIN LS_distance = DOMAIN buf
  /\ level \in 0 .. calculatelog2(N)
  /\ fop_index \in 0 .. N

\* The place to which a selected record has to go.
Goal(r) == Selected(0, r)

\* The network ends with all records, the selected ones in front and in their
\* order (TightCompaction_v2.tcc:467-484).
RealBlocksInOrder ==
  level = calculatelog2(N) =>
    /\ {buf[p] : p \in DOMAIN buf} = DOMAIN buf
    /\ \A p \in DOMAIN buf : buf[p] \in selected => p = Goal(buf[p])
=============================================================================
