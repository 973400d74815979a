------------------------------ MODULE Baselines ------------------------------
(***************************************************************************)
(* The samplers Supple is compared with (Baseline).  CompactionBasedSWO    *)
(* and ShuffleBasedSWO draw one sample after the other from the same       *)
(* buffer; PSQF_single shuffles once and takes the front.  PSQF_SWO makes  *)
(* n / m samples of all n records at once: a permutation of its own tells  *)
(* every sample which m of n places it has, a scan writes, for each place, *)
(* a copy of a record for every sample that has the place, and the copies  *)
(* are shuffled and grouped by sample.                                     *)
(***************************************************************************)
EXTENDS Feistel, MarkRows

CONSTANTS
  MaxRecords,   \* bound: the records
  MaxRepeats,   \* bound: the samples of the two that take any number
  MaxGrid       \* bound: the grids for which a single sample's key is arbitrary

ASSUME BaselinesAssumption == MaxRecords \in Nat /\ MaxRepeats \in Nat /\ MaxGrid \in Nat

VARIABLES
  baseline,   \* "CompactionBased", "ShuffleBased", "PSQF_single" or "PSQF_SWO"
  dims,       \* n, m and k
  pc,         \* "sample", "scan", "shuffle", "group", "done" or "failed"
  buffer,     \* the record at every place
  keys,       \* of PSQF_SWO: the key of every sample
  j,          \* the samples drawn; the places scanned; the copies grouped
  e, e_next,  \* the place of the record that is copied, and of the next
  copies,     \* S: the copies, each with its sample
  samples,    \* the record in every place of result_buffer
  drawn       \* what every sample has drawn

baseline_vars == <<baseline, dims, pc, buffer, keys, j, e, e_next, copies, samples, drawn>>

\* What no record is called.
None == -1

-----------------------------------------------------------------------------
(* What is drawn.                                                           *)

\* RecursiveShuffle_M2 leaves any order; of more than four records it is enough to
\* see them turned and reversed.
Orders(n) ==
  IF n <= 4 THEN {p \in [0 .. n - 1 -> 0 .. n - 1] : IsInjective(p)}
  ELSE {[i \in 0 .. n - 1 |-> (IF back THEN n - 1 - i + by ELSE i + by) % n] :
          by \in 0 .. n - 1, back \in BOOLEAN}

Shuffled(f, p) == [i \in DOMAIN f |-> f[p[i]]]

\* The keys of a grid; of a large one the last two rounds repeat the first two.
GridKeys(a, b) ==
  IF a * b <= MaxGrid
  THEN {<<f, g, h, i>> : f, h \in [0 .. b - 1 -> 0 .. a - 1], g, i \in [0 .. a - 1 -> 0 .. b - 1]}
  ELSE {<<f, g, f, g>> : f \in [0 .. b - 1 -> 0 .. a - 1], g \in [0 .. a - 1 -> 0 .. b - 1]}

\* Keys for k samples: any for one, and for the others a sum with its number.
SampleKeys(n, k) ==
  {[s \in 0 .. k - 1 |-> [r \in 0 .. 3 |-> [x \in DOMAIN key[r + 1] |-> key[r + 1][x] + s * step]]] :
     key \in GridKeys(GridA(n), GridB(n)), step \in 0 .. (IF k = 1 THEN 0 ELSE 1)}

-----------------------------------------------------------------------------

\* PSQF_SWO makes one sample of everything when m does not divide n.
Dims(name, n, m, k) ==
  CASE name \in {"CompactionBased", "ShuffleBased"} -> [n |-> n, m |-> m, k |-> k]
    [] name = "PSQF_single" -> [n |-> n, m |-> m, k |-> 1]
    [] name = "PSQF_SWO" -> IF n % m # 0 THEN [n |-> n, m |-> n, k |-> 1]
                            ELSE [n |-> n, m |-> m, k |-> n \div m]

BaselineInit ==
  /\ baseline \in {"CompactionBased", "ShuffleBased", "PSQF_single", "PSQF_SWO"}
  /\ \E n \in 1 .. MaxRecords, k \in 1 .. MaxRepeats : \E m \in 1 .. n :
       /\ baseline \in {"PSQF_single", "PSQF_SWO"} => k = 1
       /\ dims = Dims(baseline, n, m, k)
       /\ buffer = [i \in 0 .. n - 1 |-> i]
  /\ pc = "sample"
  /\ samples = [i \in 0 .. dims.m * dims.k - 1 |-> None]
  /\ keys = << >> /\ j = 0 /\ e = 0 /\ e_next = 0 /\ copies = << >> /\ drawn = << >>

\* An allocation fails, PSQF_SWO's in its middle; CompactionBasedSWO resets its
\* metrics, and all of them return without a result.
AllocationFails ==
  /\ pc = "sample" /\ j = 0 /\ baseline \in {"CompactionBased", "PSQF_SWO"}
  /\ pc' = "failed"
  /\ UNCHANGED <<baseline, dims, buffer, keys, j, e, e_next, copies, samples, drawn>>

\* The front m records of b are the next sample.
Deliver(b) ==
  /\ buffer' = b
  /\ samples' = Copied(samples, j * dims.m, b, 0, dims.m)
  /\ j' = j + 1
  /\ pc' = (IF j + 1 = dims.k THEN "done" ELSE "sample")
  /\ UNCHANGED <<baseline, dims, keys, e, e_next, copies>>

\* One sample of CompactionBasedSWO: the records are marked anew, and compacted
\* from the order in which the sample before has left them.
CompactSample ==
  /\ pc = "sample" /\ baseline = "CompactionBased"
  /\ \E selected \in kSubset(dims.m, 0 .. dims.n - 1) :
       /\ Deliver(Compact(buffer, 0, dims.n, 1, [i \in 0 .. dims.n - 1 |-> i \in selected]))
       /\ drawn' = Append(drawn, {buffer[i] : i \in selected})

\* One sample of ShuffleBasedSWO, or the only one of PSQF_single.
ShuffleSample ==
  /\ pc = "sample" /\ baseline \in {"ShuffleBased", "PSQF_single"}
  /\ \E p \in Orders(dims.n) : Deliver(Shuffled(buffer, p))
  /\ UNCHANGED drawn

-----------------------------------------------------------------------------
(* PSQF_SWO.                                                                *)

\* The records are shuffled, and initialize draws a key for every sample.  A
\* record being named by nothing but its place, they may stay where they are.
Begin ==
  /\ pc = "sample" /\ baseline = "PSQF_SWO"
  /\ keys' \in SampleKeys(dims.n, dims.k)
  /\ pc' = "scan"
  /\ UNCHANGED <<baseline, dims, buffer, j, e, e_next, copies, samples, drawn>>

\* samplemember: whether a sample has a place.
samplemember(sample, place) == prp_index(keys[sample], dims.n, place) < dims.m

\* Mutant: the next record is found before the last copy is counted.
NextRecordUncounted(count) == count - 1

\* e_next_ptr once so many copies have been written: the record of that number, or
\* the last one, where the last copy has left it.
NextRecord(count) == IF count < dims.n THEN count ELSE dims.n - 1

\* A record's copies for a set of samples, in the order of their numbers.
CopiesOf(record, members) ==
  [x \in 1 .. Cardinality(members) |->
     [record |-> record,
      sid |-> CHOOSE s \in members : Cardinality({q \in members : q < s}) = x - 1]]

\* One place of the replication scan: the record at hand is copied for every
\* sample that has the place; if there was one, the next is taken.
Replicate ==
  /\ pc = "scan" /\ Len(copies) < dims.n /\ j < dims.n
  /\ LET members == {s \in 0 .. dims.k - 1 : samplemember(s, j)}
         written == copies \o CopiesOf(buffer[e], members)
     IN /\ copies' = written
        /\ e_next' = (IF members = {} THEN e_next ELSE NextRecord(Len(written)))
  /\ e' = e_next'
  /\ j' = j + 1
  /\ UNCHANGED <<baseline, dims, pc, buffer, keys, samples, drawn>>

\* The copies are shuffled.
ShuffleCopies ==
  /\ pc = "scan" /\ ~ (Len(copies) < dims.n /\ j < dims.n)
  /\ \E p \in Orders(dims.n) :
       copies' = [x \in DOMAIN copies |-> copies[p[x - 1] + 1]]
  /\ j' = 0
  /\ pc' = "group"
  /\ UNCHANGED <<baseline, dims, buffer, keys, e, e_next, samples, drawn>>

\* One copy is put behind those of its sample that counts has counted, which are
\* those before it, if the sample is not full.
Group ==
  /\ pc = "group"
  /\ IF j = dims.n THEN pc' = "done" /\ UNCHANGED <<j, samples>>
     ELSE LET copy == copies[j + 1]
              count == Cardinality({x \in 1 .. j : copies[x].sid = copy.sid})
          IN /\ samples' = (IF count < dims.m
                            THEN [samples EXCEPT ![copy.sid * dims.m + count] = copy.record]
                            ELSE samples)
             /\ j' = j + 1
             /\ UNCHANGED pc
  /\ UNCHANGED <<baseline, dims, buffer, keys, e, e_next, copies, drawn>>

BaselineNext ==
  \/ AllocationFails \/ CompactSample \/ ShuffleSample
  \/ Begin \/ Replicate \/ ShuffleCopies \/ Group

BaselineSpec == BaselineInit /\ [][BaselineNext]_baseline_vars

-----------------------------------------------------------------------------
(* Properties.                                                              *)

\* A sample's permutation takes every place to another one: none is hit twice, and
\* the walk back below n ends (PSQF_SWO.hpp:126-167).
PrpIsPermutation ==
  (pc = "scan" /\ j = 0) =>
    \A s \in 0 .. dims.k - 1 :
      {prp_index(keys[s], dims.n, x) : x \in 0 .. dims.n - 1} = 0 .. dims.n - 1

Slots(s) == {samples[s * dims.m + x] : x \in 0 .. dims.m - 1}

\* At the end every sample has m records, none of them twice, though one record
\* may be in several samples and the cursors of the scan move by copies and not by
\* places; those of CompactionBasedSWO are the records that were marked, wherever
\* the samples before had left them (PSQF_SWO.cpp:164-222, CompactionBasedSWO.cpp:62-77,
\* ShuffleBasedSWO.cpp:33-39).
BaselinesDeliver ==
  pc = "done" =>
    \A s \in 0 .. dims.k - 1 :
      /\ Slots(s) \subseteq 0 .. dims.n - 1
      /\ Cardinality(Slots(s)) = dims.m
      /\ baseline = "CompactionBased" => Slots(s) = drawn[s + 1]

=============================================================================
