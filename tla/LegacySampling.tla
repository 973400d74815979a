--------------------------- MODULE LegacySampling ---------------------------
(***************************************************************************)
(* The samplers that came before SubSample_v2 (SubSample): subSample draws *)
(* one sample; subSampleMulti goes down a tree of halves of the samples,   *)
(* compacting records and memberships together; subSampleMulti_opt does    *)
(* the same in two passes, the first of which compacts the memberships and *)
(* writes down the flags by which the second compacts the records.         *)
(*                                                                         *)
(* subSampleMulti passes the same two workspaces, and the same two arrays  *)
(* of flags, to every depth.  subSampleMulti_opt has workspaces for each.  *)
(***************************************************************************)
EXTENDS MarkRows

CONSTANTS
  Samplers,                 \* those that are run
  MaxRecords,               \* bound: the records
  MinSamples, MaxSamples    \* bounds: the samples

VARIABLES
  sampler,   \* "subSample", "subSampleMulti" or "subSampleMulti_opt"
  dims,      \* n, m and k
  member,    \* the samples that have a record
  phase,     \* "write" in the first pass of subSampleMulti_opt, otherwise "read"
  calls,     \* the calls, the running one last
  marks,     \* the memberships in the buffers
  mem,       \* the records in the buffers
  flags,     \* the scratches of AcquireSelectedScratchA and B
  tape,      \* the bits of B
  position,  \* bit_offset
  samples,   \* the output
  written,   \* the blocks of it that are written
  lacking    \* ghost: a scratch was not to be had

legacy_vars == <<sampler, dims, member, phase, calls, marks, mem, flags, tape, position,
                 samples, written, lacking>>

\* What no record is called.
None == -1

Smallest(set) == CHOOSE x \in set : \A y \in set : x <= y

-----------------------------------------------------------------------------
(* Buffers and calls.                                                       *)

RootBuffer == <<"root", 0>>

\* OptWorkspaceDepth: how many pairs of workspaces there are.
OptWorkspaceDepth[k \in Nat \ {0}] ==
  IF k = 1 THEN 1 ELSE 1 + OptWorkspaceDepth[(k + 1) \div 2]

\* The workspaces of a call.
Workspace(side, depth) == <<side, IF sampler = "subSampleMulti_opt" THEN depth ELSE 0>>

Buffers(k) == {RootBuffer} \cup ({"left", "right"} \X (0 .. OptWorkspaceDepth[k] - 1))

\* RecSampling, RecPrecompute_opt_impl and RecSampling_opt_impl: of n rows in a
\* buffer, with so many words each, and k samples.
Sample(from, n, words, k, depth) ==
  [call |-> "sample", from |-> from, n |-> n, words |-> words, k |-> k, depth |-> depth]

Current == Last(calls)
Calling(call) == calls # << >> /\ Current.call = call
Rest(f) == Front(calls) \o f

LeftK == Current.k \div 2
RightK == Current.k - LeftK
LeftN == Smallest({Current.n, LeftK * dims.m})
RightN == Smallest({Current.n, RightK * dims.m})
LeftWS == Workspace("left", Current.depth)
RightWS == Workspace("right", Current.depth)

LeftHalf == Sample(LeftWS, LeftN, MarkWords(LeftK), LeftK, Current.depth + 1)
RightHalf == Sample(RightWS, RightN, MarkWords(RightK), RightK, Current.depth + 1)

\* nodeNum: the bits of the tape.
RECURSIVE nodeNum(_, _, _)
nodeNum(n, m, k) ==
  IF k <= 1 \/ n = 0 THEN 0
  ELSE LET left == k \div 2
       IN 2 * n + nodeNum(Smallest({n, m * left}), m, left)
                + nodeNum(Smallest({n, m * (k - left)}), m, k - left)

-----------------------------------------------------------------------------
(* Flags and compaction.                                                    *)

\* MakeRangeMarkWord: the bits of word w that are in a range.
MakeRangeMarkWord(first, end, w) ==
  {b \in 0 .. WordBits - 1 : first <= w * WordBits + b /\ w * WordBits + b < end}

\* AcquireSelectedScratch: a thread's scratch, which is kept from call to call and
\* replaced by a new one, with anything in it, when it is too short.  Those of the
\* ranges' words are got alike; they are filled at once.
Acquired(scratch, required) ==
  IF required <= Cardinality(DOMAIN scratch) THEN scratch
  ELSE [r \in 0 .. required - 1 |-> TRUE]

\* A scratch after the rows of the call that have a bit of the range were flagged
\* in it.
Selected(scratch, first, end) ==
  [r \in DOMAIN scratch |->
     IF r >= Current.n THEN scratch[r]
     ELSE \E w \in 0 .. Current.words - 1 :
            marks[Current.from][r * Current.words + w]
              \cap MakeRangeMarkWord(first, end, w) # {}]

\* Both scratches after a call has flagged its rows.
Flagged == [A |-> Selected(Acquired(flags.A, Current.n), 0, LeftK),
            B |-> Selected(Acquired(flags.B, Current.n), LeftK, Current.k)]

\* ensure_capacity: an array that is too short is resized.
Grown(f, length, zero) ==
  [i \in (DOMAIN f) \cup (0 .. length - 1) |-> IF i \in DOMAIN f THEN f[i] ELSE zero]

\* The call's memberships, projected to count samples from start on and compacted
\* in a workspace, which may be where they are.  It is cleared before it is filled.
CompactMark(b, to, start, count, selected) ==
  LET n == Current.n
      width == MarkWords(count)
      cleared == [b EXCEPT ![to] = [i \in DOMAIN Grown(@, n * width, {}) |->
                                      IF i < n * width THEN {} ELSE @[i]]]
      projected == Project(cleared, Current.from, 0, Current.words, to, n, start, count)
  IN [projected EXCEPT ![to] = Compact(@, 0, n, width, selected)]

\* CompactData_opt: the call's records, compacted in a workspace, which may be where they are.
CompactData(b, to, selected) ==
  [b EXCEPT ![to] = Compact(Copied(Grown(@, Current.n, None), 0, b[Current.from], 0, Current.n),
                            0, Current.n, 1, selected)]

\* ORCompactPair: the call's records and its projected memberships, compacted
\* in a pair of workspaces.
ORCompactPair(to, start, count, selected) ==
  [mem |-> CompactData(mem, to, selected),
   marks |-> CompactMark(marks, to, start, count, selected)]

\* The memberships of the root are given back.
Freed(b) == IF Current.from = RootBuffer THEN [b EXCEPT ![RootBuffer] = << >>] ELSE b

\* RecursiveShuffle_M2 of n records from base on: that they come in reverse
\* stands for whatever order they come in.
Shuffled(f, base, n) ==
  [i \in DOMAIN f |-> IF i \in base .. base + n - 1 THEN f[2 * base + n - 1 - i] ELSE f[i]]

-----------------------------------------------------------------------------

\* All start from marked memberships, with scratches from some earlier call;
\* subSample marks one sample.
Init ==
  /\ sampler \in Samplers
  /\ \E n \in 1 .. MaxRecords, k \in MinSamples .. MaxSamples : \E m \in 1 .. n :
       /\ sampler = "subSample" => k = 1
       /\ dims = [n |-> n, m |-> m, k |-> k]
       /\ \E drawn \in Draws(n, m, k) :
            member = [r \in 0 .. n - 1 |-> {j \in 0 .. k - 1 : r \in drawn[j]}]
       /\ marks = [b \in Buffers(k) |-> IF b = RootBuffer THEN Rows(member, n, k) ELSE << >>]
       /\ mem = [b \in Buffers(k) |-> IF b = RootBuffer THEN [r \in 0 .. n - 1 |-> r] ELSE << >>]
       /\ flags = [s \in {"A", "B"} |-> [r \in {0} |-> TRUE]]
       /\ tape = [i \in 0 .. nodeNum(n, m, k) - 1 |-> FALSE]
       /\ samples = [i \in 0 .. m * k - 1 |-> None]
       /\ calls = <<Sample(RootBuffer, n, MarkWords(k), k, 0)>>
  /\ phase = (IF sampler = "subSampleMulti_opt" THEN "write" ELSE "read")
  /\ position = 0
  /\ written = 0
  /\ lacking = FALSE

-----------------------------------------------------------------------------
(* subSample.                                                               *)

\* subSample: the marked records are compacted to the front and shuffled there.
SampleOnce ==
  /\ sampler = "subSample" /\ Calling("sample")
  /\ LET front == Compact(mem[RootBuffer], 0, dims.n, 1,
                          Flags(marks[RootBuffer], dims.n, Current.words))
         shuffled == Shuffled(front, 0, dims.m)
     IN mem' = [mem EXCEPT ![RootBuffer] = shuffled] /\ samples' = Copied(samples, 0, shuffled, 0, dims.m)
  /\ written' = dims.m
  /\ calls' = << >>
  /\ UNCHANGED <<sampler, dims, member, phase, marks, flags, tape, position, lacking>>

-----------------------------------------------------------------------------
(* subSampleMulti.                                                          *)

\* A call that samples and neither returns at once nor copies.
Leaf == Current.k = 1 \/ Current.n = 0
Halving(name) == sampler = name /\ Calling("sample") /\ ~ Leaf

\* The base case of RecSampling and RecSampling_opt_impl: as many of the first
\* records as fit are copied to the output and shuffled there.  The memberships
\* of the root are freed.
SampleLeaf ==
  /\ sampler # "subSample" /\ phase = "read" /\ Calling("sample") /\ Leaf
  /\ LET count == Smallest({dims.m, Current.n, dims.m * dims.k - written})
         copied == Copied(samples, written, mem[Current.from], 0, count)
     IN samples' = Shuffled(copied, written, count) /\ written' = written + count
  /\ marks' = Freed(marks)
  /\ calls' = Front(calls)
  /\ UNCHANGED <<sampler, dims, member, phase, mem, flags, tape, position, lacking>>

\* RecSampling up to its first call: the rows are flagged for either half and
\* compacted for the left by ORCompactPair.
SampleLeft ==
  /\ Halving("subSampleMulti")
  /\ flags' = Flagged
  /\ LET pair == ORCompactPair(LeftWS, 0, LeftK, flags'.A)
     IN mem' = pair.mem /\ marks' = pair.marks
  /\ calls' = Rest(<<[Current EXCEPT !.call = "right"], LeftHalf>>)
  /\ UNCHANGED <<sampler, dims, member, phase, tape, position, samples, written, lacking>>

\* RecSampling after its first call: the rows, as they are now, are compacted for
\* the right half by the scratch, as it is now; the memberships of the root are
\* freed.
SampleRight ==
  /\ Calling("right")
  /\ LET pair == ORCompactPair(RightWS, LeftK, RightK, flags.B)
     IN mem' = pair.mem /\ marks' = Freed(pair.marks)
  /\ calls' = Rest(<<RightHalf>>)
  /\ UNCHANGED <<sampler, dims, member, phase, flags, tape, position, samples, written, lacking>>

\* A scratch that is too short cannot be replaced, which only the first call may
\* need: those that could be are longer, and whichever of the three functions it
\* is returns without a word.
AcquireFails ==
  /\ Halving(sampler) /\ Current.depth = 0
  /\ \E got \in SUBSET DOMAIN flags :
       flags' = [s \in DOMAIN flags |-> IF s \in got THEN Acquired(flags[s], Current.n) ELSE flags[s]]
  /\ calls' = Front(calls)
  /\ lacking' = TRUE
  /\ UNCHANGED <<sampler, dims, member, phase, marks, mem, tape, position, samples, written>>

-----------------------------------------------------------------------------
(* subSampleMulti_opt.                                                      *)

\* The calls for both halves, the left one first.
BothHalves == Rest(<<RightHalf, LeftHalf>>)

\* RecPrecompute_opt_impl: the flags of the left half, then those of the right,
\* are OR-ed into the tape, and the memberships are compacted by either.
PrecomputeHalves ==
  /\ phase = "write" /\ Halving("subSampleMulti_opt")
  /\ flags' = Flagged
  /\ tape' = [i \in DOMAIN tape |->
                \/ tape[i]
                \/ i - position \in 0 .. Current.n - 1 /\ flags'.A[i - position]
                \/ i - position - Current.n \in 0 .. Current.n - 1
                     /\ flags'.B[i - position - Current.n]]
  /\ position' = position + 2 * Current.n
  /\ marks' = CompactMark(CompactMark(marks, LeftWS, 0, LeftK, flags'.A),
                          RightWS, LeftK, RightK, flags'.B)
  /\ calls' = BothHalves
  /\ UNCHANGED <<sampler, dims, member, phase, mem, samples, written, lacking>>

\* The base case of RecPrecompute_opt_impl.
PrecomputeLeaf ==
  /\ phase = "write" /\ Calling("sample") /\ Leaf
  /\ calls' = Front(calls)
  /\ UNCHANGED <<sampler, dims, member, phase, marks, mem, flags, tape, position, samples, written, lacking>>

\* subSampleMulti_opt between the passes: the memberships are freed and the
\* position is reset.
EndPrecompute ==
  /\ phase = "write" /\ calls = << >>
  /\ phase' = "read"
  /\ marks' = [b \in DOMAIN marks |-> << >>]
  /\ position' = 0
  /\ calls' = <<Sample(RootBuffer, dims.n, MarkWords(dims.k), dims.k, 0)>>
  /\ UNCHANGED <<sampler, dims, member, mem, flags, tape, samples, written, lacking>>

\* Both scratches after a call has unpacked its flags from the tape.
Unpacked ==
  [s \in {"A", "B"} |->
     Copied(Acquired(flags[s], Current.n), 0, tape, IF s = "A" THEN position ELSE position + Current.n, Current.n)]

\* RecSampling_opt_impl: the records are compacted by the flags on the tape.
SampleHalves ==
  /\ phase = "read" /\ Halving("subSampleMulti_opt")
  /\ flags' = Unpacked
  /\ position' = position + 2 * Current.n
  /\ mem' = CompactData(CompactData(mem, LeftWS, flags'.A), RightWS, flags'.B)
  /\ calls' = BothHalves
  /\ UNCHANGED <<sampler, dims, member, phase, marks, tape, samples, written, lacking>>

Next ==
  \/ SampleOnce
  \/ SampleLeaf
  \/ SampleLeft
  \/ SampleRight
  \/ AcquireFails
  \/ PrecomputeHalves
  \/ PrecomputeLeaf
  \/ EndPrecompute
  \/ SampleHalves

Spec == Init /\ [][Next]_legacy_vars

-----------------------------------------------------------------------------

Finished == phase = "read" /\ calls = << >>

\* The records in sample j's slice of the output.
Slots(j) == {samples[j * dims.m + x] : x \in 0 .. dims.m - 1}
Marked(j) == {r \in 0 .. dims.n - 1 : j \in member[r]}

\* Once a sampler returns that got what it needs, every sample's slice of the output has the records
\* that were marked for it, as SubSample.hpp:288 has a record's memberships decide
\* over its samples (SubSample.cpp:541-678, 751-816, 837-908).
SamplesFollowMarks ==
  (Finished /\ ~ lacking) => \A j \in 0 .. dims.k - 1 : Slots(j) = Marked(j)

\* The samples that do not meet in a workspace: one of subSample, up to three of
\* subSampleMulti and two or more of subSampleMulti_opt.
Separate ==
  CASE sampler = "subSample" -> TRUE
    [] sampler = "subSampleMulti" -> dims.k \in {2, 3}
    [] OTHER -> dims.k > 1

\* Once subSample, subSampleMulti with two or three samples or subSampleMulti_opt
\* with more than one returns, every sample has the records that were marked for
\* it, the output is full, and the tape was read to its end: the flags that are
\* replayed, in the one scratch of either half, are each call's own,
\* whatever they held before.
LegacyDelivered ==
  (Finished /\ Separate /\ ~ lacking) =>
     /\ SamplesFollowMarks
     /\ written = dims.m * dims.k
     /\ sampler = "subSampleMulti_opt" => position = nodeNum(dims.n, dims.m, dims.k)

=============================================================================
