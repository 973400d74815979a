# Supple: a verification development

Supple draws oblivious random samples inside an SGX enclave: from `n` encrypted
records it makes `k` samples of `m` records each, so that neither the memory
accesses nor the timing tell which record went where. The work is cut in two:
*offline*, before the data matters, it draws the memberships and turns them into
tapes of control bits; *online*, it routes the records by these bits.

This directory models the program's concurrent and combinatorial core in TLA+,
checks it with TLC on small instances and proves the parts that matter most,
with TLAPS, for instances of every size.

1. [Inventory](#1-inventory)
2. [Modules and how they correspond to the code](#2-modules-and-how-they-correspond-to-the-code)
3. [Runs, bounds and what they show](#3-runs-bounds-and-what-they-show)
4. [Fairness](#4-fairness)
5. [Disagreements with the code's own words](#5-disagreements-with-the-codes-own-words)
6. [Proofs](#6-proofs)
7. [What is not modelled](#7-what-is-not-modelled)
8. [Plan](#8-plan)

Paths below are relative to `src/Enclave` unless they begin with `src/`.

## 1. Inventory

| Component | State it keeps | Operations | Talks to | What is hard | What makes it correct |
|---|---|---|---|---|---|
| Worker pool (`ThreadPool.cpp`) | an array of workers, each a state, a job, an error, two condition variables and a mutex | init, dispatch, join, shutdown, the workers' `Loop` | everything parallel | wake-ups, failures half-way through creation, stop against start, order of destruction | no wake-up is lost, nothing is used after it is destroyed, every call ends, every job runs once |
| `Fork` and `Pool` (same file) | the range of threads that a call owns; pending exceptions | fork, join on either exit, RAII close | `ParallelPlan.tcc` | exceptions in either branch, at any depth | ranges stay disjoint, a child is joined before its closure dies, a failure reaches thread 0, counters are conserved |
| Packed control tapes (`SubSample_v2/PackedBoundary.hpp`, `OFR/PackedControls.hpp`) | bytes of control bits, staged boundary bytes of each writer, the cursor's cached byte | set, group sets, stage, commit, resize, move, read by one or four | parallel writers, both readers | unsynchronised read-modify-write of bytes that two writers share; padding that outlives a resize; a cursor out of step with its byte | the committed tape is what one writer would have written, its bytes depend on its controls only, and a cursor delivers them |
| Allocation profiler (`MemoryProfile.cpp`) | an open-addressing table of live blocks, running totals, peaks, round and phase flags | every wrapped allocator call, round and phase boundaries | the allocator, `OfflineProfile.hpp`, the ECALLs | backward-shift deletion, overflow, rounds left by exceptions, addresses reused by another thread | a peak that is reported valid is exact |
| OFR network (`SubSample_v2/OFR`) | tags, membership rows, the tape, the lane | normalise, balance a layer, write, convert, replay | FFOS_FR | quotas at odd and unbalanced nodes, four layouts of one tape, counters in narrow vector lanes | every wanted copy arrives once, the replay moves payloads as the writer moved memberships |
| FFOS_FR plan, writer and reader (`SubSample_v2/FFOS_FR`) | a tree of nodes with spans of both tapes and slices of the output, workspaces per thread and depth | plan, count, write, read, validate | pool, OFR, compaction | siblings that share workspaces, a thread's range rounded at each level, three recursions that must agree | inputs stay intact until read, tapes complete, every sample delivered |
| FFOS_C and FFOS_C_Opt (`SubSample_v2/FFOS_C`, `FFOS_C_Opt`) | memberships as rows of words, workspaces per depth, one tape | mark, frontier, control write, control read | compaction, random pool | slices of bits at any offset, projection in place, one backup for all depths | every sample ends with exactly its records, drawn without bias |
| Compaction (`ORCompaction/TightCompaction_v2.*`) | the array, the selection, counts or distances | tight (serial, parallel), order-preserving | pool | offsets with wraparound, jobs of a level over both halves | the selected records are in front, in order where promised |
| ECALL sessions (`DecFFOS_*`, `decryptAndSubSample*`, `Dec*SWO`, `DecPSQF_*`, `DecryptAndShuffle*`) | decrypted buffer, random pool, worker pool, measured round, `enc_ret`, result | one session per call | all of the above | any step may fail or throw | what was taken is given back, an error leaves the result alone, nothing invalid is reported valid |
| Recursive shuffle (`ORShuffle`) | the array, one list of marks for all threads | mark half, compact, recurse | compaction, pool, random pool | threads in disjoint parts of two shared arrays; no scratch or no pool | every split is drawn once and kept: the order is the draws' |
| Legacy samplers (`SubSample`) | memberships and records in pairs of workspaces, scratches of flags that outlive a call, one tape of flags | mark, flag, compact, recurse, replay | compaction, shuffle | workspaces and scratches that a recursion shares with its callers | every sample has its records |
| Baselines (`Baseline`) | one buffer that every sample leaves its way; keys and cursors of PSQF_SWO | draw one after the other; permute, scan, shuffle, group | compaction, shuffle | a permutation on a grid that is larger than the places; cursors against a scan | `m` different records for each sample |
| Random pool, encryption (`utils.cpp`) | a stretch of key stream per thread, the bits a thread keeps | open, refill, take, close | SGX SDK, everyone who draws | a request across a refill, threads that draw at the same time | no piece of key stream is used twice |
| Primitives in assembly, entry points, application, scripts, SDK samples | | | | | see [7](#7-what-is-not-modelled) |

Interactions. An ECALL opens a measured round, decrypts, opens the random pool and
(FFOS_FR_Par) the worker pool, marks the memberships, builds the controls, applies
them and encrypts. FFOS_FR's plan decides before either pass which node writes
which bits; with the pool, `RunPlanGroups` shares a node's children out among a
range of threads and forks at every split; each forked job goes on forking inside
its own range. Threads share memory without locks: the two tapes (through
`PackedBoundary`), each other's workspaces (through the node that forked them) and
the output (through disjoint slices). Mutexes there are only in the pool and in the
profiler.

## 2. Modules and how they correspond to the code

`PROJECT.json` maps every definition to the lines it stands for. In short:

**Threads.**
- `WorkerPool` is the promise: jobs are handed to idle workers, run once, and their
  outcome is returned by the join that waits for them.
- `ThreadPool` is the code of `ThreadPool.cpp` at the grain of its waits: one action
  for each piece of a function between two points at which its thread may block or
  let go of a mutex, with `pc` the point it has reached, `target` the worker it is
  dealing with, and the fields of `Worker` as functions. Allocation, the creation of
  any condition variable or mutex and of any thread may fail; waits may wake up
  spuriously. `KeepsPromise` is the refinement, `WorkerPool` being instantiated by
  the states of the workers.
- `ForkTree` EXTENDS `ThreadPool`. Its bodies fork, count switches and throw; `end`
  is the range of threads that a thread owns, and the job of a worker is the end of
  the range it was given, as in `RunPlanGroups`.

**Tapes.**
- `BitTape` is a tape of bits that are set atomically, each by its owner.
- `PackedTape` has spans cut anywhere, writers that load the bytes under one
  control, or four, and store them back, boundary bytes that are staged and
  committed one after the other at the end. `KeepsPromise` maps the staged bits to
  the tape. `MCPackedTape` is an instance.
- `PackedControls` is the array by itself, four gates to a byte: resizing, setting in
  groups, moving a part over another, and the cursor with its cached byte. `contents`
  is what its callers have in mind.

**Profiler.**
- `PointerSet` is a set of pointers; `ProbeTable` is the hash table that implements
  it, with `Remove` taken apart into the steps of its backward shift.
- `MemoryTracker` has every wrapped allocator call, with the mutex, the real heap
  and what the caller is told; the table is abstract there. `MCProfiler` bounds it
  and puts it beside the sessions.

**Routing.**
- `OFRQuota` is the arithmetic of one layer, `OFRNetwork` normalisation, the writer
  (one action per node, in the order of the recursion) and the replay on a strided
  lane. A record's tags are the set of the halves that want it; `rows` stands for
  the memberships that travel with the tags and `data` for the payload.
- `OFRPostOrder` EXTENDS `OFRNetwork` by the other layouts that balanced networks of
  a power of two have: conversions to level order and post-order, and the writer
  that puts controls in post-order at once, residue by residue, in tiles with 8, 16
  or 32 bit lanes, scalar, or four gates of one node at a time.

**Sampling.**
- `Mark` is `FFOS_CMark` and `markGenMulti` for one sample (samples do not share state
  but the stream of coins), and `markGen` and `MarkHalf`. `RandomPool` is where coins
  come from: the buffers, their refills, the requests of interleaved threads and the
  pool's life.
- `MarkRows` is how memberships lie in memory: rows of words, slices of them cut at any
  bit, flags, compaction of rows.
- `FfosPlan` holds what depends on the public dimensions only: capacities, the
  frontier, and a call of `ParallelPlan::Add` up to the calls that it makes itself.
  `FfosLayout` has what the serial code does with the tapes without a plan: the counting
  and the order of writing and reading.
- `FfosRun` first makes the plan, call by call of `Add` (`PlanNode`; `todo` is the calls
  that are still to be made, the next one first), and then has both parallel passes of
  FFOS_FR over it: a thread is a stack of calls; the content of a buffer, a control or
  a block of the output is the node it was made for, which is what its correctness
  depends on. `MCFfosRun` compares the plan with the serial layout.
- `FfosSerial` has the two passes of FFOS_C, of FFOS_C_Opt and of FFOS_FR with one
  thread, one action per node or pair of nodes, with the rows of memberships word by
  word, the tapes and the records. A fork's controls are the network's as a whole
  (where each row comes from); `OFRNetwork` has them gate by gate.
- `LegacySampling` has `subSample`, `subSampleMulti` and `subSampleMulti_opt`: the
  recursions with exactly the workspaces and scratches that the code gives each call
  (`Workspace`, `Acquired`), and the tape of flags that the last one replays.
- `Feistel` is PSQF's permutation: the grid, the rounds, the walk until it is inside.
  `Baselines` is the four samplers around it.
- `MCSampling` joins all these for one run: the marking, the random pool, or
  everything after the marking by one sampler or baseline.
- `TightCompact` and `OrderCompact` are the compactions, swap by swap, the first with
  its threads' jobs. `FfosSerial` and the others use what `Compacts` says of
  them: where a record goes depends on the flags only, and the flagged ones are in
  front.
  `OrderCompact` EXTENDS `TightCompact` for the selection and the array.
- `RecursiveShuffle` EXTENDS `TightCompact` too. It is both forms of the shuffle: any half is
  drawn, compacted, and each half is shuffled, by another thread if there are several.
  `drawn` remembers what every split drew. The second form's compaction is `Compacted` of
  `TightCompact`; the first form's is what `OrderCompact` is proved to end with over a
  cleared array: the marked records in front in their order, the others behind them in any
  (`InOrder`).
- `MCNetworks` joins the two compactions, the shuffle, the OFR network and the packed
  array, one at a time, for one run.

**Sessions.**
- `DecSession` has the four ECALLs of `SubSample_v2`, one action per step and one for
  each way in which the step fails, over a sequence of sessions in one enclave.
  `OlderSession` EXTENDS it by the other ECALLs that take an encrypted buffer. All of
  them share the enclave's profiler.

A `Mutant:` comment marks an operator that no specification uses: it is a plausible
bug in the definition that follows, listed in `PROJECT.json` with the property that
notices it.

## 3. Runs, bounds and what they show

Each run's properties are the INVARIANTS and PROPERTIES of its `.cfg`. Every module
also has a type invariant (`TypeOK`); the proofs use it, the runs do not list it.

| Run | Module, cfg | Question | Bounds, and why they are enough |
|---|---|---|---|
| `pool` | `ThreadPool` | Can a wake-up be lost, an object be used after its destruction, a call hang, a job's outcome be lost? | two workers, so that creation can fail after one was launched and two workers differ in progress; one job that throws and one that does not |
| `fork_tree` | `ForkTree` | Do ranges stay exclusive, are children joined, do failures and counters arrive, do pools close? | four threads and three forks: every shape of tree with a fork inside either branch; one counted switch |
| `ofr_tape` | `MCPackedTape` | Is a control ever lost to a neighbour in its byte? | two bytes and a bit more, so that a span may lie inside a byte, be a byte, or straddle one, and three spans may meet in one byte; each writer fills its span from both ends inward |
| `probe_table` | `ProbeTable` | Is every live pointer found, whatever the hashes? | eight slots, filled to the allowed half with every hash; runs of entries wrap around |
| `profiler` | `MCProfiler` | Is the ledger exact, and what is reported valid? Is everything released after any session, old or new, and does what it reports agree with what it did? | two threads, three addresses, sizes whose sums pass the largest `size_t` (3); once the profiler is marked broken, which is never undone, only what is under way is finished. Three sessions of any kind: the one that spoils something, and two that could notice |
| `networks` | `MCNetworks` | Do the selected records end in front, in every interleaving, and in order? Is a shuffle's order that of its draws? Does every wanted copy arrive, and does the replay agree in each layout? Does the packed array hold its controls? | nine records for the compactions (a power of two and a rest that is shared out itself) and seven for the shuffle (three levels), one to four threads, shared from three records on; the order-preserving one over a cleared array. Routing: every shape and membership of up to six records, depth first, so odd layers occur at two levels; balanced powers of two up to sixteen, with the lanes scaled down, see below. Seven controls in two bytes, changed twice, in groups of one, two and four |
| `ffos_run` | `MCFfosRun` | Are inputs intact, forks in range, tapes complete and laid out as by the serial code, samples delivered? | six records, four samples, every frontier, one to four threads, forking from three blocks on: filters, forks and leaves at several depths, several branches on one thread |
| `mark` | `MCSampling` | Are exactly `m` records marked, without bias, does each sample get its records from every sampler and baseline, and is the key stream used once? | five records and 60 coins (a multiple of 1..5, so that each odds is a whole number of coins); for the passes, every membership of up to ten cells (records times samples), families of memberships of more, words of two bits so that rows take three words and slices cross them, six samples so that pairs nest; for PSQF every key of grids of up to four cells; buffers of three pieces, so that batches of two end in the middle, at the end and beyond it, two threads and two pools |
| `compact_wrap` | `TightCompact` | finding: see [5](#5-disagreements-with-the-codes-own-words) | the program's own threshold, 16 records and two threads |
| `order_garbage` | `OrderCompact` | finding: see [5](#5-disagreements-with-the-codes-own-words) | four records |
| `legacy_shared` | `LegacySampling` | finding: see [5](#5-disagreements-with-the-codes-own-words) | four records and four samples: the least for which the left half is halved again |
| `legacy_single` | `LegacySampling` | finding: see [5](#5-disagreements-with-the-codes-own-words) | one sample |

*The widths in `networks`.* The program counts in lanes of 8, 16 and 32 bits
(256, 65536 and 2^32 values), 16, 8 and 4 to a vector, and chooses by the length of
the nodes. The run has lanes of 4, 4 and 64 values, 4, 2 and 2 to a vector, so that
sixteen records go through each tile at the very length at which its lane is just
wide enough, and wrap when it is too narrow. That the real widths are enough at
their limit, whatever the widths are, is the theorem `LanesSuffice`.

*`Compacts`* assumes that every call's offset is below its length: what happens
otherwise, and that it does happen, is `compact_wrap`. `DrawsDecideOrder` leaves out
the splits whose compaction overran for the same reason.

*`SerialDelivered`* holds of the legacy samplers where no call is halved again under
one that still needs its workspaces, and where there is more than one sample: the rest
is `legacy_shared` and `legacy_single`.

*Deadlock* is checked in `pool`, `fork_tree`, `ofr_tape`, `probe_table`, `profiler` and
`networks`; in the last two the parts that may stop (a session that is over, every
network but the routing) stutter, the others must not. The other modules stop when
their computation has ended, which is what `CHECK_DEADLOCK FALSE` says there. In
`ffos_run` the property `Ends` says instead that every run of it ends, from any state.

## 4. Fairness

- `ThreadPool`, `ForkTree`: weak fairness of each worker's loop, of each job and of
  the steps of a call of the pool that has begun. The enclave's threads are
  scheduled preemptively, a mutex is held for a few instructions, and jobs are
  terminating computations. There is none for the client's next call or for
  spurious wake-ups.
- `ProbeTable`: weak fairness of the steps of a removal that has begun, a loop in one
  thread.
- `FfosRun`: weak fairness of each thread's step, of the plan's steps and of the passage
  to the next stage. A thread that waits in a join is not enabled, so this assumes nothing of
  the forks.
- All other properties are safety properties and their specifications have none.

## 5. Disagreements with the code's own words

- **`compact_wrap`.** `TightCompact_inner_parallel` passes `n1 - n2 + m2` to the power of
  two next to a rest of `n2` records of which `m2` are selected
  (`ORCompaction/TightCompaction_v2.tcc:386`). The serial `TightCompact_inner` reduces
  the same offset (line 325). When the whole rest is selected the offset is the
  length itself; the test at line 68 then swaps the two halves' roles, and the
  selected records are not at the front, which lines 12-14 promise.
- **`order_garbage`.** `OP_TightCompact` allocates its array of distances without
  clearing it (`TightCompaction_v2.tcc:472`) and fills in the entries of selected
  records only; the network reads all. With an unlucky allocation a record that is
  not selected displaces one that is. The older class clears the array.

- **`legacy_shared`.** `RecSampling` compacts its rows for the right half after the call
  for the left half, which was given the same two workspaces and flags its own rows in
  the same two scratches (`SubSample/SubSample.cpp:590-658`). From four samples on the
  left half is halved again, and samples end with records that were not marked for
  them, against the masks' purpose (`SubSample.hpp:288`). `subSampleMulti_opt` has
  workspaces for each depth, and is right.
- **`legacy_single`.** With one sample both recursions are at their base case at once
  (`SubSample.cpp:559, 841`), which copies the first rows: the marks are not looked at.

Noticed, not counted as disagreements:
- When the last encryption of `DecFFOS_FR` fails, or the counts do not match, the
  session leaves `parallel_status` at 0 although nothing was delivered
  (`SubSample_v2/FFOS_FR/FFOS_FR.cpp:927, 935, 1003`); the memory verdicts do tell, which
  is part of `ReportTrue`. The field's comment (`src/Globals.hpp:74`) speaks of
  FFOS_FR_Par.
- `decryptAndSubSampleMulti` and its variant lose the buffer of a block that is not
  authentic (`SubSample/SubSample.cpp:275-284, 323-332`); `NothingLeft` leaves it out.
- Scratches that cannot be got make the legacy recursions return early, and their
  callers do not look (`SubSample.cpp:592-602`); `LegacySampling` has the step
  (`AcquireFails`), and its property speaks of the other runs.
- `DecPSQF_SWO` completes its `Scope` whatever has happened (`PSQF_SWO.cpp:271`); that no
  undelivered result is reported valid rests on the profiler having noticed the failure.
- A comment says that PSQF's sample has the places up to `m` of a permutation of
  `0 .. n-1` (`PSQF_SWO.hpp:29`); the code takes those below `m`, which are as many as the
  sample needs.

## 6. Proofs

TLAPS proves, for every value of the constants:

| Theorem | Says | Argument |
|---|---|---|
| `PoolInvariant`, `NoLostWakeupHolds`, `NoUseAfterDestroyHolds` (`ForkTreeProofs`) | the pool's two safety properties, for every number of threads and jobs | `IInv` ties each worker's record to its control point, thread 0's control point to how far creation or shutdown has come, and every waiting thread to the condition it waits for. The two properties alone are not inductive: that a worker exists when a signal is sent follows from how far thread 0 is. One lemma per action |
| `KeepsPromiseSafely` (`ForkTreeProofs`) | the pool's steps are steps of `WorkerPool` or none of them, for every number of threads: the safety part of `KeepsPromise` | the refinement mapping reads the promise's state of a worker off the code's, and a call in flight off `pc`; each action is shown to be one promised step or a stutter, from `IInv` |
| `TreeInvariant`, `NeverBusyHolds`, `RangesExclusiveHolds`, `ChildrenJoinedHolds`, `FailureSurfacesHolds`, `TreeWakeups`, `TreeObjectsAlive` (`ForkTreeProofs`) | recursive fork and join on the pool, for every number of threads and every tree: no fork finds its worker busy, ranges are exclusive, children are joined on every exit, a failure reaches thread 0, and the pool's own two properties when workers call it too | see below |
| `SwapsConservedHolds` (`ForkTreeProofs`) | the threads' counters and the workers' results add up to the switches that were made, and thread 0 has them all at the end | a worker counts only while it has a job; a result is kept until it is joined, so that neither is overwritten while it holds something; sums by `SumProofs` |
| `NoByteRaceHolds`, `TapeCompleteHolds`, `PromiseKept` (`OFRNetworkProofs`) | no byte is lost, and the tape refines one of atomic bits, for every length and every cut | a byte that no one stages lies inside one span; every bit that is written is in its owner's staged byte until that is committed and on the tape afterwards |
| `ArrayInvariant`, `ControlsKeptHolds` (`OFRNetworkProofs`) | the bytes of the packed array hold the controls that were put in and zeros after them, through every resize, group of settings and move, and every cursor delivers them, for every number of controls | see below |
| `FindableHolds`, `TablePromise` (`ProbeTableProofs`) | the table finds each pointer and implements a set, for every size and every hash | an entry has no gap between its hash and its slot, except for the hole of a removal that is under way; the shift keeps the cyclic distances in order |
| `QuotasAreFeasible`, `TopHalfExact`, `LanesSuffice` (`OFRNetworkProofs`) | quotas are never negative and never exceed their pairs; a layer sends exactly as many tags to the top as it has places; a balanced node of as many records as a lane has values can be counted in that lane and compared as signed | linear arithmetic over the counts, clipped and balanced layers apart; the code's comment claims the balanced case for every mixture of pairs |
| `NetworkInvariant`, `ResponsibilityHolds`, `DeliveredHolds`, `ReplayHolds` (`OFRNetworkProofs`) | the depth-first layout, for every number of records, every division of the outputs and all tags that fit: no copy is lost or duplicated, every record is delivered to each output that wants it, the tape is as long as `OFRControlCount` says and its replay moves the payload as the memberships were routed | see below |
| `MarksExactHolds` (`SamplingProofs`) | both loops mark exactly `m` records, for every number of coins | what is left to mark never exceeds the records left, because a quotient forces the coin at both ends |
| `RandomPoolInvariant`, `StreamUsedOnceHolds` (`SamplingProofs`) | no piece of a key stream becomes two random numbers and none is taken from beyond it, for every number of threads, every size of the buffers and of the requests, and coins and vectors that are no larger than a buffer | `BufferInv`: a buffer's pointer and count agree with how far its stream has been handed out; `RequestInv`: a request that is under way has a buffer of its own thread's and holds the pieces next to be handed out, which it has copied |
| `PrpPermutes`, `PrpIsPermutationHolds` (`SamplingProofs`) | PSQF's permutation takes the places onto the places, for every number of places and every key, and so every sample's does | see below |
| `BaselineInvariant`, `BaselinesDeliverHolds` (`SamplingProofs`) | each of the four baselines ends with `m` different records in every sample, for every number of records and samples and all draws | see below |
| `TrackerInvariant`, `EnclaveInvariant`, `LedgerExactHolds`, `ValidMeansExactHolds` (`ProfilerProofs`) | the profiler's ledger lists what scopes were charged for, its totals are sums, and what it reports as valid is the real peak, for every number of threads, blocks and sizes | see below |
| `SessionInvariant`, `NothingLeftHolds`, `ReportTrueHolds` (`ProfilerProofs`) | every session, old or new, gives back what it took, spoils no later measurement and reports nothing valid that it has not delivered, wherever it fails | `SessionInv`: what is held at each control point (`HeldInv`), which phase is open (`TurnInv`), what is completed and delivered (`DeliveryInv`), and what a failed parallel session leaves alone (`ParallelInv`) |
| `TightInvariant`, `CompactsHolds`, `WorkersIdleHolds` (`CompactShuffleProofs`) | the threaded tight compaction: every call leaves its records in its own places with the selected ones from its offset on, and no job finds its worker busy, for every number of records and threads, every selection and every interleaving | see below |
| `OrderInvariant`, `RealBlocksInOrderHolds` (`CompactShuffleProofs`) | the order-preserving compaction over a cleared array (`Garbage = {0}`): it ends with all records, the selected ones in front and in their order, for every number of records and every selection | see below |
| `ShuffleInvariant`, `SpansApartHolds`, `DrawsDecideOrderHolds` (`CompactShuffleProofs`) | both forms of the shuffle, for every number of records and threads, all draws and every interleaving: running calls have no record, flag or thread in common, halves go to idle threads, no record is lost, every split draws once and has in the end what it drew | see below |
| `RunInvariant`, `ForksFitHolds` (`FfosRunProofs`) | FFOS_FR's plan is sound, and every fork over it finds its right thread in range and idle and gives both halves a thread, for all dimensions, every frontier that is accepted and every number of threads | see below |
| `WholeInvariant`, `InputIntactHolds`, `TapesCompleteHolds`, `SamplesDeliveredHolds` (`FfosRunProofs`) | FFOS_FR's parallel writer and reader: each call finds its inputs as they were made and has its workspaces, the tapes are complete when the writers have joined, and every sample is in its place when the readers have; for all dimensions, every accepted frontier, every number of threads and every interleaving | see below |
| `LayoutAgreesHolds` (`FfosRunProofs`) | FFOS_FR's plan lays the tapes out span by span as the serial writer and reader go through them, and they are allocated exactly as long; for all dimensions and every accepted frontier | see below |

*The fork tree.* None of the properties is inductive. `TreeInv` is the pool's `PoolInv`
and, beside the types, these parts. `ScopeInv` says who owns ranges while thread 0 is outside the
pool's scope; `RangeInv` that a range ends where the next owner's begins, or at the
end of the pool, and that nobody inside it owns one; `Nested` that the ranges that two
threads *were given* are nested or disjoint, which is what makes the join at the end of
a range meet the right child; `ActivityInv` ties a worker's job to its range; `CallInv`
says that a thread joins the worker at the end of its own range. `NeverBusy` follows
from `RangeInv`: a fork hands its job to a thread strictly inside the forker's range,
and such a thread owns nothing. `FailureSurfaces` is carried along as it is.

*The profiler.* `TrackerInv` says of the moments inside a wrapped call what
`LedgerExact` says between calls: which block the heap and the ledger may disagree
about, by the operation and by whether the allocator has returned a new address
(`Agrees`), and what the peaks will have seen when the call is over (`PeaksAgree`).
That only one call is under way is part of it (`SerialInv`). The totals are sums over
the ledger (`Counted`).

*The network.* `NetInv` says of the nodes on the stack that they are disjoint, that the
tags ask each for exactly its places, left and right (`Exact`), and that the places
of no node are settled (`Pending`). Normalisation makes the root exact. That a layer makes
both halves exact is `HalvesExact`: the gates of a node fall into classes by the tags of
their pairs, `QuotasAreFeasible` says that each class has as many members as its
quota takes, `RankedCount` that comparing ranks with a quota selects that many, and
`TopHalfExact` that the top half is then full; the bottom half is what remains. A node of
two records, or of one output, has its records where they belong, and so, by `Goal`, does
the whole network when nothing is pending. A gate passes each side of its pair's tags
on straight or across and its control moves the records alike (`Moves`), so that it
permutes who is responsible for a copy (`Resp`). The replay is reasoned about as a history:
the tape so far, played from the start, leads to the rows and the stack as they are
(`Leads`); that stays so when the tape is continued; when it is complete, the online pass is
a run that comes by each moment of that history (`ComesBy`), and ends where it ends. The
recursive function `ControlCount` is shown to exist for all arguments (`CountsExist`) before
its equation is used; the controls still to be written are the sum of its values over
the stack (`Lacks`).

*The packed array.* `ArrayInv` is that the bytes are `Kept`, what the code's callers have in
mind written out, and of a cursor that its cached gates are those at its position and its
next byte the one after them (`CursorInv`). A move is the only operation that reads what it
also writes: it runs up or down by where the target lies (`CopyOrder`), and `MovedIs` shows
that each control is read before the move overwrites it, so that the moved part is what the
source held before the move began.

*The plan and its threads.* `ForksFit` speaks of one moment; that it holds rests on the whole
run. `RunInv` has four parts. `PlanInv` is about the tree while `Add` builds it: each node has
as many records as its samples can use and the part of the output that its samples have
(`NodeInv`), a child is what its parent's division says or is still to be made (`ChildInv`,
`TodoInv`), every node has one parent (`ParentInv`, `OneParent`), the spans of the forks and
of the edges follow each other on their tapes without a gap (`ForkSpans`, `EdgeSpans`), and
every sample has a leaf or is still to get one (`CoverInv`). That an accepted frontier shares
all samples out, and that halving does, is `DivisionShares`. `StackInv` is about the calls: they
are for children that their node has, at a depth that leaves room for all workspaces below
(`FramesOK`; a subtree needs fewer levels than its parent, `DepthGrows`), the ranges of the
threads that run something are disjoint and lie in the pool (`RangesApart`), and a call
that is not the last of its thread waits for a branch or works alone (`Towers`). The last
part is why a thread's stack can be judged by its top. `RangesApart` needs that a split
gives each half at least one thread and both together what they had; `ThreadShare` is cut
to that, and the quotient that it cuts is only sensible because no half is without samples
(`SplitShares`). `StageInv` says that nothing is left of the plan once a pass begins, and
`ShapeInv` what the dimensions are.

*The calls and what they hand each other.* A call reads what another has left in a workspace,
and other threads write workspaces and output all the while. `WholeInv` adds to `RunInv` what
makes that safe. `AreasApart`: the parts of the plan below any two calls are given disjoint
slices of the output. `NeedsMet`:
whatever a call, or the rest of a branch it waits for, is still to read lies in its buffer as it
was made, and that buffer is `Safe`: nothing that runs before the reader has finished writes it.
A thread writes the workspaces of its own depth and deeper, so its own buffers are safe when
they are less deep than where it goes on (`From`); those of another thread are safe when that
thread is not one that a branch may still be given to (`Inside`) and all it does is deeper.
`InputIntact` alone is not inductive, since it says nothing of who is about to write. `TapesComplete`
and `SamplesDelivered` speak of the end of a pass; that they come true is `Progress`: there
is a set of visited nodes, each of whose children is visited or about to be, by some call
(`Connected`), whose parts of the tapes are written (`TapesDone`) and whose leaves are in the
output, where no call is to write any more (`LeavesDone`). When no call is left that set is
closed under children and holds the root, and so it is the whole tree (`AllVisited`), which is
the argument by least counterexample again: a node's parent has a smaller number. From there on
`TapesInv` keeps the tapes through the reader's pass. Each handler of a call has a lemma that
it finds and leaves its inputs as it should, and one that it advances `Progress`.

*The plan and the serial code.* The serial writer and reader go down the nodes by recursion and
carry the next positions of both tapes along; the plan is made call by call. `LayoutInv`
relates the two while the plan grows: there is a sequence of layouts that begins with what the
plan has laid out (`Laid`), continues with what the serial code would make of each call
that still waits, one after the other (`Awaits`), and ends with the serial code's layout of
the root. A step of the plan takes the first call away, puts its node on the tapes (`NodeLaid`)
and its pieces in front of the rest; the serial code goes through these pieces in the same
order and ends where it would have for the call (`PiecesLaid`: a leaf, the halves of a fork, the
edges of a loop), so that the sequence can be spliced (`AwaitsSpliced`). When no call waits, the
sequence is one layout long. How long the tapes are counted is compared with the serial layout
only, since both are recursions over the same nodes (`NodeCounts`). The serial recursion is a function
of the number of samples whose values are functions of the records and of the layout so far;
that it exists is `RecursionExists`, for any rule that looks at smaller numbers only, and that the
loops over the edges do, `LoopExists`.

*The permutation.* A round adds to one half of a cell a number that depends on the other
half, which it keeps; that can be undone, which makes four of them one to one on the grid.
The grid has a cell for every place because Newton's method ends at the root (`RootIs`,
`GridFits`). The walk from a place comes back below `n`: with as many steps as there are
cells it visits one of them twice, and since the rounds are one to one it has then come back
to where it started (`WalkReturns`). Two walks that end in the same cell started in the same
one: their steps back from there are the same, and a walk that went on past the other's start
would have ended there, below `n` (`WalkedTogether`). A one-to-one function on a finite set
is onto.

*The baselines.* Those that draw one sample after the other carry on a buffer in any order:
`SerialInv` says that it holds every record once and that each delivered sample has `m` of
them, and that compaction, which sends each row to the rank it has among the kept or the
dropped, keeps it so (`CompactIs`). For PSQF_SWO, `ScanInv` counts: a sample has as many
copies as there are places so far that its permutation puts below `m` (`Counted`), a copy's
record is the one at the cursor, and the cursor is the number of copies written. When the
scan stops at `n` copies each sample has exactly `m`, because it can have no more and
there are `k` of them for `n = k m` copies. A sample's copies are of different records, as
the cursor moves on with each place that is copied; a shuffle of all copies changes
neither (`CopiesPermuted`); and a copy goes to the place of its rank among the copies of
its sample, which are all different (`Grouped`).

*The compaction.* Three things are to be shown: that the swaps of one level make a compacted
whole of two compacted halves, that jobs that run at a time do not disturb each other, and
that the recursive functions are what their equations say. The last is `RecursionSolved`: a
recursion whose argument gets less each time has a solution, so that `pow2_lt`, `Calls` and
`Compacted` exist. For the first, a compacted call has a window: the places, counted from its
offset with wraparound, that hold selected records. `PowWindows` is the arithmetic of two
windows of half the length and the pairs that are swapped, wrapped or not; `RestWindows` that
of a rest next to a power of two; `LevelDone` the step from both to the whole. For the second,
the calls are a tree (`IsTree`): any two calls have separate places and separate threads, or
one is below the other and within it. `Ordered` says that only unlocked jobs have ended, from
which it follows that when a level's swaps may start all calls below have ended and been
consumed (`BelowEnded`); two jobs that are both ready therefore belong to one level or to calls
apart, which is `WorkersIdle`. A level's jobs share its pairs out exactly (`JobsCover`,
`CutsShare`), and swaps of disjoint sets of pairs compose to those of their union, in any
order (`SwapsJoin`). `DataOf` says of each call what its places hold: a leaf is as it was or
compacted (`LeafOf`), and a level is its halves as they were when both were done, with the
pairs of the ended jobs swapped (`LevelOf`). A step keeps it for the job's own call, for calls
apart, and for those below and above (`OwnStep`, `ApartStep`, `BelowStep`, `AboveStep`). All of
it is under the condition that no call's offset reaches its length (`Sane`): what happens
otherwise is `compact_wrap`.

*The compaction in order.* A level of the network has comparators of distance `m`, a power of
two, and its pairs run from the left. `AllOnWay`: a selected record has come by less than `m`,
or `2 m` once its pair is behind it (`Stride`), what it still has to go takes it to its goal, and
that is a multiple of `m`, or `2 m`; a record that is not selected has nowhere to go. The
danger is a pair that moves one selected record onto another. `NoConflict`: both would then have
distances that are multiples of `2 m` from this pair's left, so that their goals, which are
different, would be `2 m` or more apart; but goals are no further apart than the records were
at first (`GoalsApart`), and these two have come by so little that they were less than that.
Between levels, a record that no pair of the next level moves has less to go than the
comparators reach, so nothing (`LevelKeeps`); and so has every record when they reach across
the array (`WayEnds`).

*The shuffle.* `ShInv` has two halves. About the calls: a frame has records of the array and
threads of the shuffle (`FramesFit`); of any two frames either both their records and their
threads are separate, or one awaits the other, which lies within it and in the part of the
threads that it gave away (`FramesApart`); a call between marking and compacting has half of
its own span marked, which no other thread's marks touch (`Marks`). `SpansApart` follows. About
the draws: a split that has drawn has on its left what it drew (`DrawsStand`), and no call that
is still to run rearranges records across it (`DrawsClear`); the places where the splits cut
the array are all different (`CutsDiffer`), and every place between two records is cut by a
split that has drawn or by one that a call is still to make (`AllCut`). At the end there are
thus as many draws as places between records, which is the count that `DrawsDecideOrder`
asks for. No record is lost (`AllThere`). Each action puts new frames in place of the running
call's, inside its records and threads; that this keeps what concerns any two frames is proved
once for all actions (`ApartPasses`, `MarksPass`, `StandPasses`, `ClearPasses`, `CutsPass`). The
compaction inside a shuffle meets an array in any order, while `CompactsHolds` speaks of a fresh
one: what `Compacted` does to any array is what it does to the untouched one (`AllTransparent`),
since its swaps depend on the flags alone.

*Sums.* `SumProofs` proves what the folds of the community modules compute over finite
sets: that a sum exists, does not depend on the order in which it is taken, and
changes by one entry's value when the entry does. Its inductions are arguments by
least counterexample: the numbers at which a statement fails are a set of naturals,
which has a least element, so that no induction principle over a predicate is needed. The
same argument shows that recursive functions such as `ControlCount` and `WorkspaceDepth` exist.

Assumptions. Each is an `ASSUME` with a name in the module that declares the
constant, and TLC evaluates it in the runs: numbers are naturals, `Throwing` is a set
of jobs, a null pointer is no pointer. The two theorems about the order-preserving
compaction have the hypothesis `Garbage = {0}` in their statement: the distances of the
records that are not selected start at zero, as in a cleared array; what the code does with
an array that is not cleared is the run `order_garbage`. Nothing else is assumed.

Only model-checked:
- everything about liveness (`CallsEnd`, `PoolCloses`, `RemoveEnds`, `Ends`, and the
  fairness that `KeepsPromise` promises), which needs ENABLED;
- `FfosSerial` with its `SerialDelivered`, `LegacySampling` and the post-order layouts: they
  declare or reach recursive operators, which leave the provers no backend;
- `Unbiased`, a sum over behaviours.

## 7. What is not modelled

- AES, the SGX SDK's random numbers and the application: input and output, or
  external. Decryption and encryption appear in the sessions by how they fail. The
  library's failure to encrypt inside the random pool, which no caller looks at, is a
  step after which the pool is not followed; the bulk generator is not modelled.
- `ObliviousPrimitives`, the assembly and the SSE2 kernels: straight-line code whose
  effect is that of one swap or one gate under a flag. Obliviousness itself, that
  access patterns are independent of the data, is a property of pairs of runs and
  of machine code; the models keep public and secret data apart (what depends on
  the dimensions is in `FfosPlan`) but do not state it.
- Validation of arguments that the callers have already established (sizes that
  overflow a `size_t`, null buffers, foreign plans): assumptions of the initial
  states.
- `RecursiveShuffle_M1` of no records: its base cases are one and two, and it never
  returns (`RecursiveShuffle.tcc:133-163`).
- The first version of the compaction (replaced; no sampler uses it), benchmarks,
  scripts and SDK samples: tooling.
- Controls of FFOS_FR that were written without a plan, which only tests use.

## 8. Plan

The order was and is: what everything else stands on first.

1. Done: `WorkerPool`, `ThreadPool`, `ForkTree`; proofs of the pool.
2. Done: `BitTape`, `PackedTape`; proofs. `PackedControls`. `PointerSet`, `ProbeTable`;
   proofs. `MemoryTracker`.
3. Done: `OFRQuota`, `OFRNetwork`, `OFRPostOrder`; proofs of the arithmetic.
4. Done: `FfosPlan`, `FfosRun`; `Mark`, `MarkRows`, `FfosSerial`; `TightCompact`,
   `OrderCompact`; proof of `Mark`.
5. Done: `RecursiveShuffle`, `LegacySampling`, `Feistel`, `Baselines`, `RandomPool`;
   `DecSession`, `OlderSession`.
6. Done: proofs of the fork tree, of the pool's refinement, of the profiler and of the
   sessions.
7. Done: proofs of the fork-routing network in its depth-first layout, of the random pool,
   of the packed array, and of the baselines with PSQF's permutation; of FFOS_FR's plan, of
   the threads that its forks get, and of all that its writers and readers hand each other; of
   the tight compaction and its threads, of the order-preserving compaction, and of the shuffle.
8. Not begun: proofs of the post-order layouts and of the serial passes, whose recursion would
   have to be written as recursive functions first.
