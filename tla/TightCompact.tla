---------------------------- MODULE TightCompact ----------------------------
(***************************************************************************)
(* Tight compaction by oblivious swaps (TightCompaction_v2.tcc): the       *)
(* selected records come to the front.  A call splits its records into a   *)
(* power of two and a rest, compacts both and swaps pairs; a power of two  *)
(* is compacted to an offset, with wraparound.  A call with more than one  *)
(* thread gives its right half to another thread, waits for it, and then   *)
(* cuts the swaps of its own level into a job for each of its threads.     *)
(*                                                                         *)
(* Records are named by the places they had; positions count from 0, as in *)
(* the code.                                                               *)
(***************************************************************************)
EXTENDS Integers, FiniteSets

CONSTANTS
  MinN, MaxN,    \* bounds: the records
  MaxThreads,    \* bound: the threads
  MinParallel    \* a rest of fewer records is compacted by one thread (16)

ASSUME CompactAssumption ==
  /\ MinN \in Nat /\ MaxN \in Nat /\ MaxThreads \in Nat \ {0}
  /\ MinParallel \in Nat /\ MinParallel > 2

VARIABLES
  threads,   \* the threads of the whole call
  selected,  \* the places selected; the flags do not move with the records
  buf,       \* the record at every place
  tree,      \* the calls that are made
  done       \* the jobs of these calls that have ended, as <<call, index>>

vars == <<threads, selected, buf, tree, done>>

-----------------------------------------------------------------------------
(* Calls.  TightCompact_2power_inner is called with pow, TightCompact_inner *)
(* without; lo is the first place, and thread, with the nthreads - 1 after  *)
(* it, the call's threads.                                                  *)

Call ==
  [pow : BOOLEAN, lo : Nat, n : Nat, offset : Nat, nthreads : Nat, thread : Nat]

Places(c) == c.lo .. c.lo + c.n - 1

\* Largest power of two below k: what doubling from 1 comes to is twice what it
\* comes to for half of k, rounded up.
pow2_lt[k \in Nat] == IF k <= 2 THEN k \div 2 ELSE 2 * pow2_lt[(k + 1) \div 2]

\* selected_count[k] - selected_count[0] for the flags from lo.
Selected(lo, k) == Cardinality(selected \cap (lo .. lo + k - 1))

IsSerial(c) == c.nthreads <= 1 \/ (~ c.pow /\ c.n < MinParallel)
IsBase(c) == c.n <= 2
IsLeaf(c) == IsSerial(c) \/ IsBase(c)

\* The records of the left half or rest, and how many of them are selected.
Split(c) == IF c.pow THEN c.n \div 2 ELSE c.n - pow2_lt[c.n]
SelectedLeft(c) == Selected(c.lo, Split(c))

\* The offset of the right half.  Only the serial call reduces the offset of the
\* power of two next to a rest.
OffsetRight(c) ==
  IF c.pow THEN (c.offset + SelectedLeft(c)) % Split(c)
  ELSE LET offset == pow2_lt[c.n] - Split(c) + SelectedLeft(c)
       IN IF IsSerial(c) THEN offset % pow2_lt[c.n] ELSE offset

LeftThreads(c) == IF IsSerial(c) THEN 1 ELSE c.nthreads \div 2
RightThreads(c) == IF IsSerial(c) THEN 1 ELSE c.nthreads - c.nthreads \div 2

\* Mutant: the right half starts after as many threads as it gets itself.
RightThreadByItsCount(c) == IF IsSerial(c) THEN c.thread ELSE c.thread + RightThreads(c)

RightThread(c) == IF IsSerial(c) THEN c.thread ELSE c.thread + LeftThreads(c)

LeftCall(c) ==
  [c EXCEPT !.n = Split(c), !.nthreads = LeftThreads(c),
            !.offset = IF c.pow THEN @ % Split(c) ELSE 0]

RightCall(c) ==
  [pow |-> TRUE, lo |-> c.lo + Split(c), n |-> c.n - Split(c),
   offset |-> OffsetRight(c), nthreads |-> RightThreads(c), thread |-> RightThread(c)]

-----------------------------------------------------------------------------
(* Swaps.                                                                   *)

\* The places i of the left that are swapped with the one Apart(c) further on.
Pairs(c) == IF c.n < 2 THEN 0 ELSE IF c.n = 2 THEN 1 ELSE Split(c)
Apart(c) == IF IsBase(c) THEN 1 ELSE IF c.pow THEN Split(c) ELSE pow2_lt[c.n]

\* Two records are swapped if only the second is selected, unless the offset
\* says otherwise: a boolean and a number under ^.
SwapsTwo(c) ==
  (IF c.lo \notin selected /\ c.lo + 1 \in selected THEN 1 ELSE 0) # c.offset

LeftWrapped(c) == (c.offset % Split(c)) + SelectedLeft(c) >= Split(c)

\* Is pair i swapped?
Swaps(c, i) ==
  IF IsBase(c) THEN SwapsTwo(c)
  ELSE IF c.pow THEN (i >= OffsetRight(c)) # (LeftWrapped(c) # (c.offset >= Split(c)))
  ELSE i >= SelectedLeft(c)

\* oswap_range over the pairs.
SwapRange(b, c, pairs) ==
  LET swapped == {c.lo + i : i \in {j \in pairs : Swaps(c, j)}}
  IN [p \in DOMAIN b |-> CASE p \in swapped -> b[p + Apart(c)]
                            [] p - Apart(c) \in swapped -> b[p - Apart(c)]
                            [] OTHER -> b[p]]

Array == [DOMAIN buf -> DOMAIN buf]

\* What one thread makes of an array b.
Compacted[c \in {d \in Call : Places(d) \subseteq DOMAIN buf}] ==
  [b \in Array |->
    SwapRange(IF IsBase(c) THEN b ELSE Compacted[RightCall(c)][Compacted[LeftCall(c)][b]],
              c, 0 .. Pairs(c) - 1)]

-----------------------------------------------------------------------------
(* The jobs of a call.                                                      *)

Calls[c \in Call] ==
  {c} \cup IF IsLeaf(c) THEN {} ELSE Calls[LeftCall(c)] \cup Calls[RightCall(c)]

Job(c) == IF IsLeaf(c) THEN {0} ELSE 0 .. c.nthreads - 1

\* The first pair of a job: the jobs before it have inc pairs, and the first
\* extra of them one more.
FirstPair(c, i) ==
  LET inc == Pairs(c) \div c.nthreads
      extra == Pairs(c) % c.nthreads
  IN i * inc + (IF i < extra THEN i ELSE extra)

\* The last job is the calling thread's own.
Worker(c, i) == IF IsLeaf(c) \/ i = c.nthreads - 1 THEN c.thread ELSE c.thread + 1 + i

Ended(c) == \A i \in Job(c) : <<c, i>> \in done

\* Mutant: the right half is not joined.
UnlockedUnjoined(c) == IsLeaf(c) \/ Ended(LeftCall(c))

\* Both halves are joined before a level's swaps start.
Unlocked(c) == IsLeaf(c) \/ (Ended(LeftCall(c)) /\ Ended(RightCall(c)))

Ready == {job \in UNION {{c} \X Job(c) : c \in tree} : job \notin done /\ Unlocked(job[1])}

Whole(n, nthreads) ==
  [pow |-> FALSE, lo |-> 0, n |-> n, offset |-> 0, nthreads |-> nthreads, thread |-> 0]

Init ==
  /\ threads \in 1 .. MaxThreads
  /\ \E n \in MinN .. MaxN :
       /\ selected \in SUBSET (0 .. n - 1)
       /\ buf = [p \in 0 .. n - 1 |-> p]
       /\ tree = Calls[Whole(n, threads)]
  /\ done = {}

\* A call by one thread, or a thread's share of the swaps.
Run(c, i) ==
  /\ <<c, i>> \in Ready
  /\ buf' = IF IsLeaf(c) THEN Compacted[c][buf]
            ELSE SwapRange(buf, c, FirstPair(c, i) .. FirstPair(c, i + 1) - 1)
  /\ done' = done \cup {<<c, i>>}
  /\ UNCHANGED <<threads, selected, tree>>

Next == \E c \in tree : \E i \in Job(c) : Run(c, i)

Spec == Init /\ [][Next]_vars

-----------------------------------------------------------------------------
(* Properties.                                                              *)

\* Type invariant.
TypeOK ==
  /\ threads \in 1 .. MaxThreads
  /\ selected \subseteq DOMAIN buf
  /\ buf \in [DOMAIN buf -> DOMAIN buf]
  /\ done \subseteq UNION {{c} \X Job(c) : c \in tree}

\* The call has ended and its caller has not started on its swaps.
Settled(c) ==
  /\ Ended(c)
  /\ \A job \in done : IsLeaf(job[1]) \/ c \notin {LeftCall(job[1]), RightCall(job[1])}

\* What a call promises: its records are still its own, and the selected are the
\* first from the offset, with wraparound.
IsCompacted(c) ==
  /\ {buf[p] : p \in Places(c)} = Places(c)
  /\ {p \in Places(c) : buf[p] \in selected} =
       {c.lo + ((c.offset + j) % c.n) : j \in 0 .. Selected(c.lo, c.n) - 1}

\* However the jobs of the threads interleave, every call leaves its selected
\* records where its caller expects them, if every offset is below the number of
\* records (TightCompaction_v2.tcc:40-98, 155-228 and 284-420).
Compacts ==
  (\A c \in tree : c.n > 0 => c.offset < c.n) => \A c \in tree : Settled(c) => IsCompacted(c)

\* The jobs that may run at a time run on different threads, all of them threads
\* of the whole call: no dispatch finds its worker busy
\* (TightCompaction_v2.tcc:188-202, 218-226 and 382-419).
WorkersIdle ==
  \A job \in Ready :
    /\ Worker(job[1], job[2]) < threads
    /\ \A other \in Ready :
         Worker(other[1], other[2]) = Worker(job[1], job[2]) => other = job

\* TightCompaction_v2.tcc:12-14 of the result: all the real blocks are moved to
\* the start of the array.
RealBlocksMovedToStart ==
  (\A c \in tree : Ended(c)) =>
    {p \in DOMAIN buf : buf[p] \in selected} = 0 .. Cardinality(selected) - 1
=============================================================================
