-------------------------- MODULE RecursiveShuffle --------------------------
(***************************************************************************)
(* The recursive shuffle (ORShuffle): a call marks half of its records at  *)
(* random, compacts the marked ones to its left half, and shuffles both    *)
(* halves; two records are swapped by a coin.  A call with more than one   *)
(* thread gives its left half to another thread and joins it.  M1 is the   *)
(* older form, by one thread and with the order-preserving compaction.     *)
(*                                                                         *)
(* Records are named by the places they had.  left remembers what a call   *)
(* drew for its left half.                                                 *)
(***************************************************************************)
EXTENDS TightCompact, Sequences, SequencesExt, FiniteSetsExt

CONSTANT
  MaxRecords     \* bound: the records that are shuffled

ASSUME ShuffleAssumption == MaxRecords \in Nat

\* threads, selected (selected_list) and buf are those of the compaction.
VARIABLES
  method,     \* "M1" or "M2"
  outcome,    \* "entered", "running", "unshuffled" or "aborted"
  pool,       \* whether threadpool_init has succeeded
  stacks,     \* the calls on every thread, the running one last
  drawn       \* the calls that have drawn, and what

shuffle_own == <<method, outcome, pool, stacks, drawn>>
shuffle_vars == <<vars, shuffle_own>>

-----------------------------------------------------------------------------
(* Calls.                                                                   *)

\* A call's records are the n from lo on, of buf and of selected_list; next is
\* what it does next.
Part(lo, n, nthreads) ==
  [lo |-> lo, n |-> n, nthreads |-> nthreads,
   next |-> IF n = 2 THEN "coin" ELSE "mark", left |-> {}]

\* The frames of a call: fewer than two records return at once.
Frames(c) == IF c.n <= 1 THEN << >> ELSE <<c>>

Span(c) == c.lo .. c.lo + c.n - 1
LeftSpan(c) == c.lo .. c.lo + c.n \div 2 - 1

ThreadsLeft(c) == IF c.nthreads <= 1 THEN 1 ELSE c.nthreads \div 2
ThreadsRight(c) == IF c.nthreads <= 1 THEN 1 ELSE c.nthreads - c.nthreads \div 2

\* Mutant: the left half's threads start after as many as it gets itself.
LeftThreadByItsCount(t, c) == t + ThreadsLeft(c)

\* leftthreadid
LeftThread(t, c) == t + ThreadsRight(c)

LeftPart(c) == Part(c.lo, c.n \div 2, ThreadsLeft(c))

RightPart(c) == Part(c.lo + c.n \div 2, c.n - c.n \div 2, ThreadsRight(c))

Running(t) == outcome = "running" /\ stacks[t] # << >>
Top(t) == Last(stacks[t])
Does(t, what) == Running(t) /\ Top(t).next = what

\* Thread t's calls with f in place of the running one.
Becomes(t, f) == [stacks EXCEPT ![t] = Front(@) \o f]

-----------------------------------------------------------------------------

ShuffleInit ==
  /\ method \in {"M1", "M2"}
  /\ threads \in 1 .. (IF method = "M1" THEN 1 ELSE MaxThreads)
  /\ \E n \in (IF method = "M1" THEN 1 ELSE 0) .. MaxRecords :
       buf = [p \in 0 .. n - 1 |-> p]
  /\ selected = {}
  /\ outcome = "entered"
  /\ pool = FALSE
  /\ stacks = [t \in 0 .. threads - 1 |-> << >>]
  /\ drawn = {}
  /\ tree = {} /\ done = {}

Records == Cardinality(DOMAIN buf)

\* The arrays are there.  Nobody looks whether threadpool_init, which only more
\* than one thread need, has succeeded.
Enter ==
  /\ outcome = "entered"
  /\ outcome' = "running"
  /\ pool' \in (IF threads > 1 THEN BOOLEAN ELSE {FALSE})
  /\ stacks' = [stacks EXCEPT ![0] = Frames(Part(0, Records, threads))]
  /\ UNCHANGED <<threads, selected, buf, method, drawn, tree, done>>

\* RecursiveShuffle_M2_parallel returns without a word when it gets no array that
\* it needs; RecursiveShuffle_M1 goes on with whatever the pointers hold.
AcquireFails ==
  /\ outcome = "entered"
  /\ method = "M2" => Records > 2
  /\ outcome' = (IF method = "M2" THEN "unshuffled" ELSE "aborted")
  /\ UNCHANGED <<threads, selected, buf, method, pool, stacks, drawn, tree, done>>

-----------------------------------------------------------------------------
(* A call.                                                                  *)

\* Mutant: the marks of earlier calls stay.
MarkedOnTop(c, half) == selected \cup half

\* selected_list after MarkHalf: every flag of the span is written.
Marked(c, half) == (selected \ Span(c)) \cup half

\* MarkHalf draws any half of the records.
MarkHalf(t) ==
  /\ Does(t, "mark")
  /\ \E half \in kSubset(Top(t).n \div 2, Span(Top(t))) :
       /\ selected' = Marked(Top(t), half)
       /\ stacks' = Becomes(t, <<[Top(t) EXCEPT !.next = "compact",
                                                !.left = {buf[p] : p \in half}]>>)
  /\ UNCHANGED <<threads, buf, method, outcome, pool, drawn, tree, done>>

\* Base case: getRandomBit and oswap_buffer.
Coin(t) ==
  /\ Does(t, "coin")
  /\ \E swap \in BOOLEAN :
       LET a == Top(t).lo
           first == IF swap THEN buf[a + 1] ELSE buf[a]
           second == IF swap THEN buf[a] ELSE buf[a + 1]
       IN /\ buf' = [buf EXCEPT ![a] = first, ![a + 1] = second]
          /\ drawn' = drawn \cup {[lo |-> a, n |-> 2, left |-> {first}, sound |-> TRUE]}
  /\ stacks' = Becomes(t, << >>)
  /\ UNCHANGED <<threads, selected, method, outcome, pool, tree, done>>

\* The call as the compaction sees it.
Compaction(t) == [Whole(Top(t).n, Top(t).nthreads) EXCEPT !.lo = Top(t).lo, !.thread = t]

\* Does it give every part an offset below its length?
Sound(t) == method = "M1" \/ \A c \in Calls[Compaction(t)] : c.n > 0 => c.offset < c.n

CountBelow(S, p) == Cardinality({q \in S : q < p})

\* Where OP_TightCompact sends the record at place p: the marked records come to the
\* front, in their order.
GoalInOrder(c, p) ==
  c.lo + IF p \in selected THEN CountBelow(selected \cap Span(c), p)
         ELSE Cardinality(selected \cap Span(c)) + CountBelow(Span(c) \ selected, p)

Orders(S) == {f \in [S -> S] : \A p \in S : \E q \in S : f[q] = p}

\* What it makes of buf, over a cleared array.  The others come to lie behind the
\* marked ones in some order or other, as swaps leave them.
InOrder(c) ==
  {[p \in DOMAIN buf |->
      IF p \in Span(c) THEN LET q == CHOOSE r \in Span(c) : GoalInOrder(c, r) = p
                            IN buf[IF q \in selected THEN q ELSE others[q]]
      ELSE buf[p]] : others \in Orders(Span(c) \ selected)}

\* TightCompact, TightCompact_parallel or OP_TightCompact, by the flags as they
\* are now.  The parallel one dispatches.
Compact(t) ==
  /\ Does(t, "compact")
  /\ IF ~ IsLeaf(Compaction(t)) /\ ~ pool
     THEN outcome' = "aborted" /\ UNCHANGED <<buf, stacks, drawn>>
     ELSE /\ buf' \in (IF method = "M1" THEN InOrder(Top(t))
                       ELSE {Compacted[Compaction(t)][buf]})
          /\ drawn' = drawn \cup {[lo |-> Top(t).lo, n |-> Top(t).n, left |-> Top(t).left,
                                   sound |-> Sound(t)]}
          /\ stacks' = Becomes(t, <<[Top(t) EXCEPT !.next = "halves"]>>)
          /\ UNCHANGED outcome
  /\ UNCHANGED <<threads, selected, method, pool, tree, done>>

\* One thread shuffles the left half and then the right.
Halves(t) ==
  /\ Does(t, "halves") /\ Top(t).nthreads <= 1
  /\ stacks' = Becomes(t, Frames(RightPart(Top(t))) \o Frames(LeftPart(Top(t))))
  /\ UNCHANGED <<threads, selected, buf, method, outcome, pool, drawn, tree, done>>

\* threadpool_dispatch of the left half; the right half here.  Without a pool
\* there is no such thread.
Dispatch(t) ==
  /\ Does(t, "halves") /\ Top(t).nthreads > 1
  /\ LET worker == LeftThread(t, Top(t))
     IN IF pool
        THEN /\ stacks' = [Becomes(t, <<[Top(t) EXCEPT !.next = "join"]>>
                                        \o Frames(RightPart(Top(t))))
                             EXCEPT ![worker] = Frames(LeftPart(Top(t)))]
             /\ UNCHANGED outcome
        ELSE outcome' = "aborted" /\ UNCHANGED stacks
  /\ UNCHANGED <<threads, selected, buf, method, pool, drawn, tree, done>>

\* threadpool_join returns when the worker is done.
Join(t) ==
  /\ Does(t, "join") /\ stacks[LeftThread(t, Top(t))] = << >>
  /\ stacks' = Becomes(t, << >>)
  /\ UNCHANGED <<threads, selected, buf, method, outcome, pool, drawn, tree, done>>

ShuffleNext ==
  \/ Enter
  \/ AcquireFails
  \/ \E t \in DOMAIN stacks :
       MarkHalf(t) \/ Coin(t) \/ Compact(t) \/ Halves(t) \/ Dispatch(t) \/ Join(t)

ShuffleSpec == ShuffleInit /\ [][ShuffleNext]_shuffle_vars

-----------------------------------------------------------------------------
(* Properties.                                                              *)

ShuffleEnded == outcome = "running" /\ \A t \in DOMAIN stacks : stacks[t] = << >>

\* When a shuffle ends, whatever the threads' order, every split of its records
\* has drawn once, and has on its left exactly what it drew, unless its compaction
\* overran an offset: no order can come from two sequences of draws.  A shuffle
\* that could not start has moved nothing (RecursiveShuffle.tcc:9-39, 62-128 and
\* 133-163).
DrawsDecideOrder ==
  /\ outcome = "unshuffled" => \A p \in DOMAIN buf : buf[p] = p
  /\ ShuffleEnded =>
       /\ {buf[p] : p \in DOMAIN buf} = DOMAIN buf
       /\ Records > 0 => Cardinality(drawn) = Records - 1
       /\ \A d \in drawn : d.sound => {buf[p] : p \in LeftSpan(d)} = d.left

\* The calls that run on two threads at a time have none of their records and
\* flags in common, though all of them write in one array of each, and a half is
\* given only to a thread that is idle and one of the shuffle's
\* (RecursiveShuffle.tcc:100-120).
SpansApart ==
  \A t \in DOMAIN stacks : Running(t) =>
    /\ \A u \in DOMAIN stacks \ {t} :
         (Running(u) /\ Top(t).next # "join" /\ Top(u).next # "join") =>
            Span(Top(t)) \cap Span(Top(u)) = {}
    /\ Does(t, "halves") /\ Top(t).nthreads > 1 =>
         /\ LeftThread(t, Top(t)) \in DOMAIN stacks
         /\ stacks[LeftThread(t, Top(t))] = << >>

=============================================================================
