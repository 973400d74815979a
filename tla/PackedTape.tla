----------------------------- MODULE PackedTape -----------------------------
(***************************************************************************)
(* Writers of adjacent spans of a packed control tape, running in parallel *)
(* (PackedBoundary.hpp, PackedControls.hpp, BuildControls of FFOS_FR.cpp   *)
(* and CompactMarkToWorkspaceAndControl of FFOS_C/helper.cpp).             *)
(*                                                                         *)
(* A tape is a sequence of bytes that plan nodes fill with controls of one *)
(* or two bits.  The spans of the nodes are contiguous and a byte at the   *)
(* end of one may also hold the start of the next.  A control is set by    *)
(* reading the bytes it lies in and writing them back changed, which is no *)
(* atomic step, so a writer keeps the bytes it may share in its own        *)
(* PackedBoundary until all writers have joined.  Bit b of the tape is bit *)
(* b % 8 of byte b \div 8; a byte is modelled by its bits.                 *)
(***************************************************************************)
EXTENDS Integers

CONSTANTS
  Length,     \* the bits of the tape
  Writers,    \* the plan nodes that have a span
  Unit,       \* the bits of a control: 1 for SWO, 2 for OFR
  Grains,     \* the bits that one call sets
  Source      \* the bit that every position of the tape is to get

ASSUME LengthAssumption == Length \in Nat /\ Writers \in Nat
ASSUME UnitAssumption == Unit \in Nat \ {0} /\ Grains \subseteq Nat \ {0}
ASSUME SourceAssumption == Source \in [0 .. Length - 1 -> {0, 1}]

Position == 0 .. Length - 1
Writer == 1 .. Writers

VARIABLES
  cut,        \* writer w's span is the positions cut[w - 1] .. cut[w] - 1
  tape,       \* the bits in memory
  staged,     \* first_value and last_value of every writer, by position
  chunk,      \* the positions that a writer is about to set
  held,       \* the bytes it has read for that, by position
  written,    \* the positions that have been set
  committed   \* how many boundaries have been committed

vars == <<cut, tape, staged, chunk, held, written, committed>>

-----------------------------------------------------------------------------
(* PackedBoundary.                                                          *)

Span(w) == cut[w - 1] .. cut[w] - 1

\* Mutant: the last byte of a span of several bytes is not staged.
StagesFirstOnly(w, i) ==
  LET first == cut[w - 1] \div 8
  IN  i = first /\ IF first = (cut[w] - 1) \div 8 THEN cut[w] - cut[w - 1] # 8
                   ELSE cut[w - 1] % 8 # 0

\* Init gives byte i of the span a mask when the byte is the first one and
\* does not start it, or the last one and does not end it.
Stages(w, i) ==
  LET first == cut[w - 1] \div 8
      last == (cut[w] - 1) \div 8
  IN  IF first = last
      THEN i = first /\ cut[w] - cut[w - 1] # 8
      ELSE \/ i = first /\ cut[w - 1] % 8 # 0
           \/ i = last /\ cut[w] % 8 # 0

\* The bit at b of the byte that w reads.
Read(w, b) == IF Stages(w, b \div 8) THEN staged[w][b] ELSE tape[b]

\* All positions of the bytes that the positions in S lie in.
Bytes(S) == {c \in Position : \E b \in S : c \div 8 = b \div 8}

-----------------------------------------------------------------------------

\* The spans that the plan gives its nodes are consecutive and cover the tape.
Init ==
  /\ cut \in [0 .. Writers -> 0 .. Length]
  /\ \A w \in Writer : cut[w - 1] < cut[w] /\ cut[w] % Unit = 0
  /\ \A v, w \in Writer : v < w => cut[v] <= cut[w - 1]
  /\ \A b \in Position : \E w \in Writer : b \in Span(w)
  /\ tape = [b \in Position |-> 0]
  /\ staged = [w \in Writer |-> [b \in Position |-> 0]]
  /\ chunk = [w \in Writer |-> {}]
  /\ held = [w \in Writer |-> [b \in Position |-> 0]]
  /\ written = {}
  /\ committed = 0

\* The first half of set, set_two_encoded and so on: the bytes are read.
Load(w, lo, g) ==
  LET new == lo .. lo + g - 1 IN
  /\ chunk[w] = {}
  /\ new \subseteq Span(w) \ written
  /\ chunk' = [chunk EXCEPT ![w] = new]
  /\ held' = [held EXCEPT ![w] =
                [b \in Position |-> IF b \in Bytes(new) THEN Read(w, b) ELSE 0]]
  /\ UNCHANGED <<cut, tape, staged, written, committed>>

\* Mutant: the bytes are rebuilt from the controls alone.
StoreBlind(w) ==
  LET new == [b \in Position |-> IF b \in chunk[w] THEN Source[b] ELSE 0]
      own(b) == b \in Bytes(chunk[w]) /\ Stages(w, b \div 8)
      direct(b) == b \in Bytes(chunk[w]) /\ ~ Stages(w, b \div 8)
  IN
  /\ chunk[w] # {}
  /\ staged' = [staged EXCEPT ![w] =
                  [b \in Position |-> IF own(b) THEN new[b] ELSE staged[w][b]]]
  /\ tape' = [b \in Position |-> IF direct(b) THEN new[b] ELSE tape[b]]
  /\ written' = written \cup chunk[w]
  /\ chunk' = [chunk EXCEPT ![w] = {}]
  /\ held' = [held EXCEPT ![w] = [b \in Position |-> 0]]
  /\ UNCHANGED <<cut, committed>>

\* The second half: they are written back with the controls in them.
Store(w) ==
  LET new == [b \in Position |-> IF b \in chunk[w] THEN Source[b] ELSE held[w][b]]
      own(b) == b \in Bytes(chunk[w]) /\ Stages(w, b \div 8)
      direct(b) == b \in Bytes(chunk[w]) /\ ~ Stages(w, b \div 8)
  IN
  /\ chunk[w] # {}
  /\ staged' = [staged EXCEPT ![w] =
                  [b \in Position |-> IF own(b) THEN new[b] ELSE staged[w][b]]]
  /\ tape' = [b \in Position |-> IF direct(b) THEN new[b] ELSE tape[b]]
  /\ written' = written \cup chunk[w]
  /\ chunk' = [chunk EXCEPT ![w] = {}]
  /\ held' = [held EXCEPT ![w] = [b \in Position |-> 0]]
  /\ UNCHANGED <<cut, committed>>

\* Mutant: Commit copies the whole staged byte instead of the masked bits.
CommitUnmasked(w) ==
  /\ written = Position
  /\ w = committed + 1
  /\ committed' = w
  /\ tape' = [b \in Position |-> IF b \in Bytes(Span(w)) /\ Stages(w, b \div 8)
                                 THEN staged[w][b] ELSE tape[b]]
  /\ UNCHANGED <<cut, staged, chunk, held, written>>

\* When the last writer has joined, the boundaries are committed in plan order.
Commit(w) ==
  /\ written = Position
  /\ w = committed + 1
  /\ committed' = w
  /\ tape' = [b \in Position |-> IF b \in Span(w) /\ Stages(w, b \div 8)
                                 THEN staged[w][b] ELSE tape[b]]
  /\ UNCHANGED <<cut, staged, chunk, held, written>>

\* BuildControls returns the tape.
Done == committed = Writers /\ UNCHANGED vars

Next ==
  \/ \E w \in Writer :
       \/ \E lo \in Span(w), g \in Grains : lo % Unit = 0 /\ Load(w, lo, g)
       \/ Store(w)
       \/ Commit(w)
  \/ Done

Spec == Init /\ [][Next]_vars

-----------------------------------------------------------------------------
(* Properties.                                                              *)

\* Type invariant.
TypeOK ==
  /\ cut \in [0 .. Writers -> 0 .. Length]
  /\ tape \in [Position -> {0, 1}]
  /\ staged \in [Writer -> [Position -> {0, 1}]]
  /\ chunk \in [Writer -> SUBSET Position]
  /\ held \in [Writer -> [Position -> {0, 1}]]
  /\ written \subseteq Position
  /\ committed \in 0 .. Writers

\* Full bytes belong to exactly one public span (PackedBoundary.hpp:7): no two
\* threads are ever in the middle of changing the same byte of memory.
NoByteRace ==
  \A v, w \in Writer : v # w =>
    \A b \in Bytes(chunk[v]) \cap Bytes(chunk[w]) :
      Stages(v, b \div 8) /\ Stages(w, b \div 8)

\* When every boundary has been committed the tape is what a single writer
\* would have written: no control is lost to a neighbour of its byte.
TapeComplete == committed = Writers => tape = Source

\* The tape as its writers see it: the staged bits stand for those in memory
\* until they are committed.
Owner(b) == CHOOSE w \in Writer : b \in Span(w)
View == [b \in Position |->
           IF Stages(Owner(b), b \div 8) /\ committed < Owner(b)
           THEN staged[Owner(b)][b] ELSE tape[b]]

\* The packed tape with its boundaries is a tape of bits that are set
\* atomically.
Promise == INSTANCE BitTape WITH bits <- View
KeepsPromise == Promise!Spec

=============================================================================
