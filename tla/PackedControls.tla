--------------------------- MODULE PackedControls ---------------------------
(***************************************************************************)
(* The array of two-bit controls (PackedControls.hpp) by itself: four of   *)
(* them to a byte, whoever resizes it, sets one or several together or     *)
(* copies a part of it over another, and the cursor that reads it from     *)
(* anywhere on, loading every byte once.  A byte is modelled by its four   *)
(* gates, of which gate g is the bits 2 * g and 2 * g + 1.                 *)
(*                                                                         *)
(* contents is the array that the callers have in mind.  Calls that throw  *)
(* change nothing and are left out.                                        *)
(***************************************************************************)
EXTENDS Integers, Sequences

CONSTANTS
  MaxControls,   \* bound: the controls
  MaxCalls,   \* bound: the calls that change the array
  Groups      \* how many are set together

ASSUME ControlsAssumption == MaxControls \in Nat /\ Groups \subseteq Nat

VARIABLES
  count_,     \* the controls
  bytes_,     \* the gates of all bytes, the padding of the last included
  contents,   \* ghost: what the callers have put in
  cursor,     \* the PackedControlCursor, or << >>
  misread,    \* ghost: it delivered something else
  changes     \* the calls so far

array_vars == <<count_, bytes_, contents, cursor, misread, changes>>

ByteGates == 0 .. 3

\* What a caller that numbers its controls from some value on would set.
Pattern(first, i) == (first + i) % 4

-----------------------------------------------------------------------------
(* The array.                                                               *)

\* The gates of the bytes for so many controls.
GatesFor(count) == 0 .. 4 * ((count \div 4) + (IF count % 4 # 0 THEN 1 ELSE 0)) - 1

\* Mutant: padding keeps what was there before the array shrank.
ResizedUnmasked(count, value) ==
  [g \in GatesFor(count) |->
     IF count > count_ /\ value # 0 /\ g \in count_ .. count - 1 THEN value
     ELSE IF g \in DOMAIN bytes_ THEN bytes_[g] ELSE 0]

\* resize: new bytes are zero, new controls are set unless the value is zero too,
\* and what is left of the last byte is cleared.
Resized(count, value) ==
  [g \in GatesFor(count) |->
     IF g >= count THEN 0
     ELSE IF count > count_ /\ value # 0 /\ g >= count_ THEN value
     ELSE IF g \in DOMAIN bytes_ THEN bytes_[g] ELSE 0]

\* The set_..._encoded: some controls in the bytes they lie in.
Encoded(index, group, first) ==
  [g \in DOMAIN bytes_ |->
     IF g \in index .. index + group - 1 THEN Pattern(first, g - index) ELSE bytes_[g]]

\* The order in which copy_from moves size controls from source to offset: from
\* the last one if they overlap and are moved up.
CopyOrder(offset, source, size) ==
  [x \in 1 .. size |->
     IF offset > source /\ offset - source < size THEN size - x ELSE x - 1]

\* The bytes after so many of them have been moved, one after the other.
Moved(offset, source, size) ==
  LET order == CopyOrder(offset, source, size)
      after[x \in 0 .. size] ==
        IF x = 0 THEN bytes_
        ELSE [after[x - 1] EXCEPT ![offset + order[x]] = after[x - 1][source + order[x]]]
  IN after[size]

Change(count, bytes, intended) ==
  /\ cursor = << >> /\ changes < MaxCalls
  /\ count_' = count /\ bytes_' = bytes /\ contents' = intended
  /\ changes' = changes + 1
  /\ UNCHANGED <<cursor, misread>>

resize(count, value) ==
  Change(count, Resized(count, value),
         [i \in 0 .. count - 1 |-> IF i < count_ THEN contents[i] ELSE value])

set(index, group, first) ==
  /\ index + group <= count_
  /\ Change(count_, Encoded(index, group, first),
            [i \in 0 .. count_ - 1 |->
               IF i \in index .. index + group - 1 THEN Pattern(first, i - index) ELSE contents[i]])

\* The source is a view of the array itself.
copy_from(offset, source, size) ==
  /\ offset + size <= count_ /\ source + size <= count_
  /\ Change(count_, Moved(offset, source, size),
            [i \in 0 .. count_ - 1 |->
               IF i \in offset .. offset + size - 1 THEN contents[source + i - offset]
               ELSE contents[i]])

-----------------------------------------------------------------------------
(* The cursor.                                                              *)

\* A byte shifted down by some gates.
ShiftedDown(byte, gates) == [g \in ByteGates |-> IF g + gates < 4 THEN byte[g + gates] ELSE 0]

ByteAt(index) == [g \in ByteGates |-> bytes_[4 * index + g]]

\* The cursor over the controls from gate on; without any, it never loads a byte.
Open(gate) ==
  /\ cursor = << >>
  /\ cursor' = IF gate = count_
               THEN [position |-> gate, next_byte |-> -1, cached_gates |-> 0,
                     cached_byte |-> [g \in ByteGates |-> 0]]
               ELSE [position |-> gate, next_byte |-> gate \div 4 + 1,
                     cached_gates |-> 4 - (gate % 4),
                     cached_byte |-> ShiftedDown(ByteAt(gate \div 4), gate % 4)]
  /\ UNCHANGED <<count_, bytes_, contents, misread, changes>>

\* The cursor is left behind with so many controls delivered.
Delivers(controls, next_cursor) ==
  /\ misread' = (misread \/ \E x \in DOMAIN controls :
                               controls[x] # contents[cursor.position + x - 1])
  /\ cursor' = [next_cursor EXCEPT !.position = @ + Len(controls)]
  /\ UNCHANGED <<count_, bytes_, contents, changes>>

\* The cursor with a byte in its cache.
Loaded ==
  IF cursor.cached_gates # 0 THEN cursor
  ELSE [cursor EXCEPT !.cached_byte = ByteAt(cursor.next_byte), !.next_byte = @ + 1,
                      !.cached_gates = 4]

\* nextUnchecked
Next1 ==
  /\ cursor # << >> /\ cursor.position < count_
  /\ Delivers(<<Loaded.cached_byte[0]>>,
              [Loaded EXCEPT !.cached_byte = ShiftedDown(@, 1), !.cached_gates = @ - 1])

\* nextFourUnchecked, after the caller has seen that there are four: a byte of its
\* own, the one in the cache, or the end of that and the start of the following.
Next4 ==
  /\ cursor # << >> /\ cursor.position + 4 <= count_
  /\ LET left == cursor.cached_gates
         following == ByteAt(cursor.next_byte)
         whole(byte) == [x \in 1 .. 4 |-> byte[x - 1]]
     IN CASE left = 0 -> Delivers(whole(following), [cursor EXCEPT !.next_byte = @ + 1])
          [] left = 4 -> Delivers(whole(cursor.cached_byte), [cursor EXCEPT !.cached_gates = 0])
          [] OTHER ->
               Delivers([x \in 1 .. 4 |-> IF x <= left THEN cursor.cached_byte[x - 1]
                                          ELSE following[x - 1 - left]],
                        [cursor EXCEPT !.next_byte = @ + 1,
                                       !.cached_byte = ShiftedDown(following, 4 - left)])

-----------------------------------------------------------------------------

\* An array of any length whose controls have all been set.
ArrayInit ==
  /\ count_ \in 0 .. MaxControls
  /\ contents = [i \in 0 .. count_ - 1 |-> Pattern(1, i)]
  /\ bytes_ = [g \in GatesFor(count_) |-> IF g < count_ THEN Pattern(1, g) ELSE 0]
  /\ cursor = << >>
  /\ misread = FALSE
  /\ changes = 0

ArrayNext ==
  \/ \E count \in 0 .. MaxControls, value \in {0, 3} : resize(count, value)
  \/ \E index \in 0 .. count_ - 1, group \in Groups : set(index, group, 2)
  \/ \E offset, source \in 0 .. count_, size \in 2 .. MaxControls : copy_from(offset, source, size)
  \/ \E gate \in 0 .. count_ : Open(gate)
  \/ Next1
  \/ Next4

ArraySpec == ArrayInit /\ [][ArrayNext]_array_vars

-----------------------------------------------------------------------------

\* Whatever was resized, set and moved, the bytes hold the controls that were put
\* in and zeros after them, so that arrays that hold the same have the same bytes,
\* and every cursor delivers them in order, one or four at a time from wherever it
\* was opened (PackedControls.hpp:216-275, 304-316, 342-351).
ControlsKept ==
  /\ ~ misread
  /\ bytes_ = [g \in GatesFor(count_) |-> IF g < count_ THEN contents[g] ELSE 0]

=============================================================================
