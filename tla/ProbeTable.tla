----------------------------- MODULE ProbeTable -----------------------------
(***************************************************************************)
(* The open-addressing table in which the heap profiler keeps its live     *)
(* allocations (Tracker of Enclave/MemoryProfile.cpp): linear probing with *)
(* backward-shift deletion.  An entry is modelled by its pointer; what it  *)
(* says of the block moves with it.  The caller holds tracker_mutex for    *)
(* the whole of an operation, but the loop of Remove is modelled step by   *)
(* step.                                                                   *)
(***************************************************************************)
EXTENDS Integers, FiniteSets

CONSTANTS
  Pointer,    \* the addresses of blocks
  Null,       \* the null pointer: a free slot
  Slots       \* kSlots, 16384 in the code

ASSUME PointerAssumption == Null \notin Pointer
ASSUME SlotsAssumption == Slots \in Nat \ {0}

Slot == 0 .. Slots - 1

VARIABLES
  home,       \* Hash: where the search for a pointer starts
  entries,    \* the pointer in every slot
  count,      \* the entries in the table
  shifting,   \* Remove is in its loop
  hole,       \* the loop's hole
  next        \* the loop's next

vars == <<home, entries, count, shifting, hole, next>>

-----------------------------------------------------------------------------

\* (s + 1) & kMask
Succ(s) == IF s + 1 = Slots THEN 0 ELSE s + 1

\* (b - a) & kMask: how far a forward search from a has to go to b.
Dist(a, b) == IF a <= b THEN b - a ELSE b - a + Slots

\* Find: the first slot from p's home that is free or holds p.
FindsAt(p, s) ==
  /\ s \in Slot
  /\ entries[s] \in {Null, p}
  /\ \A t \in Slot : Dist(home[p], t) < Dist(home[p], s) => entries[t] \notin {Null, p}

\* The hash of an address is anything.
Init ==
  /\ home \in [Pointer -> Slot]
  /\ entries = [s \in Slot |-> Null]
  /\ count = 0
  /\ shifting = FALSE
  /\ hole = 0
  /\ next = 0

\* Add, when it does not give up: at most half of the slots are ever used, and
\* a pointer that is there already is not added again.
Add(p, s) ==
  /\ ~ shifting
  /\ count < Slots \div 2
  /\ FindsAt(p, s)
  /\ entries[s] = Null
  /\ entries' = [entries EXCEPT ![s] = p]
  /\ count' = count + 1
  /\ UNCHANGED <<home, shifting, hole, next>>

\* Remove finds the entry and starts to close the gap it leaves.
Remove(p, s) ==
  /\ ~ shifting
  /\ FindsAt(p, s)
  /\ entries[s] = p
  /\ count' = count - 1
  /\ shifting' = TRUE
  /\ hole' = s
  /\ next' = Succ(s)
  /\ UNCHANGED <<home, entries>>

\* Mutant: an entry is moved only if its home is at or before the hole, which
\* is wrong where the table wraps around.
ShiftByIndex ==
  /\ shifting
  /\ entries[next] # Null
  /\ IF home[entries[next]] <= hole
     THEN entries' = [entries EXCEPT ![hole] = entries[next]] /\ hole' = next
     ELSE UNCHANGED <<entries, hole>>
  /\ next' = Succ(next)
  /\ UNCHANGED <<home, count, shifting>>

\* Mutant: next is advanced only when the entry moves.
ShiftStuck ==
  /\ shifting
  /\ entries[next] # Null
  /\ IF Dist(home[entries[next]], next) >= Dist(hole, next)
     THEN /\ entries' = [entries EXCEPT ![hole] = entries[next]]
          /\ hole' = next
          /\ next' = Succ(next)
     ELSE UNCHANGED <<entries, hole, next>>
  /\ UNCHANGED <<home, count, shifting>>

\* One round of the loop: an entry whose search passes the hole moves into it.
Shift ==
  /\ shifting
  /\ entries[next] # Null
  /\ IF Dist(home[entries[next]], next) >= Dist(hole, next)
     THEN entries' = [entries EXCEPT ![hole] = entries[next]] /\ hole' = next
     ELSE UNCHANGED <<entries, hole>>
  /\ next' = Succ(next)
  /\ UNCHANGED <<home, count, shifting>>

\* Mutant: the last hole keeps its stale entry.
FillForgotten ==
  /\ shifting
  /\ entries[next] = Null
  /\ shifting' = FALSE
  /\ hole' = 0
  /\ next' = 0
  /\ UNCHANGED <<home, entries, count>>

\* The loop ends at a free slot, and the last hole becomes one.
Fill ==
  /\ shifting
  /\ entries[next] = Null
  /\ entries' = [entries EXCEPT ![hole] = Null]
  /\ shifting' = FALSE
  /\ hole' = 0
  /\ next' = 0
  /\ UNCHANGED <<home, count>>

Next ==
  \/ \E p \in Pointer, s \in Slot : Add(p, s) \/ Remove(p, s)
  \/ Shift
  \/ Fill

Spec == Init /\ [][Next]_vars /\ WF_vars(Shift \/ Fill)

-----------------------------------------------------------------------------
(* Properties.                                                              *)

\* Type invariant.
TypeOK ==
  /\ home \in [Pointer -> Slot]
  /\ entries \in [Slot -> Pointer \cup {Null}]
  /\ count \in 0 .. Slots
  /\ shifting \in BOOLEAN
  /\ hole \in Slot
  /\ next \in Slot

\* The pointers the table holds, the one in a stale hole not counted.
Live == {entries[s] : s \in {t \in Slot : ~ (shifting /\ t = hole)}} \ {Null}

\* Find finds every live allocation: none is lost when the entries behind a
\* removed one are moved, also where the table wraps around, and none is left
\* twice.
Findable ==
  ~ shifting => \A s \in Slot : entries[s] # Null => FindsAt(entries[s], s)

\* The table is a set of pointers, to which Add and Remove do what they say
\* and Remove's shifting nothing.
Promise == INSTANCE PointerSet WITH live <- Live, removing <- shifting
KeepsPromise == Promise!Spec

\* The loop of Remove ends: at most half of the table is full.
RemoveEnds == shifting ~> ~ shifting

=============================================================================
