-------------------------- MODULE ProbeTableProofs --------------------------
(***************************************************************************)
(* Proofs about ProbeTable: whatever the size of the table, the hashes and *)
(* the order of operations, every live pointer is found and the table is a *)
(* set of pointers.                                                        *)
(***************************************************************************)
EXTENDS ProbeTable, FiniteSetTheorems, TLAPS

Used == {s \in Slot : entries[s] # Null}

\* Slot s holds a live entry.
LiveSlot(s) == entries[s] # Null /\ ~ (shifting /\ s = hole)

\* A search for the entry of slot s passes no free slot.
Chain ==
  \A s \in Slot : LiveSlot(s) =>
    \A t \in Slot : Dist(home[entries[s]], t) < Dist(home[entries[s]], s)
                      => entries[t] # Null

Distinct ==
  \A s, t \in Slot : LiveSlot(s) /\ LiveSlot(t) /\ entries[s] = entries[t] => s = t

CountInv ==
  /\ Cardinality(Used) = IF shifting THEN count + 1 ELSE count
  /\ Cardinality(Used) <= Slots \div 2

\* The slots from the hole up to next are in use, and the searches for those
\* that have been left where they are do not pass the hole.
ShiftInv == shifting =>
  /\ hole # next /\ entries[hole] # Null
  /\ \A t \in Slot : Dist(hole, t) < Dist(hole, next) => entries[t] # Null
  /\ \A s \in Slot : LiveSlot(s) /\ Dist(hole, s) < Dist(hole, next)
                       => Dist(home[entries[s]], s) < Dist(hole, s)

Inv == TypeOK /\ Chain /\ Distinct /\ CountInv /\ ShiftInv

-----------------------------------------------------------------------------

LEMMA SlotFacts ==
  /\ Slots \in Nat /\ Slots # 0 /\ 0 \in Slot
  /\ Slots \div 2 \in Nat /\ Slots \div 2 < Slots
  /\ \A s : s \in Slot <=> s \in Nat /\ s < Slots
  /\ \A a, b \in Slot : Dist(a, b) \in Slot
  /\ \A s \in Slot : Succ(s) \in Slot
  /\ IsFiniteSet(Slot) /\ Cardinality(Slot) = Slots
<1>1. Slots \in Nat /\ Slots # 0 /\ \A s : s \in Slot <=> s \in Nat /\ s < Slots
  BY SlotsAssumption DEF Slot
<1>2. IsFiniteSet(0 .. Slots - 1) /\ Cardinality(0 .. Slots - 1) = Slots
  BY <1>1, FS_Interval
<1>3. \A a, b \in Slot : Dist(a, b) \in Slot
  BY <1>1 DEF Dist
<1>4. \A s \in Slot : Succ(s) \in Slot
  BY <1>1 DEF Succ
<1>5. Slots \div 2 \in Nat /\ Slots \div 2 < Slots
  BY <1>1
<1>6. QED BY <1>1, <1>2, <1>3, <1>4, <1>5 DEF Slot

LEMMA UsedFinite == IsFiniteSet(Used) /\ Cardinality(Used) \in Nat
<1>1. Used \in SUBSET Slot
  BY DEF Used
<1>2. QED BY <1>1, SlotFacts, FS_Subset, FS_CardinalityType

\* There always is a free slot.
LEMMA FreeSlot ==
  ASSUME Inv PROVE \E e \in Slot : entries[e] = Null
<1>1. Cardinality(Used) < Slots
  BY SlotFacts, UsedFinite DEF Inv, CountInv
<1>2. Used # Slot
  BY <1>1, SlotFacts
<1>3. QED BY <1>2 DEF Used

\* Searches from a to b and on to c, and around the table.
LEMMA Distances ==
  ASSUME NEW a \in Slot, NEW b \in Slot, NEW c \in Slot
  PROVE  /\ Dist(a, b) \in Nat /\ Dist(a, b) < Slots
         /\ Dist(a, b) = Dist(a, c) => b = c
         /\ Dist(a, a) = 0
         /\ Dist(a, b) <= Dist(a, c) => Dist(a, c) = Dist(a, b) + Dist(b, c)
         /\ Dist(a, b) > Dist(a, c) => Dist(a, b) + Dist(b, c) = Dist(a, c) + Slots
<1>1. /\ a \in Nat /\ b \in Nat /\ c \in Nat /\ Slots \in Nat
      /\ a < Slots /\ b < Slots /\ c < Slots
  BY SlotFacts
<1>2. QED BY <1>1 DEF Dist

\* The next slot is one step away, unless it is where the search began.
LEMMA Successor ==
  ASSUME NEW a \in Slot, NEW b \in Slot
  PROVE  /\ Succ(b) \in Slot
         /\ Dist(a, Succ(b)) = Dist(a, b) + 1 \/ (Succ(b) = a /\ Dist(a, b) + 1 = Slots)
         /\ Succ(b) = b => Slots = 1
<1>1. /\ a \in Nat /\ b \in Nat /\ Slots \in Nat /\ a < Slots /\ b < Slots
  BY SlotFacts
<1>2. Succ(b) \in Slot
  BY SlotFacts
<1>3. QED BY <1>1, <1>2 DEF Dist, Succ

\* A search for b that starts at a or before it passes a ...
LEMMA Before ==
  ASSUME NEW h \in Slot, NEW a \in Slot, NEW b \in Slot, a # b,
         Dist(h, b) >= Dist(a, b)
  PROVE  Dist(h, a) < Dist(h, b)
<1>1. /\ a \in Nat /\ b \in Nat /\ h \in Nat /\ Slots \in Nat
      /\ a < Slots /\ b < Slots /\ h < Slots
  BY SlotFacts
<1>2. QED BY <1>1 DEF Dist

\* ... and one that passes a on its way to s passes what is between them.
LEMMA Between ==
  ASSUME NEW h \in Slot, NEW a \in Slot, NEW b \in Slot, NEW s \in Slot,
         Dist(h, a) <= Dist(h, s), Dist(a, b) < Dist(a, s)
  PROVE  Dist(h, b) < Dist(h, s)
<1>1. /\ a \in Nat /\ b \in Nat /\ h \in Nat /\ s \in Nat /\ Slots \in Nat
      /\ a < Slots /\ b < Slots /\ h < Slots /\ s < Slots
  BY SlotFacts
<1>2. QED BY <1>1 DEF Dist

LEMMA InitInv == Init => Inv
<1> SUFFICES ASSUME Init PROVE Inv
  OBVIOUS
<1>1. TypeOK
  <2>1. 0 \in Slot /\ 0 \in 0 .. Slots
    BY SlotFacts
  <2>2. entries \in [Slot -> Pointer \cup {Null}]
    BY DEF Init
  <2>3. QED BY <2>1, <2>2 DEF Init, TypeOK
<1>2. Used = {}
  BY DEF Init, Used
<1>3. CountInv
  BY <1>2, SlotFacts, FS_EmptySet DEF Init, CountInv
<1>4. QED BY <1>1, <1>3 DEF Inv, Init, Chain, Distinct, ShiftInv, LiveSlot

LEMMA AddInv ==
  ASSUME Inv, NEW p \in Pointer, NEW s \in Slot, Add(p, s)
  PROVE  Inv'
<1>1. /\ ~ shifting /\ ~ shifting' /\ count < Slots \div 2 /\ count' = count + 1
      /\ entries[s] = Null /\ entries'[s] = p /\ p # Null
      /\ \A t \in Slot : t # s => entries'[t] = entries[t]
      /\ \A t \in Slot : Dist(home[p], t) < Dist(home[p], s) => entries[t] \notin {Null, p}
      /\ UNCHANGED <<home, hole, next>>
  BY PointerAssumption DEF Inv, TypeOK, Add, FindsAt
<1>2. TypeOK'
  BY <1>1, SlotFacts DEF Inv, TypeOK, Add
<1>3. CountInv'
  <2>1. Used' = Used \cup {s} /\ s \notin Used
    BY <1>1 DEF Used
  <2>2. Cardinality(Used') = Cardinality(Used) + 1
    BY <2>1, UsedFinite, FS_AddElement
  <2>3. QED BY <1>1, <2>2, SlotFacts DEF Inv, TypeOK, CountInv
<1>4. \A t \in Slot : LiveSlot(t)' <=> (t = s \/ LiveSlot(t))
  BY <1>1 DEF LiveSlot
<1>5. Chain'
  BY <1>1, <1>4 DEF Inv, Chain
<1>6. \A t \in Slot : entries[t] # p
  <2>1. SUFFICES ASSUME NEW t \in Slot, entries[t] = p PROVE FALSE
    OBVIOUS
  <2>2. \A u \in Slot : Dist(home[p], u) < Dist(home[p], t) => entries[u] # Null
    BY <1>1, <2>1 DEF Inv, Chain, LiveSlot
  <2>3. Dist(home[p], t) <= Dist(home[p], s) /\ t # s
    BY <1>1, <2>1, <2>2, SlotFacts DEF Inv, TypeOK
  <2>4. Dist(home[p], t) # Dist(home[p], s)
    BY <1>1, <2>3, Distances DEF Inv, TypeOK
  <2>5. Dist(home[p], t) \in Nat /\ Dist(home[p], s) \in Nat
    BY Distances DEF Inv, TypeOK
  <2>6. Dist(home[p], t) < Dist(home[p], s)
    BY <2>3, <2>4, <2>5
  <2>7. QED BY <1>1, <2>1, <2>6
<1>7. Distinct'
  BY <1>1, <1>4, <1>6 DEF Inv, Distinct
<1>8. QED BY <1>1, <1>2, <1>3, <1>5, <1>7 DEF Inv, ShiftInv

LEMMA RemoveInv ==
  ASSUME Inv, NEW p \in Pointer, NEW s \in Slot, Remove(p, s)
  PROVE  Inv'
<1>1. /\ ~ shifting /\ shifting' /\ hole' = s /\ next' = Succ(s)
      /\ entries[s] # Null /\ count' = count - 1
      /\ UNCHANGED <<home, entries>>
  BY PointerAssumption DEF Remove
<1>2. CountInv' /\ count' \in 0 .. Slots
  <2>1. Used' = Used /\ s \in Used
    BY <1>1 DEF Used
  <2>2. Cardinality(Used) # 0
    BY <2>1, UsedFinite, FS_EmptySet
  <2>3. QED BY <1>1, <2>1, <2>2, UsedFinite, SlotFacts DEF Inv, TypeOK, CountInv
<1>3. TypeOK'
  BY <1>1, <1>2, SlotFacts DEF Inv, TypeOK
<1>4. \A t \in Slot : LiveSlot(t)' => (LiveSlot(t) /\ t # s)
  BY <1>1 DEF LiveSlot
<1>5. Chain' /\ Distinct'
  BY <1>1, <1>4 DEF Inv, Chain, Distinct
<1>6. ShiftInv'
  <2>1. s # Succ(s)
    <3>1. PICK e \in Slot : entries[e] = Null
      BY FreeSlot
    <3>2. Slots # 1
      BY <1>1, <3>1, SlotFacts
    <3>3. QED BY <3>2, Successor
  <2>2. \A t \in Slot : Dist(s, t) < Dist(s, Succ(s)) => t = s
    BY <2>1, Successor, Distances
  <2>3. QED BY <1>1, <1>4, <2>1, <2>2 DEF ShiftInv
<1>7. QED BY <1>2, <1>3, <1>5, <1>6 DEF Inv

LEMMA ShiftStep ==
  ASSUME Inv, Shift
  PROVE  Inv' /\ Live' = Live
<1> DEFINE x == entries[next]
<1>1. /\ shifting /\ shifting' /\ x # Null /\ x \in Pointer /\ home[x] \in Slot
      /\ next' = Succ(next) /\ next \in Slot /\ hole \in Slot /\ hole # next
      /\ entries[hole] # Null
      /\ UNCHANGED <<home, count>>
  BY DEF Inv, TypeOK, Shift, ShiftInv
<1>2. PICK e \in Slot : entries[e] = Null
  BY FreeSlot
<1>3. Dist(hole, next) < Dist(hole, e)
  <2>1. ~ (Dist(hole, e) < Dist(hole, next)) /\ e # next
    BY <1>1, <1>2 DEF Inv, ShiftInv
  <2>2. /\ Dist(hole, e) \in Nat /\ Dist(hole, next) \in Nat
        /\ Dist(hole, e) = Dist(hole, next) => e = next
    BY <1>1, <1>2, Distances
  <2>3. QED BY <2>1, <2>2
<1>4. /\ Succ(next) \in Slot
      /\ Dist(hole, Succ(next)) = Dist(hole, next) + 1 /\ hole # Succ(next)
      /\ Dist(next, Succ(next)) = 1 /\ next # Succ(next)
  <2>1. /\ Dist(hole, e) \in Nat /\ Dist(hole, next) \in Nat /\ Slots \in Nat
        /\ Dist(hole, e) < Slots /\ Dist(hole, hole) = 0
        /\ Dist(next, next) = 0
    BY <1>1, <1>2, Distances, SlotFacts
  <2>2. Dist(hole, next) + 1 # Slots /\ Slots # 1
    BY <1>3, <2>1
  <2>3. /\ Succ(next) \in Slot
        /\ Dist(hole, Succ(next)) = Dist(hole, next) + 1
        /\ next # Succ(next)
    BY <1>1, <2>2, Successor
  <2>4. hole # Succ(next)
    BY <2>1, <2>3
  <2>5. Dist(next, Succ(next)) = 1
    BY <1>1, <2>1, <2>2, <2>3, Successor
  <2>6. QED BY <2>3, <2>4, <2>5
<1>5. CASE Dist(home[x], next) >= Dist(hole, next)
  <2>1. /\ hole' = next /\ entries'[hole] = x
        /\ \A t \in Slot : t # hole => entries'[t] = entries[t]
        /\ entries' \in [Slot -> Pointer \cup {Null}]
    BY <1>1, <1>5 DEF Shift, Inv, TypeOK
  <2>2. TypeOK'
    BY <1>1, <1>4, <2>1 DEF Inv, TypeOK
  <2>3. Used' = Used
    BY <1>1, <2>1 DEF Used
  <2>4. CountInv'
    BY <1>1, <2>3 DEF Inv, CountInv
  <2>5. \A t \in Slot : LiveSlot(t)' <=> (t = hole \/ (LiveSlot(t) /\ t # next))
    BY <1>1, <2>1 DEF LiveSlot
  <2>6. LiveSlot(next) /\ ~ LiveSlot(hole)
    BY <1>1 DEF LiveSlot
  <2>7. Distinct'
    BY <1>1, <2>1, <2>5, <2>6 DEF Inv, Distinct
  <2>8. Chain'
    <3>1. ASSUME NEW t \in Slot, Dist(home[x], t) < Dist(home[x], hole)
          PROVE  entries[t] # Null
      <4>1. Dist(home[x], hole) < Dist(home[x], next)
        BY <1>1, <1>5, Before
      <4>2. Dist(home[x], t) < Dist(home[x], next)
        BY <1>1, <3>1, <4>1, SlotFacts
      <4>3. QED BY <1>1, <2>6, <4>2 DEF Inv, Chain
    <3>2. QED BY <1>1, <2>1, <2>5, <3>1 DEF Inv, Chain
  <2>9. ShiftInv'
    <3>1. ASSUME NEW t \in Slot, Dist(next, t) < Dist(next, Succ(next))
          PROVE  t = next
      <4>1. /\ Dist(next, t) \in Nat /\ Dist(next, next) = 0
            /\ Dist(next, t) = Dist(next, next) => t = next
        BY <1>1, Distances
      <4>2. Dist(next, t) < 1
        BY <1>4, <3>1
      <4>3. QED BY <4>1, <4>2
    <3>2. QED BY <1>1, <1>4, <2>1, <2>5, <3>1 DEF ShiftInv
  <2>10. Live' = Live
    BY <1>1, <2>1, <2>5, <2>6 DEF Live, LiveSlot
  <2>11. QED BY <2>2, <2>4, <2>7, <2>8, <2>9, <2>10 DEF Inv
<1>6. CASE ~ (Dist(home[x], next) >= Dist(hole, next))
  <2>1. UNCHANGED <<entries, hole>>
    BY <1>6 DEF Shift
  <2>2. TypeOK'
    BY <1>1, <1>4, <2>1 DEF Inv, TypeOK
  <2>3. CountInv' /\ Chain' /\ Distinct' /\ Live' = Live
    BY <1>1, <2>1 DEF Inv, CountInv, Used, Chain, Distinct, LiveSlot, Live
  <2>4. \A t \in Slot : Dist(hole, t) < Dist(hole, Succ(next)) =>
          t = next \/ Dist(hole, t) < Dist(hole, next)
    <3>1. SUFFICES ASSUME NEW t \in Slot, Dist(hole, t) < Dist(hole, next) + 1
                   PROVE  t = next \/ Dist(hole, t) < Dist(hole, next)
      BY <1>4
    <3>2. /\ Dist(hole, t) \in Nat /\ Dist(hole, next) \in Nat
          /\ Dist(hole, t) = Dist(hole, next) => t = next
      BY <1>1, Distances
    <3>3. QED BY <3>1, <3>2
  <2>5. Dist(home[x], next) < Dist(hole, next)
    BY <1>1, <1>6, SlotFacts
  <2>6. ShiftInv'
    BY <1>1, <1>4, <2>1, <2>4, <2>5 DEF Inv, ShiftInv, LiveSlot
  <2>7. QED BY <2>2, <2>3, <2>6 DEF Inv
<1>7. QED BY <1>5, <1>6

LEMMA FillStep ==
  ASSUME Inv, Fill
  PROVE  Inv' /\ Live' = Live
<1>1. /\ shifting /\ ~ shifting' /\ entries[next] = Null
      /\ entries'[hole] = Null /\ entries[hole] # Null
      /\ \A t \in Slot : t # hole => entries'[t] = entries[t]
      /\ next \in Slot /\ hole \in Slot
      /\ UNCHANGED <<home, count>>
  BY DEF Inv, TypeOK, Fill, ShiftInv
<1>2. TypeOK'
  BY SlotFacts DEF Inv, TypeOK, Fill
<1>3. CountInv'
  <2>1. Used' = Used \ {hole} /\ hole \in Used
    BY <1>1 DEF Used
  <2>2. Cardinality(Used') = Cardinality(Used) - 1
    BY <2>1, UsedFinite, FS_RemoveElement
  <2>3. QED BY <1>1, <2>2, UsedFinite, SlotFacts DEF Inv, TypeOK, CountInv
<1>4. \A t \in Slot : LiveSlot(t)' <=> LiveSlot(t)
  BY <1>1 DEF LiveSlot
<1>5. Distinct'
  BY <1>1, <1>4 DEF Inv, Distinct, LiveSlot
<1>6. Chain'
  <2>1. ASSUME NEW s \in Slot, LiveSlot(s)
        PROVE  Dist(home[entries[s]], s) < Dist(home[entries[s]], hole)
    <3> DEFINE h == home[entries[s]]
    <3>1. h \in Slot /\ s # hole /\ s # next
      BY <1>1, <2>1 DEF Inv, TypeOK, LiveSlot
    <3> HIDE DEF h
    <3>2. SUFFICES ASSUME Dist(h, hole) <= Dist(h, s) PROVE FALSE
      BY <1>1, <3>1, SlotFacts DEF h
    <3>3. Dist(hole, s) <= Dist(h, s)
      BY <1>1, <3>1, <3>2, Distances, SlotFacts
    <3>4. Dist(hole, next) < Dist(hole, s)
      <4>1. ~ (Dist(hole, s) < Dist(hole, next))
        BY <1>1, <2>1, <3>1, <3>3, SlotFacts DEF Inv, ShiftInv, h
      <4>2. /\ Dist(hole, s) \in Nat /\ Dist(hole, next) \in Nat
            /\ Dist(hole, s) = Dist(hole, next) => s = next
        BY <1>1, <3>1, Distances
      <4>3. QED BY <3>1, <4>1, <4>2
    <3>5. Dist(h, next) < Dist(h, s)
      BY <1>1, <3>1, <3>2, <3>4, Between
    <3>6. QED BY <1>1, <2>1, <3>5 DEF Inv, Chain, h
  <2>2. QED BY <1>1, <1>4, <2>1, SlotFacts DEF Inv, Chain, LiveSlot, TypeOK
<1>7. Live' = Live
  BY <1>1, <1>4 DEF Live, LiveSlot
<1>8. QED BY <1>1, <1>2, <1>3, <1>5, <1>6, <1>7 DEF Inv, ShiftInv

-----------------------------------------------------------------------------

\* Add and Remove are the operations of a set of pointers.
LEMMA AddStep ==
  ASSUME Inv, NEW p \in Pointer, NEW s \in Slot, Add(p, s)
  PROVE  Promise!Add(p)
<1>1. /\ ~ shifting /\ UNCHANGED shifting /\ entries[s] = Null /\ entries'[s] = p
      /\ p # Null /\ \A t \in Slot : t # s => entries'[t] = entries[t]
  BY PointerAssumption DEF Inv, TypeOK, Add
<1>2. Live = {entries[t] : t \in Slot} \ {Null} /\ Live' = {entries'[t] : t \in Slot} \ {Null}
  BY <1>1 DEF Live
<1>3. \A t \in Slot : entries[t] # p
  <2>1. \A t \in Slot : LiveSlot(t)' <=> entries'[t] # Null
    BY <1>1 DEF LiveSlot
  <2>2. Distinct'
    BY AddInv DEF Inv
  <2>3. QED BY <1>1, <2>1, <2>2 DEF Distinct
<1>4. p \notin Live
  BY <1>2, <1>3
<1>5. Live' = Live \cup {p}
  BY <1>1, <1>2, <1>3
<1>6. QED BY <1>1, <1>4, <1>5 DEF Promise!Add

LEMMA RemoveStep ==
  ASSUME Inv, NEW p \in Pointer, NEW s \in Slot, Remove(p, s)
  PROVE  Promise!Remove(p)
<1>1. /\ ~ shifting /\ shifting' /\ hole' = s /\ entries[s] = p /\ p # Null
      /\ UNCHANGED entries
  BY PointerAssumption DEF Remove
<1>2. /\ Live = {entries[t] : t \in Slot} \ {Null}
      /\ Live' = {entries[t] : t \in {u \in Slot : u # s}} \ {Null}
  BY <1>1 DEF Live
<1>3. \A t \in Slot : entries[t] = p => t = s
  BY <1>1 DEF Inv, Distinct, LiveSlot
<1>4. p \in Live
  BY <1>1, <1>2
<1>5. Live' = Live \ {p}
  BY <1>1, <1>2, <1>3
<1>6. QED BY <1>1, <1>4, <1>5 DEF Promise!Remove

LEMMA StutterInv ==
  ASSUME Inv, UNCHANGED vars
  PROVE  Inv' /\ UNCHANGED <<Live, shifting>>
<1>1. UNCHANGED <<home, entries, count, shifting, hole, next>>
  BY DEF vars
<1>2. TypeOK'
  BY <1>1 DEF Inv, TypeOK
<1>3. Chain' /\ Distinct' /\ ShiftInv'
  BY <1>1 DEF Inv, Chain, Distinct, ShiftInv, LiveSlot
<1>4. CountInv'
  BY <1>1 DEF Inv, CountInv, Used
<1>5. QED BY <1>1, <1>2, <1>3, <1>4 DEF Inv, Live

\* One step keeps the invariant, and is a step of the set or a stutter.
LEMMA StepPromise ==
  ASSUME Inv, [Next]_vars
  PROVE  Inv' /\ [Promise!Next]_<<Live, shifting>>
<1>1. CASE \E p \in Pointer, s \in Slot : Add(p, s)
  BY <1>1, AddInv, AddStep DEF Promise!Next
<1>2. CASE \E p \in Pointer, s \in Slot : Remove(p, s)
  BY <1>2, RemoveInv, RemoveStep DEF Promise!Next
<1>3. CASE Shift
  <2>1. UNCHANGED shifting
    BY <1>3 DEF Shift
  <2>2. QED BY <1>3, <2>1, ShiftStep
<1>4. CASE Fill
  <2>1. Promise!Removed
    BY <1>4, FillStep DEF Fill, Promise!Removed
  <2>2. QED BY <1>4, <2>1, FillStep DEF Promise!Next
<1>5. CASE UNCHANGED vars
  BY <1>5, StutterInv
<1>6. QED BY <1>1, <1>2, <1>3, <1>4, <1>5 DEF Next

\* The inductive invariant.
THEOREM TableInvariant == Spec => []Inv
<1>1. Init => Inv
  BY InitInv
<1>2. Inv /\ [Next]_vars => Inv'
  BY StepPromise
<1>3. QED BY <1>1, <1>2, PTL DEF Spec

\* Find finds every live allocation at the only slot that holds it
\* (Tracker::Find and Remove of MemoryProfile.cpp).
THEOREM FindableHolds == Spec => []Findable
<1>1. Inv => Findable
  <2>1. SUFFICES ASSUME Inv, ~ shifting, NEW s \in Slot, entries[s] # Null
                 PROVE  FindsAt(entries[s], s)
    BY DEF Findable
  <2>2. \A t \in Slot : LiveSlot(t) <=> entries[t] # Null
    BY <2>1 DEF LiveSlot
  <2>3. ASSUME NEW t \in Slot,
               Dist(home[entries[s]], t) < Dist(home[entries[s]], s)
        PROVE  entries[t] \notin {Null, entries[s]}
    <3>1. entries[t] # Null
      BY <2>1, <2>2, <2>3 DEF Inv, Chain
    <3>2. entries[s] \in Pointer /\ home[entries[s]] \in Slot
      BY <2>1 DEF Inv, TypeOK
    <3>3. t # s
      BY <2>3, <3>2, Distances
    <3>4. QED BY <2>1, <2>2, <3>1, <3>3 DEF Inv, Distinct
  <2>4. QED BY <2>1, <2>3 DEF FindsAt
<1>2. QED BY <1>1, TableInvariant, PTL

\* The table implements a set of pointers.
THEOREM TablePromise == Spec => KeepsPromise
<1>1. Init => Promise!Init
  BY DEF Init, Live, Promise!Init
<1>2. Inv /\ [Next]_vars => [Promise!Next]_<<Live, shifting>>
  BY StepPromise
<1>3. QED BY <1>1, <1>2, TableInvariant, PTL DEF Spec, KeepsPromise, Promise!Spec

=============================================================================
