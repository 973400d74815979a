------------------------------ MODULE MarkRows ------------------------------
(***************************************************************************)
(* Memberships as the samplers keep them: for every record a row of words  *)
(* of WordBits bits, of which bit j says whether sample j has the record.  *)
(* A word is the set of its bits, and the rows lie one after the other in  *)
(* an array that is counted from 0.                                        *)
(***************************************************************************)
EXTENDS Integers, Sequences, SequencesExt, FiniteSets, FiniteSetsExt

CONSTANTS
  WordBits,   \* the bits of a size_t
  MaxCells    \* bound: records times samples, for all memberships

ASSUME WordBitsAssumption == WordBits \in Nat \ {0}
ASSUME MaxCellsAssumption == MaxCells \in Nat

-----------------------------------------------------------------------------

MarkWords(k) == ((k - 1) \div WordBits) + 1

\* Mutant: the bits after the slice are left in its last word.
SliceUnmasked(f, first, words, start, count, w) ==
  LET bit == start + w * WordBits
      at == bit \div WordBits
      off == bit % WordBits
      low == IF at < words THEN {b - off : b \in {x \in f[first + at] : x >= off}} ELSE {}
      high == IF off # 0 /\ at + 1 < words
              THEN {b + WordBits - off : b \in {x \in f[first + at + 1] : x < off}} ELSE {}
  IN low \cup high

\* ProjectMarkSlice: the bits from start on, for count bits, of the row at first
\* of f, of so many words; the word w of these.
Slice(f, first, words, start, count, w) ==
  LET bit == start + w * WordBits
      at == bit \div WordBits
      off == bit % WordBits
      low == IF at < words THEN {b - off : b \in {x \in f[first + at] : x >= off}} ELSE {}
      high == IF off # 0 /\ at + 1 < words
              THEN {b + WordBits - off : b \in {x \in f[first + at + 1] : x < off}} ELSE {}
      ragged == w = MarkWords(count) - 1 /\ count % WordBits # 0
  IN {b \in low \cup high : ragged => b < count % WordBits}

\* The words of the projected rows, in the order in which they are written.
Words(n, count) ==
  [x \in 1 .. n * MarkWords(count) |->
     [row |-> (x - 1) \div MarkWords(count), word |-> (x - 1) % MarkWords(count)]]

\* buffers with the projection of n rows of from, base being the first, in to,
\* which may be from.
Project(buffers, from, base, words, to, n, start, count) ==
  FoldLeft(LAMBDA b, x :
             [b EXCEPT ![to][x.row * MarkWords(count) + x.word] =
                         Slice(b[from], (base + x.row) * words, words, start, count, x.word)],
           buffers, Words(n, count))

\* Which of the n rows of f have a bit.
Flags(f, n, words) ==
  [r \in 0 .. n - 1 |-> \E w \in 0 .. words - 1 : f[r * words + w] # {}]

\* TightCompact_v2: the n rows of f from base on, so many cells wide, with those
\* flagged in front.  Where each goes depends on the flags only; that they come
\* in reverse stands for whatever order the network leaves them in.
Compact(f, base, n, width, flags) ==
  LET before(r, s) == IF flags[r] = flags[s] THEN r > s ELSE flags[r]
      place == [r \in 0 .. n - 1 |-> Cardinality({s \in 0 .. n - 1 : before(s, r)})]
      source == [p \in 0 .. n - 1 |-> CHOOSE r \in 0 .. n - 1 : place[r] = p]
  IN [i \in DOMAIN f |->
        IF i < base \/ i >= base + n * width THEN f[i]
        ELSE f[base + source[(i - base) \div width] * width + ((i - base) % width)]]

\* memcpy of length cells of g, from start on, to the cells of f from base on.
Copied(f, base, g, start, length) ==
  [i \in DOMAIN f |-> IF i \in base .. base + length - 1 THEN g[start + i - base] ELSE f[i]]

-----------------------------------------------------------------------------
(* Where they come from.                                                    *)

\* The samples that are drawn: all, or of large instances those that have
\* consecutive records, each beginning where the last sample does, one further or
\* where it ends.
Draws(n, m, k) ==
  IF n * k <= MaxCells THEN [0 .. k - 1 -> kSubset(m, 0 .. n - 1)]
  ELSE {[j \in 0 .. k - 1 |-> {(from + j * step + x) % n : x \in 0 .. m - 1}] :
          from \in 0 .. n - 1, step \in {0, 1, m}}

\* The memberships as rows of words.
Rows(records, n, k) ==
  [i \in 0 .. n * MarkWords(k) - 1 |->
     LET word == i % MarkWords(k)
     IN {j - WordBits * word :
           j \in {x \in records[i \div MarkWords(k)] : x \div WordBits = word}}]

=============================================================================
