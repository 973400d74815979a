--------------------------- MODULE ProfilerProofs ---------------------------
(***************************************************************************)
(* Proofs about the heap profiler: for every number of threads, blocks and *)
(* sizes the ledger lists exactly what scopes have been charged for, and   *)
(* no measurement that is reported as valid is not what the heap held.     *)
(***************************************************************************)
EXTENDS MCProfiler, SumProofs

-----------------------------------------------------------------------------
(* The bytes of a heap or a ledger.                                         *)

\* Its entries' sizes as a function.
SizesOf(h) == [p \in DOMAIN h |-> h[p].bytes]

\* It has finitely many entries, with sizes.
Sized(h) == IsFiniteSet(DOMAIN h) /\ \A p \in DOMAIN h : h[p].bytes \in Nat

LEMMA BytesAreTotal ==
  ASSUME NEW h, Sized(h)
  PROVE  Bytes(h) = Total(SizesOf(h), DOMAIN h)
<1> DEFINE S == DOMAIN h
           f == SizesOf(h)
           rec(g) == [s \in SUBSET S |-> IF s = {} THEN 0
                                         ELSE h[Chosen(s)].bytes + g[s \ {Chosen(s)}]]
           iter == CHOOSE g : g = rec(g)
<1>1. Bytes(h) = iter[S]
  BY DEF Bytes, MapThenSumSet, MapThenFoldSet, Chosen
<1>2. \A s \in SUBSET S : s # {} => f[Chosen(s)] = h[Chosen(s)].bytes
  BY DEF Chosen, SizesOf
<1>3. PICK g : Total(f, S) = g[S] /\ SumOf(g, f, S)
  BY TotalIsSums DEF Sized
<1>4. \E k : k = rec(k)
  <2> DEFINE k == [s \in SUBSET S |-> g[s]]
  <2>1. ASSUME NEW s \in SUBSET S
        PROVE  k[s] = IF s = {} THEN 0 ELSE h[Chosen(s)].bytes + k[s \ {Chosen(s)}]
    BY <1>2, <1>3 DEF SumOf
  <2>2. k = rec(k)
    BY <2>1
  <2>3. QED BY <2>2
<1>5. iter = rec(iter)
  BY <1>4
<1> HIDE DEF iter
<1>6. SumOf(iter, f, S)
  BY <1>2, <1>5 DEF SumOf
<1>7. g[S] = iter[S]
  BY <1>3, <1>6, SumsAgree DEF Same, Sized
<1>8. QED BY <1>1, <1>3, <1>7

LEMMA BytesType ==
  ASSUME NEW h, Sized(h)
  PROVE  Bytes(h) \in Nat
<1>1. \A p \in DOMAIN h : SizesOf(h)[p] \in Nat
  BY DEF Sized, SizesOf
<1>2. QED BY <1>1, BytesAreTotal, TotalNat DEF Sized

LEMMA BytesEmpty ==
  ASSUME NEW h, DOMAIN h = {}
  PROVE  Sized(h) /\ Bytes(h) = 0
<1>1. Sized(h)
  BY FS_EmptySet DEF Sized
<1>2. QED BY <1>1, BytesAreTotal, TotalEmpty

LEMMA BytesSame ==
  ASSUME NEW h, NEW k, Sized(h), DOMAIN k = DOMAIN h,
         \A p \in DOMAIN h : k[p].bytes = h[p].bytes
  PROVE  Sized(k) /\ Bytes(k) = Bytes(h)
<1>1. Sized(k)
  BY DEF Sized
<1>2. \A p \in DOMAIN h : SizesOf(h)[p] = SizesOf(k)[p]
  BY DEF SizesOf
<1>3. Total(SizesOf(h), DOMAIN h) = Total(SizesOf(k), DOMAIN h)
  BY <1>2, TotalSame DEF Sized
<1>4. QED BY <1>1, <1>3, BytesAreTotal

\* What an entry takes up.
Share(h, p) == IF p \in DOMAIN h THEN h[p].bytes ELSE 0

LEMMA WithoutIs ==
  ASSUME NEW h, NEW p
  PROVE  /\ DOMAIN Without(h, p) = DOMAIN h \ {p}
         /\ \A q \in DOMAIN h \ {p} : Without(h, p)[q] = h[q]
BY DEF Without, RestrictDomain, Restrict

LEMMA BytesWithout ==
  ASSUME NEW h, NEW p, Sized(h)
  PROVE  /\ Sized(Without(h, p)) /\ Share(h, p) \in Nat
         /\ Bytes(h) \in Nat /\ Bytes(Without(h, p)) = Bytes(h) - Share(h, p)
<1>0. /\ DOMAIN Without(h, p) = DOMAIN h \ {p}
      /\ \A q \in DOMAIN h \ {p} : Without(h, p)[q] = h[q]
  BY WithoutIs
<1>1. Sized(Without(h, p)) /\ Share(h, p) \in Nat
  <2>1. IsFiniteSet(DOMAIN h \ {p})
    BY FS_Subset DEF Sized
  <2>2. QED BY <1>0, <2>1 DEF Sized, Share
<1>2. Bytes(h) \in Nat
  BY BytesType
<1>3. CASE p \notin DOMAIN h
  <2>1. Bytes(Without(h, p)) = Bytes(h)
    BY <1>0, <1>3, BytesSame
  <2>2. QED BY <1>1, <1>2, <1>3, <2>1 DEF Share
<1>4. CASE p \in DOMAIN h
  <2> DEFINE f == SizesOf(h)
             k == Without(h, p)
  <2>1. \A q \in DOMAIN h : f[q] \in Int
    BY DEF Sized, SizesOf
  <2>2. /\ Total(f, DOMAIN h) = f[p] + Total(f, DOMAIN h \ {p})
        /\ Total(f, DOMAIN h \ {p}) \in Int
    <3> HIDE DEF f
    <3>1. QED BY <1>4, <2>1, TotalRemove DEF Sized
  <2>3. Total(f, DOMAIN h \ {p}) = Total(SizesOf(k), DOMAIN h \ {p})
    <3>1. \A q \in DOMAIN h \ {p} : f[q] = SizesOf(k)[q]
      BY WithoutIs DEF SizesOf
    <3>2. IsFiniteSet(DOMAIN h \ {p})
      BY FS_Subset DEF Sized
    <3> HIDE DEF f, k
    <3>3. QED BY <3>1, <3>2, TotalSame
  <2>4. Bytes(k) = Total(SizesOf(k), DOMAIN h \ {p})
    BY <1>1, WithoutIs, BytesAreTotal
  <2>5. f[p] = h[p].bytes /\ h[p].bytes \in Nat
    BY <1>4 DEF SizesOf, Sized
  <2>6. Bytes(h) = Total(f, DOMAIN h)
    BY BytesAreTotal
  <2> HIDE DEF f, k
  <2>7. QED BY <1>1, <1>2, <1>4, <2>2, <2>3, <2>4, <2>5, <2>6 DEF Share, k
<1>5. QED BY <1>3, <1>4

LEMMA BytesWith ==
  ASSUME NEW h, NEW p, NEW x, Sized(h), x.bytes \in Nat
  PROVE  /\ Sized(With(h, p, x))
         /\ Bytes(With(h, p, x)) = Bytes(h) - Share(h, p) + x.bytes
<1> DEFINE k == With(h, p, x)
<1>0. /\ DOMAIN k = DOMAIN h \cup {p} /\ k[p] = x
      /\ \A q \in DOMAIN h : q # p => k[q] = h[q]
  BY DEF With
<1> HIDE DEF k
<1>1. Sized(k)
  <2>1. IsFiniteSet(DOMAIN h \cup {p})
    BY FS_AddElement DEF Sized
  <2>2. QED BY <1>0, <2>1 DEF Sized
<1>2. p \in DOMAIN k /\ k[p] = x
  BY <1>0
<1>3. Bytes(Without(k, p)) = Bytes(Without(h, p))
  <2>1. DOMAIN Without(k, p) = DOMAIN Without(h, p)
    BY <1>0 DEF Without, RestrictDomain, Restrict
  <2>2. \A q \in DOMAIN Without(h, p) : Without(k, p)[q].bytes = Without(h, p)[q].bytes
    BY <1>0 DEF Without, RestrictDomain, Restrict
  <2>3. Sized(Without(h, p))
    BY BytesWithout
  <2>4. QED BY <2>1, <2>2, <2>3, BytesSame
<1>4. Bytes(Without(k, p)) = Bytes(k) - x.bytes /\ Bytes(k) \in Nat
  BY <1>1, <1>2, BytesWithout DEF Share
<1>5. Bytes(Without(h, p)) = Bytes(h) - Share(h, p) /\ Bytes(h) \in Nat /\ Share(h, p) \in Nat
  BY BytesWithout
<1>6. Sized(k) /\ Bytes(k) = Bytes(h) - Share(h, p) + x.bytes
  <2>1. PICK b \in Nat : b = x.bytes
    OBVIOUS
  <2>2. Bytes(k) - b = Bytes(h) - Share(h, p)
    BY <1>3, <1>4, <1>5, <2>1
  <2>3. QED BY <1>1, <1>4, <1>5, <2>1, <2>2
<1>7. QED BY <1>6 DEF k

-----------------------------------------------------------------------------
(* The tracker's operations.                                                *)

\* The entries made in offline phases.
OfflineEntries(l) == RestrictDomain(l, LAMBDA p : l[p].offline)

OfflineShare(l, p) == IF p \in DOMAIN l /\ l[p].offline THEN l[p].bytes ELSE 0

LEMMA OfflineIs ==
  ASSUME NEW l, Sized(l)
  PROVE  /\ Sized(OfflineEntries(l))
         /\ DOMAIN OfflineEntries(l) = {p \in DOMAIN l : l[p].offline}
         /\ \A p \in DOMAIN OfflineEntries(l) : OfflineEntries(l)[p] = l[p]
         /\ \A p : Share(OfflineEntries(l), p) = OfflineShare(l, p)
<1>1. /\ DOMAIN OfflineEntries(l) = {p \in DOMAIN l : l[p].offline}
      /\ \A p \in DOMAIN OfflineEntries(l) : OfflineEntries(l)[p] = l[p]
  BY DEF OfflineEntries, RestrictDomain, Restrict
<1>2. IsFiniteSet(DOMAIN OfflineEntries(l))
  BY <1>1, FS_Subset DEF Sized
<1>3. Sized(OfflineEntries(l))
  BY <1>1, <1>2 DEF Sized
<1>4. \A p : Share(OfflineEntries(l), p) = OfflineShare(l, p)
  BY <1>1 DEF Share, OfflineShare
<1>5. QED BY <1>1, <1>3, <1>4

LEMMA OfflineWithout ==
  ASSUME NEW l, NEW p, Sized(l)
  PROVE  /\ OfflineShare(l, p) \in Nat /\ Bytes(OfflineEntries(l)) \in Nat
         /\ Bytes(OfflineEntries(Without(l, p))) = Bytes(OfflineEntries(l)) - OfflineShare(l, p)
<1> DEFINE o == OfflineEntries(l)
           k == Without(l, p)
<1>1. Sized(o) /\ Sized(k)
  BY OfflineIs, BytesWithout
<1>2. /\ Share(o, p) = OfflineShare(l, p) /\ Share(o, p) \in Nat /\ Bytes(o) \in Nat
      /\ Sized(Without(o, p)) /\ Bytes(Without(o, p)) = Bytes(o) - Share(o, p)
  BY <1>1, OfflineIs, BytesWithout
<1>3. /\ DOMAIN OfflineEntries(k) = DOMAIN Without(o, p)
      /\ \A q \in DOMAIN Without(o, p) : OfflineEntries(k)[q] = Without(o, p)[q]
  BY DEF OfflineEntries, Without, RestrictDomain, Restrict
<1>4. Bytes(OfflineEntries(k)) = Bytes(Without(o, p))
  <2> HIDE DEF o, k
  <2>1. QED BY <1>2, <1>3, BytesSame
<1>5. QED BY <1>2, <1>4

LEMMA OfflineWith ==
  ASSUME NEW l, NEW p, NEW x, Sized(l), x.bytes \in Nat
  PROVE  Bytes(OfflineEntries(With(l, p, x)))
           = Bytes(OfflineEntries(l)) - OfflineShare(l, p) + (IF x.offline THEN x.bytes ELSE 0)
<1> DEFINE o == OfflineEntries(l)
           k == With(l, p, x)
<1>1. Sized(o) /\ Sized(k)
  BY OfflineIs, BytesWith
<1>2. /\ Share(o, p) = OfflineShare(l, p) /\ Share(o, p) \in Nat /\ Bytes(o) \in Nat
      /\ Sized(Without(o, p)) /\ Bytes(Without(o, p)) = Bytes(o) - Share(o, p)
  BY <1>1, OfflineIs, BytesWithout
<1>3. CASE x.offline
  <2>1. /\ Sized(With(o, p, x)) /\ Bytes(With(o, p, x)) = Bytes(o) - Share(o, p) + x.bytes
    BY <1>1, BytesWith
  <2>2. /\ DOMAIN OfflineEntries(k) = DOMAIN With(o, p, x)
        /\ \A q \in DOMAIN With(o, p, x) : OfflineEntries(k)[q] = With(o, p, x)[q]
    BY <1>3 DEF OfflineEntries, With, RestrictDomain, Restrict
  <2>3. Bytes(OfflineEntries(k)) = Bytes(With(o, p, x))
    <3> HIDE DEF o, k
    <3>1. QED BY <2>1, <2>2, BytesSame
  <2>4. QED BY <1>2, <1>3, <2>1, <2>3
<1>4. CASE ~ x.offline
  <2>1. /\ DOMAIN OfflineEntries(k) = DOMAIN Without(o, p)
        /\ \A q \in DOMAIN Without(o, p) : OfflineEntries(k)[q] = Without(o, p)[q]
    BY <1>4 DEF OfflineEntries, With, Without, RestrictDomain, Restrict
  <2>2. Bytes(OfflineEntries(k)) = Bytes(Without(o, p))
    <3> HIDE DEF o, k
    <3>1. QED BY <1>2, <2>1, BytesSame
  <2>3. QED BY <1>2, <1>4, <2>2
<1>5. QED BY <1>3, <1>4

\* A state of the tracker.
IsTracker(s) ==
  s = [field \in {"ledger", "current", "peak", "offline_current", "offline_peak",
                  "online_peak", "broken"} |-> s[field]]

\* Its running totals are what its ledger sums up to.
Counted(s) ==
  /\ Sized(s.ledger)
  /\ s.current = Bytes(s.ledger)
  /\ s.offline_current = Bytes(OfflineEntries(s.ledger))

SameEntries(s, r) ==
  r.ledger = s.ledger /\ r.current = s.current /\ r.offline_current = s.offline_current

SamePeaks(s, r) ==
  r.peak = s.peak /\ r.offline_peak = s.offline_peak /\ r.online_peak = s.online_peak

\* The peaks have seen this much.
SeesPeaks(s, r, whole, offline) ==
  /\ r.peak = Higher(s.peak, whole)
  /\ r.online_peak = IF online_active THEN Higher(s.online_peak, whole) ELSE s.online_peak
  /\ r.offline_peak = IF offline_active THEN Higher(s.offline_peak, offline) ELSE s.offline_peak

\* An entry has been made.
Adds(s, r, p, bytes, offline) ==
  /\ p # Null /\ p \notin DOMAIN s.ledger
  /\ r.ledger = With(s.ledger, p, [bytes |-> bytes, offline |-> offline])
  /\ r.current = s.current + bytes
  /\ r.offline_current = s.offline_current + (IF offline THEN bytes ELSE 0)
  /\ SeesPeaks(s, r, r.current, IF offline THEN r.offline_current ELSE 0)
  /\ r.broken = s.broken

\* An entry, if there was one, has been removed.
Removes(s, r, p) ==
  /\ DOMAIN r.ledger = DOMAIN s.ledger \ {p}
  /\ \A q \in DOMAIN r.ledger : r.ledger[q] = s.ledger[q]
  /\ r.current = s.current - Share(s.ledger, p)
  /\ r.offline_current = s.offline_current - OfflineShare(s.ledger, p)
  /\ SamePeaks(s, r)
  /\ r.broken = s.broken

LEMMA BreakIs ==
  ASSUME NEW s, IsTracker(s)
  PROVE  IsTracker(Break(s)) /\ SameEntries(s, Break(s)) /\ SamePeaks(s, Break(s))
         /\ Break(s).broken = TRUE
BY DEF IsTracker, Break, SameEntries, SamePeaks

LEMMA PeaksIs ==
  ASSUME NEW s, IsTracker(s), NEW whole, NEW offline
  PROVE  /\ IsTracker(Peaks(s, whole, offline))
         /\ SameEntries(s, Peaks(s, whole, offline))
         /\ SeesPeaks(s, Peaks(s, whole, offline), whole, offline)
         /\ Peaks(s, whole, offline).broken = s.broken
BY DEF IsTracker, Peaks, SameEntries, SeesPeaks

LEMMA ObserveIs ==
  ASSUME NEW s, IsTracker(s), NEW bytes, NEW offline
  PROVE  /\ IsTracker(Observe(s, bytes, offline)) /\ SameEntries(s, Observe(s, bytes, offline))
         /\ \/ /\ SamePeaks(s, Observe(s, bytes, offline))
               /\ Observe(s, bytes, offline).broken = TRUE
            \/ /\ SeesPeaks(s, Observe(s, bytes, offline), s.current + bytes,
                            IF offline THEN s.offline_current + bytes ELSE 0)
               /\ Observe(s, bytes, offline).broken = s.broken
BY BreakIs, PeaksIs DEF Observe

LEMMA AddIs ==
  ASSUME NEW s, IsTracker(s), NEW p, NEW bytes, NEW offline
  PROVE  /\ IsTracker(Add(s, p, bytes, offline))
         /\ \/ /\ SameEntries(s, Add(s, p, bytes, offline))
               /\ SamePeaks(s, Add(s, p, bytes, offline))
               /\ Add(s, p, bytes, offline).broken = TRUE
            \/ Adds(s, Add(s, p, bytes, offline), p, bytes, offline)
<1> DEFINE r == Add(s, p, bytes, offline)
           charged == s.offline_current + (IF offline THEN bytes ELSE 0)
           u == [s EXCEPT !.ledger = With(@, p, [bytes |-> bytes, offline |-> offline]),
                          !.current = @ + bytes, !.offline_current = charged]
<1>1. r = Break(s) \/ (/\ p # Null /\ p \notin DOMAIN s.ledger
                         /\ r = Peaks(u, s.current + bytes, IF offline THEN charged ELSE 0))
  BY DEF Add
<1>2. /\ IsTracker(u) /\ u.ledger = With(s.ledger, p, [bytes |-> bytes, offline |-> offline])
      /\ u.current = s.current + bytes /\ u.offline_current = charged
      /\ SamePeaks(s, u) /\ u.broken = s.broken
  BY DEF IsTracker, SamePeaks
<1> HIDE DEF r, u, charged
<1>3. CASE r = Break(s)
  BY <1>3, BreakIs DEF r
<1>4. CASE /\ p # Null /\ p \notin DOMAIN s.ledger
           /\ r = Peaks(u, s.current + bytes, IF offline THEN charged ELSE 0)
  <2>1. /\ IsTracker(r) /\ SameEntries(u, r) /\ r.broken = u.broken
        /\ SeesPeaks(u, r, s.current + bytes, IF offline THEN charged ELSE 0)
    BY <1>2, <1>4, PeaksIs
  <2>2. Adds(s, r, p, bytes, offline)
    BY <1>2, <1>4, <2>1 DEF Adds, SameEntries, SeesPeaks, SamePeaks, charged
  <2>3. QED BY <2>1, <2>2 DEF r
<1>5. QED BY <1>1, <1>3, <1>4

LEMMA RemoveIs ==
  ASSUME NEW s, IsTracker(s), Counted(s), NEW p
  PROVE  IsTracker(Remove(s, p)) /\ Removes(s, Remove(s, p), p)
<1>1. CASE p \notin DOMAIN s.ledger
  <2>1. Remove(s, p) = s /\ Share(s.ledger, p) = 0 /\ OfflineShare(s.ledger, p) = 0
    BY <1>1 DEF Remove, Share, OfflineShare
  <2>2. s.current \in Nat /\ s.offline_current \in Nat
    BY BytesType, OfflineIs DEF Counted
  <2>3. QED BY <1>1, <2>1, <2>2 DEF Removes, SamePeaks
<1>2. CASE p \in DOMAIN s.ledger
  <2> DEFINE r == [s EXCEPT !.ledger = Without(@, p),
                            !.current = @ - s.ledger[p].bytes,
                            !.offline_current =
                              @ - (IF s.ledger[p].offline THEN s.ledger[p].bytes ELSE 0)]
  <2>1. Remove(s, p) = r
    BY <1>2 DEF Remove
  <2>2. /\ IsTracker(r) /\ r.ledger = Without(s.ledger, p) /\ SamePeaks(s, r)
        /\ r.current = s.current - Share(s.ledger, p) /\ r.broken = s.broken
        /\ r.offline_current = s.offline_current - OfflineShare(s.ledger, p)
    BY <1>2 DEF IsTracker, SamePeaks, Share, OfflineShare
  <2>3. /\ DOMAIN Without(s.ledger, p) = DOMAIN s.ledger \ {p}
        /\ \A q \in DOMAIN s.ledger \ {p} : Without(s.ledger, p)[q] = s.ledger[q]
    BY WithoutIs
  <2> HIDE DEF r
  <2>4. QED BY <2>1, <2>2, <2>3 DEF Removes
<1>3. QED BY <1>1, <1>2

LEMMA SameCounted ==
  ASSUME NEW s, NEW r, Counted(s), SameEntries(s, r)
  PROVE  Counted(r)
BY DEF Counted, SameEntries

LEMMA AddsCounted ==
  ASSUME NEW s, NEW r, NEW p, NEW bytes \in Nat, NEW offline,
         Counted(s), Adds(s, r, p, bytes, offline)
  PROVE  Counted(r)
<1> DEFINE x == [bytes |-> bytes, offline |-> offline]
<1>1. Share(s.ledger, p) = 0 /\ OfflineShare(s.ledger, p) = 0
  BY DEF Adds, Share, OfflineShare
<1>2. /\ Sized(With(s.ledger, p, x))
      /\ Bytes(With(s.ledger, p, x)) = Bytes(s.ledger) - Share(s.ledger, p) + bytes
  BY BytesWith DEF Counted
<1>3. Bytes(OfflineEntries(With(s.ledger, p, x)))
        = Bytes(OfflineEntries(s.ledger)) - OfflineShare(s.ledger, p)
            + (IF offline THEN bytes ELSE 0)
  BY OfflineWith DEF Counted
<1>4. Bytes(s.ledger) \in Nat /\ Bytes(OfflineEntries(s.ledger)) \in Nat
  BY BytesType, OfflineIs DEF Counted
<1> HIDE DEF x
<1>5. r.ledger = With(s.ledger, p, x)
  BY DEF Adds, x
<1>6. QED BY <1>1, <1>2, <1>3, <1>4, <1>5 DEF Counted, Adds

LEMMA RemovesCounted ==
  ASSUME NEW s, NEW r, NEW p, Counted(s), Removes(s, r, p)
  PROVE  Counted(r)
<1> DEFINE k == Without(s.ledger, p)
<1>1. /\ DOMAIN r.ledger = DOMAIN k
      /\ \A q \in DOMAIN k : r.ledger[q] = k[q]
  BY WithoutIs DEF Removes
<1>2. Sized(k) /\ Bytes(k) = Bytes(s.ledger) - Share(s.ledger, p)
  BY BytesWithout DEF Counted
<1>3. Bytes(OfflineEntries(k)) = Bytes(OfflineEntries(s.ledger)) - OfflineShare(s.ledger, p)
  BY OfflineWithout DEF Counted
<1> HIDE DEF k
<1>4. Sized(r.ledger) /\ Bytes(r.ledger) = Bytes(k)
  BY <1>1, <1>2, BytesSame
<1>5. Bytes(OfflineEntries(r.ledger)) = Bytes(OfflineEntries(k))
  <2>1. /\ DOMAIN OfflineEntries(r.ledger) = DOMAIN OfflineEntries(k)
        /\ \A q \in DOMAIN OfflineEntries(k) : OfflineEntries(r.ledger)[q] = OfflineEntries(k)[q]
    BY <1>1 DEF OfflineEntries, RestrictDomain, Restrict
  <2>2. Sized(OfflineEntries(k))
    BY <1>2, OfflineIs
  <2>3. QED BY <2>1, <2>2, BytesSame
<1>6. QED BY <1>2, <1>3, <1>4, <1>5 DEF Counted, Removes

-----------------------------------------------------------------------------
(* The inductive invariant.                                                 *)

\* The wrapped call that is under way.
InFlight == IF mutex = Nobody THEN Idle ELSE call[mutex]

Block(x) == x.bytes \in Nat /\ x.owned \in BOOLEAN /\ x.offline \in BOOLEAN

\* h is a heap of finitely many blocks.
IsHeap(h) ==
  /\ IsFiniteSet(DOMAIN h) /\ DOMAIN h \subseteq Address
  /\ \A p \in DOMAIN h : Block(h[p])

\* Only the thread that has tracker_mutex is in a call.
SerialInv ==
  /\ mutex \in Thread \cup {Nobody}
  /\ call = [t \in Thread |-> call[t]]
  /\ \A t \in Thread : t # mutex => call[t] = Idle

IsCall(c) ==
  /\ c.op \in {"none", "malloc", "memalign", "free", "realloc"}
  /\ c.bytes \in Nat /\ c.owned \in BOOLEAN /\ c.offline \in BOOLEAN

PhaseInv ==
  /\ {active, broken, offline_active, online_active} \subseteq BOOLEAN
  /\ {peak, offline_peak, online_peak} \subseteq Nat
  /\ {realPeak, realOffline, realOnline} \subseteq Nat
  /\ offline_active => active
  /\ online_active => active

\* Ledger l lists the blocks of heap h for which a scope is charged.
Matches(l, h) ==
  /\ DOMAIN l = {p \in DOMAIN h : h[p].owned}
  /\ \A p \in DOMAIN l : l[p] = [bytes |-> h[p].bytes, offline |-> h[p].offline]

\* During call c the ledger lists the blocks that c is not about.
Agrees(c) ==
  /\ c.op \in {"none", "memalign"} => Matches(ledger, heap)
  /\ c.op = "malloc" =>
       /\ Matches(ledger, Without(heap, c.result))
       /\ c.result # Null =>
            /\ c.result \in DOMAIN heap
            /\ heap[c.result] = [bytes |-> c.bytes, owned |-> active,
                                 offline |-> active /\ offline_active]
  /\ c.op = "free" => Matches(ledger, Without(heap, c.pointer))
  /\ c.op = "realloc" =>
       /\ c.result = Null /\ c.bytes # 0 => Matches(ledger, heap)
       /\ c.result # Null \/ c.bytes = 0 =>
            Matches(Without(ledger, c.pointer), Without(heap, c.result))
       /\ c.result = Null /\ c.bytes = 0 => c.pointer \notin DOMAIN heap
       /\ c.result # Null =>
            /\ c.result \in DOMAIN heap
            /\ c.owned <=> c.pointer \in DOMAIN ledger
            /\ c.result # c.pointer => c.result \notin DOMAIN ledger /\ c.pointer \notin DOMAIN heap
            /\ heap[c.result].bytes = c.bytes
            /\ heap[c.result].owned = (active \/ c.owned)
            /\ heap[c.result].offline = c.offline
            /\ offline_active => c.offline

\* What the peaks will have seen once call c has returned, and the offline peak.
Pending(c, held_now, replaced) ==
  IF c.op \in {"malloc", "realloc"} /\ c.result # Null
  THEN held_now + c.bytes - (IF c.op = "realloc" /\ c.result = c.pointer THEN replaced ELSE 0)
  ELSE held_now

Seen(c) == Pending(c, current, Share(ledger, c.pointer))
SeenOffline(c) == Pending(c, offline_current, OfflineShare(ledger, c.pointer))

PeaksAgree(c) ==
  /\ active => current <= peak /\ realPeak = Higher(peak, Seen(c))
  /\ online_active => current <= online_peak /\ realOnline = Higher(online_peak, Seen(c))
  /\ offline_active =>
       offline_current <= offline_peak /\ realOffline = Higher(offline_peak, SeenOffline(c))

\* Verdicts are about phases that have ended.
Verdicts ==
  /\ ret \in [whole : Measure, control : Measure, online : Measure]
  /\ ret.whole.status = "VALID" => ~ active /\ ret.whole.peak = realPeak
  /\ ret.control.status = "VALID" => ~ offline_active /\ ret.control.peak = realOffline
  /\ ret.online.status = "VALID" => ~ online_active /\ ret.online.peak = realOnline
  /\ ~ active /\ ret.whole.status # "VALID" => "VALID" \notin {ret.control.status, ret.online.status}

TrackerInv ==
  /\ IsHeap(heap)
  /\ Counted(Tracker)
  /\ SerialInv
  /\ IsCall(InFlight)
  /\ PhaseInv
  /\ Verdicts
  /\ ~ broken => Agrees(InFlight) /\ PeaksAgree(InFlight)

-----------------------------------------------------------------------------

\* A state that operations of the tracker may be applied to.
Sound(s) ==
  /\ IsTracker(s) /\ Counted(s)
  /\ {s.peak, s.offline_peak, s.online_peak} \subseteq Nat /\ s.broken \in BOOLEAN

LEMMA BreakSound ==
  ASSUME NEW s, Sound(s)
  PROVE  Sound(Break(s))
BY BreakIs, SameCounted DEF Sound, SamePeaks

LEMMA ObserveSound ==
  ASSUME NEW s, Sound(s), NEW bytes \in Nat, NEW offline
  PROVE  Sound(Observe(s, bytes, offline))
<1>1. s.current \in Nat /\ s.offline_current \in Nat
  BY BytesType, OfflineIs DEF Counted, Sound
<1> DEFINE r == Observe(s, bytes, offline)
<1>2. /\ IsTracker(r) /\ SameEntries(s, r)
      /\ \/ SamePeaks(s, r) /\ r.broken = TRUE
         \/ /\ SeesPeaks(s, r, s.current + bytes, IF offline THEN s.offline_current + bytes ELSE 0)
            /\ r.broken = s.broken
  BY ObserveIs DEF Sound
<1> HIDE DEF r
<1>3. Counted(r)
  BY <1>2, SameCounted DEF Sound
<1>4. {r.peak, r.offline_peak, r.online_peak} \subseteq Nat /\ r.broken \in BOOLEAN
  <2>1. CASE SamePeaks(s, r) /\ r.broken = TRUE
    BY <2>1 DEF Sound, SamePeaks
  <2>2. ASSUME NEW w \in Nat, NEW o \in Nat, SeesPeaks(s, r, w, o), r.broken = s.broken
        PROVE  {r.peak, r.offline_peak, r.online_peak} \subseteq Nat /\ r.broken \in BOOLEAN
    BY <2>2 DEF Sound, SeesPeaks, Higher
  <2>3. s.current + bytes \in Nat /\ (IF offline THEN s.offline_current + bytes ELSE 0) \in Nat
    BY <1>1
  <2>4. QED BY <1>2, <2>1, <2>2, <2>3
<1>5. Sound(r)
  BY <1>2, <1>3, <1>4 DEF Sound
<1>6. QED BY <1>5 DEF r

LEMMA AddSound ==
  ASSUME NEW s, Sound(s), NEW p, NEW bytes \in Nat, NEW offline
  PROVE  Sound(Add(s, p, bytes, offline))
<1> DEFINE r == Add(s, p, bytes, offline)
<1>1. /\ IsTracker(r)
      /\ \/ SameEntries(s, r) /\ SamePeaks(s, r) /\ r.broken = TRUE
         \/ Adds(s, r, p, bytes, offline)
  BY AddIs DEF Sound
<1> HIDE DEF r
<1>2. CASE SameEntries(s, r) /\ SamePeaks(s, r) /\ r.broken = TRUE
  BY <1>1, <1>2, SameCounted DEF Sound, SamePeaks, r
<1>3. CASE Adds(s, r, p, bytes, offline)
  <2>1. Counted(r)
    BY <1>3, AddsCounted DEF Sound
  <2>2. r.current \in Nat /\ r.offline_current \in Nat
    BY <2>1, BytesType, OfflineIs DEF Counted
  <2>3. {r.peak, r.offline_peak, r.online_peak} \subseteq Nat /\ r.broken \in BOOLEAN
    BY <1>3, <2>2 DEF Adds, SeesPeaks, Higher, Sound
  <2>4. QED BY <1>1, <2>1, <2>3 DEF Sound, r
<1>4. QED BY <1>1, <1>2, <1>3

LEMMA RemoveSound ==
  ASSUME NEW s, Sound(s), NEW p
  PROVE  Sound(Remove(s, p))
<1> DEFINE r == Remove(s, p)
<1>1. IsTracker(r) /\ Removes(s, r, p)
  BY RemoveIs DEF Sound
<1> HIDE DEF r
<1>2. Counted(r)
  BY <1>1, RemovesCounted DEF Sound
<1>3. Sound(r)
  BY <1>1, <1>2 DEF Sound, Removes, SamePeaks
<1>4. QED BY <1>3 DEF r

LEMMA TrackerIs ==
  /\ IsTracker(Tracker)
  /\ Tracker.ledger = ledger /\ Tracker.current = current /\ Tracker.peak = peak
  /\ Tracker.offline_current = offline_current /\ Tracker.offline_peak = offline_peak
  /\ Tracker.online_peak = online_peak /\ Tracker.broken = broken
BY DEF IsTracker, Tracker

LEMMA BecomesIs ==
  ASSUME NEW r, IsTracker(r), Becomes(r)
  PROVE  /\ Tracker' = r
         /\ ledger' = r.ledger /\ current' = r.current /\ peak' = r.peak
         /\ offline_current' = r.offline_current /\ offline_peak' = r.offline_peak
         /\ online_peak' = r.online_peak /\ broken' = r.broken
BY DEF IsTracker, Tracker, Becomes

\* The totals, spelled out.
LEMMA Totals ==
  ASSUME Counted(Tracker)
  PROVE  /\ Sized(ledger) /\ current = Bytes(ledger) /\ current \in Nat
         /\ offline_current = Bytes(OfflineEntries(ledger)) /\ offline_current \in Nat
BY TrackerIs, BytesType, OfflineIs DEF Counted

\* What a scope is charged for is what a ledger that matches the heap sums up to.
LEMMA MatchBytes ==
  ASSUME NEW l, NEW h, Sized(l), Matches(l, h)
  PROVE  Bytes(Owned(h)) = Bytes(l) /\ Bytes(OfflineOwned(h)) = Bytes(OfflineEntries(l))
<1>0. ASSUME NEW p \in DOMAIN l
      PROVE  l[p].bytes = h[p].bytes /\ l[p].offline = h[p].offline
  <2>1. l[p] = [bytes |-> h[p].bytes, offline |-> h[p].offline]
    BY DEF Matches
  <2>2. QED BY <2>1
<1>1. Bytes(Owned(h)) = Bytes(l)
  <2>1. /\ DOMAIN Owned(h) = {p \in DOMAIN h : h[p].owned}
        /\ \A p \in DOMAIN Owned(h) : Owned(h)[p] = h[p]
    BY DEF Owned, RestrictDomain, Restrict
  <2>2. DOMAIN Owned(h) = DOMAIN l /\ \A p \in DOMAIN l : Owned(h)[p].bytes = l[p].bytes
    BY <1>0, <2>1 DEF Matches
  <2>3. QED BY <2>2, BytesSame
<1>2. Bytes(OfflineOwned(h)) = Bytes(OfflineEntries(l))
  <2>1. /\ DOMAIN OfflineOwned(h) = {p \in DOMAIN h : h[p].owned /\ h[p].offline}
        /\ \A p \in DOMAIN OfflineOwned(h) : OfflineOwned(h)[p] = h[p]
    BY DEF OfflineOwned, RestrictDomain, Restrict
  <2>2. /\ DOMAIN OfflineEntries(l) = {p \in DOMAIN l : l[p].offline}
        /\ \A p \in DOMAIN OfflineEntries(l) : OfflineEntries(l)[p] = l[p]
    BY OfflineIs
  <2>3. DOMAIN l = {p \in DOMAIN h : h[p].owned}
    BY DEF Matches
  <2>4. DOMAIN OfflineOwned(h) = DOMAIN OfflineEntries(l)
    BY <1>0, <2>1, <2>2, <2>3
  <2>5. \A p \in DOMAIN OfflineEntries(l) : OfflineOwned(h)[p].bytes = OfflineEntries(l)[p].bytes
    BY <1>0, <2>1, <2>2, <2>4
  <2>6. QED BY <2>4, <2>5, OfflineIs, BytesSame
<1>3. QED BY <1>1, <1>2

LEMMA Entering ==
  ASSUME SerialInv, NEW t \in Thread, Enter(t), NEW c, call' = [call EXCEPT ![t] = c]
  PROVE  InFlight = Idle /\ InFlight' = c /\ SerialInv'
<1>1. mutex = Nobody /\ mutex' = t
  BY DEF Enter
<1>2. InFlight = Idle
  BY <1>1 DEF InFlight
<1>3. call'[t] = c
  BY DEF SerialInv
<1>4. InFlight' = c
  BY <1>1, <1>3, TrackerAssumption DEF InFlight
<1>5. SerialInv'
  BY <1>1, TrackerAssumption DEF SerialInv
<1>6. QED BY <1>2, <1>4, <1>5

LEMMA Leaving ==
  ASSUME SerialInv, NEW t \in Thread, call[t].op # "none", Leave(t)
  PROVE  InFlight = call[t] /\ InFlight' = Idle /\ SerialInv'
<1>1. mutex = t
  BY DEF SerialInv, Idle
<1>2. InFlight = call[t]
  BY <1>1, TrackerAssumption DEF InFlight
<1>3. InFlight' = Idle
  BY DEF Leave, InFlight
<1>4. SerialInv'
  BY <1>1 DEF SerialInv, Leave
<1>5. QED BY <1>2, <1>3, <1>4

\* Nothing is pending between calls.
LEMMA NothingPending ==
  /\ Idle.op = "none" /\ Idle.bytes = 0 /\ Idle.owned = FALSE /\ Idle.offline = FALSE
  /\ IsCall(Idle)
  /\ Seen(Idle) = current /\ SeenOffline(Idle) = offline_current
  /\ Seen(Idle)' = current' /\ SeenOffline(Idle)' = offline_current'
BY DEF Idle, IsCall, Seen, SeenOffline, Pending

LEMMA InitTracker == Init => TrackerInv
<1>1. SUFFICES ASSUME Init PROVE TrackerInv
  OBVIOUS
<1>2. DOMAIN heap = {} /\ DOMAIN ledger = {} /\ DOMAIN OfflineEntries(ledger) = {}
  BY <1>1 DEF Init, OfflineEntries, RestrictDomain, Restrict
<1>3. IsHeap(heap)
  BY <1>2, FS_EmptySet DEF IsHeap
<1>4. Counted(Tracker)
  BY <1>1, <1>2, TrackerIs, BytesEmpty DEF Counted, Init
<1>5. SerialInv /\ InFlight = Idle /\ IsCall(Idle)
  BY <1>1 DEF SerialInv, InFlight, Init, IsCall, Idle
<1>6. PhaseInv
  <2>1. {active, broken, offline_active, online_active} \subseteq BOOLEAN
    BY <1>1 DEF Init
  <2>2. {peak, offline_peak, online_peak} \subseteq Nat
    BY <1>1 DEF Init
  <2>3. {realPeak, realOffline, realOnline} \subseteq Nat
    BY <1>1 DEF Init
  <2>4. QED BY <1>1, <2>1, <2>2, <2>3 DEF PhaseInv, Init
<1>7. Verdicts
  BY <1>1 DEF Verdicts, Init, Unmeasured, Measure
<1>8. Agrees(Idle) /\ PeaksAgree(Idle)
  <2>1. Matches(ledger, heap)
    BY <1>2 DEF Matches
  <2>2. Agrees(Idle)
    BY <2>1 DEF Agrees, Idle
  <2>3. QED BY <1>1, <2>2 DEF PeaksAgree, Init
<1>9. QED BY <1>3, <1>4, <1>5, <1>6, <1>7, <1>8 DEF TrackerInv

-----------------------------------------------------------------------------
(* Heaps and ledgers change together.                                       *)

LEMMA HeapWith ==
  ASSUME NEW h, IsHeap(h), NEW p \in Address, NEW x, Block(x)
  PROVE  IsHeap(With(h, p, x))
<1>1. IsFiniteSet(DOMAIN h \cup {p})
  BY FS_AddElement DEF IsHeap
<1>2. /\ DOMAIN With(h, p, x) = DOMAIN h \cup {p} /\ With(h, p, x)[p] = x
      /\ \A q \in DOMAIN h : q # p => With(h, p, x)[q] = h[q]
  BY DEF With
<1>3. QED BY <1>1, <1>2 DEF IsHeap

LEMMA HeapWithout ==
  ASSUME NEW h, IsHeap(h), NEW p
  PROVE  IsHeap(Without(h, p))
<1>1. IsFiniteSet(DOMAIN h \ {p})
  BY FS_Subset DEF IsHeap
<1>2. /\ DOMAIN Without(h, p) = DOMAIN h \ {p}
      /\ \A q \in DOMAIN h \ {p} : Without(h, p)[q] = h[q]
  BY WithoutIs
<1>3. QED BY <1>1, <1>2 DEF IsHeap

\* What a scope is charged for is a number of bytes.
LEMMA OwnedType ==
  ASSUME NEW h, IsHeap(h)
  PROVE  Bytes(Owned(h)) \in Nat /\ Bytes(OfflineOwned(h)) \in Nat
<1>1. /\ DOMAIN Owned(h) \subseteq DOMAIN h
      /\ \A p \in DOMAIN Owned(h) : Owned(h)[p] = h[p]
  BY DEF Owned, RestrictDomain, Restrict
<1>2. /\ DOMAIN OfflineOwned(h) \subseteq DOMAIN h
      /\ \A p \in DOMAIN OfflineOwned(h) : OfflineOwned(h)[p] = h[p]
  BY DEF OfflineOwned, RestrictDomain, Restrict
<1>3. IsFiniteSet(DOMAIN Owned(h)) /\ IsFiniteSet(DOMAIN OfflineOwned(h))
  BY <1>1, <1>2, FS_Subset DEF IsHeap
<1>4. Sized(Owned(h)) /\ Sized(OfflineOwned(h))
  BY <1>1, <1>2, <1>3 DEF Sized, IsHeap, Block
<1>5. QED BY <1>4, BytesType

LEMMA MatchesSame ==
  ASSUME NEW l, NEW h, NEW k, Matches(l, h),
         DOMAIN k = DOMAIN h, \A p \in DOMAIN h : k[p] = h[p]
  PROVE  Matches(l, k)
BY DEF Matches

LEMMA MatchesWith ==
  ASSUME NEW l, NEW h, NEW p, NEW x, Matches(l, h), x.owned
  PROVE  Matches(With(l, p, [bytes |-> x.bytes, offline |-> x.offline]), With(h, p, x))
<1> DEFINE k == With(l, p, [bytes |-> x.bytes, offline |-> x.offline])
           j == With(h, p, x)
<1>1. /\ DOMAIN k = DOMAIN l \cup {p} /\ k[p] = [bytes |-> x.bytes, offline |-> x.offline]
      /\ \A q \in DOMAIN l : q # p => k[q] = l[q]
  BY DEF With
<1>2. /\ DOMAIN j = DOMAIN h \cup {p} /\ j[p] = x
      /\ \A q \in DOMAIN h : q # p => j[q] = h[q]
  BY DEF With
<1> HIDE DEF j, k
<1>3. DOMAIN k = {q \in DOMAIN j : j[q].owned}
  BY <1>1, <1>2 DEF Matches
<1>4. ASSUME NEW q \in DOMAIN k PROVE k[q] = [bytes |-> j[q].bytes, offline |-> j[q].offline]
  <2>1. CASE q = p
    BY <1>1, <1>2, <2>1
  <2>2. CASE q # p
    <3>1. q \in DOMAIN l /\ q \in DOMAIN h /\ k[q] = l[q] /\ j[q] = h[q]
      BY <1>1, <1>2, <1>4, <2>2 DEF Matches
    <3>2. QED BY <3>1 DEF Matches
  <2>3. QED BY <2>1, <2>2
<1>5. Matches(k, j)
  BY <1>3, <1>4 DEF Matches
<1>6. QED BY <1>5 DEF j, k

LEMMA MatchesWithout ==
  ASSUME NEW l, NEW h, NEW p, Matches(l, h)
  PROVE  Matches(Without(l, p), Without(h, p))
<1> DEFINE k == Without(l, p)
           j == Without(h, p)
<1>1. /\ DOMAIN k = DOMAIN l \ {p} /\ \A q \in DOMAIN l \ {p} : k[q] = l[q]
      /\ DOMAIN j = DOMAIN h \ {p} /\ \A q \in DOMAIN h \ {p} : j[q] = h[q]
  BY WithoutIs
<1> HIDE DEF j, k
<1>2. DOMAIN k = {q \in DOMAIN j : j[q].owned}
  BY <1>1 DEF Matches
<1>3. ASSUME NEW q \in DOMAIN k PROVE k[q] = [bytes |-> j[q].bytes, offline |-> j[q].offline]
  <2>1. q \in DOMAIN l /\ q \in DOMAIN h /\ k[q] = l[q] /\ j[q] = h[q]
    BY <1>1, <1>3 DEF Matches
  <2>2. QED BY <2>1 DEF Matches
<1>4. Matches(k, j)
  BY <1>2, <1>3 DEF Matches
<1>5. QED BY <1>4 DEF j, k

\* The heap holds the blocks of the ledger, and x at p.
LEMMA WidestBytes ==
  ASSUME NEW l, NEW h, NEW p, NEW x, Sized(l), Matches(l, h), Block(x), x.owned
  PROVE  /\ Bytes(Owned(With(h, p, x))) = Bytes(l) - Share(l, p) + x.bytes
         /\ Bytes(OfflineOwned(With(h, p, x)))
              = Bytes(OfflineEntries(l)) - OfflineShare(l, p) + (IF x.offline THEN x.bytes ELSE 0)
<1> DEFINE y == [bytes |-> x.bytes, offline |-> x.offline]
<1>1. y.bytes = x.bytes /\ y.offline = x.offline /\ y.bytes \in Nat
  BY DEF Block
<1>2. Matches(With(l, p, y), With(h, p, x))
  BY MatchesWith
<1> HIDE DEF y
<1>3. /\ Sized(With(l, p, y)) /\ Bytes(With(l, p, y)) = Bytes(l) - Share(l, p) + y.bytes
  BY <1>1, BytesWith
<1>4. Bytes(OfflineEntries(With(l, p, y)))
        = Bytes(OfflineEntries(l)) - OfflineShare(l, p) + (IF y.offline THEN y.bytes ELSE 0)
  BY <1>1, OfflineWith
<1>5. /\ Bytes(Owned(With(h, p, x))) = Bytes(With(l, p, y))
      /\ Bytes(OfflineOwned(With(h, p, x))) = Bytes(OfflineEntries(With(l, p, y)))
  BY <1>2, <1>3, MatchBytes
<1>6. QED BY <1>1, <1>3, <1>4, <1>5

-----------------------------------------------------------------------------
(* The steps of wrapped calls.                                              *)

\* Steps that leave the verdicts alone.
LEMMA VerdictsKept ==
  ASSUME Verdicts, UNCHANGED <<phase, ret>>,
         ~ active => realPeak' = realPeak,
         ~ offline_active => realOffline' = realOffline,
         ~ online_active => realOnline' = realOnline
  PROVE  Verdicts'
BY DEF Verdicts, phase

LEMMA GhostsGrow ==
  ASSUME PhaseInv, UNCHANGED <<tracker, phase>>, NEW whole \in Nat, NEW offline \in Nat,
         RealSees(whole, offline)
  PROVE  PhaseInv'
<1>1. {realPeak', realOffline', realOnline'} \subseteq Nat
  BY DEF PhaseInv, RealSees, Higher
<1>2. QED BY <1>1 DEF PhaseInv, tracker, phase

\* A call begins that the tracker will hear of when it returns.
LEMMA GhostsSee ==
  ASSUME TrackerInv, ~ broken, InFlight = Idle, UNCHANGED <<tracker, phase>>,
         NEW c, NEW whole \in Nat, NEW offline \in Nat, RealSees(whole, offline),
         active => whole = Seen(c), offline_active => offline = SeenOffline(c)
  PROVE  PeaksAgree(c)'
<1>1. /\ current \in Nat /\ offline_current \in Nat
      /\ {peak, offline_peak, online_peak} \subseteq Nat
  BY Totals DEF TrackerInv, PhaseInv
<1>2. PeaksAgree(Idle)
  BY DEF TrackerInv
<1>3. Seen(c)' = Seen(c) /\ SeenOffline(c)' = SeenOffline(c)
  BY DEF Seen, SeenOffline, Share, OfflineShare, tracker
<1>4. active => current <= peak /\ realPeak' = Higher(peak, whole)
  BY <1>1, <1>2, NothingPending DEF PeaksAgree, RealSees, Higher
<1>5. online_active => active /\ current <= online_peak /\ realOnline' = Higher(online_peak, whole)
  BY <1>1, <1>2, NothingPending DEF PeaksAgree, RealSees, Higher, TrackerInv, PhaseInv
<1>6. offline_active => offline_current <= offline_peak
                          /\ realOffline' = Higher(offline_peak, offline)
  BY <1>1, <1>2, NothingPending DEF PeaksAgree, RealSees, Higher
<1>7. QED BY <1>3, <1>4, <1>5, <1>6 DEF PeaksAgree, tracker, phase

LEMMA SizeType == Size \subseteq Nat
BY TrackerAssumption

\* The ledger is as it was.
LEMMA SameTracker ==
  ASSUME TrackerInv, UNCHANGED tracker
  PROVE  Counted(Tracker)' /\ broken' = broken
<1>1. Tracker' = Tracker
  BY DEF Tracker, tracker
<1>2. Counted(Tracker)
  BY DEF TrackerInv
<1>3. Counted(Tracker)'
  BY <1>1, <1>2
<1>4. QED BY <1>3 DEF tracker

LEMMA MallocTracker ==
  ASSUME TrackerInv, NEW t \in Thread, NEW bytes \in Size, Malloc(t, bytes)
  PROVE  TrackerInv'
<1>1. PICK p \in (Address \ DOMAIN heap) \cup {Null} :
        /\ heap' = IF p = Null THEN heap ELSE With(heap, p, NewBlock(bytes))
        /\ call' = [call EXCEPT ![t] = [Idle EXCEPT !.op = "malloc", !.bytes = bytes,
                                                    !.result = p]]
  BY DEF Malloc
<1>2. PICK c : c = [Idle EXCEPT !.op = "malloc", !.bytes = bytes, !.result = p]
  OBVIOUS
<1>3. /\ c.op = "malloc" /\ c.bytes = bytes /\ c.result = p /\ c.owned = FALSE
      /\ c.offline = FALSE /\ bytes \in Nat
  BY <1>2, SizeType DEF Idle
<1>4. InFlight = Idle /\ InFlight' = c /\ SerialInv'
  <2>1. SerialInv /\ Enter(t) /\ call' = [call EXCEPT ![t] = c]
    BY <1>1, <1>2 DEF TrackerInv, Malloc
  <2>2. QED BY <2>1, Entering
<1>5. PICK x : x = NewBlock(bytes)
  OBVIOUS
<1>6. Block(x) /\ x.bytes = bytes /\ x.owned = active /\ x.offline = (active /\ offline_active)
  BY <1>3, <1>5 DEF NewBlock, Block, TrackerInv, PhaseInv
<1>0. IsCall(InFlight)'
  BY <1>3, <1>4 DEF IsCall
<1>7. IsHeap(heap')
  <2>1. CASE p = Null
    BY <1>1, <2>1 DEF TrackerInv
  <2>2. CASE p # Null
    <3>1. p \in Address /\ heap' = With(heap, p, x)
      BY <1>1, <1>5, <2>2
    <3>2. QED BY <1>6, <3>1, HeapWith DEF TrackerInv
  <2>3. QED BY <2>1, <2>2
<1> DEFINE whole == Bytes(Owned(heap'))
           offline == Bytes(OfflineOwned(heap'))
<1>8. /\ whole \in Nat /\ offline \in Nat /\ RealSees(whole, offline)
      /\ UNCHANGED <<tracker, phase, ret>>
  BY <1>7, OwnedType DEF Malloc
<1>9. ASSUME ~ broken
      PROVE  Agrees(c)' /\ (active => whole = Seen(c)) /\ (offline_active => offline = SeenOffline(c))
  <2>1. Matches(ledger, heap) /\ Sized(ledger) /\ current = Bytes(ledger) /\ current \in Nat
        /\ offline_current = Bytes(OfflineEntries(ledger)) /\ offline_current \in Nat
    BY <1>4, <1>9, Totals, NothingPending DEF TrackerInv, Agrees
  <2>2. CASE p = Null
    <3>1. Without(heap, p)' = Without(heap', Null)
      BY <2>2
    <3>2. Matches(ledger', Without(heap', Null))
      <4>1. Null \notin DOMAIN heap
        BY TrackerAssumption DEF TrackerInv, IsHeap
      <4>2. /\ DOMAIN Without(heap, Null) = DOMAIN heap
            /\ \A q \in DOMAIN heap : Without(heap, Null)[q] = heap[q]
        BY <4>1 DEF Without, RestrictDomain, Restrict
      <4>3. heap' = heap /\ ledger' = ledger
        BY <1>1, <1>8, <2>2 DEF tracker
      <4>4. Matches(ledger, Without(heap, Null))
        BY <2>1, <4>2, MatchesSame
      <4>5. QED BY <4>3, <4>4
    <3>3. Agrees(c)'
      BY <1>3, <2>2, <3>2 DEF Agrees
    <3>4. whole = current /\ offline = offline_current
      BY <1>1, <2>1, <2>2, MatchBytes
    <3>5. QED BY <1>3, <2>2, <3>3, <3>4 DEF Seen, SeenOffline, Pending
  <2>3. CASE p # Null
    <3>1. p \in Address /\ p \notin DOMAIN heap /\ heap' = With(heap, p, x) /\ ledger' = ledger
      BY <1>1, <1>5, <1>8, <2>3 DEF tracker
    <3>2. heap'[p] = x /\ p \in DOMAIN heap'
      BY <3>1 DEF With
    <3>3. Matches(ledger', Without(heap', p))
      <4>1. /\ DOMAIN Without(heap', p) = DOMAIN heap
            /\ \A q \in DOMAIN heap : Without(heap', p)[q] = heap[q]
        BY <3>1 DEF With, Without, RestrictDomain, Restrict
      <4>2. Matches(ledger, Without(heap', p))
        BY <2>1, <4>1, MatchesSame
      <4>3. QED BY <3>1, <4>2
    <3>4. x = [bytes |-> bytes, owned |-> active, offline |-> active /\ offline_active]
      BY <1>5 DEF NewBlock
    <3>5. Agrees(c)'
      BY <1>3, <1>8, <3>2, <3>3, <3>4 DEF Agrees, phase
    <3>6. Share(ledger, p) = 0 /\ OfflineShare(ledger, p) = 0
      BY <2>1, <3>1 DEF Share, OfflineShare, Matches
    <3>7. ASSUME active
          PROVE  /\ whole = current + bytes
                 /\ offline = offline_current + (IF x.offline THEN bytes ELSE 0)
      <4>1. x.owned
        BY <1>6, <3>7
      <4>2. /\ whole = Bytes(ledger) - Share(ledger, p) + x.bytes
            /\ offline = Bytes(OfflineEntries(ledger)) - OfflineShare(ledger, p)
                           + (IF x.offline THEN x.bytes ELSE 0)
        BY <1>6, <2>1, <3>1, <4>1, WidestBytes
      <4>3. QED BY <1>3, <1>6, <2>1, <3>6, <4>2
    <3>8. offline_active => active /\ x.offline
      BY <1>6 DEF TrackerInv, PhaseInv
    <3>9. Seen(c) = current + bytes /\ SeenOffline(c) = offline_current + bytes
      BY <1>3, <2>1, <2>3 DEF Seen, SeenOffline, Pending
    <3>10. QED BY <3>5, <3>7, <3>8, <3>9
  <2>4. QED BY <2>2, <2>3
<1> HIDE DEF whole, offline
<1>10. PhaseInv'
  BY <1>8, GhostsGrow DEF TrackerInv
<1>11. Verdicts'
  BY <1>8, VerdictsKept DEF TrackerInv, RealSees
<1>12. ~ broken => PeaksAgree(c)'
  BY <1>4, <1>8, <1>9, GhostsSee
<1>13. Counted(Tracker)' /\ broken' = broken
  BY <1>8, SameTracker
<1>14. QED BY <1>0, <1>4, <1>7, <1>9, <1>10, <1>11, <1>12, <1>13 DEF TrackerInv

LEMMA SoundTracker ==
  ASSUME TrackerInv
  PROVE  Sound(Tracker)
<1>1. {peak, offline_peak, online_peak} \subseteq Nat /\ broken \in BOOLEAN
  BY DEF TrackerInv, PhaseInv
<1>2. QED BY <1>1, TrackerIs DEF TrackerInv, Sound

\* What every step of the book-keeping keeps.
LEMMA BookKeeping ==
  ASSUME TrackerInv, NEW r, Sound(r), Becomes(r), UNCHANGED <<phase, ret, ghosts>>
  PROVE  /\ Counted(Tracker)' /\ PhaseInv' /\ Verdicts'
         /\ ledger' = r.ledger /\ current' = r.current /\ offline_current' = r.offline_current
         /\ peak' = r.peak /\ offline_peak' = r.offline_peak /\ online_peak' = r.online_peak
         /\ broken' = r.broken
<1>1. /\ Tracker' = r
      /\ ledger' = r.ledger /\ current' = r.current /\ offline_current' = r.offline_current
      /\ peak' = r.peak /\ offline_peak' = r.offline_peak /\ online_peak' = r.online_peak
      /\ broken' = r.broken
  BY BecomesIs DEF Sound
<1>2. Counted(Tracker)'
  BY <1>1 DEF Sound
<1>3. PhaseInv'
  <2>1. {active', broken', offline_active', online_active'} \subseteq BOOLEAN
    BY <1>1 DEF Sound, TrackerInv, PhaseInv, phase
  <2>2. {peak', offline_peak', online_peak'} \subseteq Nat
    BY <1>1 DEF Sound
  <2>3. QED BY <2>1, <2>2 DEF TrackerInv, PhaseInv, phase, ghosts
<1>4. Verdicts'
  BY VerdictsKept DEF TrackerInv, ghosts
<1>5. QED BY <1>1, <1>2, <1>3, <1>4

LEMMA MatchesUnowned ==
  ASSUME NEW l, NEW h, NEW p, Matches(l, Without(h, p)), p \in DOMAIN h => ~ h[p].owned
  PROVE  Matches(l, h)
<1>1. /\ DOMAIN Without(h, p) = DOMAIN h \ {p}
      /\ \A q \in DOMAIN h \ {p} : Without(h, p)[q] = h[q]
  BY WithoutIs
<1>2. DOMAIN l = {q \in DOMAIN h : h[q].owned}
  BY <1>1 DEF Matches
<1>3. QED BY <1>1, <1>2 DEF Matches

\* The ledger has heard of a new block.
LEMMA MatchesNew ==
  ASSUME NEW l, NEW h, NEW p, Matches(l, Without(h, p)), p \in DOMAIN h, h[p].owned
  PROVE  Matches(With(l, p, [bytes |-> h[p].bytes, offline |-> h[p].offline]), h)
<1> DEFINE y == [bytes |-> h[p].bytes, offline |-> h[p].offline]
           k == With(l, p, y)
<1>1. /\ DOMAIN k = DOMAIN l \cup {p} /\ k[p] = y
      /\ \A q \in DOMAIN l : q # p => k[q] = l[q]
  BY DEF With
<1>2. /\ DOMAIN Without(h, p) = DOMAIN h \ {p}
      /\ \A q \in DOMAIN h \ {p} : Without(h, p)[q] = h[q]
  BY WithoutIs
<1> HIDE DEF k
<1>3. DOMAIN k = {q \in DOMAIN h : h[q].owned}
  BY <1>1, <1>2 DEF Matches
<1>4. ASSUME NEW q \in DOMAIN k PROVE k[q] = [bytes |-> h[q].bytes, offline |-> h[q].offline]
  <2>1. CASE q = p
    BY <1>1, <2>1
  <2>2. CASE q # p
    <3>1. q \in DOMAIN l /\ q \in DOMAIN h \ {p} /\ k[q] = l[q]
      BY <1>1, <1>2, <1>4, <2>2 DEF Matches
    <3>2. QED BY <1>2, <3>1 DEF Matches
  <2>3. QED BY <2>1, <2>2
<1>5. Matches(k, h)
  BY <1>3, <1>4 DEF Matches
<1>6. QED BY <1>5 DEF k

LEMMA NullFree ==
  ASSUME TrackerInv
  PROVE  Null \notin DOMAIN heap
BY TrackerAssumption DEF TrackerInv, IsHeap

LEMMA MallocReturnsTracker ==
  ASSUME TrackerInv, NEW t \in Thread, MallocReturns(t)
  PROVE  TrackerInv'
<1>1. PICK c : c = call[t]
  OBVIOUS
<1>2. InFlight = c /\ InFlight' = Idle /\ SerialInv' /\ c.op = "malloc"
  <2>1. SerialInv /\ call[t].op # "none" /\ Leave(t) /\ c.op = "malloc"
    BY <1>1 DEF TrackerInv, MallocReturns
  <2>2. QED BY <1>1, <2>1, Leaving
<1>3. PICK r : r = Record(Tracker, c.result, c.bytes)
  OBVIOUS
<1>4. /\ Becomes(r) /\ heap' = heap /\ UNCHANGED <<phase, ret, ghosts>> /\ c.bytes \in Nat
  BY <1>1, <1>2, <1>3 DEF MallocReturns, TrackerInv, IsCall
<1>5. \/ r = Tracker /\ ((c.result = Null /\ c.bytes = 0) \/ ~ active)
      \/ active /\ r = Add(Tracker, c.result, c.bytes, offline_active)
  BY <1>3 DEF Record
<1>6. Sound(r)
  BY <1>4, <1>5, SoundTracker, AddSound
<1>7. /\ Counted(Tracker)' /\ PhaseInv' /\ Verdicts'
      /\ ledger' = r.ledger /\ current' = r.current /\ offline_current' = r.offline_current
      /\ peak' = r.peak /\ offline_peak' = r.offline_peak /\ online_peak' = r.online_peak
      /\ broken' = r.broken
  BY <1>4, <1>6, BookKeeping
<1>8. ASSUME ~ broken' PROVE Agrees(Idle)' /\ PeaksAgree(Idle)'
  <2>1. CASE r = Tracker /\ ((c.result = Null /\ c.bytes = 0) \/ ~ active)
    <3>1. /\ ledger' = ledger /\ current' = current /\ offline_current' = offline_current
          /\ peak' = peak /\ offline_peak' = offline_peak /\ online_peak' = online_peak
          /\ broken' = broken
      BY <1>7, <2>1, TrackerIs
    <3>2. Agrees(c) /\ PeaksAgree(c)
      BY <1>2, <1>8, <3>1 DEF TrackerInv
    <3>3. Matches(ledger, heap)
      BY <1>2, <2>1, <3>2, NullFree, MatchesUnowned DEF Agrees
    <3>4. Agrees(Idle)'
      BY <1>4, <3>1, <3>3, NothingPending DEF Agrees
    <3>5. c.result = Null => Seen(c) = current /\ SeenOffline(c) = offline_current
      BY DEF Seen, SeenOffline, Pending
    <3>6. ~ active => ~ online_active /\ ~ offline_active
      BY DEF TrackerInv, PhaseInv
    <3>7. PeaksAgree(Idle)'
      BY <1>4, <2>1, <3>1, <3>2, <3>5, <3>6, NothingPending DEF PeaksAgree, phase, ghosts
    <3>8. QED BY <3>4, <3>7
  <2>2. CASE active /\ r = Add(Tracker, c.result, c.bytes, offline_active)
    <3>1. Adds(Tracker, r, c.result, c.bytes, offline_active)
      BY <1>7, <1>8, <2>2, AddIs, TrackerIs
    <3>2. /\ c.result # Null
          /\ ledger' = With(ledger, c.result, [bytes |-> c.bytes, offline |-> offline_active])
          /\ current' = current + c.bytes
          /\ offline_current' = offline_current + (IF offline_active THEN c.bytes ELSE 0)
          /\ peak' = Higher(peak, current')
          /\ online_active => online_peak' = Higher(online_peak, current')
          /\ offline_active => offline_peak' = Higher(offline_peak, offline_current')
          /\ ~ broken
      BY <1>7, <1>8, <3>1, TrackerIs DEF Adds, SeesPeaks
    <3>3. Agrees(c) /\ PeaksAgree(c)
      BY <1>2, <3>2 DEF TrackerInv
    <3>4. Matches(ledger', heap')
      <4>1. /\ Matches(ledger, Without(heap, c.result)) /\ c.result \in DOMAIN heap
            /\ heap[c.result] = [bytes |-> c.bytes, owned |-> active,
                                 offline |-> active /\ offline_active]
        BY <1>2, <3>2, <3>3 DEF Agrees
      <4>2. /\ heap[c.result].bytes = c.bytes /\ heap[c.result].owned
            /\ heap[c.result].offline = offline_active
        BY <2>2, <4>1 DEF TrackerInv, PhaseInv
      <4>3. QED BY <1>4, <3>2, <4>1, <4>2, MatchesNew
    <3>5. Agrees(Idle)'
      BY <3>4, NothingPending DEF Agrees
    <3>6. /\ current \in Nat /\ offline_current \in Nat
          /\ {peak, offline_peak, online_peak} \subseteq Nat
      BY Totals DEF TrackerInv, PhaseInv
    <3>7. /\ Seen(c) = current + c.bytes /\ SeenOffline(c) = offline_current + c.bytes
      BY <1>2, <1>4, <3>2, <3>6 DEF Seen, SeenOffline, Pending
    <3>8. PeaksAgree(Idle)'
      BY <1>4, <3>2, <3>3, <3>6, <3>7, NothingPending DEF PeaksAgree, phase, ghosts, Higher
    <3>9. QED BY <3>5, <3>8
  <2>3. QED BY <1>5, <2>1, <2>2
<1>9. IsCall(InFlight)'
  BY <1>2, NothingPending
<1>10. QED BY <1>2, <1>4, <1>7, <1>8, <1>9 DEF TrackerInv

LEMMA MemalignTracker ==
  ASSUME TrackerInv, NEW t \in Thread, MemalignFails(t) \/ MemalignReturns(t)
  PROVE  TrackerInv'
<1>1. CASE MemalignFails(t)
  <2>1. PICK c : c = [Idle EXCEPT !.op = "memalign"]
    OBVIOUS
  <2>2. /\ c.op = "memalign" /\ IsCall(c)
        /\ Seen(c) = current /\ SeenOffline(c) = offline_current
        /\ Seen(c)' = current' /\ SeenOffline(c)' = offline_current'
    BY <2>1 DEF Idle, IsCall, Seen, SeenOffline, Pending
  <2>3. /\ Enter(t) /\ call' = [call EXCEPT ![t] = c]
        /\ UNCHANGED <<heap, tracker, phase, ret, ghosts>>
    BY <1>1, <2>1 DEF MemalignFails
  <2>4. InFlight = Idle /\ InFlight' = c /\ SerialInv'
    BY <2>3, Entering DEF TrackerInv
  <2>5. Counted(Tracker)' /\ broken' = broken
    BY <2>3, SameTracker
  <2>6. PhaseInv' /\ Verdicts' /\ IsHeap(heap')
    BY <2>3, VerdictsKept DEF TrackerInv, PhaseInv, tracker, phase, ghosts
  <2>7. ~ broken => Agrees(c)' /\ PeaksAgree(c)'
    <3>1. SUFFICES ASSUME ~ broken PROVE Agrees(c)' /\ PeaksAgree(c)'
      OBVIOUS
    <3>2. Agrees(Idle) /\ PeaksAgree(Idle)
      BY <2>4, <3>1 DEF TrackerInv
    <3>3. Matches(ledger, heap)
      BY <3>2, NothingPending DEF Agrees
    <3>4. Agrees(c)'
      BY <2>2, <2>3, <3>3 DEF Agrees, tracker
    <3>5. PeaksAgree(c)'
      BY <2>2, <2>3, <3>2, NothingPending DEF PeaksAgree, tracker, phase, ghosts
    <3>6. QED BY <3>4, <3>5
  <2>8. QED BY <2>2, <2>4, <2>5, <2>6, <2>7 DEF TrackerInv
<1>2. CASE MemalignReturns(t)
  <2>1. PICK c : c = call[t]
    OBVIOUS
  <2>2. InFlight = c /\ InFlight' = Idle /\ SerialInv' /\ c.op = "memalign"
    <3>1. SerialInv /\ call[t].op # "none" /\ Leave(t) /\ c.op = "memalign"
      BY <1>2, <2>1 DEF TrackerInv, MemalignReturns
    <3>2. QED BY <2>1, <3>1, Leaving
  <2>3. PICK r : r = IF active THEN Break(Tracker) ELSE Tracker
    OBVIOUS
  <2>4. Becomes(r) /\ heap' = heap /\ UNCHANGED <<phase, ret, ghosts>> /\ Sound(r)
    BY <1>2, <2>3, SoundTracker, BreakSound DEF MemalignReturns
  <2>5. /\ Counted(Tracker)' /\ PhaseInv' /\ Verdicts'
        /\ ledger' = r.ledger /\ current' = r.current /\ offline_current' = r.offline_current
        /\ peak' = r.peak /\ offline_peak' = r.offline_peak /\ online_peak' = r.online_peak
        /\ broken' = r.broken
    BY <2>4, BookKeeping
  <2>6. ASSUME ~ broken' PROVE Agrees(Idle)' /\ PeaksAgree(Idle)'
    <3>1. r = Tracker
      BY <2>3, <2>5, <2>6, BreakIs, TrackerIs
    <3>2. UNCHANGED tracker
      BY <2>5, <3>1, TrackerIs DEF tracker
    <3>3. Agrees(c) /\ PeaksAgree(c)
      BY <2>2, <2>6, <3>2 DEF TrackerInv, tracker
    <3>4. Agrees(Idle)'
      BY <2>2, <2>4, <3>2, <3>3, NothingPending DEF Agrees, tracker
    <3>5. Seen(c) = current /\ SeenOffline(c) = offline_current
      BY <2>2 DEF Seen, SeenOffline, Pending
    <3>6. PeaksAgree(Idle)'
      BY <2>4, <3>2, <3>3, <3>5, NothingPending DEF PeaksAgree, tracker, phase, ghosts
    <3>7. QED BY <3>4, <3>6
  <2>7. QED BY <2>2, <2>4, <2>5, <2>6, NothingPending DEF TrackerInv
<1>3. QED BY <1>1, <1>2

LEMMA FreeTracker ==
  ASSUME TrackerInv, NEW t \in Thread, NEW p \in DOMAIN heap, Free(t, p)
  PROVE  TrackerInv'
<1>1. PICK c : c = [Idle EXCEPT !.op = "free", !.pointer = p]
  OBVIOUS
<1>2. /\ c.op = "free" /\ c.pointer = p /\ IsCall(c)
      /\ Seen(c)' = current' /\ SeenOffline(c)' = offline_current'
  BY <1>1 DEF Idle, IsCall, Seen, SeenOffline, Pending
<1>3. PICK r : r = Remove(Tracker, p)
  OBVIOUS
<1>4. /\ Enter(t) /\ call' = [call EXCEPT ![t] = c] /\ Becomes(r) /\ heap' = heap
      /\ UNCHANGED <<phase, ret, ghosts>>
  BY <1>1, <1>3 DEF Free
<1>5. InFlight = Idle /\ InFlight' = c /\ SerialInv'
  BY <1>4, Entering DEF TrackerInv
<1>6. Sound(r) /\ Removes(Tracker, r, p)
  BY <1>3, SoundTracker, RemoveSound, RemoveIs DEF Sound
<1>7. /\ Counted(Tracker)' /\ PhaseInv' /\ Verdicts'
      /\ ledger' = r.ledger /\ current' = r.current /\ offline_current' = r.offline_current
      /\ peak' = r.peak /\ offline_peak' = r.offline_peak /\ online_peak' = r.online_peak
      /\ broken' = r.broken
  BY <1>4, <1>6, BookKeeping
<1>8. ASSUME ~ broken' PROVE Agrees(c)' /\ PeaksAgree(c)'
  <2>1. /\ DOMAIN ledger' = DOMAIN ledger \ {p}
        /\ \A q \in DOMAIN ledger' : ledger'[q] = ledger[q]
        /\ current' = current - Share(ledger, p)
        /\ offline_current' = offline_current - OfflineShare(ledger, p)
        /\ peak' = peak /\ offline_peak' = offline_peak /\ online_peak' = online_peak
        /\ broken' = broken
    BY <1>6, <1>7, TrackerIs DEF Removes, SamePeaks
  <2>2. Agrees(Idle) /\ PeaksAgree(Idle)
    BY <1>5, <1>8, <2>1 DEF TrackerInv
  <2>3. Matches(ledger', Without(heap', p))
    <3>1. Matches(Without(ledger, p), Without(heap, p))
      BY <2>2, NothingPending, MatchesWithout DEF Agrees
    <3>2. DOMAIN ledger' = DOMAIN Without(ledger, p)
            /\ \A q \in DOMAIN ledger' : ledger'[q] = Without(ledger, p)[q]
      BY <2>1, WithoutIs
    <3>3. Matches(ledger', Without(heap, p))
      BY <3>1, <3>2 DEF Matches
    <3>4. QED BY <1>4, <3>3
  <2>4. Agrees(c)'
    BY <1>2, <2>3 DEF Agrees
  <2>5. /\ current \in Nat /\ offline_current \in Nat
        /\ {peak, offline_peak, online_peak} \subseteq Nat /\ Sized(ledger)
    BY Totals DEF TrackerInv, PhaseInv
  <2>6. Share(ledger, p) \in Nat /\ OfflineShare(ledger, p) \in Nat
    BY <2>5, BytesWithout, OfflineWithout
  <2>7. PeaksAgree(c)'
    BY <1>2, <1>4, <2>1, <2>2, <2>5, <2>6, NothingPending DEF PeaksAgree, phase, ghosts, Higher
  <2>8. QED BY <2>4, <2>7
<1>9. IsHeap(heap')
  BY <1>4 DEF TrackerInv
<1>10. QED BY <1>2, <1>5, <1>7, <1>8, <1>9 DEF TrackerInv

LEMMA FreeReturnsTracker ==
  ASSUME TrackerInv, NEW t \in Thread, FreeReturns(t)
  PROVE  TrackerInv'
<1>1. PICK c : c = call[t]
  OBVIOUS
<1>2. InFlight = c /\ InFlight' = Idle /\ SerialInv' /\ c.op = "free"
  <2>1. SerialInv /\ call[t].op # "none" /\ Leave(t) /\ c.op = "free"
    BY <1>1 DEF TrackerInv, FreeReturns
  <2>2. QED BY <1>1, <2>1, Leaving
<1>3. heap' = Without(heap, c.pointer) /\ UNCHANGED <<tracker, phase, ret, ghosts>>
  BY <1>1 DEF FreeReturns
<1>4. IsHeap(heap')
  BY <1>3, HeapWithout DEF TrackerInv
<1>5. Counted(Tracker)' /\ broken' = broken
  BY <1>3, SameTracker
<1>6. PhaseInv' /\ Verdicts'
  BY <1>3, VerdictsKept DEF TrackerInv, PhaseInv, tracker, phase, ghosts
<1>7. ASSUME ~ broken PROVE Agrees(Idle)' /\ PeaksAgree(Idle)'
  <2>1. Agrees(c) /\ PeaksAgree(c)
    BY <1>2, <1>7 DEF TrackerInv
  <2>2. Agrees(Idle)'
    BY <1>2, <1>3, <2>1, NothingPending DEF Agrees, tracker
  <2>3. Seen(c) = current /\ SeenOffline(c) = offline_current
    BY <1>2 DEF Seen, SeenOffline, Pending
  <2>4. PeaksAgree(Idle)'
    BY <1>3, <2>1, <2>3, NothingPending DEF PeaksAgree, tracker, phase, ghosts
  <2>5. QED BY <2>2, <2>4
<1>8. QED BY <1>2, <1>4, <1>5, <1>6, <1>7, NothingPending DEF TrackerInv

LEMMA ReallocTracker ==
  ASSUME TrackerInv, NEW t \in Thread, NEW p \in DOMAIN heap, NEW bytes \in Size,
         Realloc(t, p, bytes)
  PROVE  TrackerInv'
<1>1. PICK owned, offline, x :
        /\ owned = (p \in DOMAIN ledger)
        /\ offline = (offline_active \/ (owned /\ ledger[p].offline))
        /\ x = [bytes |-> bytes, owned |-> active \/ heap[p].owned,
                offline |-> (active /\ offline_active) \/ (heap[p].owned /\ heap[p].offline)]
  OBVIOUS
<1>2. PICK q \in (Address \ DOMAIN heap) \cup {p, Null} :
        /\ heap' = IF q # Null THEN With(Without(heap, p), q, x)
                   ELSE IF bytes = 0 THEN Without(heap, p) ELSE heap
        /\ call' = [call EXCEPT ![t] = [op |-> "realloc", pointer |-> p, bytes |-> bytes,
                                        result |-> q, owned |-> owned, offline |-> offline]]
        /\ RealSees(Bytes(Owned(IF q = Null THEN heap ELSE With(heap, q, x))),
                    Bytes(OfflineOwned(IF q = Null THEN heap ELSE With(heap, q, x))))
  BY <1>1 DEF Realloc
<1>3. PICK c : c = [op |-> "realloc", pointer |-> p, bytes |-> bytes,
                    result |-> q, owned |-> owned, offline |-> offline]
  OBVIOUS
<1>4. /\ c.op = "realloc" /\ c.pointer = p /\ c.bytes = bytes /\ c.result = q
      /\ c.owned = owned /\ c.offline = offline /\ bytes \in Nat
  BY <1>3, SizeType
<1>5. InFlight = Idle /\ InFlight' = c /\ SerialInv'
  <2>1. SerialInv /\ Enter(t) /\ call' = [call EXCEPT ![t] = c]
    BY <1>2, <1>3 DEF TrackerInv, Realloc
  <2>2. QED BY <2>1, Entering
<1>6. IsCall(c)
  BY <1>1, <1>4 DEF IsCall
<1>7. /\ Block(x) /\ x.bytes = bytes /\ x.owned = (active \/ heap[p].owned)
      /\ x.offline = ((active /\ offline_active) \/ (heap[p].owned /\ heap[p].offline))
  BY <1>1, <1>4 DEF Block
<1>8. IsHeap(heap) /\ (q # Null => q \in Address) /\ Null \notin DOMAIN heap
  BY TrackerAssumption, NullFree DEF TrackerInv, IsHeap
<1>9. IsHeap(heap')
  <2>1. IsHeap(Without(heap, p))
    BY <1>8, HeapWithout
  <2>2. q # Null => IsHeap(With(Without(heap, p), q, x))
    BY <1>7, <1>8, <2>1, HeapWith
  <2>3. QED BY <1>2, <1>8, <2>1, <2>2
<1>10. PICK whole \in Nat, offline_whole \in Nat :
         /\ whole = Bytes(Owned(IF q = Null THEN heap ELSE With(heap, q, x)))
         /\ offline_whole = Bytes(OfflineOwned(IF q = Null THEN heap ELSE With(heap, q, x)))
  <2>1. IsHeap(IF q = Null THEN heap ELSE With(heap, q, x))
    BY <1>7, <1>8, HeapWith
  <2>2. QED BY <2>1, OwnedType
<1>11. RealSees(whole, offline_whole) /\ UNCHANGED <<tracker, phase, ret>>
  BY <1>2, <1>10 DEF Realloc
<1>12. ASSUME ~ broken
       PROVE  /\ Agrees(c)'
              /\ active => whole = Seen(c)
              /\ offline_active => offline_whole = SeenOffline(c)
  <2>1. /\ Matches(ledger, heap) /\ Sized(ledger) /\ current = Bytes(ledger) /\ current \in Nat
        /\ offline_current = Bytes(OfflineEntries(ledger)) /\ offline_current \in Nat
    BY <1>5, <1>12, Totals, NothingPending DEF TrackerInv, Agrees
  <2>2. owned = heap[p].owned /\ (owned => ledger[p].offline = heap[p].offline)
    <3>1. owned <=> heap[p].owned
      BY <1>1, <2>1 DEF Matches
    <3>2. owned \in BOOLEAN /\ heap[p].owned \in BOOLEAN
      BY <1>1, <1>8 DEF IsHeap, Block
    <3>3. owned => ledger[p] = [bytes |-> heap[p].bytes, offline |-> heap[p].offline]
      BY <1>1, <2>1 DEF Matches
    <3>4. QED BY <3>1, <3>2, <3>3
  <2>3. x.owned = (active \/ owned) /\ x.offline = offline /\ (offline_active => active /\ offline)
    <3>1. offline_active => active
      BY DEF TrackerInv, PhaseInv
    <3>2. QED BY <1>1, <1>7, <2>2, <3>1
  <2>4. Agrees(c)'
    <3>1. q = Null /\ bytes # 0 => Matches(ledger', heap')
      BY <1>2, <1>11, <2>1 DEF tracker
    <3>2. Matches(Without(ledger, p), Without(heap, p))
      BY <2>1, MatchesWithout
    <3>3. q # Null \/ bytes = 0 => Matches(Without(ledger', p), Without(heap', q))
      <4>1. SUFFICES ASSUME q # Null \/ bytes = 0
                     PROVE  Matches(Without(ledger, p), Without(heap', q))
        BY <1>11 DEF tracker
      <4>2. /\ DOMAIN Without(heap, p) = DOMAIN heap \ {p}
            /\ \A r \in DOMAIN heap \ {p} : Without(heap, p)[r] = heap[r]
        BY WithoutIs
      <4>3. /\ DOMAIN Without(heap', q) = DOMAIN heap' \ {q}
            /\ \A r \in DOMAIN heap' \ {q} : Without(heap', q)[r] = heap'[r]
        BY WithoutIs
      <4>4. /\ DOMAIN heap' \ {q} = DOMAIN heap \ {p}
            /\ \A r \in DOMAIN heap \ {p} : heap'[r] = heap[r]
        <5>1. CASE q # Null
          <6>1. heap' = With(Without(heap, p), q, x) /\ q \notin DOMAIN heap \ {p}
            BY <1>2, <5>1
          <6>2. QED BY <4>2, <6>1 DEF With
        <5>2. CASE q = Null
          <6>1. heap' = Without(heap, p) /\ q \notin DOMAIN heap
            BY <1>2, <1>8, <4>1, <5>2
          <6>2. QED BY <4>2, <6>1
        <5>3. QED BY <5>1, <5>2
      <4>5. QED BY <3>2, <4>2, <4>3, <4>4, MatchesSame
    <3>4. q = Null /\ bytes = 0 => p \notin DOMAIN heap'
      BY <1>2, WithoutIs
    <3>5. q # Null =>
            /\ q \in DOMAIN heap' /\ heap'[q] = x
            /\ q # p => q \notin DOMAIN ledger' /\ p \notin DOMAIN heap'
      <4>1. q # p /\ q # Null => q \notin DOMAIN ledger
        BY <2>1 DEF Matches
      <4>2. q # Null => heap' = With(Without(heap, p), q, x) /\ ledger' = ledger
        BY <1>2, <1>11 DEF tracker
      <4>3. /\ DOMAIN With(Without(heap, p), q, x) = DOMAIN Without(heap, p) \cup {q}
            /\ With(Without(heap, p), q, x)[q] = x
        BY DEF With
      <4>4. p \notin DOMAIN Without(heap, p)
        BY WithoutIs
      <4>5. QED BY <4>1, <4>2, <4>3, <4>4
    <3>6. ledger' = ledger /\ active' = active /\ offline_active' = offline_active
      BY <1>11 DEF tracker, phase
    <3>7. owned <=> p \in DOMAIN ledger
      BY <1>1
    <3>8. QED BY <1>4, <1>7, <2>3, <3>1, <3>3, <3>4, <3>5, <3>6, <3>7 DEF Agrees
  <2>5. CASE q = Null
    <3>1. whole = current /\ offline_whole = offline_current
      BY <1>10, <2>1, <2>5, MatchBytes
    <3>2. QED BY <1>4, <2>4, <2>5, <3>1 DEF Seen, SeenOffline, Pending
  <2>6. CASE q # Null
    <3>1. Share(ledger, q) = (IF q = p THEN Share(ledger, p) ELSE 0)
          /\ OfflineShare(ledger, q) = (IF q = p THEN OfflineShare(ledger, p) ELSE 0)
      <4>1. q # p => q \notin DOMAIN ledger
        BY <2>1, <2>6 DEF Matches
      <4>2. QED BY <4>1 DEF Share, OfflineShare
    <3>2. Seen(c) = current + bytes - Share(ledger, q)
          /\ SeenOffline(c) = offline_current + bytes - OfflineShare(ledger, q)
      BY <1>4, <2>6, <3>1 DEF Seen, SeenOffline, Pending
    <3>3. Share(ledger, q) \in Nat /\ OfflineShare(ledger, q) \in Nat
      BY <2>1, BytesWithout, OfflineWithout
    <3>4. ASSUME active
          PROVE  /\ whole = current - Share(ledger, q) + bytes
                 /\ offline_whole = offline_current - OfflineShare(ledger, q)
                                      + (IF offline THEN bytes ELSE 0)
      <4>1. x.owned
        BY <2>3, <3>4
      <4>2. /\ whole = Bytes(ledger) - Share(ledger, q) + x.bytes
            /\ offline_whole = Bytes(OfflineEntries(ledger)) - OfflineShare(ledger, q)
                                 + (IF x.offline THEN x.bytes ELSE 0)
        BY <1>7, <1>10, <2>1, <2>6, <4>1, WidestBytes
      <4>3. QED BY <1>7, <2>1, <2>3, <4>2
    <3>5. active => whole = Seen(c)
      BY <1>4, <2>1, <3>2, <3>3, <3>4
    <3>6. offline_active => offline_whole = SeenOffline(c)
      BY <1>4, <2>1, <2>3, <3>2, <3>3, <3>4
    <3>7. QED BY <2>4, <3>5, <3>6
  <2>7. QED BY <2>5, <2>6
<1>13. PhaseInv'
  BY <1>11, GhostsGrow DEF TrackerInv
<1>14. Verdicts'
  BY <1>11, VerdictsKept DEF TrackerInv, RealSees
<1>15. ~ broken => PeaksAgree(c)'
  BY <1>5, <1>11, <1>12, GhostsSee
<1>16. Counted(Tracker)' /\ broken' = broken
  BY <1>11, SameTracker
<1>17. QED BY <1>5, <1>6, <1>9, <1>12, <1>13, <1>14, <1>15, <1>16 DEF TrackerInv

\* The ledger l has the entries of k, as far as the heap goes.
LEMMA MatchesLedger ==
  ASSUME NEW k, NEW l, NEW h, Matches(k, h),
         DOMAIN l = DOMAIN k, \A p \in DOMAIN l : l[p] = k[p]
  PROVE  Matches(l, h)
BY DEF Matches

\* realloc makes an entry for what the program now has: the peaks have seen both
\* blocks where there were two.
LEMMA ReallocPeaks ==
  ASSUME TrackerInv, NEW c, c.op = "realloc", c.result # Null, PeaksAgree(c),
         c.bytes \in Nat, offline_active => c.offline, c.owned <=> c.pointer \in DOMAIN ledger,
         NEW seen, \/ seen = Tracker /\ ~ (c.owned /\ c.result # c.pointer /\ active)
                   \/ /\ SameEntries(Tracker, seen)
                      /\ SeesPeaks(Tracker, seen, current + c.bytes,
                                   IF c.offline THEN offline_current + c.bytes ELSE 0)
                      /\ c.owned /\ c.result # c.pointer,
         NEW removed, removed.current = current - Share(ledger, c.pointer),
         removed.offline_current = offline_current - OfflineShare(ledger, c.pointer),
         SamePeaks(seen, removed),
         NEW r, Adds(removed, r, c.result, c.bytes, c.offline)
  PROVE  /\ active => r.current <= r.peak /\ realPeak = Higher(r.peak, r.current)
         /\ online_active => r.current <= r.online_peak
                               /\ realOnline = Higher(r.online_peak, r.current)
         /\ offline_active => r.offline_current <= r.offline_peak
                                /\ realOffline = Higher(r.offline_peak, r.offline_current)
<1> DEFINE p == c.pointer
<1>1. /\ current \in Nat /\ offline_current \in Nat
      /\ {peak, offline_peak, online_peak} \subseteq Nat /\ Sized(ledger)
  BY Totals DEF TrackerInv, PhaseInv
<1>2. Share(ledger, p) \in Nat /\ OfflineShare(ledger, p) \in Nat
      /\ (~ c.owned => Share(ledger, p) = 0 /\ OfflineShare(ledger, p) = 0)
  BY <1>1, BytesWithout, OfflineWithout DEF Share, OfflineShare
<1>3. /\ Seen(c) = current + c.bytes - (IF c.result = p THEN Share(ledger, p) ELSE 0)
      /\ SeenOffline(c)
           = offline_current + c.bytes - (IF c.result = p THEN OfflineShare(ledger, p) ELSE 0)
  BY DEF Seen, SeenOffline, Pending
<1>4. PICK b \in Nat : b = c.bytes
  OBVIOUS
<1>5. /\ r.current = current - Share(ledger, p) + b
      /\ r.offline_current
           = offline_current - OfflineShare(ledger, p) + (IF c.offline THEN b ELSE 0)
      /\ r.peak = Higher(seen.peak, r.current)
      /\ online_active => r.online_peak = Higher(seen.online_peak, r.current)
      /\ offline_active => r.offline_peak = Higher(seen.offline_peak, r.offline_current)
  BY <1>4 DEF Adds, SeesPeaks, SamePeaks
<1>6. online_active => active
  BY DEF TrackerInv, PhaseInv
<1>7. CASE seen = Tracker /\ ~ (c.owned /\ c.result # c.pointer /\ active)
  <2>1. seen.peak = peak /\ seen.online_peak = online_peak /\ seen.offline_peak = offline_peak
    BY <1>7, TrackerIs
  <2>2. active => Seen(c) = r.current
    BY <1>1, <1>2, <1>3, <1>4, <1>5, <1>7
  <2>3. offline_active => active
    BY DEF TrackerInv, PhaseInv
  <2>4. offline_active => SeenOffline(c) = r.offline_current
    BY <1>1, <1>2, <1>3, <1>4, <1>5, <1>7, <2>3
  <2>5. r.current \in Int /\ r.offline_current \in Int
    BY <1>1, <1>2, <1>4, <1>5
  <2>6. QED BY <1>1, <1>5, <1>6, <2>1, <2>2, <2>4, <2>5 DEF PeaksAgree, Higher
<1>8. CASE /\ SeesPeaks(Tracker, seen, current + c.bytes,
                        IF c.offline THEN offline_current + c.bytes ELSE 0)
           /\ c.owned /\ c.result # c.pointer
  <2>1. /\ seen.peak = Higher(peak, current + b)
        /\ online_active => seen.online_peak = Higher(online_peak, current + b)
        /\ offline_active => seen.offline_peak = Higher(offline_peak, offline_current + b)
    BY <1>4, <1>8, TrackerIs DEF SeesPeaks
  <2>2. Seen(c) = current + b /\ SeenOffline(c) = offline_current + b
    BY <1>1, <1>3, <1>4, <1>8
  <2>3. r.current \in Int /\ r.current <= current + b
    BY <1>1, <1>2, <1>4, <1>5
  <2>4. offline_active => r.offline_current \in Int /\ r.offline_current <= offline_current + b
    BY <1>1, <1>2, <1>4, <1>5
  <2>5. active => r.current <= r.peak /\ realPeak = Higher(r.peak, r.current)
    BY <1>1, <1>4, <1>5, <2>1, <2>2, <2>3 DEF PeaksAgree, Higher
  <2>6. online_active => r.current <= r.online_peak /\ realOnline = Higher(r.online_peak, r.current)
    BY <1>1, <1>4, <1>5, <2>1, <2>2, <2>3 DEF PeaksAgree, Higher
  <2>7. offline_active => r.offline_current <= r.offline_peak
                            /\ realOffline = Higher(r.offline_peak, r.offline_current)
    BY <1>1, <1>4, <1>5, <2>1, <2>2, <2>4 DEF PeaksAgree, Higher
  <2>8. QED BY <2>5, <2>6, <2>7
<1>9. QED BY <1>7, <1>8

LEMMA ReallocReturnsTracker ==
  ASSUME TrackerInv, NEW t \in Thread, ReallocReturns(t)
  PROVE  TrackerInv'
<1>1. PICK c : c = call[t]
  OBVIOUS
<1>2. InFlight = c /\ InFlight' = Idle /\ SerialInv' /\ c.op = "realloc"
  <2>1. SerialInv /\ call[t].op # "none" /\ Leave(t) /\ c.op = "realloc"
    BY <1>1 DEF TrackerInv, ReallocReturns
  <2>2. QED BY <1>1, <2>1, Leaving
<1>3. PICK seen, removed, r :
        /\ seen = IF c.owned /\ c.result # c.pointer /\ active
                  THEN Observe(Tracker, c.bytes, c.offline) ELSE Tracker
        /\ removed = IF c.owned THEN Remove(seen, c.pointer) ELSE seen
        /\ r = CASE c.result = Null /\ c.bytes = 0 -> Remove(Tracker, c.pointer)
                 [] c.result = Null /\ c.bytes # 0 -> IF active THEN Break(Tracker) ELSE Tracker
                 [] c.result # Null -> IF active \/ c.owned
                                       THEN Add(removed, c.result, c.bytes, c.offline)
                                       ELSE removed
  OBVIOUS
<1>4. /\ Becomes(r) /\ heap' = heap /\ UNCHANGED <<phase, ret, ghosts>>
      /\ c.bytes \in Nat /\ c.owned \in BOOLEAN
  BY <1>1, <1>2, <1>3 DEF ReallocReturns, TrackerInv, IsCall
<1>5. Sound(seen) /\ Sound(removed) /\ Sound(r)
  <2>1. Sound(Tracker)
    BY SoundTracker
  <2>2. Sound(seen)
    BY <1>3, <1>4, <2>1, ObserveSound
  <2>3. Sound(removed)
    BY <1>3, <2>2, RemoveSound
  <2>4. CASE c.result = Null
    <3>1. r = Remove(Tracker, c.pointer) \/ r = Break(Tracker) \/ r = Tracker
      BY <1>3, <2>4
    <3>2. Sound(Remove(Tracker, c.pointer)) /\ Sound(Break(Tracker))
      BY <2>1, RemoveSound, BreakSound
    <3>3. QED BY <2>1, <2>2, <2>3, <3>1, <3>2
  <2>5. CASE c.result # Null
    <3>1. r = Add(removed, c.result, c.bytes, c.offline) \/ r = removed
      BY <1>3, <2>5
    <3>2. Sound(Add(removed, c.result, c.bytes, c.offline))
      BY <1>4, <2>3, AddSound
    <3>3. QED BY <2>2, <2>3, <3>1, <3>2
  <2>6. QED BY <2>2, <2>3, <2>4, <2>5
<1>6. /\ Counted(Tracker)' /\ PhaseInv' /\ Verdicts'
      /\ ledger' = r.ledger /\ current' = r.current /\ offline_current' = r.offline_current
      /\ peak' = r.peak /\ offline_peak' = r.offline_peak /\ online_peak' = r.online_peak
      /\ broken' = r.broken
  BY <1>4, <1>5, BookKeeping
<1>7. /\ current \in Nat /\ offline_current \in Nat
      /\ {peak, offline_peak, online_peak} \subseteq Nat /\ Sized(ledger)
      /\ (offline_active => active) /\ (online_active => active)
  BY Totals DEF TrackerInv, PhaseInv
<1>8. Share(ledger, c.pointer) \in Nat /\ OfflineShare(ledger, c.pointer) \in Nat
  BY <1>7, BytesWithout, OfflineWithout
<1>9. ASSUME ~ broken' PROVE Agrees(Idle)' /\ PeaksAgree(Idle)'
  <2>1. CASE c.result = Null /\ c.bytes = 0
    <3>1. Removes(Tracker, r, c.pointer)
      BY <1>3, <2>1, SoundTracker, RemoveIs DEF Sound
    <3>2. /\ DOMAIN ledger' = DOMAIN ledger \ {c.pointer}
          /\ \A q \in DOMAIN ledger' : ledger'[q] = ledger[q]
          /\ current' = current - Share(ledger, c.pointer)
          /\ offline_current' = offline_current - OfflineShare(ledger, c.pointer)
          /\ peak' = peak /\ offline_peak' = offline_peak /\ online_peak' = online_peak
          /\ broken' = broken
      BY <1>6, <3>1, TrackerIs DEF Removes, SamePeaks
    <3>3. Agrees(c) /\ PeaksAgree(c)
      BY <1>2, <1>9, <3>2 DEF TrackerInv
    <3>4. Matches(Without(ledger, c.pointer), heap)
      <4>1. Matches(Without(ledger, c.pointer), Without(heap, Null))
        BY <1>2, <2>1, <3>3 DEF Agrees
      <4>2. QED BY <4>1, NullFree, MatchesUnowned
    <3>5. Matches(ledger', heap)
      <4>1. /\ DOMAIN Without(ledger, c.pointer) = DOMAIN ledger \ {c.pointer}
            /\ \A q \in DOMAIN ledger \ {c.pointer} : Without(ledger, c.pointer)[q] = ledger[q]
        BY WithoutIs
      <4>2. /\ DOMAIN ledger' = DOMAIN Without(ledger, c.pointer)
            /\ \A q \in DOMAIN ledger' : ledger'[q] = Without(ledger, c.pointer)[q]
        BY <3>2, <4>1
      <4>3. QED BY <3>4, <4>2 DEF Matches
    <3>6. Agrees(Idle)'
      BY <1>4, <3>5, NothingPending DEF Agrees
    <3>7. Seen(c) = current /\ SeenOffline(c) = offline_current
      BY <2>1 DEF Seen, SeenOffline, Pending
    <3>8. PeaksAgree(Idle)'
      BY <1>4, <1>7, <1>8, <3>2, <3>3, <3>7, NothingPending DEF PeaksAgree, phase, ghosts, Higher
    <3>9. QED BY <3>6, <3>8
  <2>2. CASE c.result = Null /\ c.bytes # 0
    <3>1. r = Tracker /\ ~ active
      BY <1>3, <1>6, <1>9, <2>2, BreakIs, TrackerIs
    <3>2. ledger' = ledger /\ broken' = broken
      BY <1>6, <3>1, TrackerIs
    <3>3. Agrees(c)
      BY <1>2, <1>9, <3>2 DEF TrackerInv
    <3>4. Agrees(Idle)'
      BY <1>2, <1>4, <2>2, <3>2, <3>3, NothingPending DEF Agrees
    <3>5. PeaksAgree(Idle)'
      BY <1>4, <1>7, <3>1 DEF PeaksAgree, phase
    <3>6. QED BY <3>4, <3>5
  <2>3. CASE c.result # Null
    <3>1. /\ SameEntries(Tracker, seen)
          /\ broken => seen.broken
          /\ ~ seen.broken =>
               \/ seen = Tracker /\ ~ (c.owned /\ c.result # c.pointer /\ active)
               \/ /\ SeesPeaks(Tracker, seen, current + c.bytes,
                               IF c.offline THEN offline_current + c.bytes ELSE 0)
                  /\ c.owned /\ c.result # c.pointer
      <4>1. CASE c.owned /\ c.result # c.pointer /\ active
        <5>1. seen = Observe(Tracker, c.bytes, c.offline)
          BY <1>3, <4>1
        <5>2. QED BY <4>1, <5>1, ObserveIs, TrackerIs
      <4>2. CASE ~ (c.owned /\ c.result # c.pointer /\ active)
        BY <1>3, <4>2, TrackerIs DEF SameEntries
      <4>3. QED BY <4>1, <4>2
    <3>2. /\ SamePeaks(seen, removed) /\ removed.broken = seen.broken
          /\ IF c.owned THEN Removes(seen, removed, c.pointer) ELSE removed = seen
      <4>1. CASE c.owned
        <5>1. Removes(seen, removed, c.pointer)
          BY <1>3, <1>5, <4>1, RemoveIs DEF Sound
        <5>2. QED BY <4>1, <5>1 DEF Removes
      <4>2. CASE ~ c.owned
        BY <1>3, <4>2 DEF SamePeaks
      <4>3. QED BY <4>1, <4>2
    <3>3. /\ active \/ c.owned => Adds(removed, r, c.result, c.bytes, c.offline)
          /\ ~ (active \/ c.owned) => r = removed
          /\ ~ removed.broken
      <4>1. CASE active \/ c.owned
        <5>1. r = Add(removed, c.result, c.bytes, c.offline)
          BY <1>3, <2>3, <4>1
        <5>2. Adds(removed, r, c.result, c.bytes, c.offline)
          BY <1>5, <1>6, <1>9, <5>1, AddIs DEF Sound
        <5>3. QED BY <1>6, <1>9, <4>1, <5>2 DEF Adds
      <4>2. CASE ~ (active \/ c.owned)
        BY <1>3, <1>6, <1>9, <2>3, <4>2
      <4>3. QED BY <4>1, <4>2
    <3>4. Agrees(c) /\ PeaksAgree(c)
      BY <1>2, <3>1, <3>2, <3>3 DEF TrackerInv
    <3>5. /\ Matches(Without(ledger, c.pointer), Without(heap, c.result))
          /\ c.result \in DOMAIN heap
          /\ c.owned <=> c.pointer \in DOMAIN ledger
          /\ heap[c.result].bytes = c.bytes
          /\ heap[c.result].owned = (active \/ c.owned)
          /\ heap[c.result].offline = c.offline
          /\ offline_active => c.offline
      BY <1>2, <2>3, <3>4 DEF Agrees
    <3>6. /\ DOMAIN removed.ledger = DOMAIN ledger \ {c.pointer}
          /\ \A q \in DOMAIN removed.ledger : removed.ledger[q] = ledger[q]
          /\ removed.current = current - Share(ledger, c.pointer)
          /\ removed.offline_current = offline_current - OfflineShare(ledger, c.pointer)
      <4>1. /\ seen.ledger = ledger /\ seen.current = current
            /\ seen.offline_current = offline_current
        BY <3>1, TrackerIs DEF SameEntries
      <4>2. CASE c.owned
        BY <3>2, <4>1, <4>2 DEF Removes
      <4>3. CASE ~ c.owned
        <5>1. c.pointer \notin DOMAIN ledger
          BY <3>5, <4>3
        <5>2. Share(ledger, c.pointer) = 0 /\ OfflineShare(ledger, c.pointer) = 0
          BY <5>1 DEF Share, OfflineShare
        <5>3. QED BY <1>7, <3>2, <4>1, <4>3, <5>1, <5>2
      <4>4. QED BY <4>2, <4>3
    <3>7. Matches(removed.ledger, Without(heap, c.result))
      <4>1. /\ DOMAIN Without(ledger, c.pointer) = DOMAIN ledger \ {c.pointer}
            /\ \A q \in DOMAIN ledger \ {c.pointer} : Without(ledger, c.pointer)[q] = ledger[q]
        BY WithoutIs
      <4>2. /\ DOMAIN removed.ledger = DOMAIN Without(ledger, c.pointer)
            /\ \A q \in DOMAIN removed.ledger :
                 removed.ledger[q] = Without(ledger, c.pointer)[q]
        BY <3>6, <4>1
      <4>3. QED BY <3>5, <4>2, MatchesLedger
    <3>8. CASE active \/ c.owned
      <4>1. Adds(removed, r, c.result, c.bytes, c.offline)
        BY <3>3, <3>8
      <4>2. ledger' = With(removed.ledger, c.result, [bytes |-> c.bytes, offline |-> c.offline])
        BY <1>6, <4>1 DEF Adds
      <4>3. Matches(ledger', heap)
        BY <3>5, <3>7, <3>8, <4>2, MatchesNew
      <4>4. Agrees(Idle)'
        BY <1>4, <4>3, NothingPending DEF Agrees
      <4>5. /\ active => r.current <= r.peak /\ realPeak = Higher(r.peak, r.current)
            /\ online_active => r.current <= r.online_peak
                                  /\ realOnline = Higher(r.online_peak, r.current)
            /\ offline_active => r.offline_current <= r.offline_peak
                                   /\ realOffline = Higher(r.offline_peak, r.offline_current)
        BY <1>2, <1>4, <2>3, <3>1, <3>2, <3>3, <3>4, <3>5, <3>6, <4>1, ReallocPeaks
      <4>6. PeaksAgree(Idle)'
        BY <1>4, <1>6, <4>5, NothingPending DEF PeaksAgree, phase, ghosts
      <4>7. QED BY <4>4, <4>6
    <3>9. CASE ~ (active \/ c.owned)
      <4>1. ledger' = removed.ledger
        BY <1>6, <3>3, <3>9
      <4>2. ~ heap[c.result].owned
        BY <3>5, <3>9
      <4>3. Matches(ledger', heap)
        BY <3>7, <4>1, <4>2, MatchesUnowned
      <4>4. Agrees(Idle)'
        BY <1>4, <4>3, NothingPending DEF Agrees
      <4>5. PeaksAgree(Idle)'
        BY <1>4, <1>7, <3>9 DEF PeaksAgree, phase
      <4>6. QED BY <4>4, <4>5
    <3>10. QED BY <3>8, <3>9
  <2>4. QED BY <2>1, <2>2, <2>3
<1>10. QED BY <1>2, <1>4, <1>6, <1>9, NothingPending DEF TrackerInv

-----------------------------------------------------------------------------
(* The steps of scopes.                                                     *)

\* None is taken while a wrapped call is under way, and none touches the ledger.
LEMMA ScopeKeeps ==
  ASSUME TrackerInv, mutex = Nobody,
         UNCHANGED <<heap, mutex, call, ledger, current, offline_current>>
  PROVE  /\ InFlight = Idle /\ InFlight' = Idle /\ SerialInv' /\ IsHeap(heap)'
         /\ IsCall(InFlight)' /\ Counted(Tracker)'
         /\ ~ broken => Agrees(Idle)' /\ PeaksAgree(Idle) /\ Matches(ledger, heap)
<1>1. InFlight = Idle /\ InFlight' = Idle
  BY DEF InFlight
<1>2. SerialInv'
  BY DEF TrackerInv, SerialInv
<1>3. Counted(Tracker)'
  BY DEF TrackerInv, Counted, Tracker
<1>4. IsCall(InFlight)'
  BY <1>1, NothingPending
<1>5. ~ broken => Agrees(Idle)' /\ PeaksAgree(Idle) /\ Matches(ledger, heap)
  BY <1>1, NothingPending DEF TrackerInv, Agrees
<1>6. QED BY <1>1, <1>2, <1>3, <1>4, <1>5 DEF TrackerInv

\* The types that a scope's steps keep, flag by flag.
LEMMA PhaseType ==
  ASSUME PhaseInv
  PROVE  /\ active \in BOOLEAN /\ broken \in BOOLEAN /\ offline_active \in BOOLEAN
         /\ online_active \in BOOLEAN
         /\ peak \in Nat /\ offline_peak \in Nat /\ online_peak \in Nat
         /\ realPeak \in Nat /\ realOffline \in Nat /\ realOnline \in Nat
BY DEF PhaseInv

LEMMA PhaseFrom ==
  /\ active \in BOOLEAN /\ broken \in BOOLEAN /\ offline_active \in BOOLEAN
  /\ online_active \in BOOLEAN
  /\ peak \in Nat /\ offline_peak \in Nat /\ online_peak \in Nat
  /\ realPeak \in Nat /\ realOffline \in Nat /\ realOnline \in Nat
  /\ offline_active => active
  /\ online_active => active
  => PhaseInv
BY DEF PhaseInv

LEMMA OpenTracker ==
  ASSUME TrackerInv, Open
  PROVE  TrackerInv'
<1>1. /\ InFlight = Idle /\ InFlight' = Idle /\ SerialInv' /\ IsHeap(heap)'
      /\ IsCall(InFlight)' /\ Counted(Tracker)'
      /\ ~ broken => Agrees(Idle)' /\ PeaksAgree(Idle) /\ Matches(ledger, heap)
  BY ScopeKeeps DEF Open
<1>2. /\ current \in Nat /\ Bytes(Owned(heap)) \in Nat
      /\ (~ broken => Bytes(Owned(heap)) = current)
  BY <1>1, Totals, OwnedType, MatchBytes DEF TrackerInv
<1>3. /\ active' = TRUE /\ ~ offline_active' /\ ~ online_active'
      /\ peak' = current /\ realPeak' = Bytes(Owned(heap)) /\ current' = current
  BY DEF Open, TrackerInv, PhaseInv
<1>4. PhaseInv'
  <2>1. /\ active' \in BOOLEAN /\ broken' \in BOOLEAN /\ offline_active' \in BOOLEAN
        /\ online_active' \in BOOLEAN
    BY PhaseType DEF Open, TrackerInv
  <2>2. /\ peak' \in Nat /\ offline_peak' \in Nat /\ online_peak' \in Nat
        /\ realPeak' \in Nat /\ realOffline' \in Nat /\ realOnline' \in Nat
    BY <1>2 DEF Open
  <2>3. QED BY <1>3, <2>1, <2>2 DEF PhaseInv
<1>5. Verdicts'
  BY DEF Verdicts, Open, Unmeasured, Measure
<1>6. ~ broken => PeaksAgree(Idle)'
  BY <1>2, <1>3, NothingPending DEF PeaksAgree, Higher
<1>7. broken' = broken
  BY DEF Open
<1>8. QED BY <1>1, <1>4, <1>5, <1>6, <1>7 DEF TrackerInv

LEMMA FailTracker ==
  ASSUME TrackerInv, NestedOpenOrFail
  PROVE  TrackerInv'
<1>1. /\ InFlight' = Idle /\ SerialInv' /\ IsHeap(heap)'
      /\ IsCall(InFlight)' /\ Counted(Tracker)'
  BY ScopeKeeps DEF NestedOpenOrFail
<1>2. PhaseInv'
  BY DEF TrackerInv, PhaseInv, NestedOpenOrFail, phase, ghosts
<1>3. Verdicts'
  BY VerdictsKept DEF TrackerInv, NestedOpenOrFail, ghosts
<1>4. broken' = TRUE
  BY DEF NestedOpenOrFail
<1>5. QED BY <1>1, <1>2, <1>3, <1>4 DEF TrackerInv

LEMMA BeginOfflineTracker ==
  ASSUME TrackerInv, BeginOffline
  PROVE  TrackerInv'
<1>1. /\ InFlight = Idle /\ InFlight' = Idle /\ SerialInv' /\ IsHeap(heap)'
      /\ IsCall(InFlight)' /\ Counted(Tracker)'
      /\ ~ broken => Agrees(Idle)' /\ PeaksAgree(Idle) /\ Matches(ledger, heap)
  BY ScopeKeeps DEF BeginOffline
<1>2. /\ current \in Nat /\ offline_current \in Nat /\ Bytes(OfflineOwned(heap)) \in Nat
      /\ (~ broken => Bytes(OfflineOwned(heap)) = offline_current)
  BY <1>1, Totals, OwnedType, MatchBytes DEF TrackerInv
<1>3. PhaseInv'
  <2>1. /\ active' \in BOOLEAN /\ broken' \in BOOLEAN /\ offline_active' \in BOOLEAN
        /\ online_active' \in BOOLEAN
    BY PhaseType DEF BeginOffline, TrackerInv
  <2>2. /\ peak' \in Nat /\ offline_peak' \in Nat /\ online_peak' \in Nat
        /\ realPeak' \in Nat /\ realOffline' \in Nat /\ realOnline' \in Nat
    BY <1>2, PhaseType DEF BeginOffline, TrackerInv
  <2>3. active' /\ (offline_active' => active') /\ (online_active' => active')
    BY DEF BeginOffline
  <2>4. QED BY <2>1, <2>2, <2>3 DEF PhaseInv
<1>4. Verdicts'
  BY DEF Verdicts, TrackerInv, BeginOffline, Measure
<1>5. ~ broken' => ~ broken /\ PeaksAgree(Idle)'
  BY <1>1, <1>2, NothingPending DEF PeaksAgree, Higher, BeginOffline
<1>6. QED BY <1>1, <1>3, <1>4, <1>5 DEF TrackerInv

LEMMA BeginOnlineTracker ==
  ASSUME TrackerInv, BeginOnline
  PROVE  TrackerInv'
<1>1. /\ InFlight = Idle /\ InFlight' = Idle /\ SerialInv' /\ IsHeap(heap)'
      /\ IsCall(InFlight)' /\ Counted(Tracker)'
      /\ ~ broken => Agrees(Idle)' /\ PeaksAgree(Idle) /\ Matches(ledger, heap)
  BY ScopeKeeps DEF BeginOnline
<1>2. /\ current \in Nat /\ Bytes(Owned(heap)) \in Nat
      /\ (~ broken => Bytes(Owned(heap)) = current)
  BY <1>1, Totals, OwnedType, MatchBytes DEF TrackerInv
<1>3. PhaseInv'
  <2>1. /\ active' \in BOOLEAN /\ broken' \in BOOLEAN /\ offline_active' \in BOOLEAN
        /\ online_active' \in BOOLEAN
    BY PhaseType DEF BeginOnline, TrackerInv
  <2>2. /\ peak' \in Nat /\ offline_peak' \in Nat /\ online_peak' \in Nat
        /\ realPeak' \in Nat /\ realOffline' \in Nat /\ realOnline' \in Nat
    BY <1>2, PhaseType DEF BeginOnline, TrackerInv
  <2>3. active' /\ (offline_active' => active') /\ (online_active' => active')
    BY DEF BeginOnline
  <2>4. QED BY <2>1, <2>2, <2>3 DEF PhaseInv
<1>4. Verdicts'
  BY DEF Verdicts, TrackerInv, BeginOnline, Measure
<1>5. ~ broken' => ~ broken /\ PeaksAgree(Idle)'
  BY <1>1, <1>2, NothingPending DEF PeaksAgree, Higher, BeginOnline
<1>6. QED BY <1>1, <1>3, <1>4, <1>5 DEF TrackerInv

\* A phase that ends with the ledger intact has seen what the heap held.
LEMMA EndTracker ==
  ASSUME TrackerInv, EndOffline \/ EndOnline
  PROVE  TrackerInv'
<1>1. mutex = Nobody /\ UNCHANGED <<heap, mutex, call, ledger, current, offline_current>>
      /\ active' = active /\ active
      /\ UNCHANGED <<peak, offline_peak, online_peak, realPeak, realOffline, realOnline>>
  BY DEF EndOffline, EndOnline, ghosts
<1>2. /\ InFlight = Idle /\ InFlight' = Idle /\ SerialInv' /\ IsHeap(heap)'
      /\ IsCall(InFlight)' /\ Counted(Tracker)'
      /\ ~ broken => Agrees(Idle)' /\ PeaksAgree(Idle) /\ Matches(ledger, heap)
  BY <1>1, ScopeKeeps
<1>3. /\ current \in Nat /\ offline_current \in Nat
      /\ peak \in Nat /\ offline_peak \in Nat /\ online_peak \in Nat
  BY Totals, PhaseType DEF TrackerInv
<1>4. /\ (offline_active' => offline_active) /\ (online_active' => online_active)
      /\ offline_active' \in BOOLEAN /\ online_active' \in BOOLEAN
      /\ broken' \in BOOLEAN /\ (broken => broken')
  <2>1. broken \in BOOLEAN /\ offline_active \in BOOLEAN /\ online_active \in BOOLEAN
    BY PhaseType DEF TrackerInv
  <2>2. CASE EndOffline
    BY <2>1, <2>2 DEF EndOffline
  <2>3. CASE EndOnline
    BY <2>1, <2>3 DEF EndOnline
  <2>4. QED BY <2>2, <2>3
<1>5. PhaseInv'
  <2>1. /\ realPeak' \in Nat /\ realOffline' \in Nat /\ realOnline' \in Nat
        /\ active' \in BOOLEAN /\ active'
    BY <1>1, PhaseType DEF TrackerInv
  <2>2. QED BY <1>1, <1>3, <1>4, <2>1 DEF PhaseInv
<1>6. /\ ~ broken /\ offline_active => realOffline = offline_peak
      /\ ~ broken /\ online_active => realOnline = online_peak
  BY <1>2, <1>3, NothingPending DEF PeaksAgree, Higher
<1>7. Verdicts'
  <2>1. CASE EndOffline
    BY <1>1, <1>3, <1>6, <2>1 DEF Verdicts, TrackerInv, EndOffline, Measure
  <2>2. CASE EndOnline
    BY <1>1, <1>3, <1>6, <2>2 DEF Verdicts, TrackerInv, EndOnline, Measure
  <2>3. QED BY <2>1, <2>2
<1>8. ~ broken => PeaksAgree(Idle)'
  BY <1>1, <1>2, <1>4, NothingPending DEF PeaksAgree
<1>9. QED BY <1>2, <1>4, <1>5, <1>7, <1>8 DEF TrackerInv

LEMMA CloseTracker ==
  ASSUME TrackerInv, NEW done \in BOOLEAN, Close(done)
  PROVE  TrackerInv'
<1>1. mutex = Nobody /\ UNCHANGED <<heap, tracker, mutex, call, ghosts>> /\ active
      /\ active' = FALSE /\ offline_active' = FALSE /\ online_active' = FALSE
  BY DEF Close
<1>2. /\ InFlight = Idle /\ InFlight' = Idle /\ SerialInv' /\ IsHeap(heap)'
      /\ IsCall(InFlight)' /\ Counted(Tracker)'
      /\ ~ broken => Agrees(Idle)' /\ PeaksAgree(Idle) /\ Matches(ledger, heap)
  BY <1>1, ScopeKeeps DEF tracker
<1>3. current \in Nat /\ peak \in Nat
  BY Totals, PhaseType DEF TrackerInv
<1>4. PhaseInv'
  BY <1>1 DEF TrackerInv, PhaseInv, tracker, ghosts
<1>5. ~ broken => realPeak = peak
  BY <1>1, <1>2, <1>3, NothingPending DEF PeaksAgree, Higher
<1>6. Verdicts'
  <2>1. PICK valid \in BOOLEAN :
          /\ valid = (done /\ ~ broken /\ ~ offline_active /\ ~ online_active)
          /\ ret' = [whole |-> [status |-> IF valid THEN "VALID" ELSE "INVALID", peak |-> peak],
                     control |-> IF valid THEN ret.control ELSE Demoted(ret.control),
                     online |-> IF valid THEN ret.online ELSE Demoted(ret.online)]
    BY DEF Close
  <2>2. /\ ret.control \in Measure /\ ret.online \in Measure
        /\ Demoted(ret.control) \in Measure /\ Demoted(ret.control).status # "VALID"
        /\ Demoted(ret.online) \in Measure /\ Demoted(ret.online).status # "VALID"
    BY DEF TrackerInv, Verdicts, Demoted, Measure
  <2>3. CASE valid
    <3>1. ret' = [whole |-> [status |-> "VALID", peak |-> peak],
                  control |-> ret.control, online |-> ret.online]
      BY <2>1, <2>3
    <3>2. ret' \in [whole : Measure, control : Measure, online : Measure]
      BY <1>3, <2>2, <3>1 DEF Measure
    <3>3. ret'.whole.peak = realPeak'
      <4>1. ~ broken /\ realPeak' = realPeak
        BY <1>1, <2>1, <2>3 DEF ghosts
      <4>2. ret'.whole.peak = peak
        BY <3>1
      <4>3. QED BY <1>5, <4>1, <4>2
    <3>4. QED BY <1>1, <3>1, <3>2, <3>3 DEF Verdicts, TrackerInv, ghosts
  <2>4. CASE ~ valid
    <3>1. ret' = [whole |-> [status |-> "INVALID", peak |-> peak],
                  control |-> Demoted(ret.control), online |-> Demoted(ret.online)]
      BY <2>1, <2>4
    <3>2. ret' \in [whole : Measure, control : Measure, online : Measure]
      BY <1>3, <2>2, <3>1 DEF Measure
    <3>3. QED BY <1>1, <2>2, <3>1, <3>2 DEF Verdicts
  <2>5. QED BY <2>3, <2>4
<1>7. PeaksAgree(Idle)'
  BY <1>1 DEF PeaksAgree
<1>8. broken' = broken
  BY <1>1 DEF tracker
<1>9. QED BY <1>2, <1>4, <1>6, <1>7, <1>8 DEF TrackerInv

-----------------------------------------------------------------------------
(* The theorems.                                                            *)

LEMMA StepTracker ==
  ASSUME TrackerInv, [Next]_vars
  PROVE  TrackerInv'
<1>1. ASSUME NEW t \in Thread, Calls(t) PROVE TrackerInv'
  BY <1>1, MallocTracker, ReallocTracker, FreeTracker, MemalignTracker DEF Calls
<1>2. ASSUME NEW t \in Thread, Returns(t) PROVE TrackerInv'
  BY <1>2, MallocReturnsTracker, MemalignTracker, FreeReturnsTracker, ReallocReturnsTracker
     DEF Returns
<1>3. CASE ScopeSteps
  BY <1>3, OpenTracker, FailTracker, BeginOfflineTracker, BeginOnlineTracker, EndTracker,
     CloseTracker DEF ScopeSteps
<1>4. CASE UNCHANGED vars
  <2>1. InFlight' = InFlight
    BY <1>4 DEF vars, InFlight
  <2>2. Counted(Tracker)' /\ broken' = broken
    BY <1>4, SameTracker DEF vars
  <2>3. Verdicts' /\ PhaseInv' /\ SerialInv' /\ IsHeap(heap)'
    BY <1>4, VerdictsKept DEF vars, tracker, phase, ghosts, PhaseInv, SerialInv, TrackerInv
  <2>4. PICK c : c = InFlight
    OBVIOUS
  <2>5. Agrees(c) => Agrees(c)'
    BY <1>4 DEF vars, tracker, phase, Agrees
  <2>6. PeaksAgree(c) => PeaksAgree(c)'
    BY <1>4 DEF vars, tracker, phase, ghosts, PeaksAgree, Seen, SeenOffline, Share, OfflineShare
  <2>7. QED BY <2>1, <2>2, <2>3, <2>4, <2>5, <2>6 DEF TrackerInv
<1>5. QED BY <1>1, <1>2, <1>3, <1>4 DEF Next

\* A step of the profiler in an enclave is a step of the profiler, or none of it.
LEMMA ProfilerStep ==
  ASSUME [MCNext]_<<vars, session>>
  PROVE  [Next]_vars
<1>1. ProfilerNext => Next
  BY DEF ProfilerNext, Next, ScopeSteps
<1>2. QED BY <1>1 DEF MCNext

\* In every state the ledger, the totals and the peaks account for the heap but for
\* the one wrapped call that is under way, and the calls are serialized by
\* tracker_mutex, however many threads and blocks there are (MemoryProfile.cpp).
THEOREM TrackerInvariant == Spec => []TrackerInv
<1>1. Init => TrackerInv
  BY InitTracker
<1>2. TrackerInv /\ [Next]_vars => TrackerInv'
  BY StepTracker
<1>3. QED BY <1>1, <1>2, PTL DEF Spec

\* The same of the profiler in the enclave that the runs check.
THEOREM EnclaveInvariant == MCSpec => []TrackerInv
<1>1. ProfilerInit => TrackerInv
  BY InitTracker DEF ProfilerInit
<1>2. TrackerInv /\ [MCNext]_<<vars, session>> => TrackerInv'
  BY ProfilerStep, StepTracker
<1>3. QED BY <1>1, <1>2, PTL DEF MCSpec

LEMMA InvariantLedger == TrackerInv => LedgerExact
<1>1. SUFFICES ASSUME TrackerInv, ~ broken, \A t \in Thread : call[t] = Idle
               PROVE  /\ DOMAIN ledger = DOMAIN Owned(heap)
                      /\ \A p \in DOMAIN ledger :
                           ledger[p] = [bytes |-> heap[p].bytes, offline |-> heap[p].offline]
                      /\ current = Bytes(Owned(heap))
                      /\ offline_current = Bytes(OfflineOwned(heap))
  BY DEF LedgerExact
<1>2. InFlight = Idle
  BY <1>1 DEF InFlight, TrackerInv, SerialInv
<1>3. Matches(ledger, heap)
  BY <1>1, <1>2, NothingPending DEF TrackerInv, Agrees
<1>4. /\ Sized(ledger) /\ current = Bytes(ledger)
      /\ offline_current = Bytes(OfflineEntries(ledger))
  BY <1>1, Totals DEF TrackerInv
<1>5. Bytes(Owned(heap)) = Bytes(ledger) /\ Bytes(OfflineOwned(heap)) = Bytes(OfflineEntries(ledger))
  BY <1>3, <1>4, MatchBytes
<1>6. DOMAIN Owned(heap) = {p \in DOMAIN heap : heap[p].owned}
  BY DEF Owned, RestrictDomain, Restrict
<1>7. QED BY <1>3, <1>4, <1>5, <1>6 DEF Matches

\* Between wrapped calls an unbroken ledger lists exactly the blocks that scopes are
\* charged for, across rounds, and its totals are their sums (MemoryProfile.cpp:99,
\* 184).
THEOREM LedgerExactHolds == MCSpec => []LedgerExact
<1>1. QED BY EnclaveInvariant, InvariantLedger, PTL

\* What is reported as VALID is what the heap held at most, of the round and of both
\* its phases, and no phase is valid in a round that is not (MemoryProfile.cpp:57).
THEOREM ValidMeansExactHolds == MCSpec => []ValidMeansExact
<1>1. TrackerInv => ValidMeansExact
  BY DEF TrackerInv, Verdicts, ValidMeansExact
<1>2. QED BY <1>1, EnclaveInvariant, PTL

-----------------------------------------------------------------------------
(* The sessions of the enclave.                                             *)

\* The steps of the samplers' ECALLs, and of the older ones.
PhasedSteps == {"decrypt", "check", "offline", "prb", "budget", "pool", "controls", "online",
                "apply", "encrypt", "catch", "shutdown", "free"}
OlderSteps == {"older_decrypt", "dimensions", "older_prb", "run", "deliver",
               "deliver_unshuffled", "older_shutdown", "older_free"}

Measured == Sessions!Algorithms \cup Sessions!Scoped

WhereType ==
  /\ algorithm \in Sessions!Algorithms \cup Sessions!OlderAlgorithms
  /\ pc \in PhasedSteps \cup OlderSteps \cup {"idle", "destroy", "aborted"}
  /\ pc \in PhasedSteps => algorithm \in Sessions!Algorithms
  /\ pc \in OlderSteps => algorithm \in Sessions!OlderAlgorithms
  /\ pc \in {"budget", "pool"} => algorithm = "FR_Par"

Holdings == [decrypted : {0, 1}, result : {0, 1}, prb : {0, 1}, pool : {0, 1}, lost : Nat]
Scopes == [active : BOOLEAN, phase : {"none", "offline", "online"}, broken : BOOLEAN]
Rets == [parallel_status : 0 .. 3, timed : BOOLEAN, collect : BOOLEAN,
         whole : Sessions!Statuses, offline : Sessions!Statuses, online : Sessions!Statuses]

SessionType ==
  /\ held \in Holdings /\ session_tracker \in Scopes /\ session_ret \in Rets
  /\ completed \in BOOLEAN /\ failed \in BOOLEAN

\* What is held at every step.
Pooled == {"budget", "pool", "controls", "online", "apply", "encrypt", "run", "deliver",
           "deliver_unshuffled", "older_shutdown"}

HeldInv ==
  /\ pc \in {"idle", "decrypt", "older_decrypt", "destroy"} => held.decrypted = 0
  /\ pc \in Pooled => held.prb = 1
  /\ pc \in {"catch", "shutdown"} => held.prb = 1 \/ algorithm = "C_Opt"
  /\ held.prb = 1 => pc \in Pooled \cup {"catch", "shutdown", "aborted"}
  /\ held.pool = 1 => algorithm = "FR_Par" /\ pc \in {"controls", "online", "apply", "aborted"}
  /\ held.result = 1 => pc \in OlderSteps \cup {"aborted"} /\ pc # "older_decrypt"

\* Phases begin and end in turn, so that only a failure breaks the ledger.
TurnInv ==
  /\ session_tracker.broken => failed
  /\ ~ session_tracker.active => session_tracker.phase = "none"
  /\ pc = "idle" => ~ session_tracker.active
  /\ pc \in {"decrypt", "check", "offline", "online"} => session_tracker.phase = "none"
  /\ session_tracker.active =>
       /\ pc \in {"prb", "budget", "pool", "controls"} => session_tracker.phase = "offline"
       /\ pc = "apply" => session_tracker.phase = "online"

NoneValid == "VALID" \notin {session_ret.whole, session_ret.offline, session_ret.online}

\* A session that completes its scope has delivered, or has broken the ledger.
DeliveryInv ==
  /\ pc # "idle" =>
       (session_tracker.active <=> session_ret.collect /\ algorithm \in Measured)
  /\ algorithm \notin Measured => NoneValid
  /\ pc = "idle" /\ session_ret.collect => NoneValid \/ output = "whole"
  /\ session_tracker.active /\ ~ session_tracker.broken =>
       /\ completed => output = "whole"
       /\ pc = "older_shutdown" => output = "whole"
       /\ pc # "deliver_unshuffled"

\* The result of a parallel session that has failed is untouched.
ParallelInv ==
  algorithm = "FR_Par" =>
    /\ pc \in PhasedSteps \ {"shutdown", "free"} => output = "untouched"
    /\ pc \in {"pool", "controls", "online", "apply", "encrypt"} =>
         session_ret.parallel_status = 0
    /\ pc = "check" => ~ session_ret.timed
    /\ pc \in {"idle", "shutdown", "free", "destroy"} /\ session_ret.parallel_status # 0 =>
         output = "untouched" /\ ~ session_ret.timed

SessionInv == WhereType /\ SessionType /\ HeldInv /\ TurnInv /\ DeliveryInv /\ ParallelInv

LEMMA StepsSession ==
  ASSUME SessionInv, Sessions!Steps
  PROVE  SessionInv'
<1> USE DEF SessionInv, WhereType, SessionType, Holdings, Scopes, Rets, HeldInv, TurnInv,
            DeliveryInv, ParallelInv, NoneValid,
            PhasedSteps, OlderSteps, Pooled, Measured, Sessions!Algorithms,
            Sessions!OlderAlgorithms, Sessions!Scoped, Sessions!Heedless, Sessions!Allocating,
            Sessions!Statuses, Sessions!At, Sessions!Goto
<1>1. CASE Sessions!Decrypt
  BY <1>1 DEF Sessions!Decrypt, Sessions!ClearsTimes
<1>2. CASE Sessions!DecryptFails
  BY <1>2 DEF Sessions!DecryptFails, Sessions!ClearsTimes, Sessions!Fails
<1>3. CASE Sessions!Refuse
  BY <1>3 DEF Sessions!Refuse
<1>4. CASE Sessions!Accept
  BY <1>4 DEF Sessions!Accept
<1>5. CASE Sessions!BeginOffline
  BY <1>5 DEF Sessions!BeginOffline, Sessions!BeginPhase
<1>6. CASE Sessions!PRB_pool_init
  BY <1>6 DEF Sessions!PRB_pool_init
<1>7. CASE Sessions!ResolveParallelBudget
  BY <1>7 DEF Sessions!ResolveParallelBudget
<1>8. CASE Sessions!OpenPool
  BY <1>8 DEF Sessions!OpenPool
<1>9. CASE Sessions!MakeControls
  BY <1>9 DEF Sessions!MakeControls, Sessions!EndPhase
<1>10. CASE Sessions!BeginOnline
  BY <1>10 DEF Sessions!BeginOnline, Sessions!BeginPhase
<1>11. CASE Sessions!Apply
  BY <1>11 DEF Sessions!Apply, Sessions!EndPhase
<1>12. CASE Sessions!Mismatch
  BY <1>12 DEF Sessions!Mismatch, Sessions!EndPhase
<1>13. CASE Sessions!Throw
  <2>0. WhereType'
    BY <1>13 DEF Sessions!Throw, Sessions!Fails, Sessions!Catches
  <2>1. SessionType'
    <3>1. held' \in Holdings
      <4>1. held' = held \/ held' = [held EXCEPT !.pool = 0]
        BY <1>13 DEF Sessions!Throw
      <4>2. QED BY <4>1
    <3>2. session_tracker' \in Scopes
      BY <1>13 DEF Sessions!Throw, Sessions!Fails, Sessions!Catches
    <3>3. session_ret' \in Rets
      BY <1>13 DEF Sessions!Throw, Sessions!Fails, Sessions!Catches
    <3>4. completed' \in BOOLEAN /\ failed' \in BOOLEAN
      BY <1>13 DEF Sessions!Throw, Sessions!Fails, Sessions!Catches
    <3>5. QED BY <3>1, <3>2, <3>3, <3>4
  <2>2. HeldInv'
    BY <1>13 DEF Sessions!Throw, Sessions!Fails, Sessions!Catches
  <2>3. TurnInv'
    <3>1. pc' \in {"catch", "aborted"}
      BY <1>13 DEF Sessions!Throw
    <3>2. \/ UNCHANGED <<session_tracker, failed>>
          \/ /\ session_tracker' = [session_tracker EXCEPT !.broken = @ \/ session_tracker.active]
             /\ failed' = (failed \/ session_tracker.active)
      BY <1>13 DEF Sessions!Throw, Sessions!Fails
    <3>3. QED BY <3>1, <3>2
  <2>4. DeliveryInv'
    BY <1>13 DEF Sessions!Throw, Sessions!Fails, Sessions!Catches
  <2>5. ParallelInv'
    BY <1>13 DEF Sessions!Throw, Sessions!Fails, Sessions!Catches
  <2>6. QED BY <2>0, <2>1, <2>2, <2>3, <2>4, <2>5
<1>14. CASE Sessions!Encrypt
  <2>0. WhereType'
    BY <1>14 DEF Sessions!Encrypt, Sessions!Fails
  <2>1. SessionType'
    <3>1. held' \in Holdings
      BY <1>14 DEF Sessions!Encrypt, Sessions!Fails
    <3>2. session_tracker' \in Scopes
      BY <1>14 DEF Sessions!Encrypt, Sessions!Fails
    <3>3. session_ret' \in Rets
      BY <1>14 DEF Sessions!Encrypt, Sessions!Fails
    <3>4. completed' \in BOOLEAN /\ failed' \in BOOLEAN
      BY <1>14 DEF Sessions!Encrypt, Sessions!Fails
    <3>5. QED BY <3>1, <3>2, <3>3, <3>4
  <2>2. HeldInv'
    BY <1>14 DEF Sessions!Encrypt, Sessions!Fails
  <2>3. TurnInv'
    BY <1>14 DEF Sessions!Encrypt, Sessions!Fails
  <2>4. DeliveryInv'
    BY <1>14 DEF Sessions!Encrypt, Sessions!Fails
  <2>5. ParallelInv'
    BY <1>14 DEF Sessions!Encrypt, Sessions!Fails
  <2>6. QED BY <2>0, <2>1, <2>2, <2>3, <2>4, <2>5
<1>15. CASE Sessions!Catch
  <2>0. WhereType'
    BY <1>15 DEF Sessions!Catch
  <2>1. SessionType'
    <3>1. held' \in Holdings
      BY <1>15 DEF Sessions!Catch
    <3>2. session_tracker' \in Scopes
      BY <1>15 DEF Sessions!Catch
    <3>3. session_ret' \in Rets
      <4> DEFINE now == session_ret.parallel_status
                 status == IF algorithm = "FR_Par" /\ now = 0 THEN 3 ELSE now
      <4>1. session_ret' = [session_ret EXCEPT !.timed = FALSE, !.parallel_status = status]
        BY <1>15 DEF Sessions!Catch
      <4>2. status \in 0 .. 3
        OBVIOUS
      <4> HIDE DEF now, status
      <4>3. QED BY <4>1, <4>2
    <3>4. completed' \in BOOLEAN /\ failed' \in BOOLEAN
      BY <1>15 DEF Sessions!Catch
    <3>5. QED BY <3>1, <3>2, <3>3, <3>4
  <2>2. HeldInv'
    BY <1>15 DEF Sessions!Catch
  <2>3. TurnInv'
    BY <1>15 DEF Sessions!Catch
  <2>4. DeliveryInv'
    BY <1>15 DEF Sessions!Catch
  <2>5. ParallelInv'
    BY <1>15 DEF Sessions!Catch
  <2>6. QED BY <2>0, <2>1, <2>2, <2>3, <2>4, <2>5
<1>16. CASE Sessions!PRB_pool_shutdown
  BY <1>16 DEF Sessions!PRB_pool_shutdown
<1>17. CASE Sessions!Free
  BY <1>17 DEF Sessions!Free
<1>18. CASE Sessions!Finish
  <2>0. WhereType'
    BY <1>18 DEF Sessions!Finish, Sessions!Demoted
  <2>1. SessionType'
    BY <1>18 DEF Sessions!Finish, Sessions!Demoted
  <2>2. HeldInv'
    BY <1>18 DEF Sessions!Finish, Sessions!Demoted
  <2>3. TurnInv'
    BY <1>18 DEF Sessions!Finish, Sessions!Demoted
  <2>4. DeliveryInv'
    BY <1>18 DEF Sessions!Finish, Sessions!Demoted
  <2>5. ParallelInv'
    BY <1>18 DEF Sessions!Finish, Sessions!Demoted
  <2>6. QED BY <2>0, <2>1, <2>2, <2>3, <2>4, <2>5
<1>19. QED BY <1>1, <1>2, <1>3, <1>4, <1>5, <1>6, <1>7, <1>8, <1>9, <1>10,
            <1>11, <1>12, <1>13, <1>14, <1>15, <1>16, <1>17, <1>18
            DEF Sessions!Steps

LEMMA OlderStepsSession ==
  ASSUME SessionInv, Sessions!OlderSteps
  PROVE  SessionInv'
<1> USE DEF SessionInv, WhereType, SessionType, Holdings, Scopes, Rets, HeldInv, TurnInv,
            DeliveryInv, ParallelInv, NoneValid,
            PhasedSteps, OlderSteps, Pooled, Measured, Sessions!Algorithms,
            Sessions!OlderAlgorithms, Sessions!Scoped, Sessions!Heedless, Sessions!Allocating,
            Sessions!Statuses, Sessions!At, Sessions!Goto
<1>1. CASE Sessions!OlderRefuse
  BY <1>1 DEF Sessions!OlderRefuse, Sessions!Older, Sessions!Fails
<1>2. CASE Sessions!OlderDecrypt
  BY <1>2 DEF Sessions!OlderDecrypt
<1>3. CASE Sessions!OlderDecryptFails
  BY <1>3 DEF Sessions!OlderDecryptFails, Sessions!Older, Sessions!Fails
<1>4. CASE Sessions!OlderHeedless
  BY <1>4 DEF Sessions!OlderHeedless, Sessions!Older, Sessions!Fails
<1>5. CASE Sessions!OlderNothing
  <2>0. WhereType'
    BY <1>5 DEF Sessions!OlderNothing, Sessions!Older
  <2>1. SessionType'
    BY <1>5 DEF Sessions!OlderNothing, Sessions!Older
  <2>2. HeldInv'
    BY <1>5 DEF Sessions!OlderNothing, Sessions!Older
  <2>3. TurnInv'
    BY <1>5 DEF Sessions!OlderNothing, Sessions!Older
  <2>4. DeliveryInv'
    BY <1>5 DEF Sessions!OlderNothing, Sessions!Older
  <2>5. ParallelInv'
    BY <1>5 DEF Sessions!OlderNothing, Sessions!Older
  <2>6. QED BY <2>0, <2>1, <2>2, <2>3, <2>4, <2>5
<1>6. CASE Sessions!OlderAllocate
  BY <1>6 DEF Sessions!OlderAllocate
<1>7. CASE Sessions!OlderAllocateFails
  BY <1>7 DEF Sessions!OlderAllocateFails, Sessions!Older, Sessions!Fails
<1>8. CASE Sessions!OlderPool
  BY <1>8 DEF Sessions!OlderPool
<1>9. CASE Sessions!OlderRun
  <2>0. WhereType'
    BY <1>9 DEF Sessions!OlderRun
  <2>1. SessionType'
    BY <1>9 DEF Sessions!OlderRun
  <2>2. HeldInv'
    BY <1>9 DEF Sessions!OlderRun
  <2>3. TurnInv'
    BY <1>9 DEF Sessions!OlderRun
  <2>4. DeliveryInv'
    BY <1>9 DEF Sessions!OlderRun
  <2>5. ParallelInv'
    BY <1>9 DEF Sessions!OlderRun
  <2>6. QED BY <2>0, <2>1, <2>2, <2>3, <2>4, <2>5
<1>10. CASE Sessions!OlderUnshuffled
  BY <1>10 DEF Sessions!OlderUnshuffled, Sessions!Older, Sessions!Fails
<1>11. CASE Sessions!OlderGivesUp
  <2>0. WhereType'
    BY <1>11 DEF Sessions!OlderGivesUp, Sessions!Older, Sessions!Fails
  <2>1. SessionType'
    BY <1>11 DEF Sessions!OlderGivesUp, Sessions!Older, Sessions!Fails
  <2>2. HeldInv'
    BY <1>11 DEF Sessions!OlderGivesUp, Sessions!Older, Sessions!Fails
  <2>3. TurnInv'
    BY <1>11 DEF Sessions!OlderGivesUp, Sessions!Older, Sessions!Fails
  <2>4. DeliveryInv'
    BY <1>11 DEF Sessions!OlderGivesUp, Sessions!Older, Sessions!Fails
  <2>5. ParallelInv'
    BY <1>11 DEF Sessions!OlderGivesUp, Sessions!Older, Sessions!Fails
  <2>6. QED BY <2>0, <2>1, <2>2, <2>3, <2>4, <2>5
<1>12. CASE Sessions!OlderThrow
  <2>0. WhereType'
    BY <1>12 DEF Sessions!OlderThrow, Sessions!Fails
  <2>1. SessionType'
    <3>1. held' \in Holdings
      BY <1>12 DEF Sessions!OlderThrow, Sessions!Fails
    <3>2. session_tracker' \in Scopes
      BY <1>12 DEF Sessions!OlderThrow, Sessions!Fails
    <3>3. session_ret' \in Rets
      BY <1>12 DEF Sessions!OlderThrow, Sessions!Fails
    <3>4. completed' \in BOOLEAN
      BY <1>12 DEF Sessions!OlderThrow, Sessions!Fails
    <3>5. failed' \in BOOLEAN
      BY <1>12 DEF Sessions!OlderThrow, Sessions!Fails
    <3>6. QED BY <3>1, <3>2, <3>3, <3>4, <3>5
  <2>2. HeldInv'
    BY <1>12 DEF Sessions!OlderThrow, Sessions!Fails
  <2>3. TurnInv'
    BY <1>12 DEF Sessions!OlderThrow, Sessions!Fails
  <2>4. DeliveryInv'
    BY <1>12 DEF Sessions!OlderThrow, Sessions!Fails
  <2>5. ParallelInv'
    BY <1>12 DEF Sessions!OlderThrow, Sessions!Fails
  <2>6. QED BY <2>0, <2>1, <2>2, <2>3, <2>4, <2>5
<1>13. CASE Sessions!OlderDeliver
  <2>0. WhereType'
    BY <1>13 DEF Sessions!OlderDeliver, Sessions!Fails
  <2>1. SessionType'
    <3>1. held' \in Holdings
      BY <1>13 DEF Sessions!OlderDeliver, Sessions!Fails
    <3>2. session_tracker' \in Scopes
      BY <1>13 DEF Sessions!OlderDeliver, Sessions!Fails
    <3>3. session_ret' \in Rets
      BY <1>13 DEF Sessions!OlderDeliver, Sessions!Fails
    <3>4. completed' \in BOOLEAN /\ failed' \in BOOLEAN
      <4>1. completed' = completed \/ completed' = (algorithm \in {"CompactionBased", "ShuffleBased"})
        BY <1>13 DEF Sessions!OlderDeliver
      <4>2. failed' = failed \/ failed' = (failed \/ session_tracker.active)
        BY <1>13 DEF Sessions!OlderDeliver, Sessions!Fails
      <4>3. completed' \in BOOLEAN
        <5>1. (algorithm \in {"CompactionBased", "ShuffleBased"}) \in BOOLEAN
          OBVIOUS
        <5>2. completed \in BOOLEAN
          OBVIOUS
        <5>3. QED BY ONLY <4>1, <5>1, <5>2, Zenon
      <4>4. failed' \in BOOLEAN
        BY <4>2
      <4>5. QED BY <4>3, <4>4
    <3>5. QED BY <3>1, <3>2, <3>3, <3>4
  <2>2. HeldInv'
    BY <1>13 DEF Sessions!OlderDeliver, Sessions!Fails
  <2>3. TurnInv'
    BY <1>13 DEF Sessions!OlderDeliver, Sessions!Fails
  <2>4. DeliveryInv'
    BY <1>13 DEF Sessions!OlderDeliver, Sessions!Fails
  <2>5. ParallelInv'
    BY <1>13 DEF Sessions!OlderDeliver, Sessions!Fails
  <2>6. QED BY <2>0, <2>1, <2>2, <2>3, <2>4, <2>5
<1>14. CASE Sessions!OlderShutdown
  BY <1>14 DEF Sessions!OlderShutdown
<1>15. CASE Sessions!OlderFree
  <2>0. WhereType'
    BY <1>15 DEF Sessions!OlderFree
  <2>1. SessionType'
    <3>1. held' \in Holdings
      BY <1>15 DEF Sessions!OlderFree
    <3>2. session_tracker' \in Scopes
      BY <1>15 DEF Sessions!OlderFree
    <3>3. session_ret' \in Rets
      BY <1>15 DEF Sessions!OlderFree
    <3>4. completed' \in BOOLEAN /\ failed' \in BOOLEAN
      BY <1>15 DEF Sessions!OlderFree
    <3>5. QED BY <3>1, <3>2, <3>3, <3>4
  <2>2. HeldInv'
    BY <1>15 DEF Sessions!OlderFree
  <2>3. TurnInv'
    BY <1>15 DEF Sessions!OlderFree
  <2>4. DeliveryInv'
    BY <1>15 DEF Sessions!OlderFree
  <2>5. ParallelInv'
    BY <1>15 DEF Sessions!OlderFree
  <2>6. QED BY <2>0, <2>1, <2>2, <2>3, <2>4, <2>5
<1>16. QED BY <1>1, <1>2, <1>3, <1>4, <1>5, <1>6, <1>7, <1>8, <1>9, <1>10,
            <1>11, <1>12, <1>13, <1>14, <1>15
            DEF Sessions!OlderSteps

\* How a session of either kind begins.
Begins(a, collect, r) ==
  /\ pc = "idle" /\ r \in Rets /\ (r = Sessions!Fresh \/ (a = algorithm /\ r = session_ret))
  /\ algorithm' = a /\ collect \in BOOLEAN
  /\ \/ a \in Sessions!Algorithms /\ pc' \in {"decrypt", "destroy"}
     \/ a \in Sessions!OlderAlgorithms /\ pc' = "older_decrypt"
  /\ held' = held /\ failed' = failed /\ completed' = FALSE /\ output' = "untouched"
  /\ session_tracker' = [session_tracker EXCEPT !.active = collect /\ a \in Measured]
  /\ session_ret' \in Rets /\ session_ret'.collect = collect
  /\ session_ret'.parallel_status = r.parallel_status /\ (session_ret'.timed => r.timed)
  /\ a \notin Measured => /\ session_ret'.whole = r.whole /\ session_ret'.offline = r.offline
                          /\ session_ret'.online = r.online

LEMMA BeginsSession ==
  ASSUME SessionInv, NEW a, NEW collect, NEW r, Begins(a, collect, r)
  PROVE  SessionInv'
<1> USE DEF SessionInv, Begins, PhasedSteps, OlderSteps, Pooled, Measured, Sessions!Algorithms,
            Sessions!OlderAlgorithms, Sessions!Scoped
<1>1. WhereType'
  BY DEF WhereType
<1>2. SessionType'
  <2>1. session_tracker' \in Scopes
    <3>1. (collect /\ a \in Measured) \in BOOLEAN
      OBVIOUS
    <3> DEFINE on == collect /\ a \in Measured
    <3> HIDE DEF on, Measured
    <3>2. session_tracker' = [session_tracker EXCEPT !.active = on] /\ on \in BOOLEAN
      BY <3>1 DEF on
    <3>3. QED BY <3>2 DEF SessionType, Scopes
  <2>2. QED BY <2>1 DEF SessionType
<1>3. HeldInv'
  BY DEF HeldInv, SessionType, Holdings
<1>4. TurnInv'
  BY DEF TurnInv, SessionType, Scopes
<1>5. DeliveryInv'
  <2>1. pc' # "idle" /\ completed' = FALSE /\ pc' # "older_shutdown" /\ pc' # "deliver_unshuffled"
    OBVIOUS
  <2>2. session_tracker'.active <=> session_ret'.collect /\ a \in Measured
    BY DEF SessionType, Scopes
  <2>3. a \notin Measured => NoneValid'
    <3>1. r = Sessions!Fresh => "VALID" \notin {r.whole, r.offline, r.online}
      BY DEF Sessions!Fresh
    <3>2. QED BY <3>1 DEF NoneValid, DeliveryInv
  <2>4. QED BY <2>1, <2>2, <2>3 DEF DeliveryInv
<1>6. ParallelInv'
  <2>1. r = Sessions!Fresh => r.parallel_status = 0
    BY DEF Sessions!Fresh
  <2>2. QED BY <2>1 DEF ParallelInv
<1>7. QED BY <1>1, <1>2, <1>3, <1>4, <1>5, <1>6

\* Scope's constructor, on the caller's enc_ret.
LEMMA AskedIs ==
  ASSUME NEW r \in Rets
  PROVE  /\ Sessions!Asked(r) \in Rets /\ Sessions!Asked(r).collect = r.collect
         /\ Sessions!Asked(r).parallel_status = r.parallel_status
         /\ Sessions!Asked(r).timed = r.timed
BY DEF Sessions!Asked, Rets, Sessions!Statuses

LEMMA FreshRet == Sessions!Fresh \in Rets
BY DEF Rets, Sessions!Fresh, Sessions!Statuses

LEMMA GivenRet ==
  ASSUME SessionInv, NEW r \in {Sessions!Fresh, session_ret}
  PROVE  r \in Rets
<1>1. Sessions!Fresh \in Rets
  BY FreshRet
<1>2. session_ret \in Rets
  BY DEF SessionInv, SessionType
<1>3. QED BY <1>1, <1>2

LEMMA CallSession ==
  ASSUME SessionInv, NEW a \in Sessions!Algorithms, NEW collect \in BOOLEAN,
         NEW r \in {Sessions!Fresh, session_ret}, Sessions!Call(a, collect, r)
  PROVE  SessionInv'
<1>1. r \in Rets
  BY GivenRet
<1>2. PICK x : x = [r EXCEPT !.collect = collect, !.timed = IF a = "C_Opt" THEN FALSE ELSE @]
  OBVIOUS
<1>3. /\ x \in Rets /\ x.collect = collect /\ x.parallel_status = r.parallel_status
      /\ x.timed => r.timed
  BY <1>1, <1>2 DEF Rets
<1>4. session_ret' = Sessions!Asked(x)
  BY <1>2 DEF Sessions!Call
<1>5. /\ session_ret' \in Rets /\ session_ret'.collect = collect
      /\ session_ret'.parallel_status = r.parallel_status /\ (session_ret'.timed => r.timed)
  BY <1>3, <1>4, AskedIs
<1>6. a \in Measured /\ session_tracker' = [session_tracker EXCEPT !.active = collect]
  BY DEF Measured, Sessions!Call
<1>7. session_tracker' = [session_tracker EXCEPT !.active = collect /\ a \in Measured]
  <2>1. (collect /\ a \in Measured) = collect
    BY <1>6
  <2>2. QED BY <1>6, <2>1
<1>8. pc = "idle" /\ pc' \in {"decrypt", "destroy"} /\ (r = Sessions!Fresh \/ a = algorithm)
  BY DEF Sessions!Call, Sessions!At, Sessions!Goto
<1>9. algorithm' = a /\ held' = held /\ failed' = failed /\ completed' = FALSE
        /\ output' = "untouched"
  BY DEF Sessions!Call
<1>10. Begins(a, collect, r)
  <2>1. r = Sessions!Fresh \/ (a = algorithm /\ r = session_ret)
    BY <1>8
  <2>2. collect \in BOOLEAN /\ a \in Sessions!Algorithms
    OBVIOUS
  <2>3. QED BY ONLY <1>1, <1>5, <1>6, <1>7, <1>8, <1>9, <2>1, <2>2, Zenon DEF Begins
<1>11. QED BY <1>10, BeginsSession

LEMMA OlderCallSession ==
  ASSUME SessionInv, NEW a \in Sessions!OlderAlgorithms, NEW collect \in BOOLEAN,
         NEW r \in {Sessions!Fresh, session_ret}, Sessions!OlderCall(a, collect, r)
  PROVE  SessionInv'
<1>1. r \in Rets
  BY GivenRet
<1>2. PICK x : x = [r EXCEPT !.collect = collect,
                             !.timed = @ /\ a \notin {"CompactionBased", "ShuffleBased"}]
  OBVIOUS
<1>3. /\ x \in Rets /\ x.collect = collect /\ x.parallel_status = r.parallel_status
      /\ x.timed => r.timed
      /\ x.whole = r.whole /\ x.offline = r.offline /\ x.online = r.online
  BY <1>1, <1>2 DEF Rets
<1>4. session_ret' = IF a \in Sessions!Scoped THEN Sessions!Asked(x) ELSE x
  BY <1>2 DEF Sessions!OlderCall
<1>5. /\ session_ret' \in Rets /\ session_ret'.collect = collect
      /\ session_ret'.parallel_status = r.parallel_status /\ (session_ret'.timed => r.timed)
      /\ a \notin Measured => /\ session_ret'.whole = r.whole /\ session_ret'.offline = r.offline
                              /\ session_ret'.online = r.online
  BY <1>3, <1>4, AskedIs DEF Measured
<1>6. a \in Measured <=> a \in Sessions!Scoped
  BY DEF Measured, Sessions!OlderAlgorithms, Sessions!Algorithms
<1>7. session_tracker' = [session_tracker EXCEPT !.active = collect /\ a \in Measured]
  <2>1. (collect /\ a \in Measured) = (collect /\ a \in Sessions!Scoped)
    BY <1>6
  <2>2. session_tracker' = [session_tracker EXCEPT !.active = collect /\ a \in Sessions!Scoped]
    BY DEF Sessions!OlderCall
  <2>3. QED BY <2>1, <2>2
<1>8. pc = "idle" /\ pc' = "older_decrypt" /\ (r = Sessions!Fresh \/ a = algorithm)
  BY DEF Sessions!OlderCall, Sessions!At, Sessions!Goto
<1>9. algorithm' = a /\ held' = held /\ failed' = failed /\ completed' = FALSE
        /\ output' = "untouched"
  BY DEF Sessions!OlderCall
<1>10. Begins(a, collect, r)
  <2>1. r = Sessions!Fresh \/ (a = algorithm /\ r = session_ret)
    BY <1>8
  <2>2. collect \in BOOLEAN /\ a \in Sessions!OlderAlgorithms
    OBVIOUS
  <2>3. QED BY ONLY <1>1, <1>5, <1>7, <1>8, <1>9, <2>1, <2>2, Zenon DEF Begins
<1>11. QED BY <1>10, BeginsSession

LEMMA InitSession ==
  ASSUME Sessions!Init
  PROVE  SessionInv
<1> USE DEF Sessions!Init, Sessions!Nothing, Sessions!Fresh, Sessions!Algorithms,
            PhasedSteps, OlderSteps, Pooled
<1>1. WhereType
  BY DEF WhereType
<1>2. SessionType
  <2>1. held \in Holdings
    BY DEF Holdings
  <2>2. session_tracker \in Scopes
    BY DEF Scopes
  <2>3. session_ret \in Rets
    BY FreshRet
  <2>4. completed \in BOOLEAN /\ failed \in BOOLEAN
    OBVIOUS
  <2>5. QED BY <2>1, <2>2, <2>3, <2>4 DEF SessionType
<1>3. HeldInv /\ TurnInv
  BY DEF HeldInv, TurnInv
<1>4. DeliveryInv
  BY DEF DeliveryInv, NoneValid, Measured
<1>5. ParallelInv
  BY DEF ParallelInv
<1>6. QED BY <1>1, <1>2, <1>3, <1>4, <1>5 DEF SessionInv

LEMMA NextSession ==
  ASSUME InSession => SessionInv, [MCNext]_<<vars, session>>
  PROVE  (InSession => SessionInv)'
<1>1. CASE UNCHANGED session
  BY <1>1 DEF session, InSession, SessionInv, WhereType, SessionType, HeldInv, TurnInv,
              DeliveryInv, ParallelInv, NoneValid, Holdings, Scopes, Rets
<1>2. CASE InSession /\ Sessions!OlderNext
  <2>1. CASE Sessions!Steps
    BY <1>2, <2>1, StepsSession
  <2>2. CASE Sessions!OlderSteps
    BY <1>2, <2>2, OlderStepsSession
  <2>3. ASSUME NEW a \in Sessions!Algorithms, NEW collect \in BOOLEAN,
               NEW r \in {Sessions!Fresh, session_ret}, Sessions!Call(a, collect, r)
        PROVE  (InSession => SessionInv)'
    BY <1>2, <2>3, CallSession
  <2>4. ASSUME NEW a \in Sessions!OlderAlgorithms, NEW collect \in BOOLEAN,
               NEW r \in {Sessions!Fresh, session_ret}, Sessions!OlderCall(a, collect, r)
        PROVE  (InSession => SessionInv)'
    BY <1>2, <2>4, OlderCallSession
  <2>5. QED BY <1>2, <2>1, <2>2, <2>3, <2>4 DEF Sessions!OlderNext, Sessions!Next
<1>3. QED BY <1>1, <1>2 DEF MCNext

\* In every state of an enclave's sessions, however many there are and whatever
\* fails, what is held and what the profiler and the caller are told fits the step
\* that the session has reached (FFOS_FR.cpp:956-1016).
THEOREM SessionInvariant == MCSpec => [](InSession => SessionInv)
<1>1. ProfilerInit => (InSession => SessionInv)
  BY InitSession DEF ProfilerInit, NoSession, InSession
<1>2. (InSession => SessionInv) /\ [MCNext]_<<vars, session>> => (InSession => SessionInv)'
  BY NextSession
<1>3. QED BY <1>1, <1>2, PTL DEF MCSpec

\* However a session ends, short of the end of the enclave, it has given back what
\* it had taken; and as its phases take turns, only a failure marks the ledger as
\* broken for the sessions after it (FFOS_FR.cpp:956-1016; MemoryProfile.cpp:185).
THEOREM NothingLeftHolds == MCSpec => []NothingLeft
<1>1. (InSession => SessionInv) => (InSession => Sessions!Released)
  <2>1. SUFFICES ASSUME SessionInv, pc = "idle"
                 PROVE  [held EXCEPT !.lost = 0] = Sessions!Nothing
    BY DEF Sessions!Released, Sessions!Ended
  <2>2. /\ held.decrypted = 0 /\ held.prb = 0 /\ held.pool = 0 /\ held.result = 0
        /\ held \in Holdings
    BY <2>1 DEF SessionInv, HeldInv, SessionType, Holdings, Pooled, OlderSteps
  <2>3. QED BY <2>2 DEF Holdings, Sessions!Nothing
<1>2. (InSession => SessionInv) => (InSession => Sessions!BrokenOnlyByFailure)
  BY DEF SessionInv, TurnInv, Sessions!BrokenOnlyByFailure
<1>3. (InSession => SessionInv) => NothingLeft
  BY <1>1, <1>2 DEF NothingLeft
<1>4. QED BY <1>3, SessionInvariant, PTL

\* A session that reports a valid measurement has delivered every sample in order,
\* and one that reports a parallel error neither a result nor times
\* (FFOS_FR.cpp:1008-1015).
THEOREM ReportTrueHolds == MCSpec => []ReportTrue
<1>1. (InSession => SessionInv) => ReportTrue
  BY DEF SessionInv, DeliveryInv, ParallelInv, NoneValid, ReportTrue, Sessions!ReportTrue,
         Sessions!Ended
<1>2. QED BY <1>1, SessionInvariant, PTL

=============================================================================
