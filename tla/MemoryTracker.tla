---------------------------- MODULE MemoryTracker ----------------------------
(***************************************************************************)
(* The heap profiler of Enclave/MemoryProfile.cpp and the Scope of         *)
(* MemoryProfile.hpp that an ECALL measures itself with.                   *)
(*                                                                         *)
(* Wrapped allocator calls keep a ledger of the blocks that were allocated *)
(* while a scope was active, and the peaks of the whole scope and of its   *)
(* offline and online phases.  A wrapped call holds tracker_mutex          *)
(* throughout; it is modelled as two steps, the call of the real allocator *)
(* and the book-keeping, between which the other threads run.              *)
(*                                                                         *)
(* The ledger is a function on pointers; that the hash table implements    *)
(* one is what ProbeTable shows.  real* are ghosts: the peaks that the     *)
(* tracker should find.                                                    *)
(***************************************************************************)
EXTENDS Integers, FiniteSets, FiniteSetsExt, Functions

CONSTANTS
  Thread,     \* the threads that allocate
  Address,    \* the addresses of blocks
  Null,       \* the null pointer
  Nobody,     \* no thread holds tracker_mutex
  Size,       \* the sizes asked for
  Capacity,   \* kSlots / 2: the blocks the ledger can hold
  SizeMax     \* the largest size_t

ASSUME TrackerAssumption ==
  /\ Null \notin Address /\ Nobody \notin Thread
  /\ Size \subseteq 0 .. SizeMax /\ Capacity \in Nat

VARIABLES
  heap,       \* the real heap: for every block its size, whether it was allocated
              \* in a scope (owned) and whether in an offline phase
  ledger,     \* the entries, by pointer
  current, peak, offline_current, offline_peak, online_peak,
  active, broken, offline_active, online_active,
  mutex,      \* the thread that holds tracker_mutex
  call,       \* what every thread's wrapped call is doing
  ret,        \* the measurements of the scope, as enc_ret has them
  realPeak, realOffline, realOnline

tracker == <<ledger, current, peak, offline_current, offline_peak, online_peak, broken>>
phase == <<active, offline_active, online_active>>
ghosts == <<realPeak, realOffline, realOnline>>
vars == <<heap, tracker, phase, mutex, call, ret, ghosts>>

-----------------------------------------------------------------------------

Higher(a, b) == IF a > b THEN a ELSE b

Bytes(h) == MapThenSumSet(LAMBDA p : h[p].bytes, DOMAIN h)

\* What of a heap a scope is charged for, and of that its offline phase.
Owned(h) == RestrictDomain(h, LAMBDA p : h[p].owned)
OfflineOwned(h) == RestrictDomain(h, LAMBDA p : h[p].owned /\ h[p].offline)

\* The ghosts see the heap hold these many bytes.
RealSees(whole, offline) ==
  /\ realPeak' = IF active THEN Higher(realPeak, whole) ELSE realPeak
  /\ realOffline' = IF offline_active THEN Higher(realOffline, offline) ELSE realOffline
  /\ realOnline' = IF online_active THEN Higher(realOnline, whole) ELSE realOnline

Without(f, p) == RestrictDomain(f, LAMBDA q : q # p)
With(f, p, x) == [q \in DOMAIN f \cup {p} |-> IF q = p THEN x ELSE f[q]]

-----------------------------------------------------------------------------
(* The tracker's operations, on its state as a record.                      *)

Tracker ==
  [ledger |-> ledger, current |-> current, peak |-> peak,
   offline_current |-> offline_current, offline_peak |-> offline_peak,
   online_peak |-> online_peak, broken |-> broken]

Becomes(s) ==
  /\ ledger' = s.ledger /\ current' = s.current /\ peak' = s.peak
  /\ offline_current' = s.offline_current /\ offline_peak' = s.offline_peak
  /\ online_peak' = s.online_peak /\ broken' = s.broken

Break(s) == [s EXCEPT !.broken = TRUE]

\* The peaks, when the heap holds this much.
Peaks(s, whole, offline) ==
  [s EXCEPT !.peak = Higher(@, whole),
            !.online_peak = IF online_active THEN Higher(@, whole) ELSE @,
            !.offline_peak = IF offline_active THEN Higher(@, offline) ELSE @]

Observe(s, bytes, offline) ==
  IF bytes > SizeMax - s.current THEN Break(s)
  ELSE Peaks(s, s.current + bytes, IF offline THEN s.offline_current + bytes ELSE 0)

\* Mutant: the sum of the sizes may wrap around.
AddWrapping(s, p, bytes, offline) ==
  IF p = Null \/ p \in DOMAIN s.ledger \/ Cardinality(DOMAIN s.ledger) >= Capacity
  THEN Break(s)
  ELSE LET whole == (s.current + bytes) % (SizeMax + 1)
           charged == s.offline_current + (IF offline THEN bytes ELSE 0)
       IN Peaks([s EXCEPT !.ledger = With(@, p, [bytes |-> bytes, offline |-> offline]),
                          !.current = whole, !.offline_current = charged],
                whole, IF offline THEN charged ELSE 0)

Add(s, p, bytes, offline) ==
  IF \/ p = Null \/ p \in DOMAIN s.ledger
     \/ Cardinality(DOMAIN s.ledger) >= Capacity \/ bytes > SizeMax - s.current
  THEN Break(s)
  ELSE LET charged == s.offline_current + (IF offline THEN bytes ELSE 0)
       IN Peaks([s EXCEPT !.ledger = With(@, p, [bytes |-> bytes, offline |-> offline]),
                          !.current = @ + bytes,
                          !.offline_current = charged],
                s.current + bytes, IF offline THEN charged ELSE 0)

Remove(s, p) ==
  IF p \notin DOMAIN s.ledger THEN s
  ELSE [s EXCEPT !.ledger = Without(@, p),
                 !.current = @ - s.ledger[p].bytes,
                 !.offline_current = @ - (IF s.ledger[p].offline THEN s.ledger[p].bytes ELSE 0)]

\* Record: the result of an allocation.
Record(s, p, bytes) ==
  IF (p = Null /\ bytes = 0) \/ ~ active THEN s ELSE Add(s, p, bytes, offline_active)

-----------------------------------------------------------------------------
(* Wrapped calls.                                                           *)

Idle == [op |-> "none", pointer |-> Null, bytes |-> 0, result |-> Null,
         owned |-> FALSE, offline |-> FALSE]

\* Mutant: the calls of different threads are not serialized.
EnterUnlocked(t) == call[t] = Idle /\ mutex' = t

Enter(t) == call[t] = Idle /\ mutex = Nobody /\ mutex' = t
Leave(t) == call' = [call EXCEPT ![t] = Idle] /\ mutex' = Nobody

\* A block that the program may pass to free or realloc.
Available(p) == p \in DOMAIN heap /\ \A t \in Thread : p \notin {call[t].pointer, call[t].result}

NewBlock(bytes) == [bytes |-> bytes, owned |-> active, offline |-> active /\ offline_active]

\* malloc, calloc, memalign, posix_memalign and aligned_alloc, which may fail;
\* a block of no bytes may be the null pointer.
Malloc(t, bytes) ==
  /\ Enter(t)
  /\ \E p \in (Address \ DOMAIN heap) \cup {Null} :
       /\ heap' = IF p = Null THEN heap ELSE With(heap, p, NewBlock(bytes))
       /\ call' = [call EXCEPT ![t] = [Idle EXCEPT !.op = "malloc", !.bytes = bytes,
                                                   !.result = p]]
  /\ RealSees(Bytes(Owned(heap')), Bytes(OfflineOwned(heap')))
  /\ UNCHANGED <<tracker, phase, ret>>

MallocReturns(t) ==
  /\ call[t].op = "malloc"
  /\ Becomes(Record(Tracker, call[t].result, call[t].bytes))
  /\ Leave(t)
  /\ UNCHANGED <<heap, phase, ret, ghosts>>

\* posix_memalign's status, and calloc's overflowing product, say that a call that
\* could be for no bytes failed.
MemalignFails(t) ==
  /\ Enter(t)
  /\ call' = [call EXCEPT ![t] = [Idle EXCEPT !.op = "memalign"]]
  /\ UNCHANGED <<heap, tracker, phase, ret, ghosts>>

MemalignReturns(t) ==
  /\ call[t].op = "memalign"
  /\ Becomes(IF active THEN Break(Tracker) ELSE Tracker)
  /\ Leave(t)
  /\ UNCHANGED <<heap, phase, ret, ghosts>>

\* free: the entry goes before the block.
Free(t, p) ==
  /\ Enter(t)
  /\ Available(p)
  /\ Becomes(Remove(Tracker, p))
  /\ call' = [call EXCEPT ![t] = [Idle EXCEPT !.op = "free", !.pointer = p]]
  /\ UNCHANGED <<heap, phase, ret, ghosts>>

FreeReturns(t) ==
  /\ call[t].op = "free"
  /\ heap' = Without(heap, call[t].pointer)
  /\ Leave(t)
  /\ UNCHANGED <<tracker, phase, ret, ghosts>>
\* realloc looks the block up and calls the real allocator, which moves the
\* block, leaves it in place, fails, or frees it when no bytes are asked for.
Realloc(t, p, bytes) ==
  LET owned == p \in DOMAIN ledger
      offline == offline_active \/ (owned /\ ledger[p].offline)
      block == [bytes |-> bytes, owned |-> active \/ heap[p].owned,
                offline |-> (active /\ offline_active) \/ (heap[p].owned /\ heap[p].offline)]
  IN
  /\ Enter(t)
  /\ Available(p)
  /\ \E q \in (Address \ DOMAIN heap) \cup {p, Null} :
       /\ heap' = IF q # Null THEN With(Without(heap, p), q, block)
                  ELSE IF bytes = 0 THEN Without(heap, p) ELSE heap
       /\ call' = [call EXCEPT ![t] = [op |-> "realloc", pointer |-> p, bytes |-> bytes,
                                       result |-> q, owned |-> owned, offline |-> offline]]
       /\ LET widest == IF q = Null THEN heap ELSE With(heap, q, block)
          IN RealSees(Bytes(Owned(widest)), Bytes(OfflineOwned(widest)))
  /\ UNCHANGED <<tracker, phase, ret>>

ReallocReturns(t) ==
  /\ call[t].op = "realloc"
  /\ LET c == call[t]
         seen == IF c.owned /\ c.result # c.pointer /\ active
                 THEN Observe(Tracker, c.bytes, c.offline) ELSE Tracker
         removed == IF c.owned THEN Remove(seen, c.pointer) ELSE seen
     IN Becomes(
          CASE c.result = Null /\ c.bytes = 0 -> Remove(Tracker, c.pointer)
            [] c.result = Null /\ c.bytes # 0 -> IF active THEN Break(Tracker) ELSE Tracker
            [] c.result # Null -> IF active \/ c.owned
                                  THEN Add(removed, c.result, c.bytes, c.offline)
                                  ELSE removed)
  /\ Leave(t)
  /\ UNCHANGED <<heap, phase, ret, ghosts>>

-----------------------------------------------------------------------------
(* The scope of an ECALL.  All of it is under tracker_mutex.                *)

Unmeasured == [status |-> "UNAVAILABLE", peak |-> 0]

Init ==
  /\ heap = << >> /\ ledger = << >>
  /\ current = 0 /\ peak = 0 /\ offline_current = 0 /\ offline_peak = 0 /\ online_peak = 0
  /\ active = FALSE /\ broken = FALSE /\ offline_active = FALSE /\ online_active = FALSE
  /\ mutex = Nobody
  /\ call = [t \in Thread |-> Idle]
  /\ ret = [whole |-> Unmeasured, control |-> Unmeasured, online |-> Unmeasured]
  /\ realPeak = 0 /\ realOffline = 0 /\ realOnline = 0

\* Scope's constructor and Begin.
Open ==
  /\ mutex = Nobody /\ ~ active
  /\ ret' = [whole |-> [status |-> "INVALID", peak |-> 0],
             control |-> Unmeasured, online |-> Unmeasured]
  /\ active' = TRUE
  /\ peak' = current /\ offline_peak' = 0 /\ online_peak' = 0
  /\ realPeak' = Bytes(Owned(heap)) /\ realOffline' = 0 /\ realOnline' = 0
  /\ UNCHANGED <<heap, ledger, current, offline_current, broken, offline_active,
                 online_active, mutex, call>>

\* A second scope is refused: it never measures anything, and it spoils the
\* first.  Fail does the same.
NestedOpenOrFail ==
  /\ mutex = Nobody /\ active
  /\ broken' = TRUE
  /\ UNCHANGED <<heap, ledger, current, peak, offline_current, offline_peak, online_peak,
                 phase, mutex, call, ret, ghosts>>

\* BeginOffline; called out of turn, it spoils the round.
BeginOffline ==
  /\ mutex = Nobody /\ active
  /\ ret' = [ret EXCEPT !.control.status = "INVALID"]
  /\ IF offline_active \/ online_active
     THEN broken' = TRUE /\ UNCHANGED <<offline_peak, offline_active, realOffline>>
     ELSE /\ offline_peak' = offline_current
          /\ offline_active' = TRUE
          /\ realOffline' = Bytes(OfflineOwned(heap))
          /\ UNCHANGED broken
  /\ UNCHANGED <<heap, ledger, current, peak, offline_current, online_peak, active,
                 online_active, mutex, call, realPeak, realOnline>>

EndOffline ==
  /\ mutex = Nobody /\ active
  /\ IF ~ offline_active
     THEN broken' = TRUE /\ UNCHANGED <<offline_active, ret>>
     ELSE /\ ret' = [ret EXCEPT !.control = [status |-> IF broken THEN "INVALID" ELSE "VALID",
                                             peak |-> offline_peak]]
          /\ offline_active' = FALSE
          /\ UNCHANGED broken
  /\ UNCHANGED <<heap, ledger, current, peak, offline_current, offline_peak, online_peak,
                 active, online_active, mutex, call, ghosts>>

BeginOnline ==
  /\ mutex = Nobody /\ active
  /\ ret' = [ret EXCEPT !.online.status = "INVALID"]
  /\ IF offline_active \/ online_active
     THEN broken' = TRUE /\ UNCHANGED <<online_peak, online_active, realOnline>>
     ELSE /\ online_peak' = current
          /\ online_active' = TRUE
          /\ realOnline' = Bytes(Owned(heap))
          /\ UNCHANGED broken
  /\ UNCHANGED <<heap, ledger, current, peak, offline_current, offline_peak, active,
                 offline_active, mutex, call, realPeak, realOffline>>

EndOnline ==
  /\ mutex = Nobody /\ active
  /\ IF ~ online_active
     THEN broken' = TRUE /\ UNCHANGED <<online_active, ret>>
     ELSE /\ ret' = [ret EXCEPT !.online = [status |-> IF broken THEN "INVALID" ELSE "VALID",
                                            peak |-> online_peak]]
          /\ online_active' = FALSE
          /\ UNCHANGED broken
  /\ UNCHANGED <<heap, ledger, current, peak, offline_current, offline_peak, online_peak,
                 active, offline_active, mutex, call, ghosts>>

Demoted(m) == IF m.status = "UNAVAILABLE" THEN m ELSE [m EXCEPT !.status = "INVALID"]

\* Scope's destructor and Finish; the scope may be left by an exception, in
\* any phase.
Close(completed) ==
  /\ mutex = Nobody /\ active
  /\ LET valid == completed /\ ~ broken /\ ~ offline_active /\ ~ online_active
     IN ret' = [whole |-> [status |-> IF valid THEN "VALID" ELSE "INVALID", peak |-> peak],
                control |-> IF valid THEN ret.control ELSE Demoted(ret.control),
                online |-> IF valid THEN ret.online ELSE Demoted(ret.online)]
  /\ active' = FALSE /\ offline_active' = FALSE /\ online_active' = FALSE
  /\ UNCHANGED <<heap, tracker, mutex, call, ghosts>>

-----------------------------------------------------------------------------

Calls(t) ==
  \/ \E bytes \in Size :
       \/ Malloc(t, bytes)
       \/ \E p \in DOMAIN heap : Realloc(t, p, bytes)
  \/ \E p \in DOMAIN heap : Free(t, p)
  \/ MemalignFails(t)

Returns(t) == MallocReturns(t) \/ MemalignReturns(t) \/ FreeReturns(t) \/ ReallocReturns(t)

ScopeSteps ==
  \/ Open \/ NestedOpenOrFail
  \/ BeginOffline \/ EndOffline \/ BeginOnline \/ EndOnline
  \/ \E completed \in BOOLEAN : Close(completed)

Next == ScopeSteps \/ \E t \in Thread : Calls(t) \/ Returns(t)

Spec == Init /\ [][Next]_vars

-----------------------------------------------------------------------------
(* Properties.                                                              *)

Blocks(fields) == UNION {[P -> fields] : P \in SUBSET Address}
Measure == [status : {"UNAVAILABLE", "INVALID", "VALID"}, peak : Nat]

\* Type invariant.
TypeOK ==
  /\ heap \in Blocks([bytes : Size, owned : BOOLEAN, offline : BOOLEAN])
  /\ ledger \in Blocks([bytes : Size, offline : BOOLEAN])
  /\ {current, peak, offline_current, offline_peak, online_peak} \subseteq 0 .. SizeMax
  /\ {active, broken, offline_active, online_active} \subseteq BOOLEAN
  /\ mutex \in Thread \cup {Nobody}
  /\ call \in [Thread -> [op : {"none", "malloc", "memalign", "free", "realloc"},
                          pointer : Address \cup {Null}, bytes : Size,
                          result : Address \cup {Null}, owned : BOOLEAN, offline : BOOLEAN]]
  /\ ret \in [whole : Measure, control : Measure, online : Measure]
  /\ {realPeak, realOffline, realOnline} \subseteq Nat

\* While no wrapped call is under way and the ledger is not marked broken, it
\* lists exactly the blocks that scopes have been charged for and that still
\* live, across rounds, and the running totals are their sums
\* (MemoryProfile.cpp:99 and 184).
LedgerExact ==
  (~ broken /\ \A t \in Thread : call[t] = Idle) =>
    /\ DOMAIN ledger = DOMAIN Owned(heap)
    /\ \A p \in DOMAIN ledger :
         ledger[p] = [bytes |-> heap[p].bytes, offline |-> heap[p].offline]
    /\ current = Bytes(Owned(heap))
    /\ offline_current = Bytes(OfflineOwned(heap))

\* No underestimated peak is ever presented as a valid measurement
\* (MemoryProfile.cpp:57): what is reported as VALID is what the heap really
\* held at most, of the whole round and of either phase, the moment at which a
\* moving realloc holds two blocks included.  After a round, a phase is valid only
\* if the round is: an exception, a failed allocation or a nested scope after the
\* end of a phase takes its verdict back.
ValidMeansExact ==
  /\ ret.whole.status = "VALID" => ret.whole.peak = realPeak
  /\ ret.control.status = "VALID" => ret.control.peak = realOffline
  /\ ret.online.status = "VALID" => ret.online.peak = realOnline
  /\ ~ active /\ ret.whole.status # "VALID" => "VALID" \notin {ret.control.status, ret.online.status}

=============================================================================
