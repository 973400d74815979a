----------------------------- MODULE RandomPool -----------------------------
(***************************************************************************)
(* Where the random numbers come from (PRB_pool in utils).  Every thread   *)
(* has a PRB_buffer in the pool that an ECALL opens: a stretch of the key  *)
(* stream of AES-CTR, which is handed out from its start and replaced by   *)
(* the next one when a request cannot be served from what is left.  A      *)
(* marking loop fetches its coins in batches, a coin of the shuffle is one *)
(* of the bits of a thread-local word, which outlives the pool, and        *)
(* encryptBuffer fetches an initialization vector for every block.         *)
(*                                                                         *)
(* A piece of the stream is named by its place in it; it is as long as a   *)
(* coin.  Requests of different threads interleave.                        *)
(***************************************************************************)
EXTENDS Integers, FiniteSets, FiniteSetsExt

CONSTANTS
  MaxThreads,   \* bound: the threads
  BufferSize,   \* PRB_BUFFER_SIZE
  MaxCoins,     \* kMaxCoins and RS_MARKHALF_MAX_COINS
  VectorSize,   \* SGX_AESGCM_IV_SIZE
  Bits,         \* the bits of PRB_rand_bits, which is one piece here
  MaxPools,     \* bound: the pools opened, one after the other
  MaxFills      \* bound: the stretches that a buffer has held

\* A request comes to at most a stretch.
ASSUME PoolAssumption ==
  /\ MaxThreads \in Nat \ {0} /\ MaxPools \in Nat /\ MaxFills \in Nat \ {0}
  /\ BufferSize \in Nat \ {0} /\ Bits \in Nat \ {0}
  /\ MaxCoins \in 1 .. BufferSize /\ VectorSize \in 1 .. BufferSize

VARIABLES
  pools,      \* the pools opened so far
  nthreads,   \* the buffers of the pool that is open, or 0
  started,    \* whether a thread pool runs beside it
  buffers,    \* PRB_pool: stretches held so far, random_bytes_ptr and random_bytes_left
  request,    \* of every thread: purpose, size and the pieces copied, or size 0
  coinsleft,  \* of its marking loop
  PRB_rand_bits_remaining,
  reach,      \* ghost: every buffer's stream has been handed out up to here
  reused,     \* ghost: a piece was handed out twice, or was none of the stream
  failed      \* the library could not encrypt

pool_vars == <<pools, nthreads, started, buffers, request, coinsleft,
               PRB_rand_bits_remaining, reach, reused, failed>>

Threads == 0 .. MaxThreads - 1
Idle == [purpose |-> "none", size |-> 0, pieces |-> {}]
Empty == [fills |-> 0, ptr |-> 0, left |-> 0]

\* A thread that draws: the first one, and the others once they run.
Drawing(t) == nthreads > 0 /\ (t = 0 \/ (started /\ t < nthreads))

\* Mutant: every thread draws from the first buffer.
BufferFirst(t) == 0

\* PRB_pool[g_thread_id]
Buffer(t) == t

-----------------------------------------------------------------------------
(* The buffers.                                                             *)

\* random_bytes filled anew, by init_PRB_buffer or in getRandomBytes.
Filled(b) == [fills |-> b.fills + 1, ptr |-> 0, left |-> BufferSize]

\* The pieces that are copied from count places on, beginning with the ptr-th.
Pieces(b, count) == {(b.fills - 1) * BufferSize + b.ptr + x : x \in 0 .. count - 1}

\* Some pieces of the buffer's stream are handed out.
HandsOut(b, pieces, size) ==
  /\ reused' = (\/ reused
                \/ Cardinality(pieces) # size
                \/ \E p \in pieces : p < reach[b])
  /\ reach' = [reach EXCEPT ![b] = Max(pieces \cup {@ - 1}) + 1]

\* getRandomBytes up to its memcpy, which may come to all that is left.
Copy(t, purpose, size) ==
  /\ Drawing(t) /\ request[t] = Idle /\ ~ failed
  /\ LET held == buffers[Buffer(t)]
         b == IF held = Empty THEN Filled(held) ELSE held
     IN /\ size >= b.left => b.fills < MaxFills
        /\ buffers' = [buffers EXCEPT ![Buffer(t)] = b]
        /\ request' = [request EXCEPT
             ![t] = [purpose |-> purpose, size |-> size,
                     pieces |-> Pieces(b, Min({size, b.left}))]]
  /\ UNCHANGED <<pools, nthreads, started, coinsleft, PRB_rand_bits_remaining, reach, reused,
                 failed>>

\* The buffer once the request is served.
After(b, size) ==
  IF size < b.left THEN [b EXCEPT !.ptr = @ + size, !.left = @ - size]
  ELSE LET rest == size - b.left
       IN [Filled(b) EXCEPT !.ptr = rest, !.left = BufferSize - rest]

\* The rest of it, with the next stretch if what was left does not suffice.
Advance(t) ==
  /\ request[t] # Idle
  /\ LET b == buffers[Buffer(t)]
         size == request[t].size
         rest == IF size < b.left THEN {} ELSE Pieces(Filled(b), size - b.left)
     IN /\ buffers' = [buffers EXCEPT ![Buffer(t)] = After(b, size)]
        /\ HandsOut(Buffer(t), request[t].pieces \cup rest, size)
  /\ request' = [request EXCEPT ![t] = Idle]
  /\ coinsleft' = (IF request[t].purpose = "coins"
                   THEN [coinsleft EXCEPT ![t] = request[t].size] ELSE coinsleft)
  /\ PRB_rand_bits_remaining' =
       (IF request[t].purpose = "bits"
        THEN [PRB_rand_bits_remaining EXCEPT ![t] = Bits - 1] ELSE PRB_rand_bits_remaining)
  /\ UNCHANGED <<pools, nthreads, started, failed>>

\* The library fails to encrypt, which no caller looks at; what the pool does then
\* is not followed.
EncryptFails(t) ==
  /\ request[t].size >= buffers[Buffer(t)].left /\ request[t] # Idle
  /\ failed' = TRUE
  /\ request' = [request EXCEPT ![t] = Idle]
  /\ UNCHANGED <<pools, nthreads, started, buffers, coinsleft, PRB_rand_bits_remaining, reach,
                 reused>>

-----------------------------------------------------------------------------
(* Those who draw.                                                          *)

\* A marking loop without coins fetches as many as it may need.
FetchCoins(t) ==
  coinsleft[t] = 0 /\ \E size \in 1 .. MaxCoins : Copy(t, "coins", size)

\* It takes one, or ends.
Coin(t) ==
  /\ request[t] = Idle /\ coinsleft[t] > 0
  /\ \E left \in {0, coinsleft[t] - 1} : coinsleft' = [coinsleft EXCEPT ![t] = left]
  /\ UNCHANGED <<pools, nthreads, started, buffers, request, PRB_rand_bits_remaining, reach,
                 reused, failed>>

\* getRandomBit
RandomBit(t) ==
  /\ coinsleft[t] = 0
  /\ \/ PRB_rand_bits_remaining[t] = 0 /\ Copy(t, "bits", 1)
     \/ /\ Drawing(t) /\ request[t] = Idle /\ PRB_rand_bits_remaining[t] > 0
        /\ PRB_rand_bits_remaining' = [PRB_rand_bits_remaining EXCEPT ![t] = @ - 1]
        /\ UNCHANGED <<pools, nthreads, started, buffers, request, coinsleft, reach, reused, failed>>

\* encryptBuffer, for one block; only the first thread encrypts.
Vector == coinsleft[0] = 0 /\ Copy(0, "vector", VectorSize)

-----------------------------------------------------------------------------
(* The pool.                                                                *)

PoolInit ==
  /\ pools = 0 /\ nthreads = 0
  /\ started = FALSE
  /\ buffers = [t \in Threads |-> Empty]
  /\ request = [t \in Threads |-> Idle]
  /\ coinsleft = [t \in Threads |-> 0]
  /\ PRB_rand_bits_remaining = [t \in Threads |-> 0]
  /\ reach = [t \in Threads |-> 0]
  /\ reused = FALSE /\ failed = FALSE

\* Its buffers have keys, and so streams, of their own.
PRB_pool_init(count) ==
  /\ nthreads = 0 /\ pools < MaxPools
  /\ pools' = pools + 1
  /\ nthreads' = count
  /\ buffers' = [t \in Threads |-> Empty]
  /\ reach' = [t \in Threads |-> 0]
  /\ UNCHANGED <<started, request, coinsleft, PRB_rand_bits_remaining, reused, failed>>

\* threadpool_init and the loops of the workers forget the bits of their threads.
threadpool_init ==
  /\ nthreads > 1 /\ ~ started /\ request[0] = Idle /\ coinsleft[0] = 0
  /\ started' = TRUE
  /\ PRB_rand_bits_remaining' = [t \in Threads |-> IF t < nthreads THEN 0 ELSE PRB_rand_bits_remaining[t]]
  /\ UNCHANGED <<pools, nthreads, buffers, request, coinsleft, reach, reused, failed>>

\* The workers have been joined; what is left of the buffers is not used.
PRB_pool_shutdown ==
  /\ nthreads > 0
  /\ \A t \in Threads : request[t] = Idle /\ coinsleft[t] = 0
  /\ nthreads' = 0
  /\ started' = FALSE
  /\ buffers' = [t \in Threads |-> Empty]
  /\ reach' = [t \in Threads |-> 0]
  /\ UNCHANGED <<pools, request, coinsleft, PRB_rand_bits_remaining, reused, failed>>

PoolNext ==
  \/ \E count \in 1 .. MaxThreads : PRB_pool_init(count)
  \/ threadpool_init \/ PRB_pool_shutdown \/ Vector
  \/ \E t \in Threads : FetchCoins(t) \/ Coin(t) \/ RandomBit(t) \/ Advance(t) \/ EncryptFails(t)

PoolSpec == PoolInit /\ [][PoolNext]_pool_vars

-----------------------------------------------------------------------------
(* Properties.                                                              *)

\* Type invariant.
PoolTypeOK ==
  /\ pools \in 0 .. MaxPools /\ nthreads \in 0 .. MaxThreads
  /\ started \in BOOLEAN /\ reused \in BOOLEAN /\ failed \in BOOLEAN
  /\ buffers \in [Threads -> [fills : 0 .. MaxFills, ptr : 0 .. BufferSize, left : 0 .. BufferSize]]
  /\ coinsleft \in [Threads -> 0 .. MaxCoins]
  /\ PRB_rand_bits_remaining \in [Threads -> 0 .. Bits - 1]
  /\ reach \in [Threads -> 0 .. MaxFills * BufferSize]

\* Whatever is drawn, by whichever threads at the same time and across the end of
\* a stretch, no piece of key stream comes to be two random numbers, and none is
\* taken from beyond it (utils.cpp:494-530, utils.hpp:152-173).
StreamUsedOnce == ~ reused

=============================================================================
