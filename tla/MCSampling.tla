------------------------------ MODULE MCSampling -----------------------------
(***************************************************************************)
(* The serial samplers, for TLC: the marking of records by itself, or,     *)
(* from every marking on, the two passes of FFOS_C, FFOS_C_Opt or FFOS_FR, *)
(* or one of the samplers that came before them; or one of the baselines;  *)
(* or the pool that the coins come from.                                   *)
(***************************************************************************)
EXTENDS Mark, Baselines, RandomPool

CONSTANTS MaxSamples, Samplers, MinSamples

VARIABLES sampler, member, phase, calls, mem, tape, position, ofr, ofr_position,
          tree, forks, written, marks, flags, lacking

shared == <<sampler, dims, member, phase, calls, mem, tape, position, samples, written>>
own_passes == <<ofr, ofr_position, tree, forks>>
own_legacy == <<marks, flags, lacking>>
own_baselines == <<baseline, pc, buffer, keys, j, e, e_next, copies, drawn>>

Passes == INSTANCE FfosSerial
Legacy == INSTANCE LegacySampling

Marking == phase = "mark"
NoMarking == n = 0 /\ m = 0 /\ rule = "" /\ i = 0 /\ left = 0 /\ marked = {} /\ weight = 1
NoPasses == ofr = << >> /\ ofr_position = 0 /\ tree = << >> /\ forks = 0
NoLegacy == marks = << >> /\ flags = << >> /\ lacking = FALSE
NoSampler ==
  /\ sampler = "" /\ member = << >> /\ calls = << >> /\ mem = << >> /\ tape = << >>
  /\ position = 0 /\ written = 0
NoBaseline ==
  /\ baseline = "" /\ pc = "" /\ buffer = << >> /\ keys = << >> /\ j = 0 /\ e = 0 /\ e_next = 0
  /\ copies = << >> /\ drawn = << >>

NoPool ==
  /\ pools = 0 /\ nthreads = 0 /\ started = FALSE /\ buffers = << >> /\ request = << >>
  /\ coinsleft = << >> /\ PRB_rand_bits_remaining = << >> /\ reach = << >>
  /\ reused = FALSE /\ failed = FALSE

SamplingInit ==
  \/ /\ phase = "mark" /\ Init /\ NoPool
     /\ NoSampler /\ NoPasses /\ NoLegacy /\ NoBaseline /\ dims = << >> /\ samples = << >>
  \/ /\ phase = "coins" /\ PoolInit /\ NoMarking
     /\ NoSampler /\ NoPasses /\ NoLegacy /\ NoBaseline /\ dims = << >> /\ samples = << >>
  \/ Passes!Init /\ NoMarking /\ NoLegacy /\ NoBaseline /\ NoPool
  \/ Legacy!Init /\ NoMarking /\ NoPasses /\ NoBaseline /\ NoPool
  \/ phase = "baseline" /\ BaselineInit /\ NoMarking /\ NoSampler /\ NoPasses /\ NoLegacy /\ NoPool

SamplingNext ==
  \/ Marking /\ Next /\ UNCHANGED <<shared, own_passes, own_legacy, own_baselines, pool_vars>>
  \/ phase = "coins" /\ PoolNext
       /\ UNCHANGED <<vars, shared, own_passes, own_legacy, own_baselines>>
  \/ sampler \notin Samplers \cup {""} /\ Passes!Next
       /\ UNCHANGED <<vars, own_legacy, own_baselines, pool_vars>>
  \/ sampler \in Samplers /\ Legacy!Next /\ UNCHANGED <<vars, own_passes, own_baselines, pool_vars>>
  \/ phase = "baseline" /\ BaselineNext
       /\ UNCHANGED <<vars, sampler, member, phase, calls, mem, tape, position, written,
                      own_passes, own_legacy, pool_vars>>

SamplingSpec ==
  SamplingInit
    /\ [][SamplingNext]_<<vars, shared, own_passes, own_legacy, own_baselines, pool_vars>>

\* Once a sampler has returned, every sample's slice of the output has exactly the
\* records that were marked for it: those of SubSample_v2 (FFOS_C.cpp:238-276,
\* FFOS_C_Opt.cpp:279-352 and FFOS_FR.cpp:620-908), and those before them where no
\* two depths meet in a workspace (SubSample.cpp:51-54, 541-678, 751-816, 837-908).
SerialDelivered ==
  /\ sampler \in {"FFOS_C", "FFOS_C_Opt", "FFOS_FR"} => Passes!SerialDelivered
  /\ sampler \in Samplers => Legacy!LegacyDelivered

=============================================================================
