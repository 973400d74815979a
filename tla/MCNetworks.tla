----------------------------- MODULE MCNetworks -----------------------------
(***************************************************************************)
(* The oblivious networks, for TLC: TightCompact with its threads, the     *)
(* order-preserving OP_TightCompact, RecursiveShuffle with its threads,    *)
(* which is made of either, or the fork-routing network with its tape, or  *)
(* the packed array that such a tape is kept in.                           *)
(***************************************************************************)
EXTENDS RecursiveShuffle, OrderCompact, OFRPostOrder, PackedControls

VARIABLE
  network     \* which it is

of_routing == <<routing_vars, layout_vars>>

NoOrdered == LS_distance = << >> /\ level = 0 /\ fop_index = 0
NoShuffle == method = "" /\ outcome = "" /\ pool = FALSE /\ stacks = << >> /\ drawn = {}
NoRouting ==
  /\ n = 0 /\ n_left = 0 /\ wanted = << >> /\ tags = << >> /\ rows = << >>
  /\ controls = << >> /\ data = << >> /\ position = 0 /\ stack = << >> /\ stage = ""
  /\ order = "" /\ words = 0 /\ stride = 0 /\ residue = 0
NoPacked ==
  /\ count_ = 0 /\ bytes_ = << >> /\ contents = << >> /\ cursor = << >>
  /\ misread = FALSE /\ changes = 0
NoTree == tree = {} /\ done = {}

NetworksInit ==
  \/ network = "compact" /\ Init /\ NoOrdered /\ NoShuffle /\ NoRouting /\ NoPacked
  \/ network = "ordered" /\ OrderInit /\ NoShuffle /\ NoRouting /\ NoPacked
  \/ network = "shuffle" /\ ShuffleInit /\ NoOrdered /\ NoRouting /\ NoPacked
  \/ /\ network = "routing" /\ PostInit
     /\ threads = 1 /\ selected = {} /\ buf = << >> /\ NoTree /\ NoOrdered /\ NoShuffle
     /\ NoPacked
  \/ /\ network = "packed" /\ ArrayInit
     /\ threads = 1 /\ selected = {} /\ buf = << >> /\ NoTree /\ NoOrdered /\ NoShuffle /\ NoRouting

\* All but the routing may stop.
NetworksNext ==
  /\ UNCHANGED network
  /\ \/ network = "compact" /\ Next /\ UNCHANGED <<order_own, shuffle_own, of_routing, array_vars>>
     \/ network = "ordered" /\ OrderNext
          /\ UNCHANGED <<shuffle_own, of_routing, array_vars>>
     \/ network = "shuffle" /\ ShuffleNext
          /\ UNCHANGED <<order_own, of_routing, array_vars>>
     \/ network = "routing" /\ PostNext
          /\ UNCHANGED <<vars, order_own, shuffle_own, array_vars>>
     \/ network = "packed" /\ ArrayNext
          /\ UNCHANGED <<vars, order_own, shuffle_own, of_routing>>
     \/ network # "routing" /\ UNCHANGED <<vars, order_own, shuffle_own, of_routing, array_vars>>

NetworksSpec ==
  NetworksInit
    /\ [][NetworksNext]_<<network, vars, order_own, shuffle_own, of_routing, array_vars>>

=============================================================================
