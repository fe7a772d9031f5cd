--------------------------- MODULE MCNodeQueue ---------------------------
(***************************************************************************)
(* A small instance of NodeQueue for TLC: three threads share one queue,   *)
(* and memory for one node in the queue and one per thread comes and goes. *)
(***************************************************************************)
EXTENDS NodeQueue, TLC

(* Threads are interchangeable, so are items, and so are the nodes but Dummy. *)
Symmetry ==
  Permutations(Threads) \cup Permutations(Items)
    \cup Permutations(Nodes \ {Dummy})

=============================================================================
