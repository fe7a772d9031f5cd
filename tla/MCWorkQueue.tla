---------------------------- MODULE MCWorkQueue ----------------------------
(***************************************************************************)
(* Small instances of WorkQueue for TLC.                                   *)
(***************************************************************************)
EXTENDS WorkQueue, FiniteSets, TLC

(* The n-th of a set of threads in some order: spreads them over the queues. *)
MCLocal ==
  LET f == CHOOSE f \in [Threads -> 1..Cardinality(Threads)] :
             \A t, u \in Threads : t # u => f[t] # f[u]
  IN [t \in Threads |-> f[t] % NQ]

(* next_q of a ring of sockets: the nearer neighbours first, itself last. *)
MCNextQ == [q \in Queues |-> [i \in 1..NQ |-> (q + i) % NQ]]

(* Items are interchangeable. *)
Symmetry == Permutations(Items)
=============================================================================
