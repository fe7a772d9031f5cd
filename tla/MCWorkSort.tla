----------------------------- MODULE MCWorkSort -----------------------------
(***************************************************************************)
(* A small instance of the sort for TLC, with what comes before it: main   *)
(* has mctop_wq_create fill the steal lists, then it starts the threads.   *)
(* The threads are numbers, so that they spread over the queues.           *)
(***************************************************************************)
EXTENDS WorkSort, StealOrder

MCLocal == [t \in Threads |-> t % NQ]

(* next_q of a ring of sockets: the nearer neighbours first, itself last. *)
MCNextQ == [q \in 0..NQ - 1 |-> [k \in 1..NQ |-> (q + k) % NQ]]

(* Every list is made, but only one leads on to the sort, whose own are in   *)
(* NextQ; with the others the first queue has all pages.                     *)
Chosen == self = 0 /\ \A k \in Index : arr[k] = (IF k = 0 THEN 0 ELSE 1)
Created == i = n /\ Chosen

MCInit ==
  /\ StealInit
  /\ Init
  /\ Chosen \/ Len(queue[0]) = Cardinality(Chunks)

MCNext ==
  \/ StealNext /\ UNCHANGED vars
  \/ Created /\ Next /\ UNCHANGED stealVars

(* The threads are scheduled fairly. *)
MCSpec ==
  /\ MCInit
  /\ [][MCNext]_<<vars, stealVars>>
  /\ \A t \in Threads :
       WF_<<vars, stealVars>>(Created /\ Step(t) /\ UNCHANGED stealVars)
=============================================================================
