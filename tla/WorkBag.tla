------------------------------- MODULE WorkBag -------------------------------
(***************************************************************************)
(* What the MCTOP work queue promises to its clients: one FIFO per socket  *)
(* of the allocator, an enqueue that is atomic, a dequeue that visits a    *)
(* list of queues one after the other and takes the oldest item of the     *)
(* first one it finds non-empty (each visit is atomic, the whole dequeue   *)
(* is not), and a size that is that of all queues in one instant.          *)
(* WorkQueue is the code, with its locks, and implements this module.      *)
(*                                                                         *)
(* The client is the most general one that owns what it enqueues: a        *)
(* thread passes on a data pointer it has in hand and owns the pointers    *)
(* that its dequeues return.                                               *)
(***************************************************************************)
EXTENDS Naturals, Sequences

CONSTANTS Threads,
          NQ,      \* wq->n_queues: one queue per socket of the allocator
          Items,   \* the data pointers
          NULL,
          Local,   \* mctop_alloc_thread_node_id() of each thread
          NextQ    \* queue->next_q of each queue, as a sequence

Queues == 0..NQ - 1

VARIABLES queue,  \* the items of each queue, oldest first
          pc,     \* where each thread is
          todo,   \* the queues the operation of a thread has still to visit
          val,    \* the item a thread enqueues or has dequeued
          seen,   \* the sizes a thread's mctop_wq_get_size_atomic adds up
          hand    \* the items each thread owns

vars == <<queue, pc, todo, val, seen, hand>>

Unseen == [q \in Queues |-> 0]

Init ==
  /\ queue = [q \in Queues |-> <<>>]
  /\ pc = [t \in Threads |-> "idle"]
  /\ todo = [t \in Threads |-> <<>>]
  /\ val = [t \in Threads |-> NULL]
  /\ seen = [t \in Threads |-> Unseen]
  /\ hand \in [Threads -> SUBSET Items]
  /\ \A t, u \in Threads : t # u => hand[t] \cap hand[u] = {}

Goto(t, from, to) ==
  /\ pc[t] = from
  /\ pc' = [pc EXCEPT ![t] = to]

Here(t) == Head(todo[t])

CallEnqueue(t, q, x) ==
  /\ Goto(t, "idle", "put")
  /\ x \in hand[t]
  /\ todo' = [todo EXCEPT ![t] = <<q>>]
  /\ val' = [val EXCEPT ![t] = x]
  /\ hand' = [hand EXCEPT ![t] = @ \ {x}]
  /\ UNCHANGED <<queue, seen>>

Put(t) ==
  /\ Goto(t, "put", "done")
  /\ queue' = [queue EXCEPT ![Here(t)] = Append(@, val[t])]
  /\ val' = [val EXCEPT ![t] = NULL]
  /\ UNCHANGED <<todo, seen, hand>>

CallDequeue(t, visits) ==
  /\ Goto(t, "idle", "take")
  /\ todo' = [todo EXCEPT ![t] = visits]
  /\ UNCHANGED <<queue, val, seen, hand>>

Take(t) ==
  /\ Goto(t, "take", "done")
  /\ queue[Here(t)] # <<>>
  /\ val' = [val EXCEPT ![t] = Head(queue[Here(t)])]
  /\ queue' = [queue EXCEPT ![Here(t)] = Tail(@)]
  /\ UNCHANGED <<todo, seen, hand>>

(* The visited queue is empty: go on with the next one, or answer NULL. *)
Skip(t) ==
  /\ pc[t] = "take"
  /\ queue[Here(t)] = <<>>
  /\ \/ Len(todo[t]) > 1 /\ Goto(t, "take", "take")
     \/ Len(todo[t]) = 1 /\ Goto(t, "take", "done")
  /\ todo' = [todo EXCEPT ![t] = Tail(@)]
  /\ UNCHANGED <<queue, val, seen, hand>>

CallSize(t) ==
  /\ Goto(t, "idle", "size")
  /\ UNCHANGED <<queue, todo, val, seen, hand>>

Snapshot(t) ==
  /\ Goto(t, "size", "done")
  /\ seen' = [seen EXCEPT ![t] = [q \in Queues |-> Len(queue[q])]]
  /\ UNCHANGED <<queue, todo, val, hand>>

Return(t) ==
  /\ Goto(t, "done", "idle")
  /\ hand' = [hand EXCEPT ![t] = IF val[t] = NULL THEN @ ELSE @ \cup {val[t]}]
  /\ todo' = [todo EXCEPT ![t] = <<>>]
  /\ val' = [val EXCEPT ![t] = NULL]
  /\ seen' = [seen EXCEPT ![t] = Unseen]
  /\ UNCHANGED queue

(* The lists of queues the three dequeue functions visit. *)
VisitsOf(t) == {<<Local[t]>>, NextQ[Local[t]], <<Local[t]>> \o NextQ[Local[t]]}

Next ==
  \E t \in Threads :
    \/ \E q \in Queues, x \in Items : CallEnqueue(t, q, x)
    \/ Put(t)
    \/ \E visits \in VisitsOf(t) : CallDequeue(t, visits)
    \/ Take(t)
    \/ Skip(t)
    \/ CallSize(t)
    \/ Snapshot(t)
    \/ Return(t)

Spec == Init /\ [][Next]_vars
=============================================================================
