------------------------------- MODULE Fifo -------------------------------
(***************************************************************************)
(* What one queue of the MCTOP work queue promises to the threads that     *)
(* share it: a linearizable FIFO.  A thread calls an operation, the        *)
(* operation takes effect in one instant between its call and its return   *)
(* (its commit), and the return hands the result over.  A dequeue may      *)
(* answer "empty" (NULL) only if it commits when the queue is empty.       *)
(*                                                                         *)
(* The module describes a promise, not code; NodeQueue is the code and     *)
(* implements it.                                                          *)
(***************************************************************************)
EXTENDS Sequences

CONSTANTS Threads,  \* the threads that share the queue
          Items,    \* the data pointers a caller may enqueue
          NULL      \* the NULL pointer: not an item

VARIABLES queue,    \* the items in the queue, oldest first
          op,       \* where each thread is in its current operation
          val       \* the argument of a pending enqueue, the result of a
                    \* dequeue that took effect, NULL otherwise

vars == <<queue, op, val>>

Init ==
  /\ queue = <<>>
  /\ op = [t \in Threads |-> "idle"]
  /\ val = [t \in Threads |-> NULL]

CallEnqueue(t, x) ==
  /\ op[t] = "idle"
  /\ op' = [op EXCEPT ![t] = "enqueue"]
  /\ val' = [val EXCEPT ![t] = x]
  /\ UNCHANGED queue

CommitEnqueue(t) ==
  /\ op[t] = "enqueue"
  /\ queue' = Append(queue, val[t])
  /\ op' = [op EXCEPT ![t] = "done"]
  /\ val' = [val EXCEPT ![t] = NULL]

CallDequeue(t) ==
  /\ op[t] = "idle"
  /\ op' = [op EXCEPT ![t] = "dequeue"]
  /\ UNCHANGED <<queue, val>>

CommitDequeue(t) ==
  /\ op[t] = "dequeue"
  /\ queue # <<>>
  /\ queue' = Tail(queue)
  /\ op' = [op EXCEPT ![t] = "done"]
  /\ val' = [val EXCEPT ![t] = Head(queue)]

CommitEmpty(t) ==
  /\ op[t] = "dequeue"
  /\ queue = <<>>
  /\ op' = [op EXCEPT ![t] = "done"]
  /\ UNCHANGED <<queue, val>>

Return(t) ==
  /\ op[t] = "done"
  /\ op' = [op EXCEPT ![t] = "idle"]
  /\ val' = [val EXCEPT ![t] = NULL]
  /\ UNCHANGED queue

Next ==
  \E t \in Threads :
    \/ \E x \in Items : CallEnqueue(t, x)
    \/ CommitEnqueue(t)
    \/ CallDequeue(t)
    \/ CommitDequeue(t)
    \/ CommitEmpty(t)
    \/ Return(t)

Spec == Init /\ [][Next]_vars
=============================================================================
