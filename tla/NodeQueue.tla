---------------------------- MODULE NodeQueue ----------------------------
(***************************************************************************)
(* One queue of the MCTOP work queue at the level of its pointers          *)
(* (mctop_wq.c, mctop_queue_enqueue and mctop_queue_dequeue): a singly     *)
(* linked list with a dummy node in front, a spin lock, and a size field   *)
(* that a dequeue first reads without the lock.                            *)
(*                                                                         *)
(* Every access to shared memory is a step of its own, but for accesses    *)
(* to memory that only the stepping thread can reach (a node between       *)
(* malloc and its linking).  Memory is a fixed set of Nodes: malloc        *)
(* returns any node that is not live, free makes a node available again,   *)
(* so that the address of a freed node comes back in a later enqueue.      *)
(* The lock spins: a failed compare-and-swap changes nothing, so waiting   *)
(* for the lock is being disabled.                                         *)
(***************************************************************************)
EXTENDS Naturals, Sequences, FiniteSets

CONSTANTS Threads,  \* the threads that share the queue
          Items,    \* the data pointers a caller may enqueue
          Nodes,    \* the memory: addresses malloc can return for a node
          Dummy,    \* the node mctop_queue_create_on_seq allocates
          NULL,     \* the NULL pointer
          Garbage   \* the content of memory nobody wrote since malloc

ASSUME NodeQueueAssumption ==
  /\ Dummy \in Nodes
  /\ NULL \notin Items \cup Nodes
  /\ Garbage \notin Items \cup Nodes

VARIABLES
  lock,     \* qu->lock
  size,     \* qu->size
  head,     \* qu->head
  tail,     \* qu->tail
  next,     \* node->next of every node
  data,     \* node->data of every node
  live,     \* the nodes malloc returned and nobody freed
  pc,       \* the next access each thread makes
  node,     \* the local variable node (of either function)
  headNew,  \* the local variable head_new of the dequeue
  val,      \* the parameter data of the enqueue, the local data of the dequeue
  chain     \* history: the nodes from the dummy to the last one whose
            \* enqueue took effect; no guard reads it

vars == <<lock, size, head, tail, next, data, live, pc, node, headNew, val,
          chain>>
shared == <<lock, size, head, tail, next, data, live, chain>>

Init ==
  /\ lock = 0
  /\ size = 0
  /\ head = Dummy
  /\ tail = Dummy
  /\ next = [n \in Nodes |-> IF n = Dummy THEN NULL ELSE Garbage]
  /\ data = [n \in Nodes |-> IF n = Dummy THEN NULL ELSE Garbage]
  /\ live = {Dummy}
  /\ pc = [t \in Threads |-> "idle"]
  /\ node = [t \in Threads |-> NULL]
  /\ headNew = [t \in Threads |-> NULL]
  /\ val = [t \in Threads |-> NULL]
  /\ chain = <<Dummy>>

Goto(t, from, to) ==
  /\ pc[t] = from
  /\ pc' = [pc EXCEPT ![t] = to]

(* What a read through pointer n finds: nothing that makes sense unless n is *)
(* a node.                                                                   *)
Deref(field, n) == IF n \in Nodes THEN field[n] ELSE Garbage

(* mctop_queue_lock: the compare-and-swap that succeeds. *)
AcquireLock == lock = 0 /\ lock' = 1

(* mctop_queue_unlock: a plain store. *)
ReleaseLock == lock' = 0

-----------------------------------------------------------------------------
(* mctop_queue_enqueue *)

(* malloc a node and write its data; its next field stays unwritten. *)
CallEnqueue(t, x) ==
  /\ Goto(t, "idle", "enq_lock")
  /\ \E n \in Nodes \ live :
       /\ live' = live \cup {n}
       /\ data' = [data EXCEPT ![n] = x]
       /\ node' = [node EXCEPT ![t] = n]
  /\ val' = [val EXCEPT ![t] = x]
  /\ UNCHANGED <<lock, size, head, tail, next, headNew, chain>>

EnqLock(t) ==
  /\ Goto(t, "enq_lock", "enq_link")
  /\ AcquireLock
  /\ UNCHANGED <<size, head, tail, next, data, live, node, headNew, val, chain>>

(* Mutant of EnqLink: tail has moved before the link is written. *)
EnqLinkLate(t) ==
  /\ Goto(t, "enq_link", "enq_tail")
  /\ next' = [next EXCEPT ![node[t]] = node[t]]
  /\ UNCHANGED <<lock, size, head, tail, data, live, node, headNew, val, chain>>

(* qu->tail->next = node *)
EnqLink(t) ==
  /\ Goto(t, "enq_link", "enq_tail")
  /\ next' = [next EXCEPT ![tail] = node[t]]
  /\ UNCHANGED <<lock, size, head, tail, data, live, node, headNew, val, chain>>

(* qu->tail = node *)
EnqTail(t) ==
  /\ Goto(t, "enq_tail", "enq_size")
  /\ tail' = node[t]
  /\ UNCHANGED <<lock, size, head, next, data, live, node, headNew, val, chain>>

(* qu->size++: from here on an unlocked reader can see the item. *)
EnqSize(t) ==
  /\ Goto(t, "enq_size", "enq_unlock")
  /\ size' = size + 1
  /\ chain' = Append(chain, node[t])
  /\ UNCHANGED <<lock, head, tail, next, data, live, node, headNew, val>>

EnqUnlock(t) ==
  /\ Goto(t, "enq_unlock", "idle")
  /\ ReleaseLock
  /\ node' = [node EXCEPT ![t] = NULL]
  /\ val' = [val EXCEPT ![t] = NULL]
  /\ UNCHANGED <<size, head, tail, next, data, live, headNew, chain>>

-----------------------------------------------------------------------------
(* mctop_queue_dequeue *)

CallDequeue(t) ==
  /\ Goto(t, "idle", "deq_peek")
  /\ UNCHANGED <<shared, node, headNew, val>>

(* The first test of qu->size, without the lock. *)
DeqPeek(t) ==
  /\ \/ size = 0 /\ Goto(t, "deq_peek", "deq_return")
     \/ size # 0 /\ Goto(t, "deq_peek", "deq_lock")
  /\ UNCHANGED <<shared, node, headNew, val>>

DeqLock(t) ==
  /\ Goto(t, "deq_lock", "deq_test")
  /\ AcquireLock
  /\ UNCHANGED <<size, head, tail, next, data, live, node, headNew, val, chain>>

(* The second test of qu->size, with the lock. *)
DeqTest(t) ==
  /\ \/ size = 0 /\ Goto(t, "deq_test", "deq_unlock_empty")
     \/ size # 0 /\ Goto(t, "deq_test", "deq_read")
  /\ UNCHANGED <<shared, node, headNew, val>>

(* Mutant of DeqRead: the item is taken from the dummy. *)
DeqReadDummy(t) ==
  /\ Goto(t, "deq_read", "deq_head")
  /\ node' = [node EXCEPT ![t] = head]
  /\ headNew' = [headNew EXCEPT ![t] = next[head]]
  /\ val' = [val EXCEPT ![t] = data[head]]
  /\ UNCHANGED shared

(* node = qu->head; head_new = node->next; data = head_new->data *)
DeqRead(t) ==
  /\ Goto(t, "deq_read", "deq_head")
  /\ node' = [node EXCEPT ![t] = head]
  /\ headNew' = [headNew EXCEPT ![t] = next[head]]
  /\ val' = [val EXCEPT ![t] = Deref(data, next[head])]
  /\ UNCHANGED shared

(* qu->head = head_new *)
DeqHead(t) ==
  /\ Goto(t, "deq_head", "deq_size")
  /\ head' = headNew[t]
  /\ UNCHANGED <<lock, size, tail, next, data, live, node, headNew, val, chain>>

(* qu->size-- *)
DeqSize(t) ==
  /\ Goto(t, "deq_size", "deq_unlock")
  /\ size' = size - 1
  /\ chain' = Tail(chain)
  /\ UNCHANGED <<lock, head, tail, next, data, live, node, headNew, val>>

DeqUnlock(t) ==
  /\ Goto(t, "deq_unlock", "deq_free")
  /\ ReleaseLock
  /\ UNCHANGED <<size, head, tail, next, data, live, node, headNew, val, chain>>

(* Mutants of DeqFree: the new dummy is freed; nothing is freed. *)
DeqFreeNew(t) ==
  /\ Goto(t, "deq_free", "deq_return")
  /\ live' = live \ {headNew[t]}
  /\ node' = [node EXCEPT ![t] = NULL]
  /\ headNew' = [headNew EXCEPT ![t] = NULL]
  /\ UNCHANGED <<lock, size, head, tail, next, data, val, chain>>
DeqFreeNothing(t) ==
  /\ Goto(t, "deq_free", "deq_return")
  /\ node' = [node EXCEPT ![t] = NULL]
  /\ headNew' = [headNew EXCEPT ![t] = NULL]
  /\ UNCHANGED <<lock, size, head, tail, next, data, live, val, chain>>

(* free(node), after the lock is released: the node's content is gone *)
DeqFree(t) ==
  /\ Goto(t, "deq_free", "deq_return")
  /\ live' = live \ {node[t]}
  /\ next' = [next EXCEPT ![node[t]] = Garbage]
  /\ data' = [data EXCEPT ![node[t]] = Garbage]
  /\ node' = [node EXCEPT ![t] = NULL]
  /\ headNew' = [headNew EXCEPT ![t] = NULL]
  /\ UNCHANGED <<lock, size, head, tail, val, chain>>

DeqUnlockEmpty(t) ==
  /\ Goto(t, "deq_unlock_empty", "deq_return")
  /\ ReleaseLock
  /\ UNCHANGED <<size, head, tail, next, data, live, node, headNew, val, chain>>

(* return data, or NULL *)
DeqReturn(t) ==
  /\ Goto(t, "deq_return", "idle")
  /\ val' = [val EXCEPT ![t] = NULL]
  /\ UNCHANGED <<shared, node, headNew>>

-----------------------------------------------------------------------------
Enqueue(t) ==
  EnqLock(t) \/ EnqLink(t) \/ EnqTail(t) \/ EnqSize(t) \/ EnqUnlock(t)

Dequeue(t) ==
  \/ DeqPeek(t) \/ DeqLock(t) \/ DeqTest(t) \/ DeqRead(t) \/ DeqHead(t)
  \/ DeqSize(t) \/ DeqUnlock(t) \/ DeqFree(t) \/ DeqUnlockEmpty(t)
  \/ DeqReturn(t)

Call(t) == CallDequeue(t) \/ \E x \in Items : CallEnqueue(t, x)

Next == \E t \in Threads : Call(t) \/ Enqueue(t) \/ Dequeue(t)

Spec == Init /\ [][Next]_vars
-----------------------------------------------------------------------------
Pcs == {"idle", "enq_lock", "enq_link", "enq_tail", "enq_size", "enq_unlock",
        "deq_peek", "deq_lock", "deq_test", "deq_read", "deq_head", "deq_size",
        "deq_unlock", "deq_free", "deq_unlock_empty", "deq_return"}

(* Where a thread is between its mctop_queue_lock and its mctop_queue_unlock. *)
Locked == {"enq_link", "enq_tail", "enq_size", "enq_unlock", "deq_test",
           "deq_read", "deq_head", "deq_size", "deq_unlock",
           "deq_unlock_empty"}

(* Where a thread holds a node of its own: not yet in the list, or no more. *)
Pushing == {"enq_lock", "enq_link", "enq_tail", "enq_size"}
Popped  == {"deq_unlock", "deq_free"}

Last == chain[Len(chain)]
InChain(n) == \E i \in 1..Len(chain) : chain[i] = n

(* Types of all variables of the queue and of its threads. *)
TypeOK ==
  /\ lock \in {0, 1}
  /\ size \in Nat
  /\ head \in Nodes
  /\ tail \in Nodes
  /\ next \in [Nodes -> Nodes \cup {NULL, Garbage}]
  /\ data \in [Nodes -> Items \cup {NULL, Garbage}]
  /\ live \in SUBSET Nodes
  /\ pc \in [Threads -> Pcs]
  /\ node \in [Threads -> Nodes \cup {NULL}]
  /\ headNew \in [Threads -> Nodes \cup {NULL}]
  /\ val \in [Threads -> Items \cup {NULL}]
  /\ chain \in Seq(Nodes)

(* At most one thread is between lock and unlock, and only while the lock    *)
(* word is set: the unlock is a plain store, so a thread that released a     *)
(* lock it does not own would let two threads in.                            *)
MutualExclusion ==
  /\ \A t \in Threads : pc[t] \in Locked => lock = 1
  /\ \A t, u \in Threads : pc[t] \in Locked /\ pc[u] \in Locked => t = u

(* The linked list is the history: whatever the enqueues and dequeues in     *)
(* flight have already written, the nodes of the enqueues that took effect   *)
(* hang together through next from the dummy to the last one, each node      *)
(* once, and size counts the items.  So no dequeue follows a next field that *)
(* was never written (the enqueue does not write it).                        *)
ListIsChain ==
  /\ Len(chain) = size + 1
  /\ \A i \in 1..Len(chain) - 1 : next[chain[i]] = chain[i + 1]
  /\ \A i, j \in 1..Len(chain) : chain[i] = chain[j] => i = j
  /\ (\A t \in Threads : pc[t] # "deq_size") => head = chain[1]
  /\ (\A t \in Threads : pc[t] # "enq_size") => tail = Last

(* No use after free: every node that the list, head, tail or a thread can   *)
(* still reach is live, although a dequeue frees the old head without the    *)
(* lock, and no two threads, and no thread and the list, hold the same node. *)
MemorySafety ==
  /\ head \in live
  /\ tail \in live
  /\ \A i \in 1..Len(chain) : chain[i] \in live
  /\ \A t \in Threads : pc[t] \in Pushing \cup Popped =>
       /\ node[t] \in live
       /\ ~ InChain(node[t])
       /\ \A u \in Threads : pc[u] \in Pushing \cup Popped /\ node[u] = node[t]
            => u = t

(* No leak: every live node is in the list or held by a thread that will     *)
(* link it or free it.                                                       *)
NoLeak ==
  \A n \in live :
    \/ InChain(n)
    \/ \E t \in Threads : pc[t] \in Pushing \cup Popped /\ node[t] = n

-----------------------------------------------------------------------------
(* The code implements the FIFO: an enqueue takes effect at qu->size++, a    *)
(* dequeue at qu->size--, an empty answer at the test of qu->size that found *)
(* it 0, which may be the one without the lock.                              *)

absQueue == [i \in 1..Len(chain) - 1 |-> data[chain[i + 1]]]

absOp == [t \in Threads |->
  CASE pc[t] = "idle" -> "idle"
    [] pc[t] \in {"enq_lock", "enq_link", "enq_tail", "enq_size"} -> "enqueue"
    [] pc[t] \in {"deq_peek", "deq_lock", "deq_test", "deq_read", "deq_head",
                  "deq_size"} -> "dequeue"
    [] OTHER -> "done"]

absVal == [t \in Threads |->
  IF pc[t] \in {"enq_lock", "enq_link", "enq_tail", "enq_size", "deq_unlock",
                "deq_free", "deq_return"}
  THEN val[t] ELSE NULL]

F == INSTANCE Fifo WITH queue <- absQueue, op <- absOp, val <- absVal

(* Every behaviour of the pointer code is a behaviour of the linearizable    *)
(* FIFO: no item is lost, duplicated or reordered, and "empty" is only       *)
(* answered when the queue is empty at some instant of the call.             *)
ImplementsFifo == F!Spec
=============================================================================
