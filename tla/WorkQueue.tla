----------------------------- MODULE WorkQueue -----------------------------
(***************************************************************************)
(* The MCTOP work queue (mctop_wq.c): a queue with a spin lock per socket  *)
(* of an allocator.  A thread enqueues to any queue; it dequeues from its  *)
(* local queue and then from the others in the order of next_q.  Each      *)
(* visit first reads the size of the queue without its lock, takes the     *)
(* lock only if the size is not 0, and reads the size again.               *)
(* mctop_wq_get_size_atomic locks all queues in the order of their index,  *)
(* adds up their sizes on the way, and then unlocks them all.              *)
(*                                                                         *)
(* What happens between a lock and an unlock changes the state that other  *)
(* threads can see in one point (NodeQueue shows it), so it is one step    *)
(* here.  Constants, the state besides the locks, and the client are those *)
(* of WorkBag, which this module implements.                               *)
(***************************************************************************)
EXTENDS Naturals, Sequences

CONSTANTS Threads, NQ, Items, NULL, Local, NextQ

Queues == 0..NQ - 1

(* mctop_wq_create fills next_q with every other queue, then the queue      *)
(* itself: StealOrder checks that its sort and its index arithmetic do so.  *)
ASSUME WorkQueueAssumption ==
  /\ NQ \in Nat \ {0}
  /\ NULL \notin Items
  /\ Local \in [Threads -> Queues]
  /\ NextQ \in [Queues -> Seq(Queues)]
  /\ \A q \in Queues :
       /\ NextQ[q] # <<>>
       /\ \A r \in Queues : \E i \in 1..Len(NextQ[q]) : NextQ[q][i] = r

VARIABLES
  queue,  \* the items of each queue; qu->size is its length
  lock,   \* qu->lock of each queue
  pc,     \* the next access of each thread
  todo,   \* the queues the thread's loop has still to visit, the current first
  val,    \* data: the parameter of an enqueue, the result of a dequeue
  seen,   \* the sizes mctop_wq_get_size_atomic has added to s
  hand,   \* the data pointers each thread owns
  quiet   \* history: the thread is in a dequeue that visits every queue, and
          \* no item was enqueued since its call; no guard reads it

vars == <<queue, lock, pc, todo, val, seen, hand, quiet>>

Unseen == [q \in Queues |-> 0]
AllInOrder == [i \in 1..NQ |-> i - 1]

Init ==
  /\ queue = [q \in Queues |-> <<>>]
  /\ lock = [q \in Queues |-> 0]
  /\ pc = [t \in Threads |-> "idle"]
  /\ todo = [t \in Threads |-> <<>>]
  /\ val = [t \in Threads |-> NULL]
  /\ seen = [t \in Threads |-> Unseen]
  /\ hand \in [Threads -> SUBSET Items]
  /\ \A t, u \in Threads : t # u => hand[t] \cap hand[u] = {}
  /\ quiet = [t \in Threads |-> FALSE]

Goto(t, from, to) ==
  /\ pc[t] = from
  /\ pc' = [pc EXCEPT ![t] = to]

(* The queue the thread works on. *)
Here(t) == Head(todo[t])

(* mctop_queue_lock: the compare-and-swap that succeeds *)
AcquireLock(q) ==
  /\ lock[q] = 0
  /\ lock' = [lock EXCEPT ![q] = 1]

(* mctop_queue_unlock: a plain store *)
ReleaseLock(q) == lock' = [lock EXCEPT ![q] = 0]

-----------------------------------------------------------------------------
(* mctop_wq_enqueue (q is the local queue), mctop_wq_enqueue_nth_socket     *)
(* (q is the argument) and mctop_wq_enqueue_node (q is looked up).  The      *)
(* look-up may give a number no queue has (NodeFindsSocket of Placement):    *)
(* such a call accesses memory behind wq->queues and is left out.            *)

CallEnqueue(t, q, x) ==
  /\ Goto(t, "idle", "enq_lock")
  /\ x \in hand[t]
  /\ todo' = [todo EXCEPT ![t] = <<q>>]
  /\ val' = [val EXCEPT ![t] = x]
  /\ hand' = [hand EXCEPT ![t] = @ \ {x}]
  /\ UNCHANGED <<queue, lock, seen, quiet>>

EnqLock(t) ==
  /\ Goto(t, "enq_lock", "enq_push")
  /\ AcquireLock(Here(t))
  /\ UNCHANGED <<queue, todo, val, seen, hand, quiet>>

(* Mutant of EnqPush: the item goes to the front. *)
EnqPushFront(t) ==
  /\ Goto(t, "enq_push", "enq_unlock")
  /\ queue' = [queue EXCEPT ![Here(t)] = <<val[t]>> \o @]
  /\ val' = [val EXCEPT ![t] = NULL]
  /\ quiet' = [u \in Threads |-> FALSE]
  /\ UNCHANGED <<lock, todo, seen, hand>>

EnqPush(t) ==
  /\ Goto(t, "enq_push", "enq_unlock")
  /\ queue' = [queue EXCEPT ![Here(t)] = Append(@, val[t])]
  /\ val' = [val EXCEPT ![t] = NULL]
  /\ quiet' = [u \in Threads |-> FALSE]
  /\ UNCHANGED <<lock, todo, seen, hand>>

EnqUnlock(t) ==
  /\ Goto(t, "enq_unlock", "idle")
  /\ ReleaseLock(Here(t))
  /\ todo' = [todo EXCEPT ![t] = <<>>]
  /\ UNCHANGED <<queue, val, seen, hand, quiet>>

-----------------------------------------------------------------------------
(* mctop_wq_dequeue, mctop_wq_dequeue_local, mctop_wq_dequeue_remote *)

CallDequeueOn(t, visits, every) ==
  /\ Goto(t, "idle", "deq_peek")
  /\ todo' = [todo EXCEPT ![t] = visits]
  /\ quiet' = [quiet EXCEPT ![t] = every]
  /\ UNCHANGED <<queue, lock, val, seen, hand>>

(* The local queue, and then the n_queues entries of its next_q, the last of *)
(* which is the local queue again.                                           *)
CallDequeue(t) ==
  CallDequeueOn(t, <<Local[t]>> \o NextQ[Local[t]], TRUE)

CallDequeueLocal(t) == CallDequeueOn(t, <<Local[t]>>, FALSE)

(* The loop runs over all n_queues entries of next_q: the local queue, its   *)
(* last entry, is visited too.                                               *)
CallDequeueRemote(t) == CallDequeueOn(t, NextQ[Local[t]], TRUE)

(* Mutant of NextVisit: the loop stops one queue early. *)
NextVisitShort(t, from) ==
  /\ \/ Len(todo[t]) > 2 /\ Goto(t, from, "deq_peek")
     \/ Len(todo[t]) <= 2 /\ Goto(t, from, "return")
  /\ todo' = [todo EXCEPT ![t] = Tail(@)]

(* mctop_queue_dequeue returned NULL: visit the next queue, or return NULL. *)
NextVisit(t, from) ==
  /\ \/ Len(todo[t]) > 1 /\ Goto(t, from, "deq_peek")
     \/ Len(todo[t]) = 1 /\ Goto(t, from, "return")
  /\ todo' = [todo EXCEPT ![t] = Tail(@)]

(* The size is read without the lock ... *)
DeqPeek(t) ==
  /\ pc[t] = "deq_peek"
  /\ \/ /\ queue[Here(t)] = <<>>
        /\ NextVisit(t, "deq_peek")
     \/ /\ queue[Here(t)] # <<>>
        /\ Goto(t, "deq_peek", "deq_lock")
        /\ UNCHANGED todo
  /\ UNCHANGED <<queue, lock, val, seen, hand, quiet>>

DeqLock(t) ==
  /\ Goto(t, "deq_lock", "deq_pop")
  /\ AcquireLock(Here(t))
  /\ UNCHANGED <<queue, todo, val, seen, hand, quiet>>

(* Mutant of DeqPop: the item is read, the head does not move. *)
DeqPopStuck(t) ==
  /\ Goto(t, "deq_pop", "deq_unlock")
  /\ val' = [val EXCEPT ![t] =
               IF queue[Here(t)] = <<>> THEN NULL ELSE Head(queue[Here(t)])]
  /\ UNCHANGED <<queue, lock, todo, seen, hand, quiet>>

(* ... and again with it: another thread may have taken the last item. *)
DeqPop(t) ==
  /\ Goto(t, "deq_pop", "deq_unlock")
  /\ \/ /\ queue[Here(t)] = <<>>
        /\ UNCHANGED <<queue, val>>
     \/ /\ queue[Here(t)] # <<>>
        /\ val' = [val EXCEPT ![t] = Head(queue[Here(t)])]
        /\ queue' = [queue EXCEPT ![Here(t)] = Tail(@)]
  /\ UNCHANGED <<lock, todo, seen, hand, quiet>>

(* Mutant of DeqUnlock: what the inner variable data of the loop got is not *)
(* what the function returns.                                               *)
DeqUnlockShadowed(t) ==
  /\ pc[t] = "deq_unlock"
  /\ \/ /\ val[t] = NULL
        /\ NextVisit(t, "deq_unlock")
     \/ /\ val[t] # NULL
        /\ Goto(t, "deq_unlock", "return")
        /\ UNCHANGED todo
  /\ val' = [val EXCEPT ![t] = NULL]
  /\ ReleaseLock(Here(t))
  /\ UNCHANGED <<queue, seen, hand, quiet>>

DeqUnlock(t) ==
  /\ pc[t] = "deq_unlock"
  /\ \/ /\ val[t] = NULL
        /\ NextVisit(t, "deq_unlock")
     \/ /\ val[t] # NULL
        /\ Goto(t, "deq_unlock", "return")
        /\ UNCHANGED todo
  /\ ReleaseLock(Here(t))
  /\ UNCHANGED <<queue, val, seen, hand, quiet>>

-----------------------------------------------------------------------------
(* mctop_wq_get_size_atomic *)

CallSize(t) ==
  /\ Goto(t, "idle", "size_lock")
  /\ todo' = [todo EXCEPT ![t] = AllInOrder]
  /\ UNCHANGED <<queue, lock, val, seen, hand, quiet>>

(* Mutant of SizeLock: the lock of each queue is released as soon as its size *)
(* is read.                                                                  *)
SizeLockOneByOne(t) ==
  /\ pc[t] = "size_lock"
  /\ lock[Here(t)] = 0
  /\ seen' = [seen EXCEPT ![t][Here(t)] = Len(queue[Here(t)])]
  /\ \/ /\ Len(todo[t]) > 1
        /\ Goto(t, "size_lock", "size_lock")
        /\ todo' = [todo EXCEPT ![t] = Tail(@)]
     \/ /\ Len(todo[t]) = 1
        /\ Goto(t, "size_lock", "return")
        /\ todo' = [todo EXCEPT ![t] = <<>>]
  /\ UNCHANGED <<queue, lock, val, hand, quiet>>

(* Lock the next queue and add its size; after the last one, start unlocking *)
(* from the first.                                                           *)
SizeLock(t) ==
  /\ pc[t] = "size_lock"
  /\ AcquireLock(Here(t))
  /\ seen' = [seen EXCEPT ![t][Here(t)] = Len(queue[Here(t)])]
  /\ \/ /\ Len(todo[t]) > 1
        /\ Goto(t, "size_lock", "size_lock")
        /\ todo' = [todo EXCEPT ![t] = Tail(@)]
     \/ /\ Len(todo[t]) = 1
        /\ Goto(t, "size_lock", "size_unlock")
        /\ todo' = [todo EXCEPT ![t] = AllInOrder]
  /\ UNCHANGED <<queue, val, hand, quiet>>

(* Mutant of SizeUnlock: the last queue stays locked. *)
SizeUnlockShort(t) ==
  /\ pc[t] = "size_unlock"
  /\ ReleaseLock(Here(t))
  /\ \/ Len(todo[t]) > 2 /\ Goto(t, "size_unlock", "size_unlock")
     \/ Len(todo[t]) <= 2 /\ Goto(t, "size_unlock", "return")
  /\ todo' = [todo EXCEPT ![t] = Tail(@)]
  /\ UNCHANGED <<queue, val, seen, hand, quiet>>

SizeUnlock(t) ==
  /\ pc[t] = "size_unlock"
  /\ ReleaseLock(Here(t))
  /\ \/ Len(todo[t]) > 1 /\ Goto(t, "size_unlock", "size_unlock")
     \/ Len(todo[t]) = 1 /\ Goto(t, "size_unlock", "return")
  /\ todo' = [todo EXCEPT ![t] = Tail(@)]
  /\ UNCHANGED <<queue, val, seen, hand, quiet>>

-----------------------------------------------------------------------------
(* The end of a dequeue or of mctop_wq_get_size_atomic: the caller gets the  *)
(* result, and owns an item it is given.                                     *)
Return(t) ==
  /\ Goto(t, "return", "idle")
  /\ hand' = [hand EXCEPT ![t] = IF val[t] = NULL THEN @ ELSE @ \cup {val[t]}]
  /\ todo' = [todo EXCEPT ![t] = <<>>]
  /\ val' = [val EXCEPT ![t] = NULL]
  /\ seen' = [seen EXCEPT ![t] = Unseen]
  /\ quiet' = [quiet EXCEPT ![t] = FALSE]
  /\ UNCHANGED <<queue, lock>>

Call(t) ==
  \/ \E q \in Queues, x \in Items : CallEnqueue(t, q, x)
  \/ CallDequeue(t)
  \/ CallDequeueLocal(t)
  \/ CallDequeueRemote(t)
  \/ CallSize(t)

(* The steps a thread takes inside a call. *)
Step(t) ==
  \/ EnqLock(t) \/ EnqPush(t) \/ EnqUnlock(t)
  \/ DeqPeek(t) \/ DeqLock(t) \/ DeqPop(t) \/ DeqUnlock(t)
  \/ SizeLock(t) \/ SizeUnlock(t)
  \/ Return(t)

Next == \E t \in Threads : Call(t) \/ Step(t)

Spec == Init /\ [][Next]_vars

(* A thread inside a call keeps running: the operating system schedules it. *)
Fairness == \A t \in Threads : WF_vars(Step(t))

-----------------------------------------------------------------------------
Pcs == {"idle", "enq_lock", "enq_push", "enq_unlock", "deq_peek", "deq_lock",
        "deq_pop", "deq_unlock", "size_lock", "size_unlock", "return"}

Enqueuing == {"enq_lock", "enq_push"}
Dequeuing == {"deq_peek", "deq_lock", "deq_pop", "deq_unlock"}
OneLock   == {"enq_push", "enq_unlock", "deq_pop", "deq_unlock"}

Visits(t, q) == \E i \in 1..Len(todo[t]) : todo[t][i] = q

(* Whether thread t holds the lock of queue q, by where it is in the code. *)
Holds(t, q) ==
  \/ pc[t] \in OneLock /\ q = Here(t)
  \/ pc[t] = "size_lock" /\ ~ Visits(t, q)
  \/ pc[t] = "size_unlock" /\ Visits(t, q)

(* Types, and the shape of the list of queues an operation still visits. *)
TypeOK ==
  /\ queue \in [Queues -> Seq(Items)]
  /\ lock \in [Queues -> {0, 1}]
  /\ pc \in [Threads -> Pcs]
  /\ todo \in [Threads -> Seq(Queues)]
  /\ \A t \in Threads : pc[t] \notin {"idle", "return"} => todo[t] # <<>>
  /\ val \in [Threads -> Items \cup {NULL}]
  /\ \A t \in Threads : pc[t] \in Enqueuing => val[t] \in Items
  /\ seen \in [Threads -> [Queues -> Nat]]
  /\ hand \in [Threads -> SUBSET Items]
  /\ quiet \in [Threads -> BOOLEAN]

(* Every queue is held by at most one thread, and its lock word is set       *)
(* exactly while it is held: also when mctop_wq_get_size_atomic takes and    *)
(* releases all locks among enqueues and dequeues, no unlock (a plain store) *)
(* releases another thread's lock.                                           *)
MutualExclusion ==
  \A q \in Queues :
    /\ lock[q] = 1 <=> \E t \in Threads : Holds(t, q)
    /\ \A t, u \in Threads : Holds(t, q) /\ Holds(u, q) => t = u

(* A thread has the item: in hand, or on its way into or out of a queue. *)
Has(t, x) == x \in hand[t] \/ val[t] = x
InQueue(q, x) == \E i \in 1..Len(queue[q]) : queue[q][i] = x

(* No item is in two places: two threads never own the same data pointer (a  *)
(* dequeue hands each item to one caller), and an item that is back in a     *)
(* queue is in one position of one queue and owned by nobody.                *)
NoDuplicate ==
  \A x \in Items :
    /\ \A t, u \in Threads : Has(t, x) /\ Has(u, x) => t = u
    /\ \A t \in Threads : ~ (x \in hand[t] /\ val[t] = x)
    /\ \A t \in Threads, q \in Queues : ~ (Has(t, x) /\ InQueue(q, x))
    /\ \A q, r \in Queues : InQueue(q, x) /\ InQueue(r, x) => q = r
    /\ \A q \in Queues : \A i, j \in 1..Len(queue[q]) :
         queue[q][i] = x /\ queue[q][j] = x => i = j

(* No item disappears: what a thread owned or a queue held is, after any     *)
(* step, still owned by a thread or held by a queue.                         *)
Somewhere(x) ==
  (\E t \in Threads : Has(t, x)) \/ (\E q \in Queues : InQueue(q, x))
NoLoss == [][\A x \in Items : Somewhere(x) => Somewhere(x)']_vars

(* The sizes mctop_wq_get_size_atomic has read are those of the queues it    *)
(* holds, until it unlocks them: s is the size of all queues in one instant. *)
SizeIsAtomic ==
  \A t \in Threads, q \in Queues :
    pc[t] \in {"size_lock", "size_unlock"} /\ Holds(t, q)
      => seen[t][q] = Len(queue[q])

(* A dequeue that visits every queue and returns NULL although nothing was   *)
(* enqueued since its call leaves all queues empty behind, also when other   *)
(* threads dequeue meanwhile: the unlocked reads of the sizes, the lock that *)
(* is only tried after them and the list next_q overlook no item.            *)
NullMeansDrained ==
  \A t \in Threads :
    pc[t] = "return" /\ val[t] = NULL /\ quiet[t]
      => \A q \in Queues : queue[q] = <<>>

-----------------------------------------------------------------------------
(* The code implements WorkBag: an enqueue takes effect at its push, a visit *)
(* of a queue at its pop or at the test that found the queue empty, a size   *)
(* when the last lock is taken.                                              *)

absPc == [t \in Threads |->
  CASE pc[t] = "idle" -> "idle"
    [] pc[t] \in Enqueuing -> "put"
    [] pc[t] \in {"deq_peek", "deq_lock", "deq_pop"} -> "take"
    [] pc[t] = "deq_unlock" -> IF val[t] = NULL THEN "take" ELSE "done"
    [] pc[t] = "size_lock" -> "size"
    [] OTHER -> "done"]

absTodo == [t \in Threads |->
  IF pc[t] \in Enqueuing \cup Dequeuing THEN todo[t]
  ELSE IF pc[t] = "enq_unlock" THEN todo[t]
  ELSE IF pc[t] = "return" THEN todo[t]
  ELSE <<>>]

absSeen == [t \in Threads |->
  IF pc[t] = "size_lock" THEN Unseen ELSE seen[t]]

Bag == INSTANCE WorkBag
         WITH pc <- absPc, todo <- absTodo, seen <- absSeen

(* Every behaviour of the work queue is one of WorkBag. *)
ImplementsWorkBag == Bag!Spec
=============================================================================
