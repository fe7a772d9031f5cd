--------------------------- MODULE NodeQueue_proofs ---------------------------
(***************************************************************************)
(* Proofs about one queue of the work queue, pointer by pointer            *)
(* (mctop_wq.c, mctop_queue_enqueue and mctop_queue_dequeue), for any      *)
(* number of threads, items and nodes of memory.                           *)
(*                                                                         *)
(* The invariant relates the pointers to the history chain.  Between lock  *)
(* and unlock the two differ by what the thread in between has already     *)
(* written (InFlight); that only one thread is there is MutualExclusion.   *)
(* Outside the lock a thread touches the node of its own only, and that    *)
(* this node is nobody else's is MemorySafety.  Neither is inductive       *)
(* without the other: a free outside the lock would break the chain if the *)
(* node were still in it.                                                  *)
(***************************************************************************)
EXTENDS NodeQueue, SequenceTheorems, TLAPS

(* What the thread with the lock has written ahead of the chain, and what a *)
(* dequeue has read.                                                        *)
InFlight ==
  \A t \in Threads :
    /\ pc[t] \in {"enq_tail", "enq_size"} => next[Last] = node[t]
    /\ pc[t] = "enq_size" => tail = node[t]
    /\ pc[t] \in {"deq_read", "deq_head", "deq_size"} => size # 0
    /\ pc[t] \in {"deq_head", "deq_size"} =>
         /\ node[t] = chain[1]
         /\ headNew[t] = chain[2]
         /\ val[t] = data[chain[2]]
    /\ pc[t] = "deq_size" => head = chain[2]

(* The data pointers: every node behind the dummy has an item, and so has a *)
(* node on its way into the list; a dequeue has none before it reads it.    *)
Undecided == {"idle", "deq_peek", "deq_lock", "deq_test", "deq_read",
              "deq_unlock_empty"}

ItemsInPlace ==
  /\ \A i \in 2..Len(chain) : data[chain[i]] \in Items
  /\ \A t \in Threads :
       /\ pc[t] \in Pushing => val[t] \in Items /\ data[node[t]] = val[t]
       /\ pc[t] \in Undecided => val[t] = NULL

IInv ==
  /\ TypeOK
  /\ MutualExclusion
  /\ ListIsChain
  /\ MemorySafety
  /\ NoLeak
  /\ InFlight
  /\ ItemsInPlace
-----------------------------------------------------------------------------
(* The chain is never empty; its nodes are nodes. *)
LEMMA ChainIsList ==
  ASSUME TypeOK, ListIsChain
  PROVE  /\ chain \in Seq(Nodes)
         /\ Len(chain) \in Nat /\ Len(chain) >= 1
         /\ size = Len(chain) - 1
         /\ \A i \in 1..Len(chain) : chain[i] \in Nodes
         /\ Last \in Nodes
BY DEF TypeOK, ListIsChain, Last

(* What the thread with the lock has: the others are elsewhere. *)
LEMMA Alone ==
  ASSUME MutualExclusion, NEW t \in Threads, pc[t] \in Locked
  PROVE  /\ lock = 1
         /\ \A u \in Threads \ {t} : pc[u] \notin Locked
BY DEF MutualExclusion

(* A node that a thread holds, or is about to take from the list, is a node. *)
LEMMA OwnNode ==
  ASSUME IInv, NEW t \in Threads
  PROVE  /\ pc[t] \in Pushing \cup Popped => node[t] \in Nodes
         /\ pc[t] \in {"deq_head", "deq_size"} =>
              /\ node[t] \in Nodes /\ headNew[t] \in Nodes
              /\ Len(chain) >= 2
         /\ pc[t] = "deq_read" =>
              /\ Len(chain) >= 2
              /\ head = chain[1] /\ next[head] = chain[2]
              /\ chain[2] \in Nodes /\ data[chain[2]] \in Items
<1>1. pc[t] \in Pushing \cup Popped => node[t] \in Nodes
  BY DEF IInv, TypeOK, MemorySafety
<1>2. size # 0 => Len(chain) >= 2
  <2>1. size = Len(chain) - 1 /\ Len(chain) \in Nat /\ Len(chain) >= 1
    BY ChainIsList DEF IInv
  <2> QED
    BY <2>1
<1>3. CASE pc[t] \in {"deq_head", "deq_size"}
  BY <1>2, <1>3, ChainIsList DEF IInv, InFlight, Pushing, Popped
<1>4. CASE pc[t] = "deq_read"
  <2>1. Len(chain) >= 2
    BY <1>2, <1>4 DEF IInv, InFlight
  <2>2. head = chain[1]
    BY <1>4 DEF IInv, MutualExclusion, ListIsChain, Locked
  <2>3. next[chain[1]] = chain[2]
    BY <2>1, ChainIsList DEF IInv, ListIsChain
  <2> QED
    BY <1>4, <2>1, <2>2, <2>3, ChainIsList DEF IInv, ItemsInPlace, Pushing, Popped
<1> QED
  BY <1>1, <1>3, <1>4

-----------------------------------------------------------------------------
(* Types.  A dequeue reads through a pointer only when the list has an item  *)
(* and so never gets Garbage.                                                *)
LEMMA TypeStep ==
  ASSUME IInv, NEW t \in Threads, Call(t) \/ Enqueue(t) \/ Dequeue(t)
  PROVE  TypeOK'
<1> USE DEF TypeOK, Goto
<1>0. TypeOK
  BY DEF IInv
<1>1. ASSUME NEW x \in Items, CallEnqueue(t, x) PROVE TypeOK'
  BY <1>0, <1>1 DEF CallEnqueue, Pcs
<1>2. CASE CallDequeue(t) \/ EnqLock(t) \/ DeqLock(t) \/ DeqPeek(t) \/ DeqTest(t)
  BY <1>0, <1>2 DEF CallDequeue, EnqLock, DeqLock, DeqPeek, DeqTest, AcquireLock,
     shared, Pcs
<1>3. CASE EnqLink(t)
  <2>1. node[t] \in Nodes
    BY <1>3, OwnNode DEF EnqLink, Pushing
  <2> QED
    BY <1>0, <1>3, <2>1 DEF EnqLink, Pcs
<1>4. CASE EnqTail(t)
  <2>1. node[t] \in Nodes
    BY <1>4, OwnNode DEF EnqTail, Pushing
  <2> QED
    BY <1>0, <1>4, <2>1 DEF EnqTail, Pcs
<1>5. CASE EnqSize(t)
  <2>1. node[t] \in Nodes
    BY <1>5, OwnNode DEF EnqSize, Pushing
  <2>2. chain' \in Seq(Nodes)
    BY <1>0, <1>5, <2>1, AppendProperties DEF EnqSize
  <2> QED
    BY <1>0, <1>5, <2>2 DEF EnqSize, Pcs
<1>6. CASE EnqUnlock(t) \/ DeqUnlock(t) \/ DeqUnlockEmpty(t) \/ DeqReturn(t)
  BY <1>0, <1>6 DEF EnqUnlock, DeqUnlock, DeqUnlockEmpty, DeqReturn, ReleaseLock,
     shared, Pcs
<1>7. CASE DeqRead(t)
  <2>1. /\ next[head] = chain[2] /\ chain[2] \in Nodes /\ data[chain[2]] \in Items
    BY <1>7, OwnNode DEF DeqRead
  <2> QED
    BY <1>0, <1>7, <2>1 DEF DeqRead, Deref, shared, Pcs
<1>8. CASE DeqHead(t)
  <2>1. headNew[t] \in Nodes
    BY <1>8, OwnNode DEF DeqHead
  <2> QED
    BY <1>0, <1>8, <2>1 DEF DeqHead, Pcs
<1>9. CASE DeqSize(t)
  <2>1. Len(chain) >= 2 /\ size = Len(chain) - 1
    BY <1>9, OwnNode, ChainIsList DEF DeqSize, IInv
  <2>2. chain' \in Seq(Nodes)
    BY <1>0, <1>9, <2>1, HeadTailProperties, EmptySeq DEF DeqSize
  <2> QED
    BY <1>0, <1>9, <2>1, <2>2 DEF DeqSize, Pcs
<1>10. CASE DeqFree(t)
  BY <1>0, <1>10 DEF DeqFree, Pcs
<1> QED
  BY <1>1, <1>2, <1>3, <1>4, <1>5, <1>6, <1>7, <1>8, <1>9, <1>10
     DEF Call, Enqueue, Dequeue

(* The lock.  A thread unlocks only when it is between lock and unlock. *)
LEMMA LockStep ==
  ASSUME IInv, NEW t \in Threads, Call(t) \/ Enqueue(t) \/ Dequeue(t)
  PROVE  MutualExclusion'
<1> USE DEF Goto, Locked
<1>0. TypeOK /\ MutualExclusion
  BY DEF IInv
<1>1. CASE Call(t) \/ EnqLink(t) \/ EnqTail(t) \/ EnqSize(t)
  BY <1>0, <1>1 DEF Call, CallDequeue, CallEnqueue, EnqLink, EnqTail, EnqSize,
     TypeOK, MutualExclusion, shared
<1>2. CASE EnqLock(t) \/ DeqLock(t)
  BY <1>0, <1>2 DEF EnqLock, DeqLock, AcquireLock, TypeOK, MutualExclusion
<1>3. CASE EnqUnlock(t) \/ DeqUnlock(t) \/ DeqUnlockEmpty(t)
  BY <1>0, <1>3 DEF EnqUnlock, DeqUnlock, DeqUnlockEmpty, ReleaseLock, TypeOK,
     MutualExclusion
<1>4. CASE DeqPeek(t) \/ DeqTest(t) \/ DeqRead(t) \/ DeqHead(t) \/ DeqSize(t)
             \/ DeqFree(t) \/ DeqReturn(t)
  BY <1>0, <1>4 DEF DeqPeek, DeqTest, DeqRead, DeqHead, DeqSize, DeqFree,
     DeqReturn, TypeOK, MutualExclusion, shared
<1> QED
  BY <1>1, <1>2, <1>3, <1>4 DEF Enqueue, Dequeue
-----------------------------------------------------------------------------
(* The chain with a node appended, and without its first one. *)
LEMMA ChainGrows ==
  ASSUME TypeOK, ListIsChain, NEW n \in Nodes, chain' = Append(chain, n)
  PROVE  /\ Len(chain') = Len(chain) + 1
         /\ \A i \in 1..Len(chain) : chain'[i] = chain[i]
         /\ chain'[Len(chain) + 1] = n
         /\ Last' = n
         /\ \A m : InChain(m)' <=> (InChain(m) \/ m = n)
<1>1. /\ Len(chain') = Len(chain) + 1
      /\ \A i \in 1..Len(chain) : chain'[i] = chain[i]
      /\ chain'[Len(chain) + 1] = n
  BY ChainIsList, AppendProperties
<1>2. Last' = n
  BY <1>1 DEF Last
<1>3. Len(chain) \in Nat
  BY ChainIsList
<1> QED
  BY <1>1, <1>2, <1>3 DEF InChain

(* What is left of the chain when the dummy is taken off.                    *)
LEMMA ChainShrinks ==
  ASSUME TypeOK, ListIsChain, Len(chain) >= 2, chain' = Tail(chain)
  PROVE  /\ Len(chain') = Len(chain) - 1
         /\ \A i \in 1..Len(chain) - 1 : chain'[i] = chain[i + 1]
         /\ Last' = Last
         /\ \A m : InChain(m)' <=> (InChain(m) /\ m # chain[1])
<1>1. chain \in Seq(Nodes) /\ chain # <<>> /\ Len(chain) \in Nat
  BY ChainIsList, EmptySeq
<1>2. /\ Len(chain') = Len(chain) - 1
      /\ \A i \in 1..Len(chain) - 1 : chain'[i] = chain[i + 1]
  BY <1>1, HeadTailProperties
<1>3. Last' = Last
  BY <1>1, <1>2 DEF Last
<1>4. ASSUME NEW m, InChain(m)' PROVE InChain(m) /\ m # chain[1]
  <2>1. PICK i \in 1..Len(chain) - 1 : chain[i + 1] = m
    BY <1>2, <1>4 DEF InChain
  <2>2. i + 1 \in 1..Len(chain) /\ i + 1 # 1
    BY <1>1, <2>1
  <2>3. chain[i + 1] # chain[1]
    BY <1>1, <2>2 DEF ListIsChain
  <2> QED
    BY <2>1, <2>2, <2>3 DEF InChain
<1>5. ASSUME NEW m, InChain(m), m # chain[1] PROVE InChain(m)'
  <2>1. PICK i \in 1..Len(chain) : chain[i] = m
    BY <1>5 DEF InChain
  <2>2. i - 1 \in 1..Len(chain) - 1 /\ chain'[i - 1] = chain[i]
    BY <1>1, <1>2, <1>5, <2>1
  <2> QED
    BY <1>2, <2>1, <2>2 DEF InChain
<1> QED
  BY <1>2, <1>3, <1>4, <1>5

(* The steps that change the list or its history. *)
ListSteps(t) ==
  \/ EnqLink(t) \/ EnqTail(t) \/ EnqSize(t) \/ DeqHead(t) \/ DeqSize(t)
  \/ DeqFree(t)

(* Steps that write neither link nor end keep the list.                      *)
LEMMA OtherStepsKeepList ==
  ASSUME NEW t \in Threads, Call(t) \/ Enqueue(t) \/ Dequeue(t), ~ ListSteps(t)
  PROVE  UNCHANGED <<size, head, tail, next, chain>>
BY DEF ListSteps, Call, CallDequeue, CallEnqueue, Enqueue, EnqLock, EnqUnlock,
   Dequeue, DeqPeek, DeqLock, DeqTest, DeqRead, DeqUnlock, DeqUnlockEmpty,
   DeqReturn, shared

(* The linked list is the history: each of the three writes of an enqueue,  *)
(* and each of the two of a dequeue, moves the list and the history in step *)
(* or leaves the difference that InFlight describes.                        *)
LEMMA ChainStep ==
  ASSUME IInv, NEW t \in Threads, Call(t) \/ Enqueue(t) \/ Dequeue(t)
  PROVE  ListIsChain'
<1> USE DEF Goto
<1>0. TypeOK /\ MutualExclusion /\ ListIsChain /\ MemorySafety /\ InFlight
  BY DEF IInv
<1>a. /\ Len(chain) \in Nat /\ Len(chain) >= 1
      /\ \A i \in 1..Len(chain) : chain[i] \in Nodes
  BY <1>0, ChainIsList
<1>1. CASE ~ ListSteps(t)
  <2>1. UNCHANGED <<size, head, tail, next, chain>>
    BY <1>1, OtherStepsKeepList
  <2>2. /\ pc'[t] \notin {"enq_size", "deq_size"}
        /\ pc[t] \notin {"enq_size", "deq_size"}
        /\ \A u \in Threads \ {t} : pc'[u] = pc[u]
    BY <1>0, <1>1 DEF ListSteps, Call, CallDequeue, CallEnqueue, Enqueue, EnqLock,
       EnqUnlock, Dequeue, DeqPeek, DeqLock, DeqTest, DeqRead, DeqUnlock,
       DeqUnlockEmpty, DeqReturn, TypeOK
  <2> QED
    BY <1>0, <2>1, <2>2 DEF ListIsChain, Last
<1>2. CASE EnqLink(t)
  <2>1. tail = Last /\ node[t] \in Nodes /\ tail \in Nodes
    BY <1>0, <1>2, OwnNode DEF EnqLink, MutualExclusion, ListIsChain, Locked, Pushing,
       TypeOK
  <2>2. \A i \in 1..Len(chain) - 1 : chain[i] # Last
    BY <1>0, <1>a DEF ListIsChain, Last
  <2>3. \A i \in 1..Len(chain) - 1 : next'[chain[i]] = next[chain[i]]
    BY <1>0, <1>2, <1>a, <2>1, <2>2 DEF EnqLink, TypeOK
  <2>4. UNCHANGED <<size, head, tail, chain>>
    BY <1>2 DEF EnqLink
  <2>5. \A u \in Threads : pc'[u] \in {"enq_size", "deq_size"} => pc'[u] = pc[u]
    BY <1>0, <1>2 DEF EnqLink, TypeOK
  <2>6. \A u \in Threads : pc[u] \in {"enq_size", "deq_size"} => pc'[u] = pc[u]
    BY <1>0, <1>2 DEF EnqLink, TypeOK
  <2> QED
    BY <1>0, <2>3, <2>4, <2>5, <2>6 DEF ListIsChain, Last
<1>3. CASE EnqTail(t)
  <2>1. UNCHANGED <<size, head, next, chain>> /\ pc'[t] = "enq_size"
    BY <1>0, <1>3 DEF EnqTail, TypeOK
  <2>2. \A u \in Threads : pc[u] # "deq_size"
    BY <1>0, <1>3 DEF EnqTail, MutualExclusion, Locked
  <2> QED
    BY <1>0, <2>1, <2>2 DEF ListIsChain, Last
<1>4. CASE EnqSize(t)
  <2>1. node[t] \in Nodes /\ ~ InChain(node[t])
    BY <1>0, <1>4, OwnNode DEF EnqSize, MemorySafety, Pushing
  <2>2. UNCHANGED <<head, tail, next>> /\ size' = size + 1 /\ chain' = Append(chain, node[t])
    BY <1>4 DEF EnqSize
  <2>3. tail = node[t] /\ next[Last] = node[t]
    BY <1>0, <1>4 DEF EnqSize, InFlight
  <2>4. /\ Len(chain') = Len(chain) + 1
        /\ \A i \in 1..Len(chain) : chain'[i] = chain[i]
        /\ chain'[Len(chain) + 1] = node[t]
        /\ Last' = node[t]
    BY <1>0, <2>1, <2>2, ChainGrows
  <2>5. \A i \in 1..Len(chain') - 1 : next'[chain'[i]] = chain'[i + 1]
    <3> SUFFICES ASSUME NEW i \in 1..Len(chain)
                 PROVE  next[chain[i]] = chain'[i + 1]
      BY <1>a, <2>2, <2>4
    <3>1. CASE i = Len(chain)
      BY <1>a, <2>3, <2>4, <3>1 DEF Last
    <3>2. CASE i # Len(chain)
      BY <1>0, <1>a, <2>4, <3>2 DEF ListIsChain
    <3> QED
      BY <3>1, <3>2
  <2>6. \A i, j \in 1..Len(chain') : chain'[i] = chain'[j] => i = j
    BY <1>0, <1>a, <2>1, <2>4 DEF ListIsChain, InChain
  <2>7. head' = chain'[1]
    BY <1>0, <1>4, <1>a, <2>2, <2>4 DEF ListIsChain, EnqSize, MutualExclusion, Locked
  <2> QED
    BY <1>0, <1>a, <2>2, <2>3, <2>4, <2>5, <2>6, <2>7 DEF ListIsChain
<1>5. CASE DeqHead(t)
  <2>1. UNCHANGED <<size, tail, next, chain>> /\ pc'[t] = "deq_size"
    BY <1>0, <1>5 DEF DeqHead, TypeOK
  <2>2. \A u \in Threads : pc[u] # "enq_size"
    BY <1>0, <1>5 DEF DeqHead, MutualExclusion, Locked
  <2> QED
    BY <1>0, <2>1, <2>2 DEF ListIsChain, Last
<1>6. CASE DeqSize(t)
  <2>1. Len(chain) >= 2 /\ head = chain[2]
    BY <1>0, <1>6, OwnNode DEF DeqSize, InFlight
  <2>2. UNCHANGED <<head, tail, next>> /\ size' = size - 1 /\ chain' = Tail(chain)
    BY <1>6 DEF DeqSize
  <2>3. /\ Len(chain') = Len(chain) - 1
        /\ \A i \in 1..Len(chain) - 1 : chain'[i] = chain[i + 1]
        /\ Last' = Last
    BY <1>0, <2>1, <2>2, ChainShrinks
  <2>4. \A i \in 1..Len(chain') - 1 : next'[chain'[i]] = chain'[i + 1]
    BY <1>0, <1>a, <2>2, <2>3 DEF ListIsChain
  <2>5. \A i, j \in 1..Len(chain') : chain'[i] = chain'[j] => i = j
    <3> SUFFICES ASSUME NEW i \in 1..Len(chain) - 1, NEW j \in 1..Len(chain) - 1,
                        chain[i + 1] = chain[j + 1]
                 PROVE  i = j
      BY <2>3
    <3>1. i + 1 \in 1..Len(chain) /\ j + 1 \in 1..Len(chain)
      BY <1>a
    <3>2. i + 1 = j + 1
      BY <1>0, <3>1 DEF ListIsChain
    <3> QED
      BY <3>2
  <2>6. tail' = Last'
    BY <1>0, <1>6, <2>2, <2>3 DEF ListIsChain, DeqSize, MutualExclusion, Locked
  <2>7. head' = chain'[1]
    <3>1. chain'[1] = chain[1 + 1]
      BY <1>a, <2>1, <2>3
    <3> QED
      BY <2>1, <2>2, <3>1
  <2>8. Len(chain') = size' + 1
    BY <1>0, <1>a, <2>2, <2>3 DEF ListIsChain, TypeOK
  <2> QED
    BY <2>4, <2>5, <2>6, <2>7, <2>8 DEF ListIsChain
<1>7. CASE DeqFree(t)
  <2>1. ~ InChain(node[t])
    BY <1>0, <1>7 DEF DeqFree, MemorySafety, Popped
  <2>2. UNCHANGED <<size, head, tail, chain>>
    BY <1>7 DEF DeqFree
  <2>3. \A i \in 1..Len(chain) - 1 : next'[chain[i]] = next[chain[i]]
    BY <1>0, <1>7, <1>a, <2>1 DEF DeqFree, TypeOK, InChain
  <2>4. \A u \in Threads : pc[u] \in {"enq_size", "deq_size"} => pc'[u] = pc[u]
    BY <1>0, <1>7 DEF DeqFree, TypeOK
  <2> QED
    BY <1>0, <2>2, <2>3, <2>4 DEF ListIsChain, Last
<1> QED
  BY <1>1, <1>2, <1>3, <1>4, <1>5, <1>6, <1>7 DEF ListSteps
(* Where a thread is after its step, seen by the others: unchanged. *)
LEMMA OthersKeep ==
  ASSUME TypeOK, NEW t \in Threads, Call(t) \/ Enqueue(t) \/ Dequeue(t)
  PROVE  \A u \in Threads \ {t} :
           /\ pc'[u] = pc[u]
           /\ node'[u] = node[u]
           /\ headNew'[u] = headNew[u]
           /\ val'[u] = val[u]
<1> USE DEF TypeOK, Goto
<1>1. CASE Call(t)
  BY <1>1 DEF Call, CallDequeue, CallEnqueue
<1>2. CASE Enqueue(t)
  BY <1>2 DEF Enqueue, EnqLock, EnqLink, EnqTail, EnqSize, EnqUnlock
<1>3. CASE Dequeue(t)
  BY <1>3 DEF Dequeue, DeqPeek, DeqLock, DeqTest, DeqRead, DeqHead, DeqSize,
     DeqUnlock, DeqFree, DeqUnlockEmpty, DeqReturn
<1> QED
  BY <1>1, <1>2, <1>3

(* The steps by which a thread gets a node of its own or gives it away. *)
OwnerSteps(t) ==
  \/ \E x \in Items : CallEnqueue(t, x)
  \/ EnqSize(t) \/ DeqSize(t) \/ DeqFree(t)

(* Steps that neither allocate nor free keep the owner of every node.        *)
LEMMA OtherStepsKeepOwners ==
  ASSUME TypeOK, NEW t \in Threads, Call(t) \/ Enqueue(t) \/ Dequeue(t),
         ~ OwnerSteps(t)
  PROVE  /\ UNCHANGED <<live, chain>>
         /\ pc'[t] \in Pushing \cup Popped <=> pc[t] \in Pushing \cup Popped
         /\ pc[t] \in Pushing \cup Popped => node'[t] = node[t]
<1> USE DEF TypeOK, Goto, OwnerSteps, Pushing, Popped
<1>1. CASE Call(t)
  BY <1>1 DEF Call, CallDequeue, shared
<1>2. CASE Enqueue(t)
  BY <1>2 DEF Enqueue, EnqLock, EnqLink, EnqTail, EnqUnlock
<1>3. CASE Dequeue(t)
  BY <1>3 DEF Dequeue, DeqPeek, DeqLock, DeqTest, DeqRead, DeqHead,
     DeqUnlock, DeqUnlockEmpty, DeqReturn, shared
<1> QED
  BY <1>1, <1>2, <1>3

(* The live nodes, the nodes of the chain and those of the threads: each    *)
(* node of a thread is live, in no list and held by this thread alone.      *)
OwnNodes ==
  \A t \in Threads : pc[t] \in Pushing \cup Popped =>
    /\ node[t] \in live
    /\ ~ InChain(node[t])
    /\ \A u \in Threads : pc[u] \in Pushing \cup Popped /\ node[u] = node[t] => u = t

ChainLive == \A n : InChain(n) => n \in live

(* Every step keeps one owner per node.                                      *)
LEMMA OwnersStep ==
  ASSUME IInv, NEW t \in Threads, Call(t) \/ Enqueue(t) \/ Dequeue(t)
  PROVE  OwnNodes' /\ ChainLive' /\ NoLeak'
<1>0. TypeOK /\ MutualExclusion /\ ListIsChain /\ InFlight /\ NoLeak
  BY DEF IInv
<1>a. OwnNodes /\ ChainLive
  BY DEF IInv, MemorySafety, OwnNodes, ChainLive, InChain
<1>b. \A u \in Threads \ {t} : pc'[u] = pc[u] /\ node'[u] = node[u]
  BY <1>0, OthersKeep
<1>1. CASE ~ OwnerSteps(t)
  <2>1. /\ UNCHANGED <<live, chain>>
        /\ pc'[t] \in Pushing \cup Popped <=> pc[t] \in Pushing \cup Popped
        /\ pc[t] \in Pushing \cup Popped => node'[t] = node[t]
    BY <1>0, <1>1, OtherStepsKeepOwners
  <2>2. \A n : InChain(n)' <=> InChain(n)
    BY <2>1 DEF InChain
  <2>3. \A u \in Threads :
          /\ pc'[u] \in Pushing \cup Popped <=> pc[u] \in Pushing \cup Popped
          /\ pc[u] \in Pushing \cup Popped => node'[u] = node[u]
    BY <1>b, <2>1
  <2> QED
    BY <1>0, <1>a, <2>1, <2>2, <2>3 DEF OwnNodes, ChainLive, NoLeak
<1>2. CASE \E x \in Items : CallEnqueue(t, x)
  <2>1. PICK n \in Nodes \ live : live' = live \cup {n} /\ node' = [node EXCEPT ![t] = n]
    BY <1>2 DEF CallEnqueue
  <2>2. /\ pc[t] = "idle" /\ pc'[t] = "enq_lock" /\ node'[t] = n
        /\ UNCHANGED chain
    BY <1>0, <1>2, <2>1 DEF CallEnqueue, Goto, TypeOK
  <2>3. \A m : InChain(m)' <=> InChain(m)
    BY <2>2 DEF InChain
  <2>4. OwnNodes'
    BY <1>a, <1>b, <2>1, <2>2, <2>3 DEF OwnNodes, ChainLive, Pushing, Popped
  <2>5. ChainLive'
    BY <1>a, <2>1, <2>3 DEF ChainLive
  <2>6. NoLeak'
    BY <1>0, <1>b, <2>1, <2>2, <2>3 DEF NoLeak, Pushing, Popped
  <2> QED
    BY <2>4, <2>5, <2>6
<1>3. CASE EnqSize(t)
  <2>1. /\ pc[t] = "enq_size" /\ pc'[t] = "enq_unlock" /\ node' = node
        /\ live' = live /\ chain' = Append(chain, node[t])
    BY <1>0, <1>3 DEF EnqSize, Goto, TypeOK
  <2>2. node[t] \in live /\ node[t] \in Nodes
    BY <1>0, <1>a, <2>1 DEF OwnNodes, Pushing, TypeOK
  <2>3. \A m : InChain(m)' <=> (InChain(m) \/ m = node[t])
    BY <1>0, <2>1, <2>2, ChainGrows
  <2>4. OwnNodes'
    BY <1>a, <1>b, <2>1, <2>3 DEF OwnNodes, Pushing, Popped
  <2>5. ChainLive'
    BY <1>a, <2>1, <2>2, <2>3 DEF ChainLive
  <2>6. NoLeak'
    BY <1>0, <1>b, <2>1, <2>3 DEF NoLeak, Pushing, Popped
  <2> QED
    BY <2>4, <2>5, <2>6
<1>4. CASE DeqSize(t)
  <2>1. /\ pc[t] = "deq_size" /\ pc'[t] = "deq_unlock" /\ node' = node
        /\ live' = live /\ chain' = Tail(chain)
    BY <1>0, <1>4 DEF DeqSize, Goto, TypeOK
  <2>2. Len(chain) >= 2 /\ node[t] = chain[1] /\ InChain(node[t])
    BY <1>0, <2>1, OwnNode, ChainIsList DEF InFlight, InChain
  <2>3. \A m : InChain(m)' <=> (InChain(m) /\ m # node[t])
    BY <1>0, <2>1, <2>2, ChainShrinks
  <2>4. OwnNodes'
    BY <1>a, <1>b, <2>1, <2>2, <2>3 DEF OwnNodes, ChainLive, Pushing, Popped
  <2>5. ChainLive'
    BY <1>a, <2>1, <2>3 DEF ChainLive
  <2>6. NoLeak'
    BY <1>0, <1>b, <2>1, <2>3 DEF NoLeak, Pushing, Popped
  <2> QED
    BY <2>4, <2>5, <2>6
<1>5. CASE DeqFree(t)
  <2>1. /\ pc[t] = "deq_free" /\ pc'[t] = "deq_return"
        /\ live' = live \ {node[t]} /\ chain' = chain
    BY <1>0, <1>5 DEF DeqFree, Goto, TypeOK
  <2>2. \A m : InChain(m)' <=> InChain(m)
    BY <2>1 DEF InChain
  <2>3. OwnNodes'
    BY <1>a, <1>b, <2>1, <2>2 DEF OwnNodes, Pushing, Popped
  <2>4. ChainLive'
    BY <1>a, <2>1, <2>2 DEF ChainLive, OwnNodes, Popped
  <2>5. NoLeak'
    BY <1>0, <1>b, <2>1, <2>2 DEF NoLeak, Pushing, Popped
  <2> QED
    BY <2>3, <2>4, <2>5
<1> QED
  BY <1>1, <1>2, <1>3, <1>4, <1>5 DEF OwnerSteps

-----------------------------------------------------------------------------
(* What is in flight. *)
LEMMA FlightStep ==
  ASSUME IInv, NEW t \in Threads, Call(t) \/ Enqueue(t) \/ Dequeue(t)
  PROVE  InFlight'
<1> USE DEF Goto
<1>0. TypeOK /\ MutualExclusion /\ ListIsChain /\ MemorySafety /\ InFlight /\ NoLeak
  BY DEF IInv
<1>a. /\ Len(chain) \in Nat /\ Len(chain) >= 1
      /\ \A i \in 1..Len(chain) : chain[i] \in Nodes /\ InChain(chain[i])
      /\ InChain(Last) /\ Last \in Nodes
  BY <1>0, ChainIsList DEF InChain, Last
<1>b. \A u \in Threads \ {t} :
        /\ pc'[u] = pc[u] /\ node'[u] = node[u]
        /\ headNew'[u] = headNew[u] /\ val'[u] = val[u]
  BY <1>0, OthersKeep
<1>c. pc[t] \in Locked => \A u \in Threads \ {t} : pc'[u] \notin Locked
  BY <1>0, <1>b, Alone
<1>d. TypeOK'
  BY TypeStep
(* Steps that change nothing the others rely on. *)
<1>1. ASSUME UNCHANGED <<size, head, tail, next, data, chain>>,
             pc'[t] \notin {"enq_tail", "enq_size", "deq_read", "deq_head", "deq_size"}
      PROVE  InFlight'
  BY <1>0, <1>b, <1>1 DEF InFlight, Last
<1>2. CASE CallDequeue(t) \/ EnqLock(t) \/ DeqLock(t) \/ DeqPeek(t) \/ EnqUnlock(t)
             \/ DeqUnlock(t) \/ DeqUnlockEmpty(t) \/ DeqReturn(t)
  <2>1. UNCHANGED <<size, head, tail, next, data, chain>>
    BY <1>2 DEF CallDequeue, EnqLock, DeqLock, DeqPeek, EnqUnlock, DeqUnlock,
       DeqUnlockEmpty, DeqReturn, shared
  <2>2. pc'[t] \notin {"enq_tail", "enq_size", "deq_read", "deq_head", "deq_size"}
    BY <1>0, <1>2 DEF CallDequeue, EnqLock, DeqLock, DeqPeek, EnqUnlock, DeqUnlock,
       DeqUnlockEmpty, DeqReturn, TypeOK
  <2> QED
    BY <1>1, <2>1, <2>2
<1>3. ASSUME NEW x \in Items, CallEnqueue(t, x) PROVE InFlight'
  <2>1. PICK n \in Nodes \ live : data' = [data EXCEPT ![n] = x]
    BY <1>3 DEF CallEnqueue
  <2>2. UNCHANGED <<size, head, tail, next, chain>> /\ pc'[t] = "enq_lock"
    BY <1>0, <1>3 DEF CallEnqueue, TypeOK
  <2>3. \A u \in Threads : pc[u] \in {"deq_head", "deq_size"} =>
          data'[chain[2]] = data[chain[2]]
    <3> SUFFICES ASSUME NEW u \in Threads, pc[u] \in {"deq_head", "deq_size"}
                 PROVE  data'[chain[2]] = data[chain[2]]
      OBVIOUS
    <3>1. Len(chain) >= 2
      BY OwnNode
    <3>2. chain[2] \in live /\ chain[2] \in Nodes
      BY <1>0, <1>a, <3>1 DEF MemorySafety
    <3> QED
      BY <1>0, <2>1, <3>2 DEF TypeOK
  <2> QED
    BY <1>0, <1>b, <2>2, <2>3 DEF InFlight, Last
<1>4. CASE EnqLink(t)
  <2>1. /\ pc'[t] = "enq_tail" /\ tail = Last
        /\ next' = [next EXCEPT ![tail] = node[t]]
        /\ UNCHANGED <<node, chain>>
    BY <1>0, <1>4 DEF EnqLink, MutualExclusion, ListIsChain, Locked, TypeOK
  <2>2. next'[Last'] = node'[t]
    BY <1>0, <1>a, <2>1 DEF TypeOK, Last
  <2>3. pc[t] = "enq_link"
    BY <1>4 DEF EnqLink
  <2> QED
    BY <1>c, <2>1, <2>2, <2>3 DEF InFlight, Locked
<1>5. CASE EnqTail(t)
  <2>1. /\ pc[t] = "enq_tail" /\ pc'[t] = "enq_size"
        /\ tail' = node[t]
        /\ UNCHANGED <<node, next, chain>>
    BY <1>0, <1>5 DEF EnqTail, TypeOK
  <2>2. next'[Last'] = node'[t]
    BY <1>0, <2>1 DEF InFlight, Last
  <2> QED
    BY <1>c, <2>1, <2>2 DEF InFlight, Locked
<1>6. CASE EnqSize(t)
  BY <1>0, <1>c, <1>6 DEF EnqSize, InFlight, Locked, TypeOK
<1>7. CASE DeqTest(t)
  <2>1. UNCHANGED <<size>> /\ pc[t] = "deq_test" /\ (pc'[t] = "deq_read" => size # 0)
        /\ pc'[t] \in {"deq_read", "deq_unlock_empty"}
    BY <1>0, <1>7 DEF DeqTest, shared, TypeOK
  <2> QED
    BY <1>c, <2>1 DEF InFlight, Locked
<1>8. CASE DeqRead(t)
  <2>1. /\ pc[t] = "deq_read" /\ pc'[t] = "deq_head"
        /\ node'[t] = head /\ headNew'[t] = next[head]
        /\ val'[t] = Deref(data, next[head])
        /\ UNCHANGED <<size, data, chain>>
    BY <1>0, <1>8 DEF DeqRead, shared, TypeOK
  <2>2. head = chain[1] /\ next[head] = chain[2] /\ chain[2] \in Nodes /\ size # 0
    BY <1>0, <2>1, OwnNode DEF InFlight
  <2> QED
    BY <1>c, <2>1, <2>2 DEF InFlight, Locked, Deref
<1>9. CASE DeqHead(t)
  <2>1. /\ pc[t] = "deq_head" /\ pc'[t] = "deq_size"
        /\ head' = headNew[t]
        /\ UNCHANGED <<size, node, headNew, val, data, chain>>
    BY <1>0, <1>9 DEF DeqHead, TypeOK
  <2> QED
    BY <1>0, <1>c, <2>1 DEF InFlight, Locked
<1>10. CASE DeqSize(t)
  BY <1>0, <1>c, <1>10 DEF DeqSize, InFlight, Locked, TypeOK
<1>11. CASE DeqFree(t)
  <2>1. /\ pc'[t] = "deq_return" /\ UNCHANGED <<size, head, tail, chain>>
        /\ next' = [next EXCEPT ![node[t]] = Garbage]
        /\ data' = [data EXCEPT ![node[t]] = Garbage]
    BY <1>0, <1>11 DEF DeqFree, TypeOK
  <2>2. ~ InChain(node[t]) /\ node[t] \in Nodes
    BY <1>0, <1>11 DEF DeqFree, MemorySafety, Popped, TypeOK
  <2>3. next'[Last] = next[Last]
    BY <1>0, <1>a, <2>1, <2>2 DEF TypeOK
  <2>4. \A u \in Threads : pc[u] \in {"deq_head", "deq_size"} =>
          data'[chain[2]] = data[chain[2]]
    <3> SUFFICES ASSUME NEW u \in Threads, pc[u] \in {"deq_head", "deq_size"}
                 PROVE  data'[chain[2]] = data[chain[2]]
      OBVIOUS
    <3>1. Len(chain) >= 2
      BY OwnNode
    <3>2. chain[2] \in Nodes /\ InChain(chain[2])
      BY <1>a, <3>1
    <3> QED
      BY <1>0, <2>1, <2>2, <3>2 DEF TypeOK
  <2> QED
    BY <1>0, <1>b, <2>1, <2>3, <2>4 DEF InFlight, Last
<1> QED
  BY <1>2, <1>3, <1>4, <1>5, <1>6, <1>7, <1>8, <1>9, <1>10, <1>11
     DEF Call, Enqueue, Dequeue
-----------------------------------------------------------------------------
(* Head and tail are live: they are in the chain, or the node that the      *)
(* thread with the lock is about to append.                                 *)
LEMMA SafetyStep ==
  ASSUME IInv, NEW t \in Threads, Call(t) \/ Enqueue(t) \/ Dequeue(t)
  PROVE  MemorySafety'
<1>0. TypeOK' /\ MutualExclusion' /\ ListIsChain' /\ InFlight'
  BY TypeStep, LockStep, ChainStep, FlightStep
<1>a. OwnNodes' /\ ChainLive'
  BY OwnersStep
<1>b. /\ Len(chain') \in Nat /\ Len(chain') >= 1
      /\ size' = Len(chain') - 1
  <2>1. size' \in Nat /\ Len(chain') = size' + 1
    BY <1>0 DEF TypeOK, ListIsChain
  <2>2. \A n, m : n \in Nat /\ m = n + 1 => m \in Nat /\ m >= 1 /\ n = m - 1
    OBVIOUS
  <2> QED
    BY <2>1, <2>2, Zenon
<1>1. \A i \in 1..Len(chain') : chain'[i] \in live'
  BY <1>a DEF ChainLive, InChain
<1>2. head' \in live'
  <2>1. CASE \E u \in Threads : pc'[u] = "deq_size"
    <3>1. size' # 0 /\ head' = chain'[2]
      BY <1>0, <2>1 DEF InFlight
    <3> QED
      BY <1>1, <1>b, <3>1
  <2>2. CASE \A u \in Threads : pc'[u] # "deq_size"
    BY <1>0, <1>1, <1>b, <2>2 DEF ListIsChain
  <2> QED
    BY <2>1, <2>2
<1>3. tail' \in live'
  <2>1. CASE \E u \in Threads : pc'[u] = "enq_size"
    BY <1>0, <1>a, <2>1 DEF InFlight, OwnNodes, Pushing
  <2>2. CASE \A u \in Threads : pc'[u] # "enq_size"
    BY <1>0, <1>1, <1>b, <2>2 DEF ListIsChain, Last
  <2> QED
    BY <2>1, <2>2
<1> QED
  BY <1>1, <1>2, <1>3, <1>a DEF MemorySafety, OwnNodes

(* Items: only a malloc and a free write data, to a node in no list. *)
LEMMA ItemsStep ==
  ASSUME IInv, NEW t \in Threads, Call(t) \/ Enqueue(t) \/ Dequeue(t)
  PROVE  ItemsInPlace'
<1> USE DEF Goto
<1>0. TypeOK /\ MutualExclusion /\ ListIsChain /\ MemorySafety /\ InFlight /\ ItemsInPlace
  BY DEF IInv
<1>a. /\ Len(chain) \in Nat /\ Len(chain) >= 1
      /\ \A i \in 1..Len(chain) : chain[i] \in Nodes /\ chain[i] \in live /\ InChain(chain[i])
  BY <1>0, ChainIsList DEF InChain, MemorySafety
<1>b. \A u \in Threads \ {t} : pc'[u] = pc[u] /\ node'[u] = node[u] /\ val'[u] = val[u]
  BY <1>0, OthersKeep
<1>1. CASE \/ CallDequeue(t) \/ EnqLock(t) \/ DeqLock(t) \/ DeqPeek(t) \/ DeqTest(t)
           \/ EnqLink(t) \/ EnqTail(t) \/ DeqHead(t) \/ DeqUnlock(t) \/ DeqUnlockEmpty(t)
  <2>1. UNCHANGED <<data, chain, node, val>>
    BY <1>1 DEF CallDequeue, EnqLock, DeqLock, DeqPeek, DeqTest, EnqLink, EnqTail,
       DeqHead, DeqUnlock, DeqUnlockEmpty, shared
  <2>2. /\ pc'[t] \in Pushing => pc[t] \in Pushing
        /\ pc'[t] \in Undecided => pc[t] \in Undecided
    BY <1>0, <1>1 DEF CallDequeue, EnqLock, DeqLock, DeqPeek, DeqTest, EnqLink, EnqTail,
       DeqHead, DeqUnlock, DeqUnlockEmpty, TypeOK, Pushing, Undecided
  <2> QED
    BY <1>0, <1>b, <2>1, <2>2 DEF ItemsInPlace
<1>2. CASE EnqUnlock(t) \/ DeqReturn(t) \/ DeqRead(t)
  <2>1. UNCHANGED <<data, chain>>
    BY <1>2 DEF EnqUnlock, DeqReturn, DeqRead, shared
  <2>2. /\ pc'[t] \notin Pushing
        /\ pc'[t] \in Undecided => val'[t] = NULL
    BY <1>0, <1>2 DEF EnqUnlock, DeqReturn, DeqRead, TypeOK, Pushing, Undecided
  <2> QED
    BY <1>0, <1>b, <2>1, <2>2 DEF ItemsInPlace
<1>3. ASSUME NEW x \in Items, CallEnqueue(t, x) PROVE ItemsInPlace'
  <2>1. PICK n \in Nodes \ live :
          /\ data' = [data EXCEPT ![n] = x] /\ node' = [node EXCEPT ![t] = n]
    BY <1>3 DEF CallEnqueue
  <2>2. /\ pc'[t] = "enq_lock" /\ node'[t] = n /\ val'[t] = x /\ data'[n] = x
        /\ UNCHANGED chain
    BY <1>0, <1>3, <2>1 DEF CallEnqueue, TypeOK
  <2>3. \A m \in Nodes : m \in live => data'[m] = data[m]
    BY <1>0, <2>1 DEF TypeOK
  <2>4. \A u \in Threads : pc[u] \in Pushing => node[u] \in live /\ node[u] \in Nodes
    BY <1>0 DEF MemorySafety, TypeOK
  <2>5. \A i \in 2..Len(chain') : data'[chain'[i]] \in Items
    BY <1>0, <1>a, <2>2, <2>3 DEF ItemsInPlace
  <2>6. \A u \in Threads \ {t} : pc'[u] \in Pushing => data'[node'[u]] = data[node[u]]
    BY <1>b, <2>3, <2>4
  <2> QED
    BY <1>0, <1>b, <2>2, <2>5, <2>6 DEF ItemsInPlace, Undecided
<1>4. CASE EnqSize(t)
  <2>1. /\ pc[t] = "enq_size" /\ pc'[t] = "enq_unlock" /\ chain' = Append(chain, node[t])
        /\ UNCHANGED <<data, node, val>>
    BY <1>0, <1>4 DEF EnqSize, TypeOK
  <2>2. node[t] \in Nodes /\ data[node[t]] \in Items
    BY <1>0, <2>1, OwnNode DEF ItemsInPlace, Pushing
  <2>3. /\ Len(chain') = Len(chain) + 1
        /\ \A i \in 1..Len(chain) : chain'[i] = chain[i]
        /\ chain'[Len(chain) + 1] = node[t]
    BY <1>0, <2>1, <2>2, ChainGrows
  <2>4. \A i \in 2..Len(chain') : data'[chain'[i]] \in Items
    BY <1>0, <1>a, <2>1, <2>2, <2>3 DEF ItemsInPlace
  <2> QED
    BY <1>0, <1>b, <2>1, <2>4 DEF ItemsInPlace, Pushing, Undecided
<1>5. CASE DeqSize(t)
  <2>1. /\ pc[t] = "deq_size" /\ pc'[t] = "deq_unlock" /\ chain' = Tail(chain)
        /\ UNCHANGED <<data, node, val>>
    BY <1>0, <1>5 DEF DeqSize, TypeOK
  <2>2. /\ Len(chain') = Len(chain) - 1
        /\ \A i \in 1..Len(chain) - 1 : chain'[i] = chain[i + 1]
    BY <1>0, <2>1, OwnNode, ChainShrinks
  <2>3. \A i \in 2..Len(chain') : data'[chain'[i]] \in Items
    BY <1>0, <1>a, <2>1, <2>2 DEF ItemsInPlace
  <2> QED
    BY <1>0, <1>b, <2>1, <2>3 DEF ItemsInPlace, Pushing, Undecided
<1>6. CASE DeqFree(t)
  <2>1. /\ pc[t] = "deq_free" /\ pc'[t] = "deq_return"
        /\ data' = [data EXCEPT ![node[t]] = Garbage]
        /\ UNCHANGED <<chain, val>>
    BY <1>0, <1>6 DEF DeqFree, TypeOK
  <2>2. /\ ~ InChain(node[t])
        /\ \A u \in Threads \ {t} : pc[u] \in Pushing =>
             node[u] # node[t] /\ node[u] \in Nodes
    BY <1>0, <2>1 DEF MemorySafety, Popped, TypeOK
  <2>3. \A i \in 2..Len(chain') : data'[chain'[i]] \in Items
    BY <1>0, <1>a, <2>1, <2>2 DEF ItemsInPlace, TypeOK
  <2>4. \A u \in Threads \ {t} : pc'[u] \in Pushing => data'[node'[u]] = data[node[u]]
    BY <1>0, <1>b, <2>1, <2>2 DEF TypeOK
  <2> QED
    BY <1>0, <1>b, <2>1, <2>3, <2>4 DEF ItemsInPlace, Pushing, Undecided
<1> QED
  BY <1>1, <1>2, <1>3, <1>4, <1>5, <1>6 DEF Call, Enqueue, Dequeue

-----------------------------------------------------------------------------
(* The invariant holds at the start.                                         *)
LEMMA InitIsInductive == Init => IInv
<1> SUFFICES ASSUME Init PROVE IInv
  OBVIOUS
<1>1. /\ Len(chain) = 1 /\ chain[1] = Dummy /\ Last = Dummy
      /\ chain \in Seq(Nodes)
      /\ \A n : InChain(n) <=> n = Dummy
  BY NodeQueueAssumption DEF Init, Last, InChain
<1>2. TypeOK
  BY <1>1, NodeQueueAssumption DEF Init, TypeOK, Pcs
<1>3. MutualExclusion
  BY DEF Init, MutualExclusion, Locked
<1>4. ListIsChain
  BY <1>1 DEF Init, ListIsChain
<1>5. MemorySafety /\ NoLeak
  BY <1>1 DEF Init, MemorySafety, NoLeak, Pushing, Popped
<1>6. InFlight /\ ItemsInPlace
  BY <1>1 DEF Init, InFlight, ItemsInPlace, Pushing, Undecided
<1> QED
  BY <1>2, <1>3, <1>4, <1>5, <1>6 DEF IInv

(* Every step keeps the invariant.                                           *)
LEMMA StepIsInductive == IInv /\ [Next]_vars => IInv'
<1> SUFFICES ASSUME IInv, [Next]_vars PROVE IInv'
  OBVIOUS
<1>1. ASSUME NEW t \in Threads, Call(t) \/ Enqueue(t) \/ Dequeue(t)
      PROVE  IInv'
  BY <1>1, TypeStep, LockStep, ChainStep, SafetyStep, OwnersStep, FlightStep, ItemsStep
     DEF IInv
<1>2. CASE UNCHANGED vars
  <2>1. UNCHANGED <<lock, size, head, tail, next, data, live, pc, node, headNew, val,
                    chain>>
    BY <1>2 DEF vars
  <2>2. Last' = Last /\ \A n : InChain(n)' <=> InChain(n)
    BY <2>1 DEF Last, InChain
  <2> QED
    BY <2>1, <2>2 DEF IInv, TypeOK, MutualExclusion, ListIsChain, MemorySafety, NoLeak,
       InFlight, ItemsInPlace
<1> QED
  BY <1>1, <1>2 DEF Next

(* The inductive invariant of the queue: chain, nodes, locks and the places  *)
(* of the threads in mctop_queue_enqueue and _dequeue agree.                 *)
THEOREM QueueInvariant == Spec => []IInv
BY InitIsInductive, StepIsInductive, PTL DEF Spec

(* No two threads are between mctop_queue_lock and mctop_queue_unlock. *)
THEOREM LocksExclude == Spec => []MutualExclusion
<1>1. IInv => MutualExclusion
  BY DEF IInv
<1> QED
  BY <1>1, QueueInvariant, PTL

(* Types, of every field a thread reads through a pointer too. *)
THEOREM TypeCorrect == Spec => []TypeOK
<1>1. IInv => TypeOK
  BY DEF IInv
<1> QED
  BY <1>1, QueueInvariant, PTL

(* The linked list is the history of the enqueues and dequeues. *)
THEOREM ListAgrees == Spec => []ListIsChain
<1>1. IInv => ListIsChain
  BY DEF IInv
<1> QED
  BY <1>1, QueueInvariant, PTL

(* Nothing that can still be reached is freed. *)
THEOREM NoUseAfterFree == Spec => []MemorySafety
<1>1. IInv => MemorySafety
  BY DEF IInv
<1> QED
  BY <1>1, QueueInvariant, PTL

(* Nothing is live that nobody will free. *)
THEOREM NothingLeaks == Spec => []NoLeak
<1>1. IInv => NoLeak
  BY DEF IInv
<1> QED
  BY <1>1, QueueInvariant, PTL
-----------------------------------------------------------------------------
(* The refinement of the FIFO.  The mapping gives every thread an operation *)
(* and a value by where its program counter is, and the queue the items     *)
(* behind the dummy.                                                        *)
OpAt(p) ==
  CASE p = "idle" -> "idle"
    [] p \in Pushing -> "enqueue"
    [] p \in {"deq_peek", "deq_lock", "deq_test", "deq_read", "deq_head",
              "deq_size"} -> "dequeue"
    [] OTHER -> "done"

ValAt(p, v) == IF p \in Pushing \cup Popped \cup {"deq_return"} THEN v ELSE NULL

(* The call that Fifo sees, by the place of the thread.                      *)
LEMMA OpsByPlace ==
  /\ OpAt("idle") = "idle"
  /\ \A p \in Pushing : OpAt(p) = "enqueue"
  /\ \A p \in {"deq_peek", "deq_lock", "deq_test", "deq_read", "deq_head", "deq_size"} :
       OpAt(p) = "dequeue"
  /\ \A p \in {"enq_unlock", "deq_unlock", "deq_free", "deq_unlock_empty", "deq_return"} :
       OpAt(p) = "done"
BY DEF OpAt, Pushing

(* The value that Fifo sees, by the place of the thread.                     *)
LEMMA MapsByPlace ==
  /\ absOp = [t \in Threads |-> OpAt(pc[t])]
  /\ absOp' = [t \in Threads |-> OpAt(pc'[t])]
  /\ absVal = [t \in Threads |-> ValAt(pc[t], val[t])]
  /\ absVal' = [t \in Threads |-> ValAt(pc'[t], val'[t])]
BY DEF absOp, absVal, OpAt, ValAt, Pushing, Popped

(* A step of t changes the operation and the value of t only. *)
LEMMA OwnOperation ==
  ASSUME TypeOK, NEW t \in Threads, Call(t) \/ Enqueue(t) \/ Dequeue(t)
  PROVE  /\ absOp' = [absOp EXCEPT ![t] = OpAt(pc'[t])]
         /\ absVal' = [absVal EXCEPT ![t] = ValAt(pc'[t], val'[t])]
         /\ absOp[t] = OpAt(pc[t])
         /\ absVal[t] = ValAt(pc[t], val[t])
<1>1. \A u \in Threads \ {t} : pc'[u] = pc[u] /\ val'[u] = val[u]
  BY OthersKeep
<1> QED
  BY <1>1, MapsByPlace

(* The mapped queue: one item per node behind the dummy. *)
LEMMA QueueOfChain ==
  ASSUME TypeOK, ListIsChain, ItemsInPlace
  PROVE  /\ absQueue \in Seq(Items)
         /\ Len(absQueue) = size
         /\ \A k \in 1..size : absQueue[k] = data[chain[k + 1]]
<1>1. Len(chain) - 1 = size /\ size \in Nat
  BY ChainIsList DEF TypeOK
<1>2. absQueue = [k \in 1..size |-> data[chain[k + 1]]]
  BY <1>1 DEF absQueue
<1>3. \A k \in 1..size : data[chain[k + 1]] \in Items
  BY <1>1 DEF ItemsInPlace
<1> QED
  BY <1>1, <1>2, <1>3, SMTT(40)

(* Steps that keep the chain keep the queue of Fifo.                         *)
LEMMA SameQueue ==
  ASSUME TypeOK, ListIsChain, chain' = chain,
         \A k \in 2..Len(chain) : data'[chain[k]] = data[chain[k]]
  PROVE  absQueue' = absQueue
<1>1. Len(chain) \in Nat
  BY ChainIsList
<1>2. \A k \in 1..Len(chain) - 1 : data'[chain[k + 1]] = data[chain[k + 1]]
  BY <1>1
<1> QED
  BY <1>2 DEF absQueue

(* A call commits where the code does: an enqueue at qu->size++, a dequeue  *)
(* at qu->size--, an empty answer at the test that found the size 0.        *)
LEMMA CommitsEnqueue ==
  ASSUME IInv, NEW t \in Threads, EnqSize(t)
  PROVE  F!CommitEnqueue(t)
<1>0. TypeOK /\ ListIsChain /\ ItemsInPlace /\ TypeOK' /\ ListIsChain' /\ ItemsInPlace'
  BY TypeStep, ChainStep, ItemsStep DEF IInv, Enqueue
<1>1. /\ pc[t] = "enq_size" /\ pc'[t] = "enq_unlock"
      /\ size' = size + 1 /\ chain' = Append(chain, node[t])
      /\ UNCHANGED <<data, node, val>>
  BY <1>0 DEF EnqSize, Goto, TypeOK
<1>2. node[t] \in Nodes /\ data[node[t]] = val[t] /\ val[t] \in Items
  BY <1>0, <1>1, OwnNode DEF ItemsInPlace, Pushing
<1>3. /\ absOp[t] = "enqueue" /\ absOp' = [absOp EXCEPT ![t] = "done"]
      /\ absVal[t] = val[t] /\ absVal' = [absVal EXCEPT ![t] = NULL]
  BY <1>0, <1>1, OwnOperation, OpsByPlace DEF Enqueue, ValAt, Pushing, Popped
<1>4. absQueue' = Append(absQueue, absVal[t])
  <2>1. /\ absQueue \in Seq(Items) /\ Len(absQueue) = size
        /\ \A k \in 1..size : absQueue[k] = data[chain[k + 1]]
    BY <1>0, QueueOfChain
  <2>2. absQueue' = [k \in 1..Len(chain') - 1 |-> data'[chain'[k + 1]]]
    BY DEF absQueue
  <2>3. /\ Len(chain') = Len(chain) + 1
        /\ \A k \in 1..Len(chain) : chain'[k] = chain[k]
        /\ chain'[Len(chain) + 1] = node[t]
    BY <1>0, <1>1, <1>2, ChainGrows
  <2>4. Len(chain) = size + 1 /\ size \in Nat
    BY <1>0, ChainIsList DEF TypeOK
  <2>5. absQueue' = [k \in 1..size + 1 |-> data[chain'[k + 1]]]
    BY <1>1, <2>2, <2>3, <2>4
  <2>6. \A k \in 1..size : data[chain'[k + 1]] = absQueue[k]
    BY <2>1, <2>3, <2>4
  <2>7. data[chain'[size + 1 + 1]] = absVal[t]
    BY <1>2, <1>3, <2>3, <2>4
  <2>8. absQueue' = [k \in 1..size + 1 |-> IF k \in 1..size THEN absQueue[k] ELSE absVal[t]]
    BY <2>4, <2>5, <2>6, <2>7
  <2>9. Append(absQueue, absVal[t])
          = [k \in 1..size + 1 |-> IF k \in 1..size THEN absQueue[k] ELSE absVal[t]]
    BY <1>2, <1>3, <2>1, <2>4
  <2> QED
    BY <2>8, <2>9
<1> QED
  BY <1>3, <1>4 DEF F!CommitEnqueue

(* The step that moves the head is the take of Fifo.                         *)
LEMMA CommitsDequeue ==
  ASSUME IInv, NEW t \in Threads, DeqSize(t)
  PROVE  F!CommitDequeue(t)
<1>0. TypeOK /\ ListIsChain /\ ItemsInPlace /\ InFlight
  BY DEF IInv
<1>1. /\ pc[t] = "deq_size" /\ pc'[t] = "deq_unlock"
      /\ size' = size - 1 /\ chain' = Tail(chain)
      /\ UNCHANGED <<data, node, val>>
  BY <1>0 DEF DeqSize, Goto, TypeOK
<1>2. /\ absOp[t] = "dequeue" /\ absOp' = [absOp EXCEPT ![t] = "done"]
      /\ absVal' = [absVal EXCEPT ![t] = val[t]]
  BY <1>0, <1>1, OwnOperation, OpsByPlace DEF Dequeue, ValAt, Pushing, Popped
<1>3. /\ absQueue \in Seq(Items) /\ Len(absQueue) = size
      /\ \A k \in 1..size : absQueue[k] = data[chain[k + 1]]
  BY <1>0, QueueOfChain
<1>4. size # 0 /\ size \in Nat /\ Len(chain) = size + 1
  BY <1>0, <1>1, ChainIsList DEF InFlight, TypeOK
<1>5. absQueue # <<>> /\ Head(absQueue) = val[t]
  <2>1. absQueue[1] = data[chain[2]]
    BY <1>3, <1>4
  <2>2. val[t] = data[chain[2]]
    BY <1>0, <1>1 DEF InFlight
  <2> QED
    BY <1>3, <1>4, <2>1, <2>2
<1>6. absQueue' = Tail(absQueue)
  <2>1. absQueue' = [k \in 1..Len(chain') - 1 |-> data'[chain'[k + 1]]]
    BY DEF absQueue
  <2>2. /\ Len(chain') = Len(chain) - 1
        /\ \A k \in 1..Len(chain) - 1 : chain'[k] = chain[k + 1]
    BY <1>0, <1>1, OwnNode, ChainShrinks
  <2>3. absQueue' = [k \in 1..size - 1 |-> data[chain'[k + 1]]]
    BY <1>1, <1>4, <2>1, <2>2
  <2>4. \A k \in 1..size - 1 : data[chain'[k + 1]] = absQueue[k + 1]
    BY <1>3, <1>4, <2>2
  <2>5. absQueue' = [k \in 1..size - 1 |-> absQueue[k + 1]]
    BY <2>3, <2>4
  <2>6. /\ Tail(absQueue) \in Seq(Items) /\ Len(Tail(absQueue)) = size - 1
        /\ \A k \in 1..size - 1 : Tail(absQueue)[k] = absQueue[k + 1]
    BY <1>3, <1>4, <1>5, HeadTailProperties
  <2>7. /\ absQueue' \in Seq(Items) /\ Len(absQueue') = size - 1
        /\ \A k \in 1..size - 1 : absQueue'[k] = absQueue[k + 1]
    <3>1. \A k \in 1..size - 1 : absQueue[k + 1] \in Items
      BY <1>3, <1>4
    <3> QED
      BY <1>4, <2>5, <3>1
  <2> QED
    BY <2>6, <2>7, SeqEqual
<1> QED
  BY <1>2, <1>5, <1>6 DEF F!CommitDequeue

(* The look at a size of 0 is the NULL of Fifo.                              *)
LEMMA CommitsEmpty ==
  ASSUME IInv, NEW t \in Threads, DeqPeek(t) \/ DeqTest(t)
  PROVE  IF size = 0 THEN F!CommitEmpty(t) ELSE UNCHANGED F!vars
<1>0. TypeOK /\ ListIsChain /\ ItemsInPlace
  BY DEF IInv
<1>1. /\ UNCHANGED <<size, chain, data, val>>
      /\ pc[t] \in {"deq_peek", "deq_test"}
      /\ IF size = 0 THEN pc'[t] \in {"deq_return", "deq_unlock_empty"}
                     ELSE pc'[t] \in {"deq_lock", "deq_read"}
  BY <1>0 DEF DeqPeek, DeqTest, Goto, TypeOK, shared
<1>2. val[t] = NULL
  BY <1>0, <1>1 DEF ItemsInPlace, Undecided
<1>3. absQueue' = absQueue
  BY <1>0, <1>1, SameQueue
<1>4. size = 0 => absQueue = <<>>
  BY <1>0, QueueOfChain
<1>5. absOp[t] = "dequeue" /\ absVal' = absVal
  <2>1. absOp[t] = "dequeue" /\ absVal[t] = NULL
    BY <1>0, <1>1, OwnOperation, OpsByPlace DEF Dequeue, ValAt, Pushing, Popped
  <2>2. absVal' = [absVal EXCEPT ![t] = NULL]
    BY <1>0, <1>1, <1>2, OwnOperation DEF Dequeue, ValAt
  <2> QED
    BY <2>1, <2>2, MapsByPlace
<1>6. absOp' = [absOp EXCEPT ![t] = IF size = 0 THEN "done" ELSE "dequeue"]
  BY <1>0, <1>1, OwnOperation, OpsByPlace DEF Dequeue
<1>7. size # 0 => absOp' = absOp
  BY <1>5, <1>6, MapsByPlace
<1> QED
  BY <1>3, <1>4, <1>5, <1>6, <1>7 DEF F!CommitEmpty, F!vars

(* Every step maps to one of Fifo or to a stutter.                           *)
LEMMA StepRefines ==
  ASSUME IInv, NEW t \in Threads, Call(t) \/ Enqueue(t) \/ Dequeue(t)
  PROVE  F!Next \/ UNCHANGED F!vars
<1> USE DEF Goto
<1>0. TypeOK /\ MutualExclusion /\ ListIsChain /\ MemorySafety /\ InFlight /\ ItemsInPlace
  BY DEF IInv
<1>a. /\ Len(chain) \in Nat
      /\ \A k \in 1..Len(chain) : chain[k] \in Nodes /\ chain[k] \in live /\ InChain(chain[k])
  BY <1>0, ChainIsList DEF InChain, MemorySafety
<1>1. ASSUME NEW x \in Items, CallEnqueue(t, x) PROVE F!CallEnqueue(t, x)
  <2>1. PICK n \in Nodes \ live : data' = [data EXCEPT ![n] = x]
    BY <1>1 DEF CallEnqueue
  <2>2. /\ pc[t] = "idle" /\ pc'[t] = "enq_lock" /\ val'[t] = x /\ UNCHANGED chain
    BY <1>0, <1>1 DEF CallEnqueue, TypeOK
  <2>3. absQueue' = absQueue
    BY <1>0, <1>a, <2>1, <2>2, SameQueue DEF TypeOK
  <2>4. /\ absOp[t] = "idle" /\ absOp' = [absOp EXCEPT ![t] = "enqueue"]
        /\ absVal' = [absVal EXCEPT ![t] = x]
    BY <1>0, <2>2, OwnOperation, OpsByPlace DEF ValAt, Pushing
  <2> QED
    BY <2>3, <2>4 DEF F!CallEnqueue
<1>2. CASE CallDequeue(t)
  <2>1. /\ pc[t] = "idle" /\ pc'[t] = "deq_peek"
        /\ UNCHANGED <<data, chain, val>> /\ val[t] = NULL
    BY <1>0, <1>2 DEF CallDequeue, TypeOK, shared, ItemsInPlace, Undecided
  <2>2. absQueue' = absQueue
    BY <1>0, <2>1, SameQueue
  <2>3. /\ absOp[t] = "idle" /\ absOp' = [absOp EXCEPT ![t] = "dequeue"]
        /\ absVal[t] = NULL /\ absVal' = [absVal EXCEPT ![t] = NULL]
    BY <1>0, <2>1, OwnOperation, OpsByPlace DEF ValAt
  <2>4. absVal' = absVal
    BY <2>3, MapsByPlace
  <2> QED
    BY <2>2, <2>3, <2>4 DEF F!CallDequeue, F!Next
<1>3. CASE EnqSize(t)
  BY <1>3, CommitsEnqueue DEF F!Next
<1>4. CASE DeqSize(t)
  BY <1>4, CommitsDequeue DEF F!Next
<1>5. CASE DeqPeek(t) \/ DeqTest(t)
  <2>1. F!CommitEmpty(t) \/ UNCHANGED F!vars
    BY <1>5, CommitsEmpty
  <2> QED
    BY <2>1 DEF F!Next
<1>6. CASE EnqUnlock(t) \/ DeqReturn(t)
  <2>1. /\ pc[t] \in {"enq_unlock", "deq_return"} /\ pc'[t] = "idle"
        /\ UNCHANGED <<data, chain>>
    BY <1>0, <1>6 DEF EnqUnlock, DeqReturn, TypeOK, shared
  <2>2. absQueue' = absQueue
    BY <1>0, <2>1, SameQueue
  <2>3. /\ absOp[t] = "done" /\ absOp' = [absOp EXCEPT ![t] = "idle"]
        /\ absVal' = [absVal EXCEPT ![t] = NULL]
    BY <1>0, <2>1, OwnOperation, OpsByPlace DEF ValAt, Pushing, Popped
  <2> QED
    BY <2>2, <2>3 DEF F!Return, F!Next
<1>7. CASE \/ EnqLock(t) \/ EnqLink(t) \/ EnqTail(t) \/ DeqLock(t) \/ DeqRead(t)
           \/ DeqHead(t) \/ DeqUnlock(t) \/ DeqFree(t) \/ DeqUnlockEmpty(t)
  <2>1. OpAt(pc'[t]) = OpAt(pc[t])
    BY <1>0, <1>7, OpsByPlace DEF EnqLock, EnqLink, EnqTail, DeqLock, DeqRead, DeqHead,
       DeqUnlock, DeqFree, DeqUnlockEmpty, TypeOK, Pushing
  <2>2. ValAt(pc'[t], val'[t]) = ValAt(pc[t], val[t])
    BY <1>0, <1>7 DEF EnqLock, EnqLink, EnqTail, DeqLock, DeqRead, DeqHead, DeqUnlock,
       DeqFree, DeqUnlockEmpty, TypeOK, ItemsInPlace, Undecided, ValAt, Pushing, Popped
  <2>3. absOp' = absOp /\ absVal' = absVal
    BY <1>0, <2>1, <2>2, OwnOperation, MapsByPlace
  <2>4. /\ chain' = chain
        /\ \A k \in 2..Len(chain) : data'[chain[k]] = data[chain[k]]
    <3>1. CASE DeqFree(t)
      <4>1. pc[t] = "deq_free" /\ chain' = chain /\ data' = [data EXCEPT ![node[t]] = Garbage]
        BY <3>1 DEF DeqFree
      <4>2. ~ InChain(node[t])
        BY <1>0, <4>1 DEF MemorySafety, Popped
      <4> QED
        BY <1>0, <1>a, <4>1, <4>2 DEF TypeOK
    <3>2. CASE ~ DeqFree(t)
      BY <1>7, <3>2 DEF EnqLock, EnqLink, EnqTail, DeqLock, DeqRead, DeqHead, DeqUnlock,
         DeqUnlockEmpty, shared
    <3> QED
      BY <3>1, <3>2
  <2>5. absQueue' = absQueue
    BY <1>0, <2>4, SameQueue
  <2> QED
    BY <2>3, <2>5 DEF F!vars
<1> QED
  <2>1. (\E x \in Items : CallEnqueue(t, x)) => F!Next
    BY <1>1 DEF F!Next
  <2> QED
    BY <2>1, <1>2, <1>3, <1>4, <1>5, <1>6, <1>7 DEF Call, Enqueue, Dequeue

(* The initial states map to initial states of Fifo.                         *)
LEMMA InitRefines == Init => F!Init
<1> SUFFICES ASSUME Init PROVE F!Init
  OBVIOUS
<1>1. TypeOK /\ ListIsChain /\ ItemsInPlace /\ size = 0
  BY InitIsInductive DEF IInv, Init
<1>2. absQueue = <<>>
  BY <1>1, QueueOfChain
<1>3. absOp = [t \in Threads |-> "idle"] /\ absVal = [t \in Threads |-> NULL]
  BY MapsByPlace, OpsByPlace DEF Init, ValAt
<1> QED
  BY <1>2, <1>3 DEF F!Init

(* The pointer code implements the linearizable FIFO, for any number of     *)
(* threads, items and nodes: no item is lost, duplicated or reordered by    *)
(* any interleaving of enqueues and dequeues, and a dequeue answers "empty" *)
(* only if the queue is empty at the test of the size that decided it.      *)
THEOREM QueueImplementsFifo == Spec => ImplementsFifo
<1>1. Init => F!Init
  BY InitRefines
<1>2. IInv /\ [Next]_vars => [F!Next]_(F!vars)
  <2> SUFFICES ASSUME IInv, [Next]_vars PROVE F!Next \/ UNCHANGED F!vars
    OBVIOUS
  <2>1. CASE Next
    BY <2>1, StepRefines DEF Next
  <2>2. CASE UNCHANGED vars
    <3>1. UNCHANGED <<data, pc, val, chain>>
      BY <2>2 DEF vars
    <3> QED
      BY <3>1 DEF F!vars, absQueue, absOp, absVal
  <2> QED
    BY <2>1, <2>2
<1> QED
  BY <1>1, <1>2, QueueInvariant, PTL DEF Spec, F!Spec, ImplementsFifo
===============================================================================
