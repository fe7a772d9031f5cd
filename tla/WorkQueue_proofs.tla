--------------------------- MODULE WorkQueue_proofs ---------------------------
(***************************************************************************)
(* Proofs about the work queue (mctop_wq.c), for any number of threads,    *)
(* queues and items and any steal lists that leave out no queue.           *)
(*                                                                         *)
(* The argument: types; then who holds which lock, which follows from      *)
(* where a thread is in its code and, for mctop_wq_get_size_atomic, from   *)
(* the order in which it goes through the queues (SizeOrder); from the     *)
(* locks, that nobody changes a queue whose size was read                  *)
(* (SizeIsAtomic); and from the visits a dequeue has still to make, that   *)
(* a NULL answer means drained queues (QuietSoFar).                        *)
(***************************************************************************)
EXTENDS WorkQueue, SequenceTheorems, TLAPS

(* A thread changes nothing that belongs to another one, but for the history *)
(* quiet, which an enqueue ends for all.                                     *)
LEMMA OthersKeep ==
  ASSUME TypeOK, NEW t \in Threads, Call(t) \/ Step(t)
  PROVE  \A u \in Threads \ {t} :
           /\ pc'[u] = pc[u]
           /\ todo'[u] = todo[u]
           /\ val'[u] = val[u]
           /\ seen'[u] = seen[u]
           /\ hand'[u] = hand[u]
           /\ quiet'[u] = quiet[u] \/ quiet'[u] = FALSE
<1> USE DEF TypeOK, Goto
<1>1. CASE Call(t)
  BY <1>1 DEF Call, CallEnqueue, CallDequeue, CallDequeueLocal,
     CallDequeueRemote, CallDequeueOn, CallSize
<1>2. CASE EnqLock(t) \/ EnqPush(t) \/ EnqUnlock(t)
  BY <1>2 DEF EnqLock, EnqPush, EnqUnlock
<1>3. CASE DeqPeek(t) \/ DeqLock(t) \/ DeqPop(t) \/ DeqUnlock(t)
  BY <1>3 DEF DeqPeek, DeqLock, DeqPop, DeqUnlock, NextVisit
<1>4. CASE SizeLock(t) \/ SizeUnlock(t)
  BY <1>4 DEF SizeLock, SizeUnlock
<1>5. CASE Return(t)
  BY <1>5 DEF Return
<1> QED
  BY <1>1, <1>2, <1>3, <1>4, <1>5 DEF Step

(* What Head and Tail of a list of queues to visit are. *)
LEMMA TodoList ==
  ASSUME TypeOK, NEW t \in Threads, todo[t] # <<>>
  PROVE  /\ Here(t) \in Queues
         /\ Here(t) = todo[t][1]
         /\ Len(todo[t]) \in Nat \ {0}
         /\ Tail(todo[t]) \in Seq(Queues)
         /\ Len(Tail(todo[t])) = Len(todo[t]) - 1
         /\ \A i \in 1..Len(todo[t]) - 1 : Tail(todo[t])[i] = todo[t][i + 1]
         /\ Len(todo[t]) > 1 => Tail(todo[t]) # <<>>
<1>1. todo[t] \in Seq(Queues)
  BY DEF TypeOK
<1> QED
  BY <1>1, HeadTailProperties, EmptySeq DEF Here

(* The list the size operation goes through has every queue, in order. *)
LEMMA AllInOrderIsList ==
  /\ AllInOrder \in Seq(Queues)
  /\ AllInOrder # <<>>
  /\ Len(AllInOrder) = NQ
  /\ \A i \in 1..NQ : AllInOrder[i] = i - 1
<1>1. NQ \in Nat \ {0}
  BY WorkQueueAssumption
<1>2. AllInOrder \in [1..NQ -> Queues]
  BY <1>1 DEF AllInOrder, Queues
<1>3. AllInOrder \in Seq(Queues) /\ Len(AllInOrder) = NQ
  BY <1>1, <1>2
<1> QED
  BY <1>1, <1>3 DEF AllInOrder

(* The lists an operation may start with are lists of queues, and not empty. *)
LEMMA VisitLists ==
  ASSUME NEW t \in Threads
  PROVE  /\ <<Local[t]>> \in Seq(Queues) /\ <<Local[t]>> # <<>>
         /\ NextQ[Local[t]] \in Seq(Queues) /\ NextQ[Local[t]] # <<>>
         /\ <<Local[t]>> \o NextQ[Local[t]] \in Seq(Queues)
         /\ <<Local[t]>> \o NextQ[Local[t]] # <<>>
<1>1. Local[t] \in Queues
  BY WorkQueueAssumption
<1>2. <<Local[t]>> \in Seq(Queues) /\ <<Local[t]>> # <<>> /\ Len(<<Local[t]>>) = 1
  BY <1>1
<1>3. NextQ[Local[t]] \in Seq(Queues) /\ NextQ[Local[t]] # <<>>
  BY <1>1, WorkQueueAssumption
<1>4. /\ <<Local[t]>> \o NextQ[Local[t]] \in Seq(Queues)
      /\ Len(<<Local[t]>> \o NextQ[Local[t]]) = 1 + Len(NextQ[Local[t]])
  BY <1>2, <1>3, ConcatProperties
<1> QED
  BY <1>2, <1>3, <1>4, EmptySeq

-----------------------------------------------------------------------------
(* Visiting the next queue shortens the list, and only goes on when the list *)
(* is not used up.                                                           *)
LEMMA NextVisitShortens ==
  ASSUME TypeOK, NEW t \in Threads, NEW from \in Pcs, todo[t] # <<>>,
         NextVisit(t, from)
  PROVE  /\ todo' = [todo EXCEPT ![t] = Tail(todo[t])]
         /\ pc[t] = from
         /\ todo' \in [Threads -> Seq(Queues)]
         /\ \/ /\ pc' = [pc EXCEPT ![t] = "deq_peek"]
               /\ todo'[t] # <<>>
            \/ /\ pc' = [pc EXCEPT ![t] = "return"]
               /\ Len(todo[t]) = 1
BY TodoList DEF NextVisit, Goto, TypeOK

(* Everything keeps its type, and a thread inside an operation always has a *)
(* queue to work on.                                                         *)
THEOREM TypeCorrect == Spec => []TypeOK
<1>1. Init => TypeOK
  BY EmptySeq DEF Init, TypeOK, Pcs, Enqueuing, Unseen
<1>2. TypeOK /\ [Next]_vars => TypeOK'
  <2> SUFFICES ASSUME TypeOK, [Next]_vars PROVE TypeOK'
    OBVIOUS
  <2> USE DEF Pcs, Enqueuing
  <2>1. ASSUME NEW t \in Threads, NEW q \in Queues, NEW x \in Items,
               CallEnqueue(t, q, x)
        PROVE  TypeOK'
    <3>1. <<q>> \in Seq(Queues) /\ <<q>> # <<>>
      OBVIOUS
    <3> QED
      BY <2>1, <3>1 DEF CallEnqueue, Goto, TypeOK
  <2>2. ASSUME NEW t \in Threads,
               CallDequeue(t) \/ CallDequeueLocal(t) \/ CallDequeueRemote(t)
        PROVE  TypeOK'
    <3>1. PICK visits \in Seq(Queues), every \in BOOLEAN :
            visits # <<>> /\ CallDequeueOn(t, visits, every)
      BY <2>2, VisitLists DEF CallDequeue, CallDequeueLocal, CallDequeueRemote
    <3> QED
      BY <3>1 DEF CallDequeueOn, Goto, TypeOK
  <2>3. ASSUME NEW t \in Threads, CallSize(t)
        PROVE  TypeOK'
    <3>1. todo' \in [Threads -> Seq(Queues)] /\ todo'[t] # <<>>
      BY <2>3, AllInOrderIsList DEF CallSize, TypeOK
    <3> QED
      BY <2>3, <3>1 DEF CallSize, Goto, TypeOK
  <2>4. ASSUME NEW t \in Threads, EnqLock(t) \/ DeqLock(t)
        PROVE  TypeOK'
    BY <2>4, TodoList DEF EnqLock, DeqLock, AcquireLock, Goto, TypeOK
  <2>5. ASSUME NEW t \in Threads, EnqPush(t)
        PROVE  TypeOK'
    <3>1. Here(t) \in Queues /\ val[t] \in Items /\ queue[Here(t)] \in Seq(Items)
      BY <2>5, TodoList DEF EnqPush, Goto, TypeOK
    <3>2. Append(queue[Here(t)], val[t]) \in Seq(Items)
      BY <3>1
    <3> QED
      BY <2>5, <3>1, <3>2 DEF EnqPush, Goto, TypeOK
  <2>6. ASSUME NEW t \in Threads, EnqUnlock(t)
        PROVE  TypeOK'
    BY <2>6, TodoList, EmptySeq DEF EnqUnlock, ReleaseLock, Goto, TypeOK
  <2>7. ASSUME NEW t \in Threads, DeqPeek(t)
        PROVE  TypeOK'
    <3>1. CASE queue[Here(t)] = <<>> /\ NextVisit(t, "deq_peek")
      <4>1. todo[t] # <<>>
        BY <2>7 DEF DeqPeek, TypeOK
      <4> QED
        BY <2>7, <3>1, <4>1, NextVisitShortens, ZenonT(60) DEF DeqPeek, TypeOK
    <3>2. CASE Goto(t, "deq_peek", "deq_lock") /\ UNCHANGED todo
      BY <2>7, <3>2 DEF DeqPeek, Goto, TypeOK
    <3> QED
      BY <2>7, <3>1, <3>2 DEF DeqPeek
  <2>8. ASSUME NEW t \in Threads, DeqPop(t)
        PROVE  TypeOK'
    <3>1. Here(t) \in Queues /\ queue[Here(t)] \in Seq(Items)
      BY <2>8, TodoList DEF DeqPop, Goto, TypeOK
    <3>2. CASE queue[Here(t)] = <<>> /\ UNCHANGED <<queue, val>>
      BY <2>8, <3>2 DEF DeqPop, Goto, TypeOK
    <3>3. CASE /\ queue[Here(t)] # <<>>
               /\ val' = [val EXCEPT ![t] = Head(queue[Here(t)])]
               /\ queue' = [queue EXCEPT ![Here(t)] = Tail(@)]
      <4>1. Head(queue[Here(t)]) \in Items /\ Tail(queue[Here(t)]) \in Seq(Items)
        BY <3>1, <3>3, HeadTailProperties
      <4> QED
        BY <2>8, <3>1, <3>3, <4>1 DEF DeqPop, Goto, TypeOK
    <3> QED
      BY <2>8, <3>2, <3>3 DEF DeqPop
  <2>9. ASSUME NEW t \in Threads, DeqUnlock(t)
        PROVE  TypeOK'
    <3>1. Here(t) \in Queues /\ todo[t] # <<>>
      BY <2>9, TodoList DEF DeqUnlock, TypeOK
    <3>2. lock' \in [Queues -> {0, 1}]
      BY <2>9, <3>1 DEF DeqUnlock, ReleaseLock, TypeOK
    <3>3. CASE NextVisit(t, "deq_unlock")
      BY <2>9, <3>1, <3>2, <3>3, NextVisitShortens, ZenonT(60) DEF DeqUnlock, TypeOK
    <3>4. CASE Goto(t, "deq_unlock", "return") /\ UNCHANGED todo
      BY <2>9, <3>1, <3>2, <3>4 DEF DeqUnlock, Goto, TypeOK
    <3> QED
      BY <2>9, <3>3, <3>4 DEF DeqUnlock
  <2>10. ASSUME NEW t \in Threads, SizeLock(t)
         PROVE  TypeOK'
    <3>1. Here(t) \in Queues /\ todo[t] # <<>> /\ queue[Here(t)] \in Seq(Items)
      BY <2>10, TodoList DEF SizeLock, TypeOK
    <3>2. lock' \in [Queues -> {0, 1}]
      BY <2>10, <3>1 DEF SizeLock, AcquireLock, TypeOK
    <3>3. seen' \in [Threads -> [Queues -> Nat]]
      BY <2>10, <3>1 DEF SizeLock, TypeOK
    <3>4. todo' \in [Threads -> Seq(Queues)] /\ (pc'[t] = "return" \/ todo'[t] # <<>>)
      BY <2>10, <3>1, TodoList, AllInOrderIsList, ZenonT(60) DEF SizeLock, TypeOK
    <3>5. pc' \in [Threads -> Pcs] /\ \A u \in Threads \ {t} : pc'[u] = pc[u]
      BY <2>10 DEF SizeLock, Goto, TypeOK
    <3>6. pc'[t] \in {"size_lock", "size_unlock"}
      BY <2>10 DEF SizeLock, Goto, TypeOK
    <3>7. \A u \in Threads \ {t} : todo'[u] = todo[u]
      BY <2>10 DEF SizeLock, TypeOK
    <3> QED
      BY <2>10, <3>2, <3>3, <3>4, <3>5, <3>6, <3>7 DEF SizeLock, TypeOK
  <2>11. ASSUME NEW t \in Threads, SizeUnlock(t)
         PROVE  TypeOK'
    <3>1. Here(t) \in Queues /\ todo[t] # <<>>
      BY <2>11, TodoList DEF SizeUnlock, TypeOK
    <3> QED
      BY <2>11, <3>1, TodoList DEF SizeUnlock, ReleaseLock, Goto, TypeOK
  <2>12. ASSUME NEW t \in Threads, Return(t)
         PROVE  TypeOK'
    <3>1. hand' \in [Threads -> SUBSET Items]
      BY <2>12 DEF Return, TypeOK
    <3>2. seen' \in [Threads -> [Queues -> Nat]]
      BY <2>12 DEF Return, Unseen, TypeOK
    <3> QED
      BY <2>12, <3>1, <3>2, EmptySeq DEF Return, Goto, TypeOK
  <2>13. CASE UNCHANGED vars
    BY <2>13 DEF vars, TypeOK
  <2> QED
    BY <2>1, <2>2, <2>3, <2>4, <2>5, <2>6, <2>7, <2>8, <2>9, <2>10, <2>11,
       <2>12, <2>13 DEF Next, Call, Step
<1> QED
  BY <1>1, <1>2, PTL DEF Spec

-----------------------------------------------------------------------------
(* mctop_wq_get_size_atomic goes through the queues in the order of their *)
(* index: what is left to visit are the last ones.                        *)
InSize(t) == pc[t] \in {"size_lock", "size_unlock"}

Ascending(list, len) == \A i \in 1..len : list[i] = NQ - len + i - 1

SizeOrder ==
  \A t \in Threads : InSize(t) =>
    Len(todo[t]) <= NQ /\ Ascending(todo[t], Len(todo[t]))

(* A list that ascends to the last queue has the queues from its first on. *)
LEMMA AscendingList ==
  ASSUME NEW list, NEW len \in Nat, len # 0, len <= NQ, Ascending(list, len)
  PROVE  /\ list[1] = NQ - len
         /\ \A q \in Queues : (\E i \in 1..len : list[i] = q) <=> q >= NQ - len
<1> USE DEF Ascending
<1>1. NQ \in Nat
  BY WorkQueueAssumption
<1>2. list[1] = NQ - len
  BY <1>1
<1>3. ASSUME NEW q \in Queues, NEW i \in 1..len, list[i] = q
      PROVE  q >= NQ - len
  <2>1. q = NQ - len + i - 1
    BY <1>3
  <2> QED
    BY <1>1, <2>1
<1>4. ASSUME NEW q \in Queues, q >= NQ - len
      PROVE  \E i \in 1..len : list[i] = q
  <2>1. q \in Nat /\ q < NQ
    BY <1>1 DEF Queues
  <2>2. q - (NQ - len) + 1 \in 1..len
    BY <1>1, <1>4, <2>1
  <2>3. NQ - len + (q - (NQ - len) + 1) - 1 = q
    BY <1>1, <2>1
  <2>4. list[q - (NQ - len) + 1] = NQ - len + (q - (NQ - len) + 1) - 1
    BY <2>2
  <2> QED
    BY <2>2, <2>3, <2>4
<1> QED
  BY <1>2, <1>3, <1>4

(* The rest of a list that ascends to the last queue is one too. *)
LEMMA AscendingTail ==
  ASSUME NEW list, NEW tail, NEW len \in Nat, len # 0, Ascending(list, len),
         \A i \in 1..len - 1 : tail[i] = list[i + 1]
  PROVE  Ascending(tail, len - 1)
<1>1. ASSUME NEW i \in 1..len - 1 PROVE tail[i] = NQ - (len - 1) + i - 1
  <2>1. NQ \in Nat
    BY WorkQueueAssumption
  <2>2. i + 1 \in 1..len
    OBVIOUS
  <2>3. tail[i] = NQ - len + (i + 1) - 1
    BY <2>2 DEF Ascending
  <2> QED
    BY <2>1, <2>3
<1> QED
  BY <1>1 DEF Ascending

(* So a queue is left to visit if its index is not lower than the next one. *)
LEMMA VisitsTheLast ==
  ASSUME TypeOK, SizeOrder, NEW t \in Threads, InSize(t), NEW q \in Queues
  PROVE  /\ Here(t) = NQ - Len(todo[t])
         /\ Visits(t, q) <=> q >= Here(t)
<1>1. todo[t] # <<>>
  BY DEF TypeOK, InSize
<1>2. /\ Len(todo[t]) \in Nat /\ Len(todo[t]) # 0 /\ Len(todo[t]) <= NQ
      /\ Ascending(todo[t], Len(todo[t]))
      /\ Here(t) = todo[t][1]
  BY <1>1, TodoList DEF SizeOrder
<1> QED
  BY <1>2, AscendingList DEF Visits

(* The size operation locks the queues in ascending order. *)
LEMMA SizeGoesInOrder == Spec => []SizeOrder
<1>1. Init => SizeOrder
  BY DEF Init, SizeOrder, InSize
<1>2. TypeOK /\ SizeOrder /\ [Next]_vars => SizeOrder'
  <2> SUFFICES ASSUME TypeOK, SizeOrder, [Next]_vars PROVE SizeOrder'
    OBVIOUS
  <2>1. CASE UNCHANGED vars
    BY <2>1 DEF vars, SizeOrder, InSize
  <2>2. ASSUME NEW t \in Threads, Call(t) \/ Step(t)
        PROVE  SizeOrder'
    <3> DEFINE Ordered(list) == Len(list) <= NQ /\ Ascending(list, Len(list))
    <3>1. \A u \in Threads \ {t} : InSize(u)' => Ordered(todo'[u])
      BY <2>2, OthersKeep DEF SizeOrder, InSize
    <3>2. Ordered(AllInOrder)
      <4>1. NQ \in Nat /\ \A i \in 1..NQ : AllInOrder[i] = i - 1
        BY AllInOrderIsList, WorkQueueAssumption
      <4>2. Ascending(AllInOrder, NQ)
        BY <4>1 DEF Ascending
      <4> QED
        BY <4>1, <4>2, AllInOrderIsList
    <3>3. ASSUME InSize(t) PROVE Ordered(Tail(todo[t]))
      <4>1. todo[t] # <<>>
        BY <3>3 DEF TypeOK, InSize
      <4>2. /\ Len(todo[t]) \in Nat /\ Len(todo[t]) # 0
            /\ Len(Tail(todo[t])) = Len(todo[t]) - 1
            /\ \A i \in 1..Len(todo[t]) - 1 : Tail(todo[t])[i] = todo[t][i + 1]
        BY <4>1, TodoList
      <4>3. Len(todo[t]) <= NQ /\ Ascending(todo[t], Len(todo[t]))
        BY <3>3 DEF SizeOrder
      <4>4. Ascending(Tail(todo[t]), Len(todo[t]) - 1)
        BY <4>2, <4>3, AscendingTail
      <4>5. Len(todo[t]) - 1 <= NQ
        <5>1. NQ \in Nat /\ Len(todo[t]) \in Nat /\ Len(todo[t]) <= NQ
          BY <4>2, <4>3, WorkQueueAssumption
        <5> QED
          BY <5>1
      <4>6. Len(Tail(todo[t])) = Len(todo[t]) - 1
        BY <4>2
      <4> QED
        BY <4>4, <4>5, <4>6, Zenon
    <3>4. InSize(t)' => Ordered(todo'[t])
      <4>1. CASE CallSize(t)
        BY <4>1, <3>2 DEF CallSize, TypeOK
      <4>2. CASE SizeLock(t) \/ SizeUnlock(t)
        BY <4>2, <3>2, <3>3 DEF SizeLock, SizeUnlock, InSize, TypeOK
      <4>3. CASE \/ Call(t) /\ ~ CallSize(t)
                 \/ EnqLock(t) \/ EnqPush(t) \/ EnqUnlock(t) \/ Return(t)
        <5>1. ~ InSize(t)'
          BY <4>3 DEF Call, CallEnqueue, CallDequeue, CallDequeueLocal,
             CallDequeueRemote, CallDequeueOn, EnqLock, EnqPush, EnqUnlock,
             Return, Goto, InSize, TypeOK
        <5> QED
          BY <5>1
      <4>4. CASE DeqPeek(t) \/ DeqLock(t) \/ DeqPop(t) \/ DeqUnlock(t)
        <5>1. ~ InSize(t)'
          BY <4>4 DEF DeqPeek, DeqLock, DeqPop, DeqUnlock, NextVisit, Goto,
             InSize, TypeOK
        <5> QED
          BY <5>1
      <4> QED
        BY <2>2, <4>1, <4>2, <4>3, <4>4 DEF Step
    <3> QED
      BY <3>1, <3>4 DEF SizeOrder
  <2> QED
    BY <2>1, <2>2 DEF Next
<1> QED
  BY <1>1, <1>2, TypeCorrect, PTL DEF Spec

-----------------------------------------------------------------------------
(* A thread changes the lock words and what it holds together: it leaves both *)
(* alone, takes one free lock, or releases one lock it holds.                 *)
KeepsLocks(t) ==
  /\ lock' = lock
  /\ \A q \in Queues : Holds(t, q)' <=> Holds(t, q)

TakesLock(t, q) ==
  /\ lock[q] = 0
  /\ lock' = [lock EXCEPT ![q] = 1]
  /\ \A r \in Queues : Holds(t, r)' <=> Holds(t, r) \/ r = q

DropsLock(t, q) ==
  /\ Holds(t, q)
  /\ lock' = [lock EXCEPT ![q] = 0]
  /\ \A r \in Queues : Holds(t, r)' <=> Holds(t, r) /\ r # q

(* A step takes one lock that is free, drops one its thread holds, or leaves the locks. *)
LEMMA LockDiscipline ==
  ASSUME TypeOK, TypeOK', SizeOrder, SizeOrder',
         NEW t \in Threads, Call(t) \/ Step(t)
  PROVE  \/ KeepsLocks(t)
         \/ \E q \in Queues : TakesLock(t, q) \/ DropsLock(t, q)
<1> USE DEF OneLock
<1>1. CASE Call(t) /\ ~ CallSize(t)
  <2>1. lock' = lock /\ pc[t] = "idle" /\ pc'[t] \in {"enq_lock", "deq_peek"}
    BY <1>1 DEF Call, CallEnqueue, CallDequeue, CallDequeueLocal,
       CallDequeueRemote, CallDequeueOn, Goto, TypeOK
  <2> QED
    BY <2>1 DEF KeepsLocks, Holds
<1>2. CASE CallSize(t)
  <2>1. lock' = lock /\ pc[t] = "idle" /\ pc'[t] = "size_lock" /\ todo'[t] = AllInOrder
    BY <1>2 DEF CallSize, Goto, TypeOK
  <2>2. \A q \in Queues : Visits(t, q)'
    <3> SUFFICES ASSUME NEW q \in Queues PROVE Visits(t, q)'
      OBVIOUS
    <3>1. q + 1 \in 1..NQ /\ AllInOrder[q + 1] = q
      BY AllInOrderIsList, WorkQueueAssumption DEF Queues
    <3> QED
      BY <2>1, <3>1, AllInOrderIsList DEF Visits
  <2> QED
    BY <2>1, <2>2 DEF KeepsLocks, Holds
<1>3. CASE EnqLock(t) \/ DeqLock(t)
  <2>1. /\ Here(t) \in Queues
        /\ lock[Here(t)] = 0
        /\ lock' = [lock EXCEPT ![Here(t)] = 1]
        /\ pc[t] \in {"enq_lock", "deq_lock"}
        /\ pc'[t] \in {"enq_push", "deq_pop"}
        /\ Here(t)' = Here(t)
    BY <1>3, TodoList DEF EnqLock, DeqLock, AcquireLock, Goto, Here, TypeOK
  <2> QED
    BY <2>1 DEF TakesLock, Holds
<1>4. CASE EnqPush(t) \/ DeqPop(t)
  <2>1. /\ lock' = lock /\ Here(t)' = Here(t)
        /\ pc[t] \in {"enq_push", "deq_pop"}
        /\ pc'[t] \in {"enq_unlock", "deq_unlock"}
    BY <1>4 DEF EnqPush, DeqPop, Goto, Here, TypeOK
  <2> QED
    BY <2>1 DEF KeepsLocks, Holds
<1>5. CASE EnqUnlock(t) \/ DeqUnlock(t)
  <2>1. /\ Here(t) \in Queues
        /\ lock' = [lock EXCEPT ![Here(t)] = 0]
        /\ pc[t] \in {"enq_unlock", "deq_unlock"}
        /\ pc'[t] \in {"idle", "deq_peek", "return"}
    BY <1>5, TodoList DEF EnqUnlock, DeqUnlock, NextVisit, ReleaseLock, Goto, TypeOK
  <2> QED
    BY <2>1 DEF DropsLock, Holds
<1>6. CASE DeqPeek(t)
  <2>1. lock' = lock /\ pc[t] = "deq_peek" /\ pc'[t] \in {"deq_peek", "deq_lock", "return"}
    BY <1>6 DEF DeqPeek, NextVisit, Goto, TypeOK
  <2> QED
    BY <2>1 DEF KeepsLocks, Holds
<1>7. CASE Return(t)
  <2>1. lock' = lock /\ pc[t] = "return" /\ pc'[t] = "idle"
    BY <1>7 DEF Return, Goto, TypeOK
  <2> QED
    BY <2>1 DEF KeepsLocks, Holds
<1>8. CASE SizeLock(t) \/ SizeUnlock(t)
  <2>1. /\ Here(t) \in Queues /\ todo[t] # <<>> /\ InSize(t)
        /\ Len(todo[t]) \in Nat /\ Len(todo[t]) # 0
        /\ Here(t) = NQ - Len(todo[t])
    BY <1>8, TodoList, VisitsTheLast DEF SizeLock, SizeUnlock, InSize, Goto, TypeOK
  <2>2. \A q \in Queues : Visits(t, q) <=> q >= Here(t)
    BY <2>1, VisitsTheLast
  <2>3. NQ \in Nat /\ \A q \in Queues : q \in Nat /\ q < NQ
    BY WorkQueueAssumption DEF Queues
  <2>4. \A q \in Queues : q > Here(t) <=> q >= Here(t) /\ q # Here(t)
    BY <2>1, <2>3
  <2>5. ASSUME Len(todo[t]) > 1, todo'[t] = Tail(todo[t]), InSize(t)'
        PROVE  \A q \in Queues : Visits(t, q)' <=> q > Here(t)
    <3>1. /\ Len(todo'[t]) \in Nat /\ Len(todo'[t]) # 0
          /\ Len(todo'[t]) = Len(todo[t]) - 1
      BY <2>1, <2>5, TodoList, SMTT(60)
    <3>2. Len(todo'[t]) <= NQ /\ Ascending(todo'[t], Len(todo'[t]))
      BY <2>5 DEF SizeOrder, Ascending
    <3>3. \A q \in Queues : Visits(t, q)' <=> q >= NQ - Len(todo'[t])
      BY <3>1, <3>2, AscendingList DEF Visits
    <3>4. NQ - Len(todo'[t]) = Here(t) + 1
      <4>1. NQ \in Nat /\ Len(todo[t]) \in Nat
        BY <2>1, <2>3
      <4> QED
        BY <2>1, <3>1, <4>1
    <3>5. Here(t) \in Nat
      BY <2>1, <2>3
    <3> QED
      BY <2>3, <3>3, <3>4, <3>5
  <2>6. CASE SizeLock(t)
    <3>1. /\ lock[Here(t)] = 0
          /\ lock' = [lock EXCEPT ![Here(t)] = 1]
          /\ pc[t] = "size_lock"
      BY <2>6 DEF SizeLock, AcquireLock
    <3>2. CASE Len(todo[t]) > 1 /\ pc'[t] = "size_lock" /\ todo'[t] = Tail(todo[t])
      BY <2>1, <2>2, <2>4, <2>5, <3>1, <3>2 DEF TakesLock, Holds, InSize
    <3>3. CASE Len(todo[t]) = 1 /\ pc'[t] = "size_unlock" /\ todo'[t] = AllInOrder
      <4>1. \A q \in Queues : Visits(t, q)'
        <5> SUFFICES ASSUME NEW q \in Queues PROVE Visits(t, q)'
          OBVIOUS
        <5>1. q + 1 \in 1..NQ /\ AllInOrder[q + 1] = q
          BY AllInOrderIsList, WorkQueueAssumption DEF Queues
        <5> QED
          BY <3>3, <5>1, AllInOrderIsList DEF Visits
      <4>2. Here(t) = NQ - 1
        BY <2>1, <3>3
      <4>3. \A q \in Queues : q >= Here(t) => q = Here(t)
        BY <2>3, <4>2
      <4>4. \A q \in Queues : Holds(t, q)'
        BY <3>3, <4>1 DEF Holds
      <4>5. \A q \in Queues : Holds(t, q) \/ q = Here(t)
        BY <2>2, <3>1, <4>3 DEF Holds
      <4> QED
        BY <2>1, <3>1, <4>4, <4>5 DEF TakesLock
    <3> QED
      BY <2>6, <3>2, <3>3 DEF SizeLock, Goto, TypeOK
  <2>7. CASE SizeUnlock(t)
    <3>1. /\ lock' = [lock EXCEPT ![Here(t)] = 0]
          /\ pc[t] = "size_unlock"
      BY <2>7 DEF SizeUnlock, ReleaseLock
    <3>2. Holds(t, Here(t))
      BY <2>1, <2>2, <2>3, <3>1 DEF Holds
    <3>3. CASE Len(todo[t]) > 1 /\ pc'[t] = "size_unlock" /\ todo'[t] = Tail(todo[t])
      BY <2>1, <2>2, <2>4, <2>5, <3>1, <3>2, <3>3 DEF DropsLock, Holds, InSize
    <3>4. CASE Len(todo[t]) = 1 /\ pc'[t] = "return"
      <4>1. Here(t) = NQ - 1
        BY <2>1, <3>4
      <4>2. \A q \in Queues : q >= Here(t) => q = Here(t)
        BY <2>3, <4>1
      <4>3. \A q \in Queues : ~ Holds(t, q)'
        BY <3>4 DEF Holds
      <4>4. \A q \in Queues : Holds(t, q) => q = Here(t)
        BY <2>2, <3>1, <4>2 DEF Holds
      <4> QED
        BY <2>1, <3>1, <3>2, <4>3, <4>4 DEF DropsLock
    <3> QED
      BY <2>7, <3>3, <3>4 DEF SizeUnlock, Goto, TypeOK
  <2> QED
    BY <1>8, <2>6, <2>7
<1> QED
  BY <1>1, <1>2, <1>3, <1>4, <1>5, <1>6, <1>7, <1>8 DEF Step

(* Each queue is held by at most one thread, and its lock word says whether *)
(* it is held, although the unlock is a plain store and the size operation  *)
(* takes and releases all locks in between.                                 *)
THEOREM LocksExclude == Spec => []MutualExclusion
<1>1. Init => MutualExclusion
  BY DEF Init, MutualExclusion, Holds, OneLock
<1>2. /\ TypeOK /\ SizeOrder /\ MutualExclusion /\ [Next]_vars
      /\ TypeOK' /\ SizeOrder'
      => MutualExclusion'
  <2> SUFFICES ASSUME TypeOK, TypeOK', SizeOrder, SizeOrder', MutualExclusion,
                      [Next]_vars
               PROVE  MutualExclusion'
    OBVIOUS
  <2>1. CASE UNCHANGED vars
    BY <2>1 DEF vars, MutualExclusion, Holds, Visits, Here
  <2>2. ASSUME NEW t \in Threads, Call(t) \/ Step(t)
        PROVE  MutualExclusion'
    <3>1. \A u \in Threads \ {t} : \A q \in Queues : Holds(u, q)' <=> Holds(u, q)
      BY <2>2, OthersKeep DEF Holds, Visits, Here
    <3>2. lock \in [Queues -> {0, 1}]
      BY DEF TypeOK
    <3>3. CASE KeepsLocks(t)
      BY <3>1, <3>3 DEF KeepsLocks, MutualExclusion
    <3>4. ASSUME NEW q \in Queues, TakesLock(t, q)
          PROVE  MutualExclusion'
      BY <3>1, <3>2, <3>4 DEF TakesLock, MutualExclusion
    <3>5. ASSUME NEW q \in Queues, DropsLock(t, q)
          PROVE  MutualExclusion'
      BY <3>1, <3>2, <3>5 DEF DropsLock, MutualExclusion
    <3> QED
      BY <2>2, <3>3, <3>4, <3>5, LockDiscipline
  <2> QED
    BY <2>1, <2>2 DEF Next
<1> QED
  BY <1>1, <1>2, TypeCorrect, SizeGoesInOrder, PTL DEF Spec

-----------------------------------------------------------------------------
(* What taking and dropping a lock do to the lock words. *)
LEMMA LockWords ==
  ASSUME TypeOK, NEW t \in Threads, NEW q \in Queues
  PROVE  /\ TakesLock(t, q) => /\ lock[q] = 0 /\ lock'[q] = 1
                              /\ \A r \in Queues \ {q} : lock'[r] = lock[r]
         /\ DropsLock(t, q) => /\ lock'[q] = 0
                              /\ \A r \in Queues \ {q} : lock'[r] = lock[r]
<1>1. lock \in [Queues -> {0, 1}]
  BY DEF TypeOK
<1> QED
  BY <1>1 DEF TakesLock, DropsLock

(* A queue changes only under its lock, in an enqueue or a dequeue. *)
LEMMA QueueDiscipline ==
  ASSUME TypeOK, NEW t \in Threads, Call(t) \/ Step(t), NEW q \in Queues
  PROVE  \/ queue'[q] = queue[q]
         \/ Holds(t, q) /\ ~ InSize(t) /\ (EnqPush(t) \/ DeqPop(t))
<1>1. CASE EnqPush(t) \/ DeqPop(t)
  BY <1>1 DEF EnqPush, DeqPop, Goto, Holds, OneLock, InSize, TypeOK
<1>2. CASE ~ (EnqPush(t) \/ DeqPop(t))
  <2>1. queue' = queue
    BY <1>2 DEF Call, Step, CallEnqueue, CallDequeue, CallDequeueLocal,
       CallDequeueRemote, CallDequeueOn, CallSize, EnqLock, EnqUnlock, DeqPeek,
       DeqLock, DeqUnlock, SizeLock, SizeUnlock, Return
  <2> QED
    BY <2>1
<1> QED
  BY <1>1, <1>2

(* What mctop_wq_get_size_atomic has read stays true until it unlocks: no    *)
(* enqueue or dequeue gets at a queue whose size is already in the sum.      *)
THEOREM SizeAtomicity == Spec => []SizeIsAtomic
<1>1. Init => SizeIsAtomic
  BY DEF Init, SizeIsAtomic
<1>2. /\ TypeOK /\ SizeOrder /\ MutualExclusion /\ SizeIsAtomic /\ [Next]_vars
      /\ TypeOK' /\ SizeOrder'
      => SizeIsAtomic'
  <2> SUFFICES ASSUME TypeOK, SizeOrder, MutualExclusion, SizeIsAtomic, TypeOK',
                      SizeOrder', [Next]_vars
               PROVE  SizeIsAtomic'
    OBVIOUS
  <2>1. CASE UNCHANGED vars
    BY <2>1 DEF vars, SizeIsAtomic, Holds, Visits, Here
  <2>2. ASSUME NEW t \in Threads, Call(t) \/ Step(t),
               NEW u \in Threads, NEW q \in Queues,
               InSize(u)', Holds(u, q)'
        PROVE  seen'[u][q] = Len(queue'[q])
    <3>1. CASE u # t
      <4>1. InSize(u) /\ Holds(u, q) /\ seen'[u] = seen[u]
        BY <2>2, <3>1, OthersKeep DEF InSize, Holds, Visits, Here
      <4>2. queue'[q] = queue[q]
        BY <2>2, <3>1, <4>1, QueueDiscipline DEF MutualExclusion
      <4> QED
        BY <4>1, <4>2 DEF SizeIsAtomic, InSize
    <3>2. CASE u = t /\ (SizeLock(t) \/ SizeUnlock(t))
      <4>1. InSize(t) /\ queue' = queue
        BY <3>2 DEF SizeLock, SizeUnlock, InSize
      <4>2. CASE Holds(t, q) /\ seen'[t][q] = seen[t][q]
        BY <3>2, <4>1, <4>2 DEF SizeIsAtomic, InSize
      <4>3. CASE SizeUnlock(t)
        <5>1. seen' = seen /\ Here(t) \in Queues
              /\ lock' = [lock EXCEPT ![Here(t)] = 0]
          BY <4>1, <4>3, TodoList DEF SizeUnlock, ReleaseLock, InSize, TypeOK
        <5>2. ~ \E r \in Queues : TakesLock(t, r)
          <6>1. \A r \in Queues : lock[r] = 0 => lock'[r] = 0
            BY <5>1 DEF TypeOK
          <6> QED
            BY <6>1, LockWords
        <5>3. Holds(t, q)
          BY <2>2, <3>2, <5>2, LockDiscipline DEF KeepsLocks, DropsLock
        <5> QED
          BY <4>2, <5>1, <5>3
      <4>4. CASE SizeLock(t)
        <5>1. /\ Here(t) \in Queues /\ lock[Here(t)] = 0
              /\ lock' = [lock EXCEPT ![Here(t)] = 1]
              /\ seen'[t] = [seen[t] EXCEPT ![Here(t)] = Len(queue[Here(t)])]
          BY <4>1, <4>4, TodoList DEF SizeLock, AcquireLock, InSize, TypeOK
        <5>2. PICK r \in Queues : TakesLock(t, r)
          <6>1. lock'[Here(t)] = 1
            BY <5>1 DEF TypeOK
          <6>2. lock' # lock
            BY <5>1, <6>1
          <6>3. ~ \E r \in Queues : DropsLock(t, r)
            BY <5>1, <6>1, LockWords
          <6> QED
            BY <2>2, <6>2, <6>3, LockDiscipline DEF KeepsLocks
        <5>3. r = Here(t)
          <6>1. \A s \in Queues \ {Here(t)} : lock'[s] = lock[s]
            BY <5>1 DEF TypeOK
          <6> QED
            BY <5>2, <6>1, LockWords
        <5>4. CASE q = Here(t)
          BY <3>2, <4>1, <5>1, <5>4 DEF TypeOK
        <5>5. CASE q # Here(t)
          <6>1. Holds(t, q)
            BY <2>2, <3>2, <5>2, <5>3, <5>5 DEF TakesLock
          <6>2. seen'[t][q] = seen[t][q]
            BY <5>1, <5>5 DEF TypeOK
          <6> QED
            BY <4>2, <6>1, <6>2
        <5> QED
          BY <5>4, <5>5
      <4> QED
        BY <3>2, <4>3, <4>4
    <3>3. CASE u = t /\ ~ (SizeLock(t) \/ SizeUnlock(t))
      <4>1. CallSize(t)
        BY <2>2, <3>3 DEF Call, Step, CallEnqueue, CallDequeue, CallDequeueLocal,
           CallDequeueRemote, CallDequeueOn, EnqLock, EnqPush, EnqUnlock, DeqPeek,
           DeqLock, DeqPop, DeqUnlock, NextVisit, Return, Goto, InSize, TypeOK
      <4>2. ~ Holds(t, q) /\ lock' = lock
        BY <4>1 DEF CallSize, Goto, Holds, OneLock
      <4>3. ~ Holds(t, q)'
        <5>1. ~ \E r \in Queues : TakesLock(t, r)
          BY <4>2, LockWords
        <5> QED
          BY <2>2, <4>2, <5>1, LockDiscipline DEF KeepsLocks, DropsLock
      <4> QED
        BY <2>2, <3>3, <4>3
    <3> QED
      BY <3>1, <3>2, <3>3
  <2> QED
    BY <2>1, <2>2 DEF Next, SizeIsAtomic, InSize
<1> QED
  BY <1>1, <1>2, TypeCorrect, SizeGoesInOrder, LocksExclude, PTL DEF Spec

-----------------------------------------------------------------------------
(* What a dequeue knows on its way, as long as nothing is enqueued: all *)
(* queues that it does not visit any more are empty.                    *)
NoItemYet == {"idle", "enq_unlock", "deq_peek", "deq_lock", "deq_pop", "size_lock",
               "size_unlock"}

EmptyOrVisited(t) ==
  \A q \in Queues : queue[q] = <<>> \/ (pc[t] # "return" /\ Visits(t, q))

QuietSoFar ==
  \A t \in Threads :
    /\ pc[t] \in NoItemYet => val[t] = NULL
    /\ quiet[t] =>
         /\ pc[t] \in Dequeuing \cup {"return"}
         /\ val[t] = NULL =>
              /\ EmptyOrVisited(t)
              /\ pc[t] = "deq_unlock" => queue[Here(t)] = <<>>

(* The head of the list is visited, and the tail keeps all other visits. *)
LEMMA VisitsHeadOrTail ==
  ASSUME TypeOK, NEW t \in Threads, todo[t] # <<>>, NEW q \in Queues, Visits(t, q)
  PROVE  q = Here(t) \/ \E i \in 1..Len(Tail(todo[t])) : Tail(todo[t])[i] = q
<1>1. PICK i \in 1..Len(todo[t]) : todo[t][i] = q
  BY DEF Visits
<1>2. Len(todo[t]) \in Nat
  BY TodoList
<1>3. CASE i = 1
  BY <1>1, <1>3, TodoList
<1>4. CASE i # 1
  <2>1. i - 1 \in 1..Len(todo[t]) - 1 /\ (i - 1) + 1 = i
    BY <1>2, <1>4
  <2>2. Tail(todo[t])[i - 1] = q
    BY <1>1, <2>1, TodoList
  <2> QED
    BY <2>1, <2>2, TodoList
<1> QED
  BY <1>3, <1>4

(* So a dequeue that found the queue it visits empty may go on. *)
LEMMA SkipEmpty ==
  ASSUME TypeOK, NEW t \in Threads, NEW from \in Pcs, todo[t] # <<>>,
         NextVisit(t, from), queue' = queue, queue[Here(t)] = <<>>,
         from # "return", EmptyOrVisited(t)
  PROVE  EmptyOrVisited(t)'
<1> SUFFICES ASSUME NEW q \in Queues, queue[q] # <<>>
             PROVE  pc'[t] # "return" /\ Visits(t, q)'
  BY DEF EmptyOrVisited
<1>1. Visits(t, q) /\ q # Here(t)
  BY DEF EmptyOrVisited
<1>2. PICK i \in 1..Len(Tail(todo[t])) : Tail(todo[t])[i] = q
  BY <1>1, VisitsHeadOrTail
<1>3. todo'[t] = Tail(todo[t])
  BY DEF NextVisit, TypeOK
<1>4. Visits(t, q)'
  BY <1>2, <1>3 DEF Visits
<1>5. Len(todo[t]) # 1
  BY <1>2, TodoList
<1> QED
  BY <1>4, <1>5, NextVisitShortens DEF TypeOK

(* The list of a dequeue that visits every queue starts with all of them. *)
LEMMA FullListVisitsAll ==
  ASSUME NEW t \in Threads, NEW q \in Queues
  PROVE  /\ \E i \in 1..Len(NextQ[Local[t]]) : NextQ[Local[t]][i] = q
         /\ \E i \in 1..Len(<<Local[t]>> \o NextQ[Local[t]]) :
              (<<Local[t]>> \o NextQ[Local[t]])[i] = q
<1>1. Local[t] \in Queues
  BY WorkQueueAssumption
<1>2. NextQ[Local[t]] \in Seq(Queues) /\ <<Local[t]>> \in Seq(Queues) /\ Len(<<Local[t]>>) = 1
  BY <1>1, WorkQueueAssumption
<1>3. PICK i \in 1..Len(NextQ[Local[t]]) : NextQ[Local[t]][i] = q
  BY <1>1, WorkQueueAssumption
<1>4. Len(NextQ[Local[t]]) \in Nat
  BY <1>2, LenProperties
<1>5. i + 1 \in 1..1 + Len(NextQ[Local[t]]) /\ ~ (i + 1 <= 1) /\ (i + 1) - 1 = i
  BY <1>4
<1>6. /\ Len(<<Local[t]>> \o NextQ[Local[t]]) = 1 + Len(NextQ[Local[t]])
      /\ (<<Local[t]>> \o NextQ[Local[t]])[i + 1] = NextQ[Local[t]][i]
  BY <1>2, <1>5, ConcatProperties
<1> QED
  BY <1>3, <1>5, <1>6

(* A step of thread t keeps what another thread knows: a pop empties queues, *)
(* a push ends the history of everybody.                                     *)
LEMMA OthersStayQuiet ==
  ASSUME TypeOK, QuietSoFar, NEW t \in Threads, Call(t) \/ Step(t),
         NEW u \in Threads \ {t}, quiet'[u]
  PROVE  /\ quiet[u]
         /\ \A q \in Queues : queue[q] = <<>> => queue'[q] = <<>>
<1>1. quiet[u] /\ ~ EnqPush(t)
  <2>1. quiet'[u] # FALSE
    OBVIOUS
  <2>2. ~ EnqPush(t)
    BY <2>1 DEF EnqPush
  <2> QED
    BY <2>1, <2>2, OthersKeep
<1>2. ASSUME NEW q \in Queues, queue[q] = <<>> PROVE queue'[q] = <<>>
  <2>1. CASE DeqPop(t)
    <3>1. Here(t) \in Queues
      BY <2>1, TodoList DEF DeqPop, Goto, TypeOK
    <3> QED
      BY <1>2, <2>1, <3>1 DEF DeqPop, TypeOK
  <2>2. CASE ~ DeqPop(t)
    BY <1>1, <1>2, <2>2, QueueDiscipline
  <2> QED
    BY <2>1, <2>2
<1> QED
  BY <1>1, <1>2

(* As long as nothing was enqueued, a queue that a dequeue has visited is empty. *)
LEMMA QuietHistory == Spec => []QuietSoFar
<1>1. Init => QuietSoFar
  BY DEF Init, QuietSoFar
<1>2. TypeOK /\ QuietSoFar /\ [Next]_vars /\ TypeOK' => QuietSoFar'
  <2> SUFFICES ASSUME TypeOK, QuietSoFar, [Next]_vars, TypeOK' PROVE QuietSoFar'
    OBVIOUS
  <2> DEFINE Known(u) ==
               /\ pc[u] \in NoItemYet => val[u] = NULL
               /\ quiet[u] =>
                    /\ pc[u] \in Dequeuing \cup {"return"}
                    /\ val[u] = NULL =>
                         /\ EmptyOrVisited(u)
                         /\ pc[u] = "deq_unlock" => queue[Here(u)] = <<>>
  <2> USE DEF NoItemYet, Dequeuing
  <2>1. CASE UNCHANGED vars
    BY <2>1 DEF vars, QuietSoFar, EmptyOrVisited, Visits, Here
  <2>2. ASSUME NEW t \in Threads, Call(t) \/ Step(t), NEW u \in Threads \ {t}
        PROVE  Known(u)'
    <3>1. /\ pc'[u] = pc[u] /\ todo'[u] = todo[u] /\ val'[u] = val[u]
          /\ Known(u)
      BY <2>2, OthersKeep DEF QuietSoFar
    <3>2. CASE ~ quiet'[u]
      BY <3>1, <3>2
    <3>3. CASE quiet'[u]
      <4>1. quiet[u] /\ \A q \in Queues : queue[q] = <<>> => queue'[q] = <<>>
        BY <2>2, <3>3, OthersStayQuiet
      <4>2. EmptyOrVisited(u) => EmptyOrVisited(u)'
        BY <3>1, <4>1 DEF EmptyOrVisited, Visits
      <4>3. pc[u] = "deq_unlock" => Here(u) \in Queues /\ Here(u)' = Here(u)
        BY <3>1, TodoList DEF Here, TypeOK
      <4> QED
        BY <3>1, <4>1, <4>2, <4>3
    <3> QED
      BY <3>2, <3>3
  <2>3. ASSUME NEW t \in Threads, Call(t) \/ Step(t)
        PROVE  Known(t)'
    <3>0. Known(t) /\ pc \in [Threads -> Pcs] /\ todo \in [Threads -> Seq(Queues)]
          /\ val \in [Threads -> Items \cup {NULL}] /\ quiet \in [Threads -> BOOLEAN]
      BY DEF QuietSoFar, TypeOK
    <3>1. ASSUME NEW q \in Queues, NEW x \in Items, CallEnqueue(t, q, x)
          PROVE  Known(t)'
      BY <3>0, <3>1 DEF CallEnqueue, Goto
    <3>2. CASE CallDequeueLocal(t)
      BY <3>0, <3>2 DEF CallDequeueLocal, CallDequeueOn, Goto
    <3>3. CASE CallDequeue(t) \/ CallDequeueRemote(t)
      <4>1. /\ pc[t] = "idle" /\ pc'[t] = "deq_peek" /\ val' = val
            /\ \/ todo'[t] = NextQ[Local[t]]
               \/ todo'[t] = <<Local[t]>> \o NextQ[Local[t]]
        BY <3>0, <3>3 DEF CallDequeue, CallDequeueRemote, CallDequeueOn, Goto
      <4>2. \A q \in Queues : Visits(t, q)'
        BY <4>1, FullListVisitsAll, SMTT(40) DEF Visits
      <4> QED
        BY <3>0, <4>1, <4>2 DEF EmptyOrVisited
    <3>4. CASE CallSize(t)
      BY <3>0, <3>4 DEF CallSize, Goto
    <3>5. CASE EnqLock(t) \/ EnqPush(t) \/ EnqUnlock(t)
      <4>1. pc'[t] \notin NoItemYet \/ val'[t] = NULL
        <5>1. CASE EnqUnlock(t)
          BY <3>0, <5>1 DEF EnqUnlock, Goto
        <5>2. CASE EnqLock(t) \/ EnqPush(t)
          BY <3>0, <5>2 DEF EnqLock, EnqPush, Goto
        <5> QED
          BY <3>5, <5>1, <5>2
      <4>2. ~ quiet'[t]
        <5>1. CASE EnqPush(t)
          BY <5>1 DEF EnqPush
        <5>2. CASE EnqLock(t) \/ EnqUnlock(t)
          BY <3>0, <5>2 DEF EnqLock, EnqUnlock, Goto
        <5> QED
          BY <3>5, <5>1, <5>2
      <4> QED
        BY <4>1, <4>2
    <3>6. CASE DeqPeek(t)
      <4>0. /\ pc[t] = "deq_peek" /\ todo[t] # <<>> /\ val[t] = NULL
            /\ quiet' = quiet /\ queue' = queue /\ val' = val
            /\ quiet[t] => EmptyOrVisited(t)
        BY <3>0, <3>6 DEF DeqPeek, TypeOK
      <4>1. CASE queue[Here(t)] = <<>> /\ NextVisit(t, "deq_peek")
        <5>1. quiet[t] => EmptyOrVisited(t)'
          BY <4>0, <4>1, SkipEmpty DEF Pcs
        <5>2. pc'[t] \in {"deq_peek", "return"}
          BY <3>0, <4>1 DEF NextVisit, Goto
        <5> QED
          BY <4>0, <5>1, <5>2
      <4>2. CASE Goto(t, "deq_peek", "deq_lock") /\ UNCHANGED todo
        <5>1. pc'[t] = "deq_lock"
          BY <3>0, <4>2 DEF Goto
        <5>2. EmptyOrVisited(t) => EmptyOrVisited(t)'
          BY <4>0, <4>2, <5>1 DEF EmptyOrVisited, Visits
        <5> QED
          BY <4>0, <5>1, <5>2
      <4> QED
        BY <3>6, <4>1, <4>2 DEF DeqPeek
    <3>7. CASE DeqLock(t)
      BY <3>0, <3>7 DEF DeqLock, Goto, EmptyOrVisited, Visits
    <3>8. CASE DeqPop(t)
      <4>0. /\ pc[t] = "deq_pop" /\ pc'[t] = "deq_unlock" /\ val[t] = NULL
            /\ quiet' = quiet /\ todo' = todo
            /\ quiet[t] => EmptyOrVisited(t)
        BY <3>0, <3>8 DEF DeqPop, Goto
      <4>1. CASE queue[Here(t)] = <<>> /\ UNCHANGED <<queue, val>>
        <5>1. EmptyOrVisited(t) => EmptyOrVisited(t)'
          BY <4>0, <4>1 DEF EmptyOrVisited, Visits
        <5> QED
          BY <4>0, <4>1, <5>1 DEF Here
      <4>2. CASE /\ queue[Here(t)] # <<>>
                 /\ val' = [val EXCEPT ![t] = Head(queue[Here(t)])]
        <5>1. queue[Here(t)] \in Seq(Items)
          BY <4>0, TodoList DEF TypeOK
        <5>2. val'[t] # NULL
          <6>1. Head(queue[Here(t)]) \in Items
            BY <4>2, <5>1, HeadTailProperties
          <6> QED
            BY <3>0, <4>2, <6>1, WorkQueueAssumption
        <5> QED
          BY <4>0, <5>2
      <4> QED
        BY <3>8, <4>1, <4>2 DEF DeqPop
    <3>9. CASE DeqUnlock(t)
      <4>0. /\ pc[t] = "deq_unlock" /\ todo[t] # <<>>
            /\ quiet' = quiet /\ queue' = queue /\ val' = val
            /\ quiet[t] /\ val[t] = NULL =>
                 EmptyOrVisited(t) /\ queue[Here(t)] = <<>>
        BY <3>0, <3>9 DEF DeqUnlock, TypeOK
      <4>1. CASE val[t] = NULL /\ NextVisit(t, "deq_unlock")
        <5>1. quiet[t] => EmptyOrVisited(t)'
          BY <4>0, <4>1, SkipEmpty DEF Pcs
        <5>2. pc'[t] \in {"deq_peek", "return"}
          BY <3>0, <4>1 DEF NextVisit, Goto
        <5> QED
          BY <4>0, <4>1, <5>1, <5>2
      <4>2. CASE val[t] # NULL /\ Goto(t, "deq_unlock", "return")
        BY <3>0, <4>0, <4>2 DEF Goto
      <4> QED
        BY <3>9, <4>1, <4>2 DEF DeqUnlock
    <3>10. CASE SizeLock(t) \/ SizeUnlock(t)
      BY <3>0, <3>10 DEF SizeLock, SizeUnlock, Goto
    <3>11. CASE Return(t)
      BY <3>0, <3>11 DEF Return, Goto
    <3> QED
      BY <2>3, <3>1, <3>2, <3>3, <3>4, <3>5, <3>6, <3>7, <3>8, <3>9, <3>10,
         <3>11 DEF Call, Step
  <2> QED
    BY <2>1, <2>2, <2>3 DEF Next, QuietSoFar
<1> QED
  BY <1>1, <1>2, TypeCorrect, PTL DEF Spec

(* A dequeue that went through all queues and got nothing, with nothing     *)
(* enqueued meanwhile, leaves all of them empty: what its unlocked reads     *)
(* skipped was empty, and stays so.                                          *)
THEOREM NullIsTrue == Spec => []NullMeansDrained
<1>1. QuietSoFar => NullMeansDrained
  BY DEF QuietSoFar, NullMeansDrained, EmptyOrVisited
<1> QED
  BY <1>1, QuietHistory, PTL

-----------------------------------------------------------------------------
(* What Append and Tail do to the places of an item in a queue. *)
In(s, x) == \E i \in 1..Len(s) : s[i] = x
Once(s, x) == \A i, j \in 1..Len(s) : s[i] = x /\ s[j] = x => i = j

(* An item put at the end of a queue adds one place, its own. *)
LEMMA AppendPlaces ==
  ASSUME NEW s \in Seq(Items), NEW y \in Items, NEW x \in Items
  PROVE  /\ In(Append(s, y), x) <=> In(s, x) \/ x = y
         /\ Once(s, x) /\ ~ (x = y /\ In(s, x)) => Once(Append(s, y), x)
<1> DEFINE a == Append(s, y)
<1>1. Len(s) \in Nat
  BY LenProperties
<1>2. /\ Len(a) = Len(s) + 1 /\ a[Len(s) + 1] = y
      /\ \A i \in 1..Len(s) : a[i] = s[i]
  BY AppendProperties
<1>3. \A i : i \in 1..Len(a) <=> i \in 1..Len(s) \/ i = Len(s) + 1
  BY <1>1, <1>2
<1> HIDE DEF a
<1>4. In(a, x) <=> In(s, x) \/ x = y
  BY <1>2, <1>3 DEF In
<1>5. ASSUME Once(s, x), ~ (x = y /\ In(s, x)) PROVE Once(a, x)
  BY <1>2, <1>3, <1>5 DEF Once, In
<1> QED
  BY <1>4, <1>5 DEF a

(* Without its head a queue has every other item where it was. *)
LEMMA TailPlaces ==
  ASSUME NEW s \in Seq(Items), s # <<>>, NEW x \in Items
  PROVE  /\ Head(s) \in Items /\ In(s, Head(s))
         /\ In(Tail(s), x) => In(s, x)
         /\ In(s, x) => In(Tail(s), x) \/ x = Head(s)
         /\ Once(s, x) => Once(Tail(s), x)
         /\ Once(s, x) /\ x = Head(s) => ~ In(Tail(s), x)
<1> DEFINE r == Tail(s)
<1>1. Len(s) \in Nat /\ Len(s) # 0 /\ Head(s) \in Items /\ Head(s) = s[1]
  BY HeadTailProperties, EmptySeq
<1>2. /\ Len(r) = Len(s) - 1
      /\ \A i \in 1..Len(r) : r[i] = s[i + 1]
  BY HeadTailProperties
<1>3. \A i \in 1..Len(r) : i \in Nat /\ i + 1 \in 1..Len(s) /\ i + 1 # 1
  BY <1>1, <1>2
<1>4. \A i \in 1..Len(s) : i # 1 => i - 1 \in 1..Len(r) /\ (i - 1) + 1 = i
  BY <1>1, <1>2
<1>5. 1 \in 1..Len(s)
  BY <1>1
<1> HIDE DEF r
<1>6. In(r, x) => In(s, x)
  BY <1>2, <1>3 DEF In
<1>7. ASSUME In(s, x), x # Head(s) PROVE In(r, x)
  <2>1. PICK i \in 1..Len(s) : s[i] = x
    BY <1>7 DEF In
  <2>2. i - 1 \in 1..Len(r) /\ (i - 1) + 1 = i
    BY <1>1, <1>4, <1>7, <2>1
  <2>3. r[i - 1] = x
    BY <1>2, <2>1, <2>2
  <2> QED
    BY <2>2, <2>3 DEF In
<1>8. ASSUME Once(s, x) PROVE Once(r, x)
  <2> SUFFICES ASSUME NEW i \in 1..Len(r), NEW j \in 1..Len(r), r[i] = x, r[j] = x
               PROVE  i = j
    BY DEF Once
  <2>1. i + 1 = j + 1
    BY <1>2, <1>3, <1>8 DEF Once
  <2> QED
    BY <1>3, <2>1
<1>9. ASSUME Once(s, x), x = Head(s), In(r, x) PROVE FALSE
  <2>1. PICK i \in 1..Len(r) : r[i] = x
    BY <1>9 DEF In
  <2>2. s[i + 1] = x /\ s[1] = x /\ i + 1 # 1 /\ i + 1 \in 1..Len(s)
    BY <1>1, <1>2, <1>3, <1>9, <2>1
  <2> QED
    BY <1>5, <1>9, <2>2 DEF Once
<1>10. In(s, Head(s))
  BY <1>1, <1>5 DEF In
<1> QED
  BY <1>1, <1>6, <1>7, <1>8, <1>9, <1>10 DEF r

(* The steps that move an item, and what they move. *)
HandToVal(t, x) ==
  /\ x \in hand[t] /\ val[t] = NULL
  /\ val' = [val EXCEPT ![t] = x]
  /\ hand' = [hand EXCEPT ![t] = @ \ {x}]
  /\ queue' = queue
ValToQueue(t, q) ==
  /\ val[t] \in Items
  /\ queue' = [queue EXCEPT ![q] = Append(@, val[t])]
  /\ val' = [val EXCEPT ![t] = NULL]
  /\ hand' = hand
QueueToVal(t, q) ==
  /\ queue[q] # <<>> /\ val[t] = NULL
  /\ val' = [val EXCEPT ![t] = Head(queue[q])]
  /\ queue' = [queue EXCEPT ![q] = Tail(@)]
  /\ hand' = hand
ValToHand(t) ==
  /\ val[t] \in Items
  /\ hand' = [hand EXCEPT ![t] = @ \cup {val[t]}]
  /\ val' = [val EXCEPT ![t] = NULL]
  /\ queue' = queue

(* A step moves one item from one place to the next, or none. *)
LEMMA Moves ==
  ASSUME TypeOK, QuietSoFar, [Next]_vars
  PROVE  \/ UNCHANGED <<queue, val, hand>>
         \/ \E t \in Threads :
              \/ \E x \in Items : HandToVal(t, x)
              \/ \E q \in Queues : ValToQueue(t, q) \/ QueueToVal(t, q)
              \/ ValToHand(t)
<1>1. CASE UNCHANGED vars
  BY <1>1 DEF vars
<1>2. ASSUME NEW t \in Threads, NEW q \in Queues, NEW x \in Items, CallEnqueue(t, q, x)
      PROVE  HandToVal(t, x)
  BY <1>2 DEF CallEnqueue, Goto, HandToVal, QuietSoFar, NoItemYet
<1>3. ASSUME NEW t \in Threads, EnqPush(t)
      PROVE  \E q \in Queues : ValToQueue(t, q)
  <2>1. Here(t) \in Queues /\ val[t] \in Items
    BY <1>3, TodoList DEF EnqPush, Goto, TypeOK, Enqueuing
  <2> QED
    BY <1>3, <2>1 DEF EnqPush, ValToQueue
<1>4. ASSUME NEW t \in Threads, DeqPop(t)
      PROVE  UNCHANGED <<queue, val, hand>> \/ \E q \in Queues : QueueToVal(t, q)
  <2>1. Here(t) \in Queues /\ val[t] = NULL
    BY <1>4, TodoList DEF DeqPop, Goto, TypeOK, QuietSoFar, NoItemYet
  <2> QED
    BY <1>4, <2>1 DEF DeqPop, QueueToVal
<1>5. ASSUME NEW t \in Threads, Return(t)
      PROVE  UNCHANGED <<queue, val, hand>> \/ ValToHand(t)
  BY <1>5 DEF Return, ValToHand, TypeOK
<1>6. ASSUME NEW t \in Threads,
             \/ CallDequeue(t) \/ CallDequeueLocal(t) \/ CallDequeueRemote(t)
             \/ CallSize(t) \/ EnqLock(t) \/ EnqUnlock(t) \/ DeqPeek(t)
             \/ DeqLock(t) \/ DeqUnlock(t) \/ SizeLock(t) \/ SizeUnlock(t)
      PROVE  UNCHANGED <<queue, val, hand>>
  BY <1>6 DEF CallDequeue, CallDequeueLocal, CallDequeueRemote, CallDequeueOn,
     CallSize, EnqLock, EnqUnlock, DeqPeek, DeqLock, DeqUnlock, SizeLock,
     SizeUnlock
<1> QED
  BY <1>1, <1>2, <1>3, <1>4, <1>5, <1>6 DEF Next, Call, Step

(* No item is in two places, and none disappears. *)
Single(x) ==
  /\ \A t, u \in Threads : Has(t, x) /\ Has(u, x) => t = u
  /\ \A t \in Threads : ~ (x \in hand[t] /\ val[t] = x)
  /\ \A t \in Threads, q \in Queues : ~ (Has(t, x) /\ In(queue[q], x))
  /\ \A q, r \in Queues : In(queue[q], x) /\ In(queue[r], x) => q = r
  /\ \A q \in Queues : Once(queue[q], x)

(* No move gives an item a second place. *)
LEMMA MovesKeepSingle ==
  ASSUME TypeOK, QuietSoFar, [Next]_vars, NEW x \in Items, Single(x)
  PROVE  Single(x)'
<1>1. CASE UNCHANGED <<queue, val, hand>>
  BY <1>1 DEF Single, Has
<1>2. ASSUME NEW t \in Threads, NEW q \in Queues, NEW y \in Items,
             \/ HandToVal(t, y) \/ ValToQueue(t, q) \/ QueueToVal(t, q)
             \/ ValToHand(t)
      PROVE  Single(x)'
  <2>0. queue[q] \in Seq(Items) /\ NULL \notin Items
    BY WorkQueueAssumption DEF TypeOK
  <2>2. \A u \in Threads \ {t} : hand'[u] = hand[u] /\ val'[u] = val[u]
    BY <1>2 DEF HandToVal, ValToQueue, QueueToVal, ValToHand, TypeOK
  <2>3. /\ \A u \in Threads \ {t} : Has(u, x)' <=> Has(u, x)
        /\ \A r \in Queues \ {q} : queue'[r] = queue[r]
    <3>1. \A r \in Queues \ {q} : queue'[r] = queue[r]
      BY <1>2 DEF HandToVal, ValToQueue, QueueToVal, ValToHand, TypeOK
    <3> QED
      BY <2>2, <3>1 DEF Has
  <2>4. CASE HandToVal(t, y) \/ ValToHand(t)
    <3>1. (Has(t, x)' <=> Has(t, x)) /\ queue' = queue
      BY <2>0, <2>4 DEF HandToVal, ValToHand, Has, TypeOK
    <3>2. ~ (x \in hand'[t] /\ val'[t] = x)
      BY <2>0, <2>4 DEF HandToVal, ValToHand, TypeOK
    <3> QED
      BY <2>2, <2>3, <3>1, <3>2 DEF Single
  <2>5. CASE ValToQueue(t, q)
    <3>1. /\ queue'[q] = Append(queue[q], val[t])
          /\ val[t] \in Items /\ val'[t] = NULL /\ hand' = hand
      BY <2>5 DEF ValToQueue, TypeOK
    <3>5. Has(t, x)' <=> x \in hand[t]
      BY <2>0, <3>1 DEF Has
    <3>2. /\ In(queue'[q], x) <=> In(queue[q], x) \/ x = val[t]
          /\ Once(queue[q], x) /\ ~ (x = val[t] /\ In(queue[q], x))
               => Once(queue'[q], x)
      BY <2>0, <3>1, AppendPlaces
    <3>3. CASE val[t] # x
      <4>1. Has(t, x)' <=> Has(t, x)
        BY <3>3, <3>5 DEF Has
      <4> QED
        BY <2>0, <2>2, <2>3, <3>1, <3>2, <3>3, <4>1 DEF Single
    <3>4. CASE val[t] = x
      <4>1. Has(t, x) /\ ~ Has(t, x)'
        BY <3>4, <3>5 DEF Has, Single
      <4>2. \A u \in Threads : ~ Has(u, x)'
        BY <2>3, <4>1 DEF Single
      <4>3. \A r \in Queues : ~ In(queue[r], x)
        BY <4>1 DEF Single
      <4> QED
        BY <2>0, <2>2, <2>3, <3>1, <3>2, <4>2, <4>3 DEF Single
    <3> QED
      BY <3>3, <3>4
  <2>6. CASE QueueToVal(t, q)
    <3>1. /\ queue'[q] = Tail(queue[q]) /\ queue[q] # <<>>
          /\ val[t] = NULL /\ val'[t] = Head(queue[q]) /\ hand' = hand
      BY <2>6 DEF QueueToVal, TypeOK
    <3>2. /\ In(queue[q], Head(queue[q]))
          /\ In(queue'[q], x) => In(queue[q], x)
          /\ Once(queue[q], x) => Once(queue'[q], x)
          /\ Once(queue[q], x) /\ x = Head(queue[q]) => ~ In(queue'[q], x)
      BY <2>0, <3>1, TailPlaces
    <3>3. CASE x # Head(queue[q])
      <4>1. Has(t, x)' <=> Has(t, x)
        BY <2>0, <3>1, <3>3 DEF Has
      <4> QED
        BY <2>2, <2>3, <3>1, <3>2, <3>3, <4>1 DEF Single
    <3>4. CASE x = Head(queue[q])
      <4>1. \A u \in Threads : ~ Has(u, x)
        BY <3>2, <3>4 DEF Single
      <4>2. \A r \in Queues : ~ In(queue'[r], x)
        BY <2>3, <3>2, <3>4 DEF Single
      <4> QED
        BY <2>2, <2>3, <3>1, <3>2, <4>1, <4>2 DEF Single, Has
    <3> QED
      BY <3>3, <3>4
  <2> QED
    BY <1>2, <2>4, <2>5, <2>6
<1>3. 0 \in Queues
  BY WorkQueueAssumption DEF Queues
<1> QED
  BY <1>1, <1>2, <1>3, Moves

(* Every item is in at most one place at a time, so no two threads ever get *)
(* the same data pointer.                                                   *)
THEOREM ItemsAreUnique == Spec => []NoDuplicate
<1>1. NoDuplicate <=> \A x \in Items : Single(x)
  BY DEF NoDuplicate, Single, InQueue, In, Once
<1>2. Init => \A x \in Items : Single(x)
  <2> SUFFICES ASSUME Init, NEW x \in Items PROVE Single(x)
    OBVIOUS
  <2>1. \A q \in Queues : Len(queue[q]) = 0
    BY EmptySeq DEF Init
  <2>2. \A q \in Queues : ~ In(queue[q], x) /\ Once(queue[q], x)
    BY <2>1 DEF In, Once
  <2>3. /\ \A t \in Threads : val[t] = NULL /\ NULL # x
        /\ \A t, u \in Threads : t # u => hand[t] \cap hand[u] = {}
    BY WorkQueueAssumption DEF Init
  <2> QED
    BY <2>2, <2>3 DEF Single, Has
<1>3. TypeOK /\ QuietSoFar /\ (\A x \in Items : Single(x)) /\ [Next]_vars
      => (\A x \in Items : Single(x))'
  BY MovesKeepSingle
<1>4. Spec => [](\A x \in Items : Single(x))
  BY <1>2, <1>3, TypeCorrect, QuietHistory, PTL DEF Spec
<1> QED
  BY <1>1, <1>4, PTL

(* An item leaves a thread or a queue only for another place. *)
THEOREM NothingIsLost == Spec => NoLoss
<1> DEFINE Kept == \A x \in Items : Somewhere(x) => Somewhere(x)'
<1>1. TypeOK /\ QuietSoFar /\ [Next]_vars => [Kept]_vars
  <2> SUFFICES ASSUME TypeOK, QuietSoFar, [Next]_vars, NEW x \in Items, Somewhere(x)
               PROVE  Somewhere(x)'
    OBVIOUS
  <2>0. NULL \notin Items
    BY WorkQueueAssumption
  <2>1. CASE UNCHANGED <<queue, val, hand>>
    BY <2>1 DEF Somewhere, Has, InQueue
  <2>2. ASSUME NEW t \in Threads, NEW y \in Items, HandToVal(t, y) \/ ValToHand(t)
        PROVE  Somewhere(x)'
    <3>1. queue' = queue
      BY <2>2 DEF HandToVal, ValToHand
    <3>2. \A u \in Threads : Has(u, x) => Has(u, x)'
      <4>1. CASE HandToVal(t, y)
        <5>1. /\ val'[t] = y /\ hand'[t] = hand[t] \ {y} /\ val[t] = NULL
              /\ \A u \in Threads \ {t} : hand'[u] = hand[u] /\ val'[u] = val[u]
          BY <4>1 DEF HandToVal, TypeOK
        <5> QED
          BY <2>0, <5>1 DEF Has
      <4>2. CASE ValToHand(t)
        <5>1. /\ hand'[t] = hand[t] \cup {val[t]}
              /\ \A u \in Threads \ {t} : hand'[u] = hand[u] /\ val'[u] = val[u]
          BY <4>2 DEF ValToHand, TypeOK
        <5> QED
          BY <2>0, <5>1 DEF Has
      <4> QED
        BY <2>2, <4>1, <4>2
    <3> QED
      BY <3>1, <3>2 DEF Somewhere, InQueue
  <2>3. ASSUME NEW t \in Threads, NEW q \in Queues, ValToQueue(t, q)
        PROVE  Somewhere(x)'
    <3>1. queue[q] \in Seq(Items) /\ val[t] \in Items
          /\ queue'[q] = Append(queue[q], val[t])
      BY <2>3 DEF ValToQueue, TypeOK
    <3>2. In(queue'[q], x) <=> In(queue[q], x) \/ x = val[t]
      BY <3>1, AppendPlaces
    <3>3. \A r \in Queues : In(queue[r], x) => In(queue'[r], x)
      BY <2>3, <3>2 DEF ValToQueue, TypeOK
    <3>4. \A u \in Threads : Has(u, x) => Has(u, x)' \/ x = val[t]
      BY <2>3 DEF ValToQueue, Has, TypeOK
    <3> QED
      BY <3>2, <3>3, <3>4 DEF Somewhere, InQueue, In
  <2>4. ASSUME NEW t \in Threads, NEW q \in Queues, QueueToVal(t, q)
        PROVE  Somewhere(x)'
    <3>1. queue[q] \in Seq(Items) /\ queue[q] # <<>>
          /\ queue'[q] = Tail(queue[q]) /\ val'[t] = Head(queue[q])
      BY <2>4 DEF QueueToVal, TypeOK
    <3>2. In(queue[q], x) => In(queue'[q], x) \/ x = Head(queue[q])
      BY <3>1, TailPlaces
    <3>3. \A r \in Queues : In(queue[r], x) => In(queue'[r], x) \/ Has(t, x)'
      BY <2>4, <3>1, <3>2 DEF QueueToVal, Has, TypeOK
    <3>4. \A u \in Threads : Has(u, x) => Has(u, x)'
      BY <2>0, <2>4 DEF QueueToVal, Has, TypeOK
    <3> QED
      BY <3>3, <3>4 DEF Somewhere, InQueue, In
  <2> QED
    BY <2>1, <2>2, <2>3, <2>4, Moves
<1> QED
  BY <1>1, TypeCorrect, QuietHistory, PTL DEF Spec, NoLoss

-----------------------------------------------------------------------------
(* For the refinement: sizes are only recorded by the size operation, and a *)
(* queue found empty under its lock stays empty until it is unlocked.       *)
SeenUntouched ==
  \A t \in Threads :
    pc[t] \notin {"size_lock", "size_unlock", "return"} => seen[t] = Unseen

FoundEmpty ==
  \A t \in Threads : pc[t] = "deq_unlock" /\ val[t] = NULL => queue[Here(t)] = <<>>

(* Sizes are recorded by the size operation only. *)
LEMMA SizesUntouched == Spec => []SeenUntouched
<1>1. Init => SeenUntouched
  BY DEF Init, SeenUntouched
<1>2. TypeOK /\ SeenUntouched /\ [Next]_vars => SeenUntouched'
  <2> SUFFICES ASSUME TypeOK, SeenUntouched, [Next]_vars PROVE SeenUntouched'
    OBVIOUS
  <2>1. CASE UNCHANGED vars
    BY <2>1 DEF vars, SeenUntouched
  <2>2. ASSUME NEW t \in Threads, Call(t) \/ Step(t)
        PROVE  SeenUntouched'
    <3>1. pc'[t] \notin {"size_lock", "size_unlock", "return"} => seen'[t] = Unseen
      <4> USE DEF SeenUntouched, TypeOK, Goto
      <4>1. CASE Call(t)
        BY <4>1 DEF Call, CallEnqueue, CallDequeue, CallDequeueLocal,
           CallDequeueRemote, CallDequeueOn, CallSize
      <4>2. CASE EnqLock(t) \/ EnqPush(t) \/ EnqUnlock(t)
        BY <4>2 DEF EnqLock, EnqPush, EnqUnlock
      <4>3. CASE DeqPeek(t) \/ DeqLock(t) \/ DeqPop(t) \/ DeqUnlock(t)
        BY <4>3 DEF DeqPeek, DeqLock, DeqPop, DeqUnlock, NextVisit
      <4>4. CASE SizeLock(t) \/ SizeUnlock(t) \/ Return(t)
        BY <4>4 DEF SizeLock, SizeUnlock, Return
      <4> QED
        BY <2>2, <4>1, <4>2, <4>3, <4>4 DEF Step
    <3> QED
      BY <2>2, <3>1, OthersKeep DEF SeenUntouched
  <2> QED
    BY <2>1, <2>2 DEF Next
<1> QED
  BY <1>1, <1>2, TypeCorrect, PTL DEF Spec

(* What was found empty under the lock is empty until the unlock. *)
LEMMA EmptyUnderLock == Spec => []FoundEmpty
<1>1. Init => FoundEmpty
  BY DEF Init, FoundEmpty
<1>2. TypeOK /\ MutualExclusion /\ FoundEmpty /\ [Next]_vars => FoundEmpty'
  <2> SUFFICES ASSUME TypeOK, MutualExclusion, FoundEmpty, [Next]_vars PROVE FoundEmpty'
    OBVIOUS
  <2>1. CASE UNCHANGED vars
    BY <2>1 DEF vars, FoundEmpty, Here
  <2>2. ASSUME NEW t \in Threads, Call(t) \/ Step(t),
               NEW u \in Threads, pc'[u] = "deq_unlock", val'[u] = NULL
        PROVE  queue'[Here(u)'] = <<>>
    <3>1. CASE u # t
      <4>1. pc[u] = "deq_unlock" /\ val[u] = NULL /\ Here(u)' = Here(u)
        BY <2>2, <3>1, OthersKeep DEF Here
      <4>2. Here(u) \in Queues /\ Holds(u, Here(u)) /\ queue[Here(u)] = <<>>
        BY <4>1, TodoList DEF Holds, OneLock, FoundEmpty, TypeOK
      <4>3. queue'[Here(u)] = queue[Here(u)]
        BY <2>2, <3>1, <4>2, QueueDiscipline DEF MutualExclusion
      <4> QED
        BY <4>1, <4>2, <4>3
    <3>2. CASE u = t
      <4>1. DeqPop(t)
        BY <2>2, <3>2 DEF Call, Step, CallEnqueue, CallDequeue, CallDequeueLocal,
           CallDequeueRemote, CallDequeueOn, CallSize, EnqLock, EnqPush, EnqUnlock,
           DeqPeek, DeqLock, DeqUnlock, NextVisit, SizeLock, SizeUnlock, Return,
           Goto, TypeOK
      <4>2. Here(t)' = Here(t) /\ Here(t) \in Queues
        BY <4>1, TodoList DEF DeqPop, Goto, Here, TypeOK
      <4>3. CASE queue[Here(t)] = <<>> /\ UNCHANGED <<queue, val>>
        BY <3>2, <4>2, <4>3
      <4>4. CASE queue[Here(t)] # <<>> /\ val' = [val EXCEPT ![t] = Head(queue[Here(t)])]
        <5>1. Head(queue[Here(t)]) \in Items
          BY <4>2, <4>4, HeadTailProperties DEF TypeOK
        <5> QED
          BY <2>2, <3>2, <4>4, <5>1, WorkQueueAssumption DEF TypeOK
      <4> QED
        BY <4>1, <4>3, <4>4 DEF DeqPop
    <3> QED
      BY <3>1, <3>2
  <2> QED
    BY <2>1, <2>2 DEF Next, FoundEmpty
<1> QED
  BY <1>1, <1>2, TypeCorrect, LocksExclude, PTL DEF Spec

-----------------------------------------------------------------------------
(* The refinement mapping, one thread at a time. *)
LEMMA MappedState ==
  ASSUME NEW t \in Threads
  PROVE  /\ absPc[t] = CASE pc[t] = "idle" -> "idle"
                         [] pc[t] \in Enqueuing -> "put"
                         [] pc[t] \in {"deq_peek", "deq_lock", "deq_pop"} -> "take"
                         [] pc[t] = "deq_unlock" -> IF val[t] = NULL THEN "take" ELSE "done"
                         [] pc[t] = "size_lock" -> "size"
                         [] OTHER -> "done"
         /\ absTodo[t] = IF pc[t] \in Enqueuing \cup Dequeuing \cup {"enq_unlock", "return"}
                         THEN todo[t] ELSE <<>>
         /\ absSeen[t] = IF pc[t] = "size_lock" THEN Unseen ELSE seen[t]
BY DEF absPc, absTodo, absSeen

(* A step of one thread changes the abstract state of that thread only. *)
LEMMA MappedStep ==
  ASSUME TypeOK, NEW t \in Threads, Call(t) \/ Step(t)
  PROVE  /\ absPc' = [absPc EXCEPT ![t] = absPc'[t]]
         /\ absTodo' = [absTodo EXCEPT ![t] = absTodo'[t]]
         /\ absSeen' = [absSeen EXCEPT ![t] = absSeen'[t]]
<1>1. \A u \in Threads \ {t} : pc'[u] = pc[u] /\ todo'[u] = todo[u]
                               /\ val'[u] = val[u] /\ seen'[u] = seen[u]
  BY OthersKeep
<1>2. absPc' = [absPc EXCEPT ![t] = absPc'[t]]
  <2> DEFINE At(u) == CASE pc[u] = "idle" -> "idle"
                        [] pc[u] \in Enqueuing -> "put"
                        [] pc[u] \in {"deq_peek", "deq_lock", "deq_pop"} -> "take"
                        [] pc[u] = "deq_unlock" -> IF val[u] = NULL THEN "take" ELSE "done"
                        [] pc[u] = "size_lock" -> "size"
                        [] OTHER -> "done"
  <2>1. \A u \in Threads \ {t} : At(u)' = At(u)
    BY <1>1, Zenon
  <2>2. absPc = [u \in Threads |-> At(u)] /\ absPc' = [u \in Threads |-> At(u)']
    BY DEF absPc
  <2> HIDE DEF At
  <2> QED
    BY <2>1, <2>2
<1>3. absTodo' = [absTodo EXCEPT ![t] = absTodo'[t]]
  BY <1>1 DEF absTodo
<1>4. absSeen' = [absSeen EXCEPT ![t] = absSeen'[t]]
  BY <1>1 DEF absSeen
<1> QED
  BY <1>2, <1>3, <1>4

(* If it does not change there either, it does not change at all. *)
LEMMA MappedStutter ==
  ASSUME TypeOK, NEW t \in Threads, Call(t) \/ Step(t)
  PROVE  /\ absPc'[t] = absPc[t] => absPc' = absPc
         /\ absTodo'[t] = absTodo[t] => absTodo' = absTodo
         /\ absSeen'[t] = absSeen[t] => absSeen' = absSeen
<1>1. /\ absPc = [u \in Threads |-> absPc[u]]
      /\ absTodo = [u \in Threads |-> absTodo[u]]
      /\ absSeen = [u \in Threads |-> absSeen[u]]
  BY DEF absPc, absTodo, absSeen
<1> QED
  BY <1>1, MappedStep

(* The initial states are initial states of the bag. *)
LEMMA InitMaps == Init => Bag!Init
<1> SUFFICES ASSUME Init PROVE Bag!Init
  OBVIOUS
<1>1. \A t \in Threads : absPc[t] = "idle" /\ absTodo[t] = <<>> /\ absSeen[t] = Unseen
  BY DEF Init, absPc, absTodo, absSeen, Enqueuing, Dequeuing
<1>2. /\ absPc = [t \in Threads |-> "idle"]
      /\ absTodo = [t \in Threads |-> <<>>]
      /\ absSeen = [t \in Threads |-> Unseen]
  BY <1>1 DEF absPc, absTodo, absSeen
<1> QED
  BY <1>2 DEF Init, Bag!Init, Unseen, Bag!Unseen, Queues, Bag!Queues

(* The calls. *)
LEMMA CallMaps ==
  ASSUME TypeOK, SeenUntouched, NEW t \in Threads, Call(t)
  PROVE  Bag!Next
<1> DEFINE Now == /\ absPc[t] = "idle"
                  /\ absPc' = [absPc EXCEPT ![t] = absPc'[t]]
                  /\ absTodo' = [absTodo EXCEPT ![t] = absTodo'[t]]
                  /\ absSeen' = absSeen
<1>1. ASSUME pc[t] = "idle", seen' = seen
      PROVE  Now
  <2>1. absSeen[t] = Unseen /\ absSeen'[t] = Unseen
    BY <1>1 DEF absSeen, SeenUntouched
  <2>2. absPc[t] = "idle"
    BY <1>1 DEF absPc, Enqueuing
  <2> QED
    BY <2>1, <2>2, MappedStep DEF absSeen
<1>2. ASSUME NEW q \in Queues, NEW x \in Items, CallEnqueue(t, q, x)
      PROVE  Bag!CallEnqueue(t, q, x)
  <2>1. pc[t] = "idle" /\ pc'[t] = "enq_lock" /\ seen' = seen /\ todo'[t] = <<q>>
    BY <1>2 DEF CallEnqueue, Goto, TypeOK
  <2>2. absPc'[t] = "put" /\ absTodo'[t] = <<q>>
    BY <2>1 DEF absPc, absTodo, Enqueuing
  <2> QED
    BY <1>1, <1>2, <2>1, <2>2 DEF CallEnqueue, Bag!CallEnqueue, Bag!Goto
<1>3. ASSUME NEW visits, NEW every, CallDequeueOn(t, visits, every)
      PROVE  Bag!CallDequeue(t, visits)
  <2>1. pc[t] = "idle" /\ pc'[t] = "deq_peek" /\ seen' = seen /\ todo'[t] = visits
    BY <1>3 DEF CallDequeueOn, Goto, TypeOK
  <2>2. absPc'[t] = "take" /\ absTodo'[t] = visits
    BY <2>1 DEF absPc, absTodo, Enqueuing, Dequeuing
  <2> QED
    BY <1>1, <1>3, <2>1, <2>2 DEF CallDequeueOn, Bag!CallDequeue, Bag!Goto
<1>4. ASSUME CallSize(t)
      PROVE  Bag!CallSize(t)
  <2>1. pc[t] = "idle" /\ pc'[t] = "size_lock" /\ seen' = seen
    BY <1>4 DEF CallSize, Goto, TypeOK
  <2>2. absPc'[t] = "size" /\ absTodo'[t] = <<>> /\ absTodo[t] = <<>>
    BY <2>1 DEF absPc, absTodo, Enqueuing, Dequeuing
  <2>3. absTodo' = absTodo
    BY <1>1, <2>1, <2>2, ZenonT(60) DEF absTodo
  <2> QED
    BY <1>1, <1>4, <2>1, <2>2, <2>3 DEF CallSize, Bag!CallSize, Bag!Goto
<1>5. CASE \E q \in Queues, x \in Items : CallEnqueue(t, q, x)
  BY <1>2, <1>5 DEF Bag!Next, Queues, Bag!Queues
<1>6. CASE CallDequeue(t) \/ CallDequeueLocal(t) \/ CallDequeueRemote(t)
  <2>1. PICK visits \in Bag!VisitsOf(t), every \in BOOLEAN :
          CallDequeueOn(t, visits, every)
    BY <1>6 DEF CallDequeue, CallDequeueLocal, CallDequeueRemote, Bag!VisitsOf
  <2> QED
    BY <1>3, <2>1 DEF Bag!Next
<1>7. CASE CallSize(t)
  BY <1>4, <1>7 DEF Bag!Next
<1> QED
  BY <1>5, <1>6, <1>7 DEF Call

(* The steps of an enqueue: the push is the commit. *)
LEMMA EnqueueMaps ==
  ASSUME TypeOK, SeenUntouched, QuietSoFar, NEW t \in Threads,
         EnqLock(t) \/ EnqPush(t) \/ EnqUnlock(t)
  PROVE  Bag!Next \/ UNCHANGED Bag!vars
<1> USE DEF Enqueuing, Dequeuing
<1>0. Step(t)
  BY DEF Step
<1>1. CASE EnqLock(t)
  <2>1. pc[t] = "enq_lock" /\ pc'[t] = "enq_push" /\ todo' = todo /\ seen' = seen
    BY <1>1 DEF EnqLock, Goto, TypeOK
  <2>2. absPc'[t] = absPc[t] /\ absTodo'[t] = absTodo[t] /\ absSeen'[t] = absSeen[t]
    BY <2>1 DEF absPc, absTodo, absSeen
  <2>3. absPc' = absPc /\ absTodo' = absTodo /\ absSeen' = absSeen
    BY <1>0, <2>2, MappedStutter
  <2> QED
    BY <1>1, <2>3 DEF EnqLock, Bag!vars
<1>2. CASE EnqPush(t)
  <2>1. /\ pc[t] = "enq_push" /\ pc'[t] = "enq_unlock"
        /\ todo' = todo /\ seen' = seen
    BY <1>2 DEF EnqPush, Goto, TypeOK
  <2>2. /\ absPc[t] = "put" /\ absPc'[t] = "done"
        /\ absTodo[t] = todo[t] /\ absTodo'[t] = todo[t]
        /\ absSeen'[t] = absSeen[t]
    BY <2>1 DEF absPc, absTodo, absSeen
  <2>3. /\ absPc' = [absPc EXCEPT ![t] = "done"]
        /\ absTodo' = absTodo /\ absSeen' = absSeen
    BY <1>0, <2>2, MappedStep, MappedStutter
  <2>4. Bag!Here(t) = Here(t)
    BY <2>2 DEF Bag!Here, Here
  <2>5. Bag!Put(t)
    BY <1>2, <2>2, <2>3, <2>4 DEF EnqPush, Bag!Put, Bag!Goto
  <2> QED
    BY <2>5 DEF Bag!Next
<1>3. CASE EnqUnlock(t)
  <2>1. /\ pc[t] = "enq_unlock" /\ pc'[t] = "idle" /\ todo'[t] = <<>>
        /\ seen' = seen /\ seen[t] = Unseen /\ val[t] = NULL /\ val' = val
        /\ hand' = hand /\ queue' = queue
    BY <1>3 DEF EnqUnlock, Goto, TypeOK, SeenUntouched, QuietSoFar, NoItemYet
  <2>2. /\ absPc[t] = "done" /\ absPc'[t] = "idle"
        /\ absTodo'[t] = <<>> /\ absSeen'[t] = Unseen
    BY <2>1 DEF absPc, absTodo, absSeen
  <2>3. val' = [val EXCEPT ![t] = NULL] /\ hand' = [hand EXCEPT ![t] = hand[t]]
    BY <2>1 DEF TypeOK
  <2>4. Bag!Return(t)
    BY <1>0, <2>1, <2>2, <2>3, MappedStep
    DEF Bag!Return, Bag!Goto, Unseen, Bag!Unseen, Queues, Bag!Queues
  <2> QED
    BY <2>4 DEF Bag!Next
<1> QED
  BY <1>1, <1>2, <1>3

(* A visit that finds its queue empty is skipped in the abstraction. *)
LEMMA SkipMaps ==
  ASSUME TypeOK, NEW t \in Threads, NEW from \in {"deq_peek", "deq_unlock"},
         Step(t), NextVisit(t, from), from = "deq_unlock" => val[t] = NULL,
         queue[Here(t)] = <<>>, UNCHANGED <<queue, val, seen, hand>>
  PROVE  Bag!Next
<1> USE DEF Enqueuing, Dequeuing
<1>1. /\ pc[t] = from /\ todo[t] # <<>> /\ todo'[t] = Tail(todo[t])
      /\ \/ Len(todo[t]) > 1 /\ pc'[t] = "deq_peek"
         \/ Len(todo[t]) = 1 /\ pc'[t] = "return"
  BY DEF NextVisit, Goto, TypeOK
<1>2. /\ absPc[t] = "take" /\ absTodo[t] = todo[t] /\ absTodo'[t] = Tail(todo[t])
      /\ absSeen'[t] = absSeen[t]
      /\ \/ Len(todo[t]) > 1 /\ absPc'[t] = "take"
         \/ Len(todo[t]) = 1 /\ absPc'[t] = "done"
  BY <1>1 DEF absPc, absTodo, absSeen
<1>3. absSeen' = absSeen
  BY <1>2, MappedStutter
<1>4. Bag!Here(t) = Here(t)
  BY <1>2 DEF Bag!Here, Here
<1>5. Bag!Skip(t)
  BY <1>2, <1>3, <1>4, MappedStep DEF Bag!Skip, Bag!Goto
<1> QED
  BY <1>5 DEF Bag!Next

(* The steps of a dequeue: a visit commits at its pop, or when it goes on. *)
LEMMA DequeueMaps ==
  ASSUME TypeOK, QuietSoFar, FoundEmpty, NEW t \in Threads,
         DeqPeek(t) \/ DeqLock(t) \/ DeqPop(t) \/ DeqUnlock(t)
  PROVE  Bag!Next \/ UNCHANGED Bag!vars
<1> USE DEF Enqueuing, Dequeuing
<1>0. Step(t)
  BY DEF Step
<1>1. ASSUME absPc'[t] = absPc[t], absTodo'[t] = absTodo[t],
             absSeen'[t] = absSeen[t], queue' = queue, val' = val, hand' = hand
      PROVE  UNCHANGED Bag!vars
  BY <1>0, <1>1, MappedStutter DEF Bag!vars
<1>2. CASE DeqPeek(t)
  <2>1. CASE queue[Here(t)] = <<>> /\ NextVisit(t, "deq_peek")
    BY <1>0, <1>2, <2>1, SkipMaps DEF DeqPeek
  <2>2. CASE Goto(t, "deq_peek", "deq_lock") /\ UNCHANGED todo
    <3>1. pc[t] = "deq_peek" /\ pc'[t] = "deq_lock" /\ todo' = todo /\ seen' = seen
      BY <1>2, <2>2 DEF DeqPeek, Goto, TypeOK
    <3>2. absPc'[t] = absPc[t] /\ absTodo'[t] = absTodo[t] /\ absSeen'[t] = absSeen[t]
      BY <3>1 DEF absPc, absTodo, absSeen
    <3> QED
      BY <1>1, <1>2, <3>2 DEF DeqPeek
  <2> QED
    BY <1>2, <2>1, <2>2 DEF DeqPeek
<1>3. CASE DeqLock(t)
  <2>1. pc[t] = "deq_lock" /\ pc'[t] = "deq_pop" /\ todo' = todo /\ seen' = seen
    BY <1>3 DEF DeqLock, Goto, TypeOK
  <2>2. absPc'[t] = absPc[t] /\ absTodo'[t] = absTodo[t] /\ absSeen'[t] = absSeen[t]
    BY <2>1 DEF absPc, absTodo, absSeen
  <2> QED
    BY <1>1, <1>3, <2>2 DEF DeqLock
<1>4. CASE DeqPop(t)
  <2>1. /\ pc[t] = "deq_pop" /\ pc'[t] = "deq_unlock" /\ todo' = todo
        /\ seen' = seen /\ val[t] = NULL
    BY <1>4 DEF DeqPop, Goto, TypeOK, QuietSoFar, NoItemYet
  <2>2. /\ absPc[t] = "take" /\ absTodo'[t] = absTodo[t] /\ absTodo[t] = todo[t]
        /\ absSeen'[t] = absSeen[t]
        /\ absPc'[t] = IF val'[t] = NULL THEN "take" ELSE "done"
    BY <2>1 DEF absPc, absTodo, absSeen
  <2>3. CASE queue[Here(t)] = <<>> /\ UNCHANGED <<queue, val>>
    BY <1>1, <1>4, <2>1, <2>2, <2>3 DEF DeqPop
  <2>4. CASE /\ queue[Here(t)] # <<>>
             /\ val' = [val EXCEPT ![t] = Head(queue[Here(t)])]
             /\ queue' = [queue EXCEPT ![Here(t)] = Tail(@)]
    <3>1. queue[Here(t)] \in Seq(Items)
      BY <2>1, TodoList DEF TypeOK
    <3>2. Head(queue[Here(t)]) \in Items
      BY <2>4, <3>1, HeadTailProperties
    <3>3. val'[t] # NULL
      BY <2>4, <3>2, WorkQueueAssumption DEF TypeOK
    <3>4. Bag!Here(t) = Here(t)
      BY <2>2 DEF Bag!Here, Here
    <3>5. Bag!Take(t)
      BY <1>0, <1>4, <2>2, <2>4, <3>3, <3>4, MappedStep, MappedStutter
      DEF DeqPop, Bag!Take, Bag!Goto
    <3> QED
      BY <3>5 DEF Bag!Next
  <2> QED
    BY <1>4, <2>3, <2>4 DEF DeqPop
<1>5. CASE DeqUnlock(t)
  <2>1. CASE val[t] = NULL /\ NextVisit(t, "deq_unlock")
    <3>1. queue[Here(t)] = <<>>
      BY <1>5, <2>1 DEF DeqUnlock, FoundEmpty
    <3> QED
      BY <1>0, <1>5, <2>1, <3>1, SkipMaps DEF DeqUnlock
  <2>2. CASE val[t] # NULL /\ Goto(t, "deq_unlock", "return") /\ UNCHANGED todo
    <3>1. pc[t] = "deq_unlock" /\ pc'[t] = "return" /\ todo' = todo /\ seen' = seen
      BY <1>5, <2>2 DEF DeqUnlock, Goto, TypeOK
    <3>2. absPc'[t] = absPc[t] /\ absTodo'[t] = absTodo[t] /\ absSeen'[t] = absSeen[t]
      BY <2>2, <3>1 DEF absPc, absTodo, absSeen
    <3> QED
      BY <1>1, <1>5, <3>2 DEF DeqUnlock
  <2> QED
    BY <1>5, <2>1, <2>2 DEF DeqUnlock
<1> QED
  BY <1>2, <1>3, <1>4, <1>5

(* The steps of the size: its snapshot is the moment the last lock is taken. *)
LEMMA SizeMaps ==
  ASSUME TypeOK, TypeOK', SizeOrder, SizeOrder', SizeIsAtomic',
         NEW t \in Threads, SizeLock(t) \/ SizeUnlock(t)
  PROVE  Bag!Next \/ UNCHANGED Bag!vars
<1> USE DEF Enqueuing, Dequeuing
<1>0. Step(t) /\ queue' = queue /\ val' = val /\ hand' = hand
  BY DEF Step, SizeLock, SizeUnlock
<1>1. CASE SizeLock(t) /\ Len(todo[t]) > 1
  <2>1. pc[t] = "size_lock" /\ pc'[t] = "size_lock"
    <3>1. Len(todo[t]) # 1
      <4>1. Len(todo[t]) \in Nat
        BY <1>1, TodoList DEF SizeLock, TypeOK
      <4>2. \A len \in Nat : len > 1 => len # 1
        OBVIOUS
      <4> QED
        BY <1>1, <4>1, <4>2
    <3>2. Goto(t, "size_lock", "size_lock")
      BY <1>1, <3>1 DEF SizeLock
    <3> QED
      BY <3>2 DEF Goto, TypeOK
  <2>2. absPc'[t] = absPc[t] /\ absTodo'[t] = absTodo[t] /\ absSeen'[t] = absSeen[t]
    BY <2>1 DEF absPc, absTodo, absSeen
  <2> QED
    BY <1>0, <2>2, MappedStutter DEF Bag!vars
<1>2. CASE SizeLock(t) /\ Len(todo[t]) = 1
  <2>1. /\ pc[t] = "size_lock" /\ pc'[t] = "size_unlock"
        /\ todo'[t] = AllInOrder
    BY <1>2 DEF SizeLock, Goto, TypeOK
  <2>2. \A q \in Queues : Holds(t, q)'
    <3> SUFFICES ASSUME NEW q \in Queues PROVE Holds(t, q)'
      OBVIOUS
    <3>1. q + 1 \in 1..NQ /\ AllInOrder[q + 1] = q
      BY AllInOrderIsList, WorkQueueAssumption DEF Queues
    <3>2. Visits(t, q)'
      BY <2>1, <3>1, AllInOrderIsList DEF Visits
    <3> QED
      BY <2>1, <3>2 DEF Holds
  <2>3. \A q \in Queues : seen'[t][q] = Len(queue[q])
    BY <1>0, <2>1, <2>2 DEF SizeIsAtomic
  <2>4. seen'[t] = [q \in Queues |-> Len(queue[q])]
    BY <2>3 DEF TypeOK
  <2>5. /\ absPc[t] = "size" /\ absPc'[t] = "done"
        /\ absTodo'[t] = absTodo[t]
        /\ absSeen'[t] = [q \in Queues |-> Len(queue[q])]
    BY <2>1, <2>4 DEF absPc, absTodo, absSeen
  <2>6. Bag!Snapshot(t)
    BY <1>0, <2>5, MappedStep, MappedStutter
    DEF Bag!Snapshot, Bag!Goto, Queues, Bag!Queues
  <2> QED
    BY <2>6 DEF Bag!Next
<1>3. CASE SizeUnlock(t)
  <2>1. /\ pc[t] = "size_unlock" /\ seen' = seen /\ todo[t] # <<>>
        /\ todo'[t] = Tail(todo[t])
        /\ \/ pc'[t] = "size_unlock"
           \/ pc'[t] = "return" /\ Len(todo[t]) = 1
    BY <1>3 DEF SizeUnlock, Goto, TypeOK
  <2>2. pc'[t] = "return" => todo'[t] = <<>>
    <3>1. Len(todo[t]) = 1 => Len(Tail(todo[t])) = 0
      BY <2>1, TodoList
    <3> QED
      BY <2>1, <3>1, TodoList, EmptySeq
  <2>3. absPc'[t] = absPc[t] /\ absTodo'[t] = absTodo[t] /\ absSeen'[t] = absSeen[t]
    BY <2>1, <2>2 DEF absPc, absTodo, absSeen
  <2> QED
    BY <1>0, <2>3, MappedStutter DEF Bag!vars
<1> QED
  BY <1>1, <1>2, <1>3 DEF SizeLock

(* The return of an operation is that of the bag. *)
LEMMA ReturnMaps ==
  ASSUME TypeOK, NEW t \in Threads, Return(t)
  PROVE  Bag!Next
<1> USE DEF Enqueuing, Dequeuing
<1>1. Step(t)
  BY DEF Step
<1>2. /\ pc[t] = "return" /\ pc'[t] = "idle" /\ todo'[t] = <<>>
      /\ seen'[t] = Unseen
  BY DEF Return, Goto, TypeOK
<1>3. /\ absPc[t] = "done" /\ absPc'[t] = "idle"
      /\ absTodo'[t] = <<>> /\ absSeen'[t] = Unseen
  BY <1>2 DEF absPc, absTodo, absSeen
<1>4. Bag!Return(t)
  BY <1>1, <1>3, MappedStep
  DEF Return, Bag!Return, Bag!Goto, Unseen, Bag!Unseen, Queues, Bag!Queues
<1> QED
  BY <1>4 DEF Bag!Next

(* The work queue with its locks, its unlocked size reads and its walk over *)
(* the sockets implements the abstract work queue.                          *)
THEOREM WorkQueueRefinesWorkBag == Spec => ImplementsWorkBag
<1>1. /\ TypeOK /\ SizeOrder /\ QuietSoFar /\ SeenUntouched /\ FoundEmpty
      /\ TypeOK' /\ SizeOrder' /\ SizeIsAtomic' /\ [Next]_vars
      => [Bag!Next]_(Bag!vars)
  <2> SUFFICES ASSUME TypeOK, SizeOrder, QuietSoFar, SeenUntouched, FoundEmpty,
                      TypeOK', SizeOrder', SizeIsAtomic', [Next]_vars
               PROVE  Bag!Next \/ UNCHANGED Bag!vars
    OBVIOUS
  <2>1. CASE UNCHANGED vars
    BY <2>1 DEF vars, Bag!vars, absPc, absTodo, absSeen
  <2>2. ASSUME NEW t \in Threads, Call(t) \/ Step(t)
        PROVE  Bag!Next \/ UNCHANGED Bag!vars
    BY <2>2, CallMaps, EnqueueMaps, DequeueMaps, SizeMaps, ReturnMaps DEF Step
  <2> QED
    BY <2>1, <2>2 DEF Next
<1> QED
  BY <1>1, InitMaps, TypeCorrect, SizeGoesInOrder, QuietHistory, SizesUntouched,
     EmptyUnderLock, SizeAtomicity, PTL DEF Spec, Bag!Spec, ImplementsWorkBag
=============================================================================
