--------------------------- MODULE WorkSort_proofs ---------------------------
(***************************************************************************)
(* Proofs about the parallel sort on top of the work queue                 *)
(* (tests/work_queue_sort1.c, test_pin), for any number of threads, queues *)
(* and pages.                                                              *)
(*                                                                         *)
(* There are two arguments.  The first says where the chunks are: each is  *)
(* in exactly one place, the hand of a thread, the argument or result of   *)
(* its queue operation, a queue, or the result; a step moves blocks from   *)
(* one place to one other place.  The second says why a thread may trust   *)
(* a NULL answer although other threads go on enqueueing: a queue that is  *)
(* not empty is watched, some thread will visit it before that thread      *)
(* leaves.  A thread stops watching a queue only by finding it empty, and  *)
(* who enqueues a block watches every queue from then on.  When all but    *)
(* one have left and the last one has found nothing, nobody watches, so    *)
(* every queue is empty, and the block in hand is all of the input.        *)
(***************************************************************************)
EXTENDS WorkSort, FiniteSetTheorems, SequenceTheorems, TLAPS

Queues == Bag!Queues

(* Where a thread is in the queue operation it has called, and what this     *)
(* says of its argument or result.                                           *)
InOperation(t) ==
  /\ pc[t] \in {"idle", "take"} => val[t] = NULL
  /\ pc[t] = "put" => phase[t] = "loop" /\ val[t] # NULL /\ todo[t] # <<>>
  /\ pc[t] = "take" => phase[t] \in {"first", "second"} /\ todo[t] # <<>>
  /\ pc[t] = "done" => phase[t] \in {"loop", "first", "second"}
  /\ pc[t] = "done" /\ phase[t] = "loop" => val[t] = NULL

(* What a thread has in hand in each phase of test_pin. *)
InPhase(t) ==
  /\ phase[t] \in {"enter", "loop", "exit", "finished"} => hand[t] = {}
  /\ phase[t] = "first" =>
       hand[t] = {} \/ (pc[t] = "idle" /\ \E w \in Blocks : hand[t] = {w})
  /\ phase[t] = "second" =>
       \E w \in Blocks :
         /\ w.sorted
         /\ hand[t] = {w} \/ (pc[t] = "idle" /\ \E v \in Blocks : hand[t] = {w, v})
  /\ phase[t] = "requeue" => \E w \in Blocks : hand[t] = {w}
  /\ phase[t] \in {"is_last", "output"} =>
       \E w \in Blocks : w.sorted /\ hand[t] = {w}

Pcs == {"idle", "put", "take", "done"}
PhaseNames == {"enter", "loop", "first", "second", "is_last",
               "output", "requeue", "exit", "finished"}

Typed ==
  /\ queue \in [Queues -> Seq(Blocks)]
  /\ pc \in [Threads -> Pcs]
  /\ todo \in [Threads -> Seq(Queues)]
  /\ val \in [Threads -> Blocks \cup {NULL}]
  /\ hand \in [Threads -> SUBSET Blocks]
  /\ phase \in [Threads -> PhaseNames]
  /\ out \in Blocks \cup {NULL}
  /\ \A t \in Threads : InOperation(t) /\ InPhase(t)

(* The places where blocks are, by kind, and who has them. *)
Kinds == {"hand", "val", "queue", "out"}
OwnersOf(k) == IF k \in {"hand", "val"} THEN Threads
               ELSE IF k = "queue" THEN Queues ELSE {NULL}
BlocksAt(k, x) == CASE k = "hand" -> hand[x]
                    [] k = "val" -> {val[x]} \ {NULL}
                    [] k = "queue" -> BlocksIn(x)
                    [] k = "out" -> {out} \ {NULL}
ChunksAt(k, x) == UNION {w.chunks : w \in BlocksAt(k, x)}

(* Every chunk of the input is in one place, and in one block there. *)
EachInOnePlace ==
  /\ \A c \in Chunks : \E k \in Kinds : \E x \in OwnersOf(k) : c \in ChunksAt(k, x)
  /\ \A k, l \in Kinds : \A x \in OwnersOf(k), y \in OwnersOf(l) :
       k # l \/ x # y => ChunksAt(k, x) \cap ChunksAt(l, y) = {}

BlocksApart ==
  /\ \A t \in Threads : \A v, w \in hand[t] : v # w => v.chunks \cap w.chunks = {}
  /\ \A q \in Queues : \A i, j \in 1..Len(queue[q]) :
       i # j => queue[q][i].chunks \cap queue[q][j].chunks = {}

(* The thread will visit queue q before it leaves. *)
Watches(t, q) ==
  \/ phase[t] \in {"enter", "loop", "requeue"}
  \/ phase[t] = "first" /\ pc[t] # "take" /\ BlocksOf(t) # {}
  \/ phase[t] = "second" /\ pc[t] # "take"
       /\ (val[t] # NULL \/ \E v, w \in hand[t] : v # w)
  \/ pc[t] = "take" /\ \E i \in 1..Len(todo[t]) : todo[t][i] = q

QueuesWatched ==
  \A q \in Queues : queue[q] # <<>> => \E t \in Threads : Watches(t, q)

(* The counters that mctop_wq_is_last_thread compares. *)
InPhases(S) == {t \in Threads : phase[t] \in S}
Outside == InPhases({"enter"})
Finished == InPhases({"finished"})

CountersTrue ==
  /\ n_entered = Cardinality(Threads \ Outside)
  /\ n_exited = Cardinality(Finished)
  /\ \A t \in Threads : phase[t] = "output" => \A u \in Threads \ {t} : u \in Finished
  /\ last \subseteq Threads

IInv ==
  /\ Typed
  /\ EachInOnePlace
  /\ BlocksApart
  /\ QueuesWatched
  /\ CountersTrue
  /\ OutputIsComplete
  /\ OneIsLast
-----------------------------------------------------------------------------
(* The steps of the operations of the queue, by what they do. *)
LEMMA Lists ==
  ASSUME NEW t \in Threads
  PROVE  /\ <<Local[t]>> \o NextQ[Local[t]] \in Seq(Queues)
         /\ <<Local[t]>> \o NextQ[Local[t]] # <<>>
         /\ \A q \in Queues : \E i \in 1..Len(<<Local[t]>> \o NextQ[Local[t]]) :
              (<<Local[t]>> \o NextQ[Local[t]])[i] = q
<1> DEFINE l == Local[t]
           s == NextQ[l]
<1>1. l \in Queues /\ s \in Seq(Queues) /\ Len(s) \in Nat
  BY WorkSortAssumption DEF Queues
<1>2. <<l>> \in Seq(Queues) /\ Len(<<l>>) = 1
  BY <1>1
<1>3. <<l>> \o s \in Seq(Queues) /\ Len(<<l>> \o s) = Len(s) + 1
  BY <1>1, <1>2, ConcatProperties
<1>4. ASSUME NEW q \in Queues PROVE \E i \in 1..Len(<<l>> \o s) : (<<l>> \o s)[i] = q
  <2>1. PICK i \in 1..Len(s) : s[i] = q
    BY <1>1, WorkSortAssumption DEF Queues
  <2>2. (<<l>> \o s)[i + 1] = s[i]
    BY <1>1, <1>2, <2>1, ConcatProperties
  <2>3. i + 1 \in 1..Len(<<l>> \o s)
    BY <1>1, <1>3, <2>1
  <2> WITNESS i + 1 \in 1..Len(<<l>> \o s)
  <2> QED BY <2>1, <2>2
<1>5. <<l>> \o s # <<>>
  BY <1>1, <1>3
<1> QED BY <1>3, <1>4, <1>5

(* A step changes the entries of its own thread only. *)
LEMMA Frame ==
  ASSUME Typed, NEW t \in Threads, Step(t)
  PROVE  /\ DOMAIN pc' = Threads /\ DOMAIN todo' = Threads /\ DOMAIN val' = Threads
         /\ DOMAIN hand' = Threads /\ DOMAIN phase' = Threads
         /\ pc' = [pc EXCEPT ![t] = pc'[t]]
         /\ todo' = [todo EXCEPT ![t] = todo'[t]]
         /\ val' = [val EXCEPT ![t] = val'[t]]
         /\ hand' = [hand EXCEPT ![t] = hand'[t]]
         /\ phase' = [phase EXCEPT ![t] = phase'[t]]
<1> USE DEF Typed, Phase, bagVars, sortVars, Bag!Goto
<1>1. CASE Enter(t) \/ Leave(t) \/ IsLastEntered(t) \/ IsLastExited(t) \/ Exit(t)
  BY <1>1 DEF Enter, Leave, IsLastEntered, IsLastExited, Exit
<1>2. CASE DequeueFirst(t) \/ DequeueSecond(t)
  BY <1>2 DEF DequeueFirst, DequeueSecond, Bag!CallDequeue
<1>3. CASE SortFirst(t) \/ Merge(t) \/ Output(t)
  BY <1>3 DEF SortFirst, Merge, Output
<1>4. CASE Requeue(t)
  BY <1>4 DEF Requeue, Bag!CallEnqueue
<1>5. CASE InQueueCall(t)
  <2>1. CASE Bag!Put(t)
    BY <1>5, <2>1 DEF InQueueCall, Bag!Put
  <2>2. CASE Bag!Take(t)
    BY <1>5, <2>2 DEF InQueueCall, Bag!Take
  <2>3. CASE Bag!Skip(t)
    BY <1>5, <2>3 DEF InQueueCall, Bag!Skip
  <2>4. CASE Bag!Return(t)
    BY <1>5, <2>4 DEF InQueueCall, Bag!Return
  <2> QED BY <1>5, <2>1, <2>2, <2>3, <2>4 DEF InQueueCall
<1> QED BY <1>1, <1>2, <1>3, <1>4, <1>5 DEF Step
-----------------------------------------------------------------------------
(* A step of one thread leaves the places of the others alone.               *)
LEMMA Others ==
  ASSUME Typed, NEW t \in Threads, Step(t), NEW u \in Threads \ {t}
  PROVE  /\ pc'[u] = pc[u] /\ todo'[u] = todo[u] /\ val'[u] = val[u]
         /\ hand'[u] = hand[u] /\ phase'[u] = phase[u]
         /\ InOperation(u)' /\ InPhase(u)'
<1>1. /\ pc'[u] = pc[u] /\ todo'[u] = todo[u] /\ val'[u] = val[u]
      /\ hand'[u] = hand[u] /\ phase'[u] = phase[u]
  BY Frame DEF Typed
<1>2. InOperation(u)' /\ InPhase(u)'
  BY <1>1 DEF Typed, InOperation, InPhase
<1> QED BY <1>1, <1>2

(* The state stays typed if the entries of the thread that takes the step do. *)
LEMMA TypedByEntry ==
  ASSUME Typed, NEW t \in Threads, Step(t),
         queue' \in [Queues -> Seq(Blocks)], out' \in Blocks \cup {NULL},
         pc'[t] \in Pcs, todo'[t] \in Seq(Queues), val'[t] \in Blocks \cup {NULL},
         hand'[t] \subseteq Blocks, phase'[t] \in PhaseNames,
         InOperation(t)', InPhase(t)'
  PROVE  Typed'
<1>a. \A u \in Threads \ {t} : /\ pc'[u] = pc[u] /\ todo'[u] = todo[u] /\ val'[u] = val[u]
                               /\ hand'[u] = hand[u] /\ phase'[u] = phase[u]
  BY Others
<1>b. /\ pc' = [u \in Threads |-> pc'[u]] /\ todo' = [u \in Threads |-> todo'[u]]
      /\ val' = [u \in Threads |-> val'[u]] /\ hand' = [u \in Threads |-> hand'[u]]
      /\ phase' = [u \in Threads |-> phase'[u]]
  BY Frame
<1>1. /\ pc' \in [Threads -> Pcs] /\ todo' \in [Threads -> Seq(Queues)]
      /\ val' \in [Threads -> Blocks \cup {NULL}] /\ hand' \in [Threads -> SUBSET Blocks]
      /\ phase' \in [Threads -> PhaseNames]
  BY <1>a, <1>b DEF Typed
<1>2. \A u \in Threads : InOperation(u)' /\ InPhase(u)'
  BY Others
<1> QED BY <1>1, <1>2 DEF Typed

(* Two blocks merged are a block.                                            *)
LEMMA MergedIsBlock ==
  ASSUME NEW S \in SUBSET Blocks, S # {}
  PROVE  [chunks |-> UNION {w.chunks : w \in S}, sorted |-> TRUE] \in Blocks
BY DEF Blocks

(* A block merged from two is sorted and has the chunks of both.             *)
LEMMA Pairs ==
  ASSUME NEW v, NEW w
  PROVE  /\ Cardinality({w}) = 1
         /\ Cardinality({w, v}) = (IF v = w THEN 1 ELSE 2)
         /\ Cardinality({}) = 0
<1>1. IsFiniteSet({w}) /\ Cardinality({w}) = 1
  BY FS_Singleton
<1>2. {w, v} = {w} \cup {v}
  OBVIOUS
<1>3. Cardinality({w, v}) = (IF v = w THEN 1 ELSE 2)
  BY <1>1, <1>2, FS_AddElement
<1> QED BY <1>1, <1>3, FS_EmptySet

(* Whose second dequeue has found nothing has one block in hand. *)
LEMMA SoleBlock ==
  ASSUME NEW t \in Threads, InPhase(t), phase[t] = "second", Cardinality(hand[t]) = 1
  PROVE  \E w \in Blocks : w.sorted /\ hand[t] = {w}
<1>1. PICK w \in Blocks : w.sorted /\ (hand[t] = {w} \/ \E v \in Blocks : hand[t] = {w, v})
  BY DEF InPhase
<1>2. ASSUME NEW v, hand[t] = {w, v} PROVE v = w
  <2>1. Cardinality({w, v}) = 1
    BY <1>2
  <2>2. v # w => Cardinality({w, v}) = 2
    BY Pairs
  <2> QED BY <2>1, <2>2
<1>3. hand[t] = {w}
  BY <1>1, <1>2
<1> QED BY <1>1, <1>3

(* Every step keeps the types.                                               *)
LEMMA TypedStep ==
  ASSUME Typed, NEW t \in Threads, Step(t)
  PROVE  Typed'
<1> USE DEF Phase, bagVars, sortVars, Bag!Goto, Pcs, PhaseNames
<1>a. /\ queue \in [Queues -> Seq(Blocks)] /\ out \in Blocks \cup {NULL}
      /\ DOMAIN pc = Threads /\ DOMAIN todo = Threads /\ DOMAIN val = Threads
      /\ DOMAIN hand = Threads /\ DOMAIN phase = Threads
      /\ pc[t] \in Pcs /\ todo[t] \in Seq(Queues) /\ val[t] \in Blocks \cup {NULL}
      /\ hand[t] \subseteq Blocks /\ phase[t] \in PhaseNames
      /\ InOperation(t) /\ InPhase(t)
  BY DEF Typed
<1>b. NULL \notin Blocks
  BY WorkSortAssumption
<1>c. SUFFICES
        /\ queue' \in [Queues -> Seq(Blocks)] /\ out' \in Blocks \cup {NULL}
        /\ pc'[t] \in Pcs /\ todo'[t] \in Seq(Queues) /\ val'[t] \in Blocks \cup {NULL}
        /\ hand'[t] \subseteq Blocks /\ phase'[t] \in PhaseNames
        /\ InOperation(t)' /\ InPhase(t)'
  BY TypedByEntry
<1>1. CASE Enter(t)
  BY <1>1, <1>a DEF Enter, InOperation, InPhase
<1>2. CASE DequeueFirst(t)
  BY <1>2, <1>a, Lists DEF DequeueFirst, Bag!CallDequeue, InOperation, InPhase
<1>3. CASE Leave(t)
  BY <1>3, <1>a DEF Leave, InOperation, InPhase
<1>4. CASE SortFirst(t)
  <2>1. PICK w \in hand[t] :
          hand' = [hand EXCEPT ![t] = {[w EXCEPT !.sorted = TRUE]}]
    BY <1>4 DEF SortFirst
  <2>2. [w EXCEPT !.sorted = TRUE] \in Blocks
    BY <1>a, <2>1 DEF Blocks
  <2> QED BY <1>4, <1>a, <2>1, <2>2 DEF SortFirst, InOperation, InPhase
<1>5. CASE DequeueSecond(t)
  <2>1. \E w \in Blocks : w.sorted /\ hand[t] = {w}
    BY <1>5, <1>a DEF DequeueSecond, InPhase
  <2> QED BY <1>5, <1>a, <2>1, Lists DEF DequeueSecond, Bag!CallDequeue, InOperation, InPhase
<1>6. CASE Merge(t)
  <2>1. [chunks |-> UNION {w.chunks : w \in hand[t]}, sorted |-> TRUE] \in Blocks
    BY <1>6, <1>a, MergedIsBlock DEF Merge, InPhase
  <2> QED BY <1>6, <1>a, <2>1 DEF Merge, InOperation, InPhase
<1>7. CASE IsLastEntered(t)
  <2>1. \E w \in Blocks : w.sorted /\ hand[t] = {w}
    BY <1>7, <1>a, SoleBlock DEF IsLastEntered
  <2> QED BY <1>7, <1>a, <2>1 DEF IsLastEntered, InOperation, InPhase
<1>8. CASE IsLastExited(t)
  BY <1>8, <1>a DEF IsLastExited, InOperation, InPhase
<1>9. CASE Output(t)
  BY <1>9, <1>a DEF Output, InOperation, InPhase
<1>10. CASE Requeue(t)
  <2>1. PICK w \in hand[t] : Bag!CallEnqueue(t, Local[t], w)
    BY <1>10 DEF Requeue
  <2>2. <<Local[t]>> \in Seq(Queues) /\ <<Local[t]>> # <<>>
    BY WorkSortAssumption DEF Queues
  <2>3. hand[t] = {w}
    BY <1>10, <1>a DEF Requeue, InPhase
  <2> QED BY <1>10, <1>a, <1>b, <2>1, <2>2, <2>3
        DEF Requeue, Bag!CallEnqueue, InOperation, InPhase
<1>11. CASE Exit(t)
  BY <1>11, <1>a DEF Exit, InOperation, InPhase
<1>12. CASE InQueueCall(t)
  <2> USE DEF Bag!Here
  <2>1. CASE Bag!Put(t)
    <3>1. Head(todo[t]) \in Queues /\ val[t] \in Blocks
      BY <1>12, <1>a, <2>1 DEF Bag!Put, InOperation
    <3>2. Append(queue[Head(todo[t])], val[t]) \in Seq(Blocks)
      BY <1>a, <3>1
    <3> QED BY <1>12, <1>a, <2>1, <3>1, <3>2 DEF InQueueCall, Bag!Put, InOperation, InPhase
  <2>2. CASE Bag!Take(t)
    <3>1. Head(todo[t]) \in Queues /\ queue[Head(todo[t])] # <<>>
      BY <1>12, <1>a, <2>2 DEF Bag!Take, InOperation
    <3>2. /\ Tail(queue[Head(todo[t])]) \in Seq(Blocks)
          /\ Head(queue[Head(todo[t])]) \in Blocks
      BY <1>a, <3>1
    <3> QED BY <1>12, <1>a, <2>2, <3>1, <3>2 DEF InQueueCall, Bag!Take, InOperation, InPhase
  <2>3. CASE Bag!Skip(t)
    <3>1. todo[t] # <<>> /\ Tail(todo[t]) \in Seq(Queues)
      BY <1>12, <1>a, <2>3 DEF Bag!Skip, InOperation
    <3>2. Len(todo[t]) > 1 => Tail(todo[t]) # <<>>
      <4>1. Len(Tail(todo[t])) = Len(todo[t]) - 1 /\ Len(todo[t]) \in Nat
        BY <1>a, <3>1, HeadTailProperties
      <4>2. Len(<<>>) = 0
        BY EmptySeq
      <4>3. Tail(todo[t]) = <<>> => Len(Tail(todo[t])) = 0
        BY <4>2, Zenon
      <4> QED BY <4>1, <4>3
    <3> QED BY <1>12, <1>a, <2>3, <3>1, <3>2 DEF InQueueCall, Bag!Skip, InOperation, InPhase
  <2>4. CASE Bag!Return(t)
    <3>1. /\ pc'[t] = "idle" /\ phase'[t] = phase[t] /\ todo'[t] = <<>> /\ val'[t] = NULL
          /\ hand'[t] = (IF val[t] = NULL THEN hand[t] ELSE hand[t] \cup {val[t]})
          /\ queue' = queue /\ out' = out /\ pc[t] = "done"
      BY <1>12, <1>a, <2>4 DEF InQueueCall, Bag!Return
    <3>2. InOperation(t)'
      BY <3>1 DEF InOperation
    <3>3. InPhase(t)'
      <4>1. CASE phase[t] = "loop"
        BY <3>1, <4>1, <1>a DEF InPhase, InOperation
      <4>2. CASE phase[t] = "first"
        BY <3>1, <4>2, <1>a DEF InPhase
      <4>3. CASE phase[t] = "second"
        <5>1. PICK w \in Blocks : w.sorted /\ hand[t] = {w}
          BY <3>1, <4>3, <1>a DEF InPhase
        <5>2. hand'[t] = {w} \/ (val[t] \in Blocks /\ hand'[t] = {w, val[t]})
          BY <3>1, <1>a, <5>1
        <5> QED BY <3>1, <4>3, <5>1, <5>2 DEF InPhase
      <4> QED BY <3>1, <4>1, <4>2, <4>3, <1>a DEF InOperation
    <3> QED BY <3>1, <3>2, <3>3, <1>a
  <2> QED BY <1>12, <2>1, <2>2, <2>3, <2>4 DEF InQueueCall
<1> QED BY <1>1, <1>2, <1>3, <1>4, <1>5, <1>6, <1>7, <1>8, <1>9, <1>10, <1>11, <1>12 DEF Step
-----------------------------------------------------------------------------
(* The chunks at each kind of place. *)
LEMMA ChunksAtPlaces ==
  /\ \A u : ChunksAt("hand", u) = UNION {w.chunks : w \in hand[u]}
  /\ \A u : ChunksAt("val", u) = UNION {w.chunks : w \in {val[u]} \ {NULL}}
  /\ \A q : ChunksAt("queue", q) = UNION {w.chunks : w \in BlocksIn(q)}
  /\ \A x : ChunksAt("out", x) = UNION {w.chunks : w \in {out} \ {NULL}}
BY DEF ChunksAt, BlocksAt

(* Where the chunks are after a step.                                        *)
LEMMA ChunksAtPlacesNext ==
  /\ \A u : ChunksAt("hand", u)' = UNION {w.chunks : w \in hand'[u]}
  /\ \A u : ChunksAt("val", u)' = UNION {w.chunks : w \in {val'[u]} \ {NULL}}
  /\ \A q : ChunksAt("queue", q)' = UNION {w.chunks : w \in BlocksIn(q)'}
  /\ \A x : ChunksAt("out", x)' = UNION {w.chunks : w \in {out'} \ {NULL}}
BY DEF ChunksAt, BlocksAt

(* A place whose blocks are the same has the same chunks. *)
LEMMA SamePlaces ==
  ASSUME Typed, NEW t \in Threads, Step(t)
  PROVE  /\ \A u \in Threads : u # t \/ hand'[u] = hand[u] => ChunksAt("hand", u)' = ChunksAt("hand", u)
         /\ \A u \in Threads : u # t \/ val'[u] = val[u] => ChunksAt("val", u)' = ChunksAt("val", u)
         /\ \A q \in Queues : queue'[q] = queue[q] => ChunksAt("queue", q)' = ChunksAt("queue", q)
         /\ out' = out => \A x : ChunksAt("out", x)' = ChunksAt("out", x)
<1>1. \A u \in Threads : u # t => hand'[u] = hand[u] /\ val'[u] = val[u]
  BY Others
<1>2. \A q \in Queues : queue'[q] = queue[q] => BlocksIn(q)' = BlocksIn(q)
  BY DEF BlocksIn
<1>3. ASSUME NEW u \in Threads, u # t \/ hand'[u] = hand[u]
      PROVE  ChunksAt("hand", u)' = ChunksAt("hand", u)
  <2>1. hand'[u] = hand[u]
    BY <1>1, <1>3
  <2> QED BY <2>1 DEF ChunksAt, BlocksAt
<1>4. ASSUME NEW u \in Threads, u # t \/ val'[u] = val[u]
      PROVE  ChunksAt("val", u)' = ChunksAt("val", u)
  <2>1. val'[u] = val[u]
    BY <1>1, <1>4
  <2> QED BY <2>1 DEF ChunksAt, BlocksAt
<1>5. ASSUME NEW q \in Queues, queue'[q] = queue[q]
      PROVE  ChunksAt("queue", q)' = ChunksAt("queue", q)
  BY <1>2, <1>5 DEF ChunksAt, BlocksAt
<1>6. ASSUME out' = out PROVE \A x : ChunksAt("out", x)' = ChunksAt("out", x)
  BY <1>6 DEF ChunksAt, BlocksAt
<1> QED BY <1>3, <1>4, <1>5, <1>6

(* A step that moves no block keeps every chunk at its place.                *)
LEMMA NothingMoves ==
  ASSUME EachInOnePlace,
         \A k \in Kinds : \A x \in OwnersOf(k) : ChunksAt(k, x)' = ChunksAt(k, x)
  PROVE  EachInOnePlace'
BY DEF EachInOnePlace, OwnersOf

(* The chunks of one place are moved to another one. *)
LEMMA ChunksMove ==
  ASSUME EachInOnePlace,
         NEW k1 \in Kinds, NEW x1 \in OwnersOf(k1),
         NEW k2 \in Kinds, NEW x2 \in OwnersOf(k2), k1 # k2 \/ x1 # x2,
         \A k \in Kinds : \A x \in OwnersOf(k) :
           (k # k1 \/ x # x1) /\ (k # k2 \/ x # x2) => ChunksAt(k, x)' = ChunksAt(k, x),
         ChunksAt(k1, x1)' \cup ChunksAt(k2, x2)' = ChunksAt(k1, x1) \cup ChunksAt(k2, x2),
         ChunksAt(k1, x1)' \cap ChunksAt(k2, x2)' = {}
  PROVE  EachInOnePlace'
<1>0. \A k : OwnersOf(k)' = OwnersOf(k)
  BY DEF OwnersOf
<1>1. ASSUME NEW c \in Chunks
      PROVE  \E k \in Kinds : \E x \in OwnersOf(k) : c \in ChunksAt(k, x)'
  <2>1. PICK k \in Kinds : \E x \in OwnersOf(k) : c \in ChunksAt(k, x)
    BY DEF EachInOnePlace
  <2>2. PICK x \in OwnersOf(k) : c \in ChunksAt(k, x)
    BY <2>1
  <2>3. CASE (k # k1 \/ x # x1) /\ (k # k2 \/ x # x2)
    BY <2>2, <2>3
  <2>4. CASE ~ ((k # k1 \/ x # x1) /\ (k # k2 \/ x # x2))
    <3>1. c \in ChunksAt(k1, x1)' \cup ChunksAt(k2, x2)'
      BY <2>2, <2>4
    <3> QED BY <3>1
  <2> QED BY <2>3, <2>4
<1>2. ASSUME NEW k \in Kinds, NEW l \in Kinds, NEW x \in OwnersOf(k), NEW y \in OwnersOf(l),
             k # l \/ x # y, NEW c, c \in ChunksAt(k, x)', c \in ChunksAt(l, y)'
      PROVE  FALSE
  <2> DEFINE From(m, z) == m = k1 /\ z = x1
             To(m, z) == m = k2 /\ z = x2
             Both == ChunksAt(k1, x1) \cup ChunksAt(k2, x2)
  <2>1. \A m \in Kinds : \A z \in OwnersOf(m) :
          ~ From(m, z) /\ ~ To(m, z) => ChunksAt(m, z)' = ChunksAt(m, z) /\ ChunksAt(m, z) \cap Both = {}
    BY DEF EachInOnePlace
  <2>2. \A m \in Kinds : \A z \in OwnersOf(m) :
          From(m, z) \/ To(m, z) => ChunksAt(m, z)' \subseteq Both
    OBVIOUS
  <2>3. CASE (From(k, x) /\ To(l, y)) \/ (To(k, x) /\ From(l, y))
    BY <1>2, <2>3
  <2>4. CASE (From(k, x) \/ To(k, x)) /\ ~ From(l, y) /\ ~ To(l, y)
    BY <1>2, <2>1, <2>2, <2>4
  <2>5. CASE (From(l, y) \/ To(l, y)) /\ ~ From(k, x) /\ ~ To(k, x)
    BY <1>2, <2>1, <2>2, <2>5
  <2>6. CASE ~ From(k, x) /\ ~ To(k, x) /\ ~ From(l, y) /\ ~ To(l, y)
    <3>1. c \in ChunksAt(k, x) /\ c \in ChunksAt(l, y)
      BY <1>2, <2>1, <2>6
    <3> QED BY <1>2, <3>1 DEF EachInOnePlace
  <2>7. ~ (From(k, x) /\ From(l, y)) /\ ~ (To(k, x) /\ To(l, y))
    BY <1>2
  <2> HIDE DEF From, To, Both
  <2> QED BY <2>3, <2>4, <2>5, <2>6, <2>7
<1> QED BY <1>0, <1>1, <1>2 DEF EachInOnePlace
-----------------------------------------------------------------------------
(* Sequences of blocks: the set of the elements after Append and Tail. *)
LEMMA ElementsOfAppend ==
  ASSUME NEW s \in Seq(Blocks), NEW x \in Blocks
  PROVE  {Append(s, x)[i] : i \in 1..Len(Append(s, x))} = {s[i] : i \in 1..Len(s)} \cup {x}
<1>1. /\ Len(s) \in Nat /\ Len(Append(s, x)) = Len(s) + 1
      /\ \A i \in 1..Len(s) : Append(s, x)[i] = s[i]
      /\ Append(s, x)[Len(s) + 1] = x
  BY AppendProperties
<1>2. 1..Len(Append(s, x)) = 1..Len(s) \cup {Len(s) + 1}
  BY <1>1
<1> QED BY <1>1, <1>2

(* The elements of a queue without its head.                                 *)
LEMMA ElementsOfTail ==
  ASSUME NEW s \in Seq(Blocks), s # <<>>
  PROVE  /\ {s[i] : i \in 1..Len(s)} = {Tail(s)[i] : i \in 1..Len(Tail(s))} \cup {Head(s)}
         /\ Head(s) = s[1] /\ 1 \in 1..Len(s)
         /\ \A i \in 1..Len(Tail(s)) : i + 1 \in 1..Len(s) /\ Tail(s)[i] = s[i + 1]
<1>1. Len(s) \in Nat \ {0} /\ Head(s) = s[1]
  BY EmptySeq
<1>2. /\ Len(Tail(s)) = Len(s) - 1
      /\ \A i \in 1..Len(Tail(s)) : Tail(s)[i] = s[i + 1]
  BY HeadTailProperties
<1>3. ASSUME NEW i \in 1..Len(s) PROVE i = 1 \/ (i - 1 \in 1..Len(Tail(s)) /\ Tail(s)[i - 1] = s[i])
  <2>1. i = 1 \/ i - 1 \in 1..Len(Tail(s))
    BY <1>1, <1>2
  <2>2. i - 1 + 1 = i
    BY <1>1
  <2> QED BY <1>2, <2>1, <2>2
<1>4. \A i \in 1..Len(Tail(s)) : i + 1 \in 1..Len(s) /\ Tail(s)[i] = s[i + 1]
  BY <1>1, <1>2
<1>5. 1 \in 1..Len(s)
  BY <1>1
<1> HIDE <1>2
<1> QED BY <1>1, <1>3, <1>4, <1>5

(* The chunks of no, one or two blocks.                                      *)
LEMMA ChunksOfFew ==
  /\ UNION {w.chunks : w \in {}} = {}
  /\ \A v : UNION {w.chunks : w \in {v}} = v.chunks
OBVIOUS

(* The chunks of a thread that has no block, or one. *)
LEMMA ChunksOfThread ==
  ASSUME NEW t
  PROVE  /\ hand[t] = {} => ChunksAt("hand", t) = {}
         /\ \A w : hand[t] = {w} => ChunksAt("hand", t) = w.chunks
         /\ val[t] = NULL => ChunksAt("val", t) = {}
         /\ val[t] # NULL => ChunksAt("val", t) = val[t].chunks
<1>1. val[t] = NULL => {val[t]} \ {NULL} = {}
  OBVIOUS
<1>2. val[t] # NULL => {val[t]} \ {NULL} = {val[t]}
  OBVIOUS
<1>3. /\ ChunksAt("hand", t) = UNION {w.chunks : w \in hand[t]}
      /\ ChunksAt("val", t) = UNION {w.chunks : w \in {val[t]} \ {NULL}}
  BY ChunksAtPlaces
<1> QED BY <1>1, <1>2, <1>3, ChunksOfFew, Zenon

(* The chunks a thread holds after a step.                                   *)
LEMMA ChunksOfThreadNext ==
  ASSUME NEW t
  PROVE  /\ hand'[t] = {} => ChunksAt("hand", t)' = {}
         /\ \A w : hand'[t] = {w} => ChunksAt("hand", t)' = w.chunks
         /\ val'[t] = NULL => ChunksAt("val", t)' = {}
         /\ val'[t] # NULL => ChunksAt("val", t)' = val'[t].chunks
<1>1. val'[t] = NULL => {val'[t]} \ {NULL} = {}
  OBVIOUS
<1>2. val'[t] # NULL => {val'[t]} \ {NULL} = {val'[t]}
  OBVIOUS
<1>3. /\ ChunksAt("hand", t)' = UNION {w.chunks : w \in hand'[t]}
      /\ ChunksAt("val", t)' = UNION {w.chunks : w \in {val'[t]} \ {NULL}}
  BY ChunksAtPlacesNext
<1> QED BY <1>1, <1>2, <1>3, ChunksOfFew, Zenon

(* The chunks of the result, if there is one.                                *)
LEMMA ChunksOfResult ==
  /\ out = NULL => \A x : ChunksAt("out", x) = {}
  /\ out # NULL => \A x : ChunksAt("out", x) = out.chunks
  /\ out' # NULL => \A x : ChunksAt("out", x)' = out'.chunks
<1>1. out = NULL => {out} \ {NULL} = {}
  OBVIOUS
<1>2. out # NULL => {out} \ {NULL} = {out}
  OBVIOUS
<1>3. out' # NULL => {out'} \ {NULL} = {out'}
  OBVIOUS
<1>4. \A x : ChunksAt("out", x) = UNION {w.chunks : w \in {out} \ {NULL}}
  BY ChunksAtPlaces
<1>5. \A x : ChunksAt("out", x)' = UNION {w.chunks : w \in {out'} \ {NULL}}
  BY ChunksAtPlacesNext
<1> QED BY <1>1, <1>2, <1>3, <1>4, <1>5, ChunksOfFew, Zenon

(* What is at a place is apart from what is at another one, chunk by chunk. *)
LEMMA PlacesApart ==
  ASSUME EachInOnePlace, NEW t \in Threads, NEW q \in Queues
  PROVE  /\ ChunksAt("hand", t) \cap ChunksAt("val", t) = {}
         /\ ChunksAt("val", t) \cap ChunksAt("queue", q) = {}
<1>1. /\ "hand" \in Kinds /\ "val" \in Kinds /\ "queue" \in Kinds
      /\ t \in OwnersOf("hand") /\ t \in OwnersOf("val") /\ q \in OwnersOf("queue")
  BY DEF Kinds, OwnersOf
<1> QED BY <1>1 DEF EachInOnePlace

(* Requeue: the argument of the enqueue is the block in hand. *)
LEMMA RequeueMoves ==
  ASSUME IInv, NEW t \in Threads, Step(t), Requeue(t)
  PROVE  EachInOnePlace' /\ BlocksApart'
<1>1. PICK w \in hand[t] : Bag!CallEnqueue(t, Local[t], w)
  BY DEF Requeue
<1>a. \E v \in Blocks : hand[t] = {v}
  BY DEF IInv, Typed, InPhase, Requeue, Phase
<1>b. hand[t] = {w} /\ w \in Blocks /\ w # NULL
  BY <1>1, <1>a, WorkSortAssumption
<1>2. /\ hand'[t] = {} /\ val[t] = NULL /\ val'[t] = w
      /\ queue' = queue /\ out' = out
  BY <1>1, <1>b DEF IInv, Typed, InOperation, Requeue, Phase, Bag!CallEnqueue, Bag!Goto
<1>3. /\ ChunksAt("hand", t) = w.chunks /\ ChunksAt("hand", t)' = {}
      /\ ChunksAt("val", t) = {} /\ ChunksAt("val", t)' = w.chunks
  BY <1>b, <1>2, ChunksOfThread, ChunksOfThreadNext
<1>4. /\ "hand" \in Kinds /\ "val" \in Kinds
      /\ t \in OwnersOf("hand") /\ t \in OwnersOf("val")
  BY DEF Kinds, OwnersOf
<1>5. \A k \in Kinds : \A x \in OwnersOf(k) :
        (k # "hand" \/ x # t) /\ (k # "val" \/ x # t) => ChunksAt(k, x)' = ChunksAt(k, x)
  BY <1>2, SamePlaces DEF IInv, Kinds, OwnersOf
<1>6. EachInOnePlace'
  BY <1>3, <1>4, <1>5, ChunksMove DEF IInv
<1>7. \A u \in Threads : hand'[u] \subseteq hand[u]
  BY <1>2, Others DEF IInv
<1> QED BY <1>2, <1>6, <1>7 DEF IInv, BlocksApart

(* Output: the block in hand becomes the result. *)
LEMMA OutputMoves ==
  ASSUME IInv, NEW t \in Threads, Step(t), Output(t), out = NULL
  PROVE  EachInOnePlace' /\ BlocksApart'
<1>1. PICK w \in Blocks : hand[t] = {w}
  BY DEF IInv, Typed, InPhase, Output, Phase
<1>2. /\ hand'[t] = {} /\ val' = val /\ out' = w /\ w # NULL /\ queue' = queue
  BY <1>1, WorkSortAssumption DEF IInv, Typed, Output
<1>3. /\ ChunksAt("hand", t) = w.chunks /\ ChunksAt("hand", t)' = {}
      /\ ChunksAt("out", NULL) = {} /\ ChunksAt("out", NULL)' = w.chunks
  BY <1>1, <1>2, ChunksOfThread, ChunksOfThreadNext, ChunksOfResult
<1>4. /\ "hand" \in Kinds /\ "out" \in Kinds
      /\ t \in OwnersOf("hand") /\ NULL \in OwnersOf("out")
  BY DEF Kinds, OwnersOf
<1>5. \A k \in Kinds : \A x \in OwnersOf(k) :
        (k # "hand" \/ x # t) /\ (k # "out" \/ x # NULL) => ChunksAt(k, x)' = ChunksAt(k, x)
  BY <1>2, SamePlaces DEF IInv, Kinds, OwnersOf
<1>6. EachInOnePlace'
  BY <1>3, <1>4, <1>5, ChunksMove DEF IInv
<1>7. \A u \in Threads : hand'[u] \subseteq hand[u]
  BY <1>2, Others DEF IInv
<1> QED BY <1>2, <1>6, <1>7 DEF IInv, BlocksApart
(* The enqueue itself. *)
LEMMA PutMoves ==
  ASSUME IInv, NEW t \in Threads, Step(t), InQueueCall(t), Bag!Put(t)
  PROVE  EachInOnePlace' /\ BlocksApart'
<1>q. PICK q : q = Head(todo[t])
  OBVIOUS
<1>w. PICK w : w = val[t]
  OBVIOUS
<1>1. /\ q \in Queues /\ w \in Blocks /\ w # NULL /\ queue[q] \in Seq(Blocks)
  <2>1. /\ todo[t] \in Seq(Queues) /\ todo[t] # <<>>
        /\ w \in Blocks /\ w # NULL
    BY <1>w DEF IInv, Typed, InOperation, Bag!Put, Bag!Goto
  <2>2. q \in Queues
    BY <1>q, <2>1, HeadTailProperties
  <2> QED BY <2>1, <2>2 DEF IInv, Typed
<1>2. /\ queue' = [queue EXCEPT ![q] = Append(queue[q], w)]
      /\ val'[t] = NULL /\ hand' = hand /\ out' = out
  BY <1>q, <1>w DEF IInv, Typed, InQueueCall, sortVars, Bag!Put, Bag!Here
<1>3. queue'[q] = Append(queue[q], w) /\ \A r \in Queues \ {q} : queue'[r] = queue[r]
  BY <1>1, <1>2 DEF IInv, Typed
<1>4. /\ ChunksAt("val", t) = w.chunks /\ ChunksAt("val", t)' = {}
      /\ ChunksAt("queue", q) = UNION {v.chunks : v \in BlocksIn(q)}
      /\ ChunksAt("queue", q)' = UNION {v.chunks : v \in BlocksIn(q)'}
  BY <1>1, <1>2, ChunksOfThread, ChunksOfThreadNext, ChunksAtPlaces, ChunksAtPlacesNext, <1>w
<1>5. BlocksIn(q)' = BlocksIn(q) \cup {w}
  <2>1. BlocksIn(q)' = {Append(queue[q], w)[i] : i \in 1..Len(Append(queue[q], w))}
    BY <1>3 DEF BlocksIn
  <2>2. BlocksIn(q) = {queue[q][i] : i \in 1..Len(queue[q])}
    BY DEF BlocksIn
  <2> QED BY <1>1, <2>1, <2>2, ElementsOfAppend, Zenon
<1>6. ChunksAt("queue", q)' = ChunksAt("queue", q) \cup w.chunks
  BY <1>4, <1>5
<1>7. /\ "queue" \in Kinds /\ "val" \in Kinds
      /\ q \in OwnersOf("queue") /\ t \in OwnersOf("val")
  BY <1>1 DEF Kinds, OwnersOf
<1>8. \A k \in Kinds : \A x \in OwnersOf(k) :
        (k # "val" \/ x # t) /\ (k # "queue" \/ x # q) => ChunksAt(k, x)' = ChunksAt(k, x)
  BY <1>2, <1>3, SamePlaces DEF IInv, Kinds, OwnersOf
<1>9. EachInOnePlace'
  <2>1. ChunksAt("val", t)' \cup ChunksAt("queue", q)' = ChunksAt("val", t) \cup ChunksAt("queue", q)
    BY <1>4, <1>6
  <2>2. ChunksAt("val", t)' \cap ChunksAt("queue", q)' = {}
    BY <1>4
  <2> QED BY <1>7, <1>8, <2>1, <2>2, ChunksMove DEF IInv
<1>10. ASSUME NEW r \in Queues, NEW i \in 1..Len(queue'[r]), NEW j \in 1..Len(queue'[r]), i # j
       PROVE  queue'[r][i].chunks \cap queue'[r][j].chunks = {}
  <2>1. CASE r # q
    BY <1>3, <1>10, <2>1 DEF IInv, BlocksApart
  <2>2. CASE r = q
    <3>1. /\ Len(queue[q]) \in Nat /\ Len(queue'[q]) = Len(queue[q]) + 1
          /\ \A n \in 1..Len(queue[q]) : queue'[q][n] = queue[q][n]
          /\ queue'[q][Len(queue[q]) + 1] = w
      BY <1>1, <1>3, AppendProperties
    <3>2. \A n \in 1..Len(queue[q]) : queue[q][n].chunks \subseteq ChunksAt("queue", q)
      BY <1>4 DEF BlocksIn
    <3>3. ChunksAt("val", t) \cap ChunksAt("queue", q) = {}
      BY <1>1, PlacesApart DEF IInv
    <3>4. \A n \in 1..Len(queue[q]) : queue[q][n].chunks \cap w.chunks = {}
      BY <1>4, <3>2, <3>3
    <3>5. CASE i \in 1..Len(queue[q]) /\ j \in 1..Len(queue[q])
      BY <1>1, <1>10, <2>2, <3>1, <3>5 DEF IInv, BlocksApart
    <3>6. CASE i = Len(queue[q]) + 1
      <4>1. j \in 1..Len(queue[q])
        BY <1>10, <2>2, <3>1, <3>6
      <4> QED BY <2>2, <3>1, <3>4, <3>6, <4>1
    <3>7. CASE j = Len(queue[q]) + 1
      <4>1. i \in 1..Len(queue[q])
        BY <1>10, <2>2, <3>1, <3>7
      <4> QED BY <2>2, <3>1, <3>4, <3>7, <4>1
    <3> QED BY <2>2, <3>1, <3>5, <3>6, <3>7
  <2> QED BY <2>1, <2>2
<1> QED BY <1>2, <1>9, <1>10 DEF IInv, BlocksApart

(* The dequeue itself. *)
LEMMA TakeMoves ==
  ASSUME IInv, NEW t \in Threads, Step(t), InQueueCall(t), Bag!Take(t)
  PROVE  EachInOnePlace' /\ BlocksApart'
<1>q. PICK q : q = Head(todo[t])
  OBVIOUS
<1>w. PICK w : w = Head(queue[q])
  OBVIOUS
<1>1. /\ q \in Queues /\ queue[q] \in Seq(Blocks) /\ queue[q] # <<>>
      /\ w \in Blocks /\ w # NULL /\ val[t] = NULL
  <2>1. todo[t] \in Seq(Queues) /\ todo[t] # <<>> /\ val[t] = NULL
    BY DEF IInv, Typed, InOperation, Bag!Take, Bag!Goto
  <2>2. q \in Queues
    BY <1>q, <2>1, HeadTailProperties
  <2>3. queue[q] \in Seq(Blocks) /\ queue[q] # <<>>
    BY <1>q, <2>2 DEF IInv, Typed, Bag!Take, Bag!Here
  <2>4. w \in Blocks
    BY <1>w, <2>3, HeadTailProperties
  <2> QED BY <2>1, <2>2, <2>3, <2>4, WorkSortAssumption
<1>2. /\ queue' = [queue EXCEPT ![q] = Tail(queue[q])]
      /\ val'[t] = w /\ hand' = hand /\ out' = out
  BY <1>q, <1>w DEF IInv, Typed, InQueueCall, sortVars, Bag!Take, Bag!Here
<1>3. queue'[q] = Tail(queue[q]) /\ \A r \in Queues \ {q} : queue'[r] = queue[r]
  BY <1>1, <1>2 DEF IInv, Typed
<1>4. /\ ChunksAt("val", t) = {} /\ ChunksAt("val", t)' = w.chunks
      /\ ChunksAt("queue", q) = UNION {v.chunks : v \in BlocksIn(q)}
      /\ ChunksAt("queue", q)' = UNION {v.chunks : v \in BlocksIn(q)'}
  BY <1>1, <1>2, ChunksOfThread, ChunksOfThreadNext, ChunksAtPlaces, ChunksAtPlacesNext
<1>5. BlocksIn(q) = BlocksIn(q)' \cup {w}
  <2>1. BlocksIn(q)' = {Tail(queue[q])[i] : i \in 1..Len(Tail(queue[q]))}
    BY <1>3 DEF BlocksIn
  <2>2. BlocksIn(q) = {queue[q][i] : i \in 1..Len(queue[q])}
    BY DEF BlocksIn
  <2> QED BY <1>1, <2>1, <2>2, ElementsOfTail, <1>w, Zenon
<1>6. ChunksAt("queue", q) = ChunksAt("queue", q)' \cup w.chunks
  BY <1>4, <1>5
<1>a. /\ w = queue[q][1] /\ 1 \in 1..Len(queue[q])
      /\ \A i \in 1..Len(queue'[q]) :
           i + 1 \in 1..Len(queue[q]) /\ i + 1 # 1 /\ queue'[q][i] = queue[q][i + 1]
  BY <1>1, <1>3, <1>w, ElementsOfTail
<1>b. \A v \in BlocksIn(q)' : v.chunks \cap w.chunks = {}
  <2>1. \A i \in 1..Len(queue'[q]) : queue[q][i + 1].chunks \cap queue[q][1].chunks = {}
    BY <1>1, <1>a DEF IInv, BlocksApart
  <2> QED BY <1>a, <2>1 DEF BlocksIn
<1>c. ChunksAt("queue", q)' \cap w.chunks = {}
  BY <1>4, <1>b
<1>7. /\ "queue" \in Kinds /\ "val" \in Kinds
      /\ q \in OwnersOf("queue") /\ t \in OwnersOf("val")
  BY <1>1 DEF Kinds, OwnersOf
<1>8. \A k \in Kinds : \A x \in OwnersOf(k) :
        (k # "queue" \/ x # q) /\ (k # "val" \/ x # t) => ChunksAt(k, x)' = ChunksAt(k, x)
  BY <1>2, <1>3, SamePlaces DEF IInv, Kinds, OwnersOf
<1>9. EachInOnePlace'
  <2>1. ChunksAt("queue", q)' \cup ChunksAt("val", t)' = ChunksAt("queue", q) \cup ChunksAt("val", t)
    BY <1>4, <1>6
  <2>2. ChunksAt("queue", q)' \cap ChunksAt("val", t)' = {}
    BY <1>4, <1>c
  <2> QED BY <1>7, <1>8, <2>1, <2>2, ChunksMove DEF IInv
<1>10. ASSUME NEW r \in Queues, NEW i \in 1..Len(queue'[r]), NEW j \in 1..Len(queue'[r]), i # j
       PROVE  queue'[r][i].chunks \cap queue'[r][j].chunks = {}
  <2>1. CASE r # q
    BY <1>3, <1>10, <2>1 DEF IInv, BlocksApart
  <2>2. CASE r = q
    <3>1. /\ i + 1 # j + 1 /\ i + 1 \in 1..Len(queue[q]) /\ j + 1 \in 1..Len(queue[q])
          /\ queue'[r][i] = queue[q][i + 1] /\ queue'[r][j] = queue[q][j + 1]
      BY <1>10, <1>a, <2>2
    <3>2. \A m, n \in 1..Len(queue[q]) : m # n => queue[q][m].chunks \cap queue[q][n].chunks = {}
      BY <1>1 DEF IInv, BlocksApart
    <3> QED BY <3>1, <3>2
  <2> QED BY <2>1, <2>2
<1> QED BY <1>2, <1>9, <1>10 DEF IInv, BlocksApart

(* The thread has the block that its dequeue returns. *)
LEMMA ReturnMoves ==
  ASSUME IInv, NEW t \in Threads, Step(t), InQueueCall(t), Bag!Return(t)
  PROVE  EachInOnePlace' /\ BlocksApart'
<1>w. PICK w : w = val[t]
  OBVIOUS
<1>1. /\ hand'[t] = (IF w = NULL THEN hand[t] ELSE hand[t] \cup {w})
      /\ val'[t] = NULL /\ queue' = queue /\ out' = out
  BY <1>w DEF IInv, Typed, InQueueCall, sortVars, Bag!Return
<1>2. /\ ChunksAt("hand", t) = UNION {v.chunks : v \in hand[t]}
      /\ ChunksAt("hand", t)' = UNION {v.chunks : v \in hand'[t]}
      /\ ChunksAt("val", t) = (IF w = NULL THEN {} ELSE w.chunks)
      /\ ChunksAt("val", t)' = {}
  BY <1>1, ChunksAtPlaces, ChunksAtPlacesNext, ChunksOfThread, ChunksOfThreadNext, <1>w
<1>3. ChunksAt("hand", t)' = ChunksAt("hand", t) \cup ChunksAt("val", t)
  BY <1>1, <1>2
<1>4. /\ "hand" \in Kinds /\ "val" \in Kinds
      /\ t \in OwnersOf("hand") /\ t \in OwnersOf("val")
  BY DEF Kinds, OwnersOf
<1>5. \A k \in Kinds : \A x \in OwnersOf(k) :
        (k # "val" \/ x # t) /\ (k # "hand" \/ x # t) => ChunksAt(k, x)' = ChunksAt(k, x)
  BY <1>1, SamePlaces DEF IInv, Kinds, OwnersOf
<1>6. EachInOnePlace'
  BY <1>2, <1>3, <1>4, <1>5, ChunksMove DEF IInv
<1>7. ASSUME NEW u \in Threads, NEW v \in hand'[u], NEW x \in hand'[u], v # x
      PROVE  v.chunks \cap x.chunks = {}
  <2>1. CASE u # t
    BY <1>7, <2>1, Others DEF IInv, BlocksApart
  <2>2. CASE u = t
    <3>1. \A y \in hand[t] : w # NULL => y.chunks \cap w.chunks = {}
      <4>1. ChunksAt("hand", t) \cap ChunksAt("val", t) = {}
        BY PlacesApart, WorkSortAssumption DEF IInv, EachInOnePlace, Kinds, OwnersOf
      <4> QED BY <1>2, <4>1
    <3> QED BY <1>1, <1>7, <2>2, <3>1 DEF IInv, BlocksApart
  <2> QED BY <2>1, <2>2
<1> QED BY <1>1, <1>6, <1>7 DEF IInv, BlocksApart
(* A step that leaves the blocks where they are; one that sorts the block in *)
(* hand, or merges the blocks in hand, leaves their chunks where they are.   *)
LEMMA QuietMoves ==
  ASSUME IInv, NEW t \in Threads, Step(t),
         hand' = hand, val' = val, queue' = queue, out' = out
  PROVE  EachInOnePlace' /\ BlocksApart'
<1>1. \A k \in Kinds : \A x \in OwnersOf(k) : ChunksAt(k, x)' = ChunksAt(k, x)
  BY SamePlaces DEF IInv, Kinds, OwnersOf
<1> QED BY <1>1, NothingMoves DEF IInv, BlocksApart

(* A merge keeps the chunks with the thread.                                 *)
LEMMA MergeMoves ==
  ASSUME IInv, NEW t \in Threads, Step(t), SortFirst(t) \/ Merge(t)
  PROVE  EachInOnePlace' /\ BlocksApart'
<1>1. /\ val' = val /\ queue' = queue /\ out' = out
      /\ \E x : hand'[t] = {x} /\ x.chunks = ChunksAt("hand", t)
  <2>1. CASE SortFirst(t)
    <3>1. PICK w \in hand[t] : hand' = [hand EXCEPT ![t] = {[w EXCEPT !.sorted = TRUE]}]
      BY <2>1 DEF SortFirst
    <3>2. hand[t] = {w} /\ w \in Blocks
      BY <2>1, <3>1, ZenonT(60) DEF IInv, Typed, InPhase, SortFirst, Phase
    <3>3. /\ hand'[t] = {[w EXCEPT !.sorted = TRUE]}
          /\ [w EXCEPT !.sorted = TRUE].chunks = w.chunks
      BY <3>1, <3>2 DEF IInv, Typed, Blocks
    <3>4. ChunksAt("hand", t) = w.chunks
      BY <3>2, ChunksOfThread
    <3>5. val' = val /\ queue' = queue /\ out' = out
      BY <2>1 DEF SortFirst
    <3> QED BY <3>3, <3>4, <3>5
  <2>2. CASE Merge(t)
    <3>1. hand'[t] = {[chunks |-> UNION {w.chunks : w \in hand[t]}, sorted |-> TRUE]}
      BY <2>2 DEF IInv, Typed, Merge
    <3>2. ChunksAt("hand", t) = UNION {w.chunks : w \in hand[t]}
      BY ChunksAtPlaces
    <3>3. val' = val /\ queue' = queue /\ out' = out
      BY <2>2 DEF Merge
    <3>4. [chunks |-> UNION {w.chunks : w \in hand[t]}, sorted |-> TRUE].chunks
            = UNION {w.chunks : w \in hand[t]}
      OBVIOUS
    <3> QED BY <3>1, <3>2, <3>3, <3>4
  <2> QED BY <2>1, <2>2
<1>2. ChunksAt("hand", t)' = ChunksAt("hand", t)
  BY <1>1, ChunksOfThreadNext
<1>3. \A k \in Kinds : \A x \in OwnersOf(k) : ChunksAt(k, x)' = ChunksAt(k, x)
  BY <1>1, <1>2, SamePlaces DEF IInv, Kinds, OwnersOf
<1>4. \A u \in Threads : u # t => hand'[u] = hand[u]
  BY Others DEF IInv
<1>5. \A u \in Threads : \A v, w \in hand'[u] : v # w => v.chunks \cap w.chunks = {}
  BY <1>1, <1>4 DEF IInv, BlocksApart
<1>6. BlocksApart'
  BY <1>1, <1>5 DEF IInv, BlocksApart
<1> QED BY <1>3, <1>6, NothingMoves DEF IInv

(* Every step moves chunks between two places, or none.                      *)
LEMMA MovesStep ==
  ASSUME IInv, NEW t \in Threads, Step(t), Output(t) => out = NULL
  PROVE  EachInOnePlace' /\ BlocksApart'
<1> USE DEF bagVars
<1>1. CASE Enter(t) \/ Leave(t) \/ IsLastEntered(t) \/ IsLastExited(t) \/ Exit(t)
  <2>1. hand' = hand /\ val' = val /\ queue' = queue /\ out' = out
    BY <1>1 DEF Enter, Leave, IsLastEntered, IsLastExited, Exit
  <2> QED BY <2>1, QuietMoves
<1>2. CASE DequeueFirst(t) \/ DequeueSecond(t)
  <2>1. hand' = hand /\ val' = val /\ queue' = queue /\ out' = out
    BY <1>2 DEF DequeueFirst, DequeueSecond, Bag!CallDequeue
  <2> QED BY <2>1, QuietMoves
<1>3. CASE SortFirst(t) \/ Merge(t)
  BY <1>3, MergeMoves
<1>4. CASE Output(t)
  BY <1>4, OutputMoves
<1>5. CASE Requeue(t)
  BY <1>5, RequeueMoves
<1>6. CASE InQueueCall(t) /\ Bag!Skip(t)
  <2>1. hand' = hand /\ val' = val /\ queue' = queue /\ out' = out
    BY <1>6 DEF InQueueCall, sortVars, Bag!Skip
  <2> QED BY <2>1, QuietMoves
<1>7. CASE InQueueCall(t) /\ ~ Bag!Skip(t)
  BY <1>7, PutMoves, TakeMoves, ReturnMoves DEF InQueueCall
<1> QED BY <1>1, <1>2, <1>3, <1>4, <1>5, <1>6, <1>7 DEF Step
-----------------------------------------------------------------------------
(* A queue that is not empty stays watched: who watches it goes on, unless   *)
(* the thread visits it, and then the thread has a block and watches too.    *)
LEMMA WatchesOn ==
  ASSUME IInv, NEW t \in Threads, Step(t), NEW q \in Queues, queue[q] # <<>>, Watches(t, q)
  PROVE  Watches(t, q)'
<1> USE DEF Phase, bagVars, sortVars, Bag!Goto
<1>a. /\ queue \in [Queues -> Seq(Blocks)]
      /\ DOMAIN pc = Threads /\ DOMAIN todo = Threads /\ DOMAIN val = Threads
      /\ DOMAIN hand = Threads /\ DOMAIN phase = Threads
      /\ todo[t] \in Seq(Queues) /\ val[t] \in Blocks \cup {NULL}
      /\ InOperation(t) /\ InPhase(t)
  BY DEF IInv, Typed
<1>b. NULL \notin Blocks
  BY WorkSortAssumption
<1>1. CASE Enter(t)
  BY <1>1, <1>a DEF Enter, Watches
<1>2. CASE DequeueFirst(t) \/ DequeueSecond(t)
  <2>1. pc'[t] = "take" /\ todo'[t] = <<Local[t]>> \o NextQ[Local[t]]
    BY <1>2, <1>a DEF DequeueFirst, DequeueSecond, Bag!CallDequeue
  <2>2. \E i \in 1..Len(todo'[t]) : todo'[t][i] = q
    <3>1. \A l : l = <<Local[t]>> \o NextQ[Local[t]] => \E i \in 1..Len(l) : l[i] = q
      BY Lists, Zenon
    <3> QED BY <2>1, <3>1
  <2> QED BY <2>1, <2>2 DEF Watches
<1>3. CASE Leave(t)
  BY <1>3, <1>a DEF Leave, Watches, BlocksOf, InOperation
<1>4. CASE SortFirst(t) \/ Merge(t)
  BY <1>4, <1>a DEF SortFirst, Merge, Watches
<1>5. CASE IsLastEntered(t)
  <2>1. PICK w : hand[t] = {w}
    BY <1>5, <1>a, SoleBlock DEF IsLastEntered
  <2> QED BY <1>5, <1>a, <2>1 DEF IsLastEntered, Watches, InOperation
<1>6. CASE IsLastExited(t) \/ Output(t) \/ Exit(t)
  BY <1>6, <1>a DEF IsLastExited, Output, Exit, Watches
<1>7. CASE Requeue(t)
  BY <1>7, <1>a DEF Requeue, Bag!CallEnqueue, Watches
<1>8. CASE InQueueCall(t) /\ Bag!Put(t)
  BY <1>8, <1>a DEF InQueueCall, Bag!Put, Watches, InOperation
<1>9. CASE InQueueCall(t) /\ Bag!Take(t)
  <2>1. todo[t] \in Seq(Queues) /\ todo[t] # <<>> /\ phase[t] \in {"first", "second"}
    BY <1>9, <1>a DEF Bag!Take, InOperation
  <2>2. Head(todo[t]) \in Queues
    BY <2>1, HeadTailProperties
  <2>3. queue[Head(todo[t])] \in Seq(Blocks) /\ queue[Head(todo[t])] # <<>>
    BY <1>9, <1>a, <2>2 DEF Bag!Take, Bag!Here
  <2>4. Head(queue[Head(todo[t])]) # NULL
    BY <1>b, <2>3, HeadTailProperties
  <2>5. /\ phase'[t] \in {"first", "second"} /\ pc'[t] = "done"
        /\ val'[t] = Head(queue[Head(todo[t])])
    BY <1>9, <1>a, <2>1 DEF InQueueCall, Bag!Take, Bag!Here
  <2> QED BY <2>4, <2>5 DEF Watches, BlocksOf
<1>10. CASE InQueueCall(t) /\ Bag!Skip(t)
  <2>1. todo[t] \in Seq(Queues) /\ todo[t] # <<>> /\ phase[t] \in {"first", "second"}
    BY <1>10, <1>a DEF Bag!Skip, InOperation
  <2>2. PICK i \in 1..Len(todo[t]) : todo[t][i] = q
    BY <1>10, <2>1 DEF Bag!Skip, Watches
  <2>3. i # 1
    BY <1>10, <2>1, <2>2, EmptySeq DEF Bag!Skip, Bag!Here
  <2>4. /\ Len(todo[t]) \in Nat
        /\ Len(Tail(todo[t])) = Len(todo[t]) - 1
        /\ \A n \in 1..Len(Tail(todo[t])) : Tail(todo[t])[n] = todo[t][n + 1]
    BY <2>1, HeadTailProperties
  <2>5. Len(todo[t]) > 1 /\ i - 1 \in 1..Len(Tail(todo[t])) /\ i - 1 + 1 = i
    BY <2>2, <2>3, <2>4
  <2>6. Tail(todo[t])[i - 1] = q
    BY <2>2, <2>4, <2>5
  <2>7. pc'[t] = "take" /\ todo'[t] = Tail(todo[t])
    <3>0. \A n \in Nat : n > 1 => n # 1
      OBVIOUS
    <3>1. Len(todo[t]) # 1
      BY <2>4, <2>5, <3>0, Zenon
    <3>2. pc' = [pc EXCEPT ![t] = "take"] /\ todo' = [todo EXCEPT ![t] = Tail(todo[t])]
      BY <1>10, <3>1 DEF Bag!Skip
    <3> QED BY <1>a, <3>2
  <2> QED BY <2>5, <2>6, <2>7 DEF Watches
<1>11. CASE InQueueCall(t) /\ Bag!Return(t)
  <2>1. /\ pc[t] = "done" /\ pc'[t] = "idle" /\ phase'[t] = phase[t] /\ val'[t] = NULL
        /\ hand'[t] = (IF val[t] = NULL THEN hand[t] ELSE hand[t] \cup {val[t]})
    BY <1>11, <1>a DEF InQueueCall, Bag!Return
  <2>2. CASE phase[t] = "loop"
    BY <2>1, <2>2 DEF Watches
  <2>3. CASE phase[t] = "first"
    <3>1. hand'[t] # {}
      BY <2>1, <2>3 DEF Watches, BlocksOf
    <3>2. NULL \notin hand'[t] => BlocksOf(t)' # {}
      BY <3>1 DEF BlocksOf
    <3> QED BY <2>1, <2>3, <3>1, <3>2 DEF Watches, BlocksOf
  <2>4. CASE phase[t] = "second"
    <3>1. PICK w \in Blocks : hand[t] = {w}
      BY <1>a, <2>1, <2>4 DEF InPhase
    <3>2. val[t] # NULL
      BY <2>1, <2>4, <3>1 DEF Watches
    <3>a. w.chunks # {}
      BY <3>1 DEF Blocks
    <3>3. val[t].chunks = ChunksAt("val", t) /\ w.chunks = ChunksAt("hand", t)
      BY <3>1, <3>2, ChunksOfThread
    <3>4. ChunksAt("hand", t) \cap ChunksAt("val", t) = {}
      BY PlacesApart DEF IInv
    <3>5. val[t] # w
      BY <3>a, <3>3, <3>4
    <3> QED BY <2>1, <2>4, <3>1, <3>2, <3>5 DEF Watches
  <2> QED BY <1>a, <2>1, <2>2, <2>3, <2>4 DEF InOperation
<1> QED BY <1>1, <1>2, <1>3, <1>4, <1>5, <1>6, <1>7, <1>8, <1>9, <1>10, <1>11 DEF Step, InQueueCall
(* Every step keeps a non-empty queue watched.                               *)
LEMMA WatchedStep ==
  ASSUME IInv, NEW t \in Threads, Step(t)
  PROVE  QueuesWatched'
<1> SUFFICES ASSUME NEW q \in Queues, queue'[q] # <<>>
             PROVE  \E u \in Threads : Watches(u, q)'
  BY DEF QueuesWatched
<1>1. CASE queue[q] # <<>>
  <2>1. PICK u \in Threads : Watches(u, q)
    BY <1>1 DEF IInv, QueuesWatched
  <2>2. CASE u = t
    BY <1>1, <2>1, <2>2, WatchesOn
  <2>3. CASE u # t
    <3>1. /\ pc'[u] = pc[u] /\ todo'[u] = todo[u] /\ val'[u] = val[u]
          /\ hand'[u] = hand[u] /\ phase'[u] = phase[u]
      BY <2>3, Others DEF IInv
    <3>2. Watches(u, q)'
      BY <2>1, <3>1 DEF Watches, BlocksOf
    <3> QED BY <3>2
  <2> QED BY <2>2, <2>3
<1>2. CASE queue[q] = <<>>
  <2>1. InQueueCall(t) /\ Bag!Put(t)
    <3> USE DEF bagVars
    <3>1. queue' = queue => FALSE
      BY <1>2
    <3>2. ~ (Enter(t) \/ Leave(t) \/ IsLastEntered(t) \/ IsLastExited(t) \/ Exit(t))
      BY <3>1 DEF Enter, Leave, IsLastEntered, IsLastExited, Exit
    <3>3. ~ (DequeueFirst(t) \/ DequeueSecond(t) \/ Requeue(t))
      BY <3>1 DEF DequeueFirst, DequeueSecond, Requeue, Bag!CallDequeue, Bag!CallEnqueue
    <3>4. ~ (SortFirst(t) \/ Merge(t) \/ Output(t))
      BY <3>1 DEF SortFirst, Merge, Output
    <3>5. ~ Bag!Skip(t) /\ ~ Bag!Return(t)
      BY <3>1 DEF Bag!Skip, Bag!Return
    <3>6. ASSUME Bag!Take(t) PROVE FALSE
      <4>1. queue' = [queue EXCEPT ![Head(todo[t])] = Tail(queue[Head(todo[t])])]
            /\ queue[Head(todo[t])] # <<>>
        BY <3>6 DEF Bag!Take, Bag!Here
      <4> QED BY <1>2, <4>1 DEF IInv, Typed
    <3> QED BY <3>2, <3>3, <3>4, <3>5, <3>6 DEF Step, InQueueCall
  <2>2. phase'[t] = "loop"
    BY <2>1 DEF IInv, Typed, InOperation, InQueueCall, sortVars, Bag!Put, Bag!Goto
  <2> QED BY <2>2 DEF Watches
<1> QED BY <1>1, <1>2
-----------------------------------------------------------------------------
(* Who has decided to leave, or to write the result, watches nothing. *)
LEMMA LeaversDoNotWatch ==
  ASSUME Typed, NEW u \in Threads, phase[u] \in {"exit", "finished", "output"}, NEW q
  PROVE  ~ Watches(u, q) /\ val[u] = NULL
<1>1. pc[u] = "idle" /\ val[u] = NULL
  BY DEF Typed, InOperation, Pcs
<1> QED BY <1>1 DEF Watches

(* When all others have decided to leave and a thread is at the end too, all *)
(* of the input is in its hand or in the result.                             *)
LEMMA AllIsHere ==
  ASSUME IInv, NEW t \in Threads, phase[t] \in {"exit", "finished", "output"},
         \A u \in Threads \ {t} : phase[u] \in {"exit", "finished"}
  PROVE  \A c \in Chunks : c \in ChunksAt("hand", t) \cup ChunksAt("out", NULL)
<1>1. \A u \in Threads : \A q : ~ Watches(u, q) /\ val[u] = NULL
  BY LeaversDoNotWatch DEF IInv
<1>2. \A q \in Queues : queue[q] = <<>>
  BY <1>1 DEF IInv, QueuesWatched
<1>3. ASSUME NEW q \in Queues PROVE ChunksAt("queue", q) = {}
  <2>1. Len(queue[q]) = 0
    BY <1>2, EmptySeq
  <2>2. BlocksIn(q) = {}
    BY <2>1 DEF BlocksIn
  <2> QED BY <2>2, ChunksAtPlaces
<1>4. \A u \in Threads : ChunksAt("val", u) = {}
  BY <1>1, ChunksOfThread
<1>5. \A u \in Threads \ {t} : ChunksAt("hand", u) = {}
  BY ChunksOfThread DEF IInv, Typed, InPhase
<1>6. ASSUME NEW c \in Chunks PROVE c \in ChunksAt("hand", t) \cup ChunksAt("out", NULL)
  <2>1. PICK k \in Kinds : \E x \in OwnersOf(k) : c \in ChunksAt(k, x)
    BY DEF IInv, EachInOnePlace
  <2>2. PICK x \in OwnersOf(k) : c \in ChunksAt(k, x)
    BY <2>1
  <2> QED BY <1>3, <1>4, <1>5, <2>2 DEF Kinds, OwnersOf
<1> QED BY <1>6

(* No thread has a block in hand once the result is written. *)
LEMMA ResultIsAlone ==
  ASSUME IInv, NEW t \in Threads, NEW w \in Blocks, hand[t] = {w}
  PROVE  out = NULL
<1> SUFFICES ASSUME out # NULL PROVE FALSE
  OBVIOUS
<1>1. out.chunks = Chunks
  BY DEF IInv, OutputIsComplete
<1>2. ChunksAt("out", NULL) = Chunks /\ ChunksAt("hand", t) = w.chunks
  BY <1>1, ChunksOfResult, ChunksOfThread
<1>3. w.chunks # {} /\ w.chunks \subseteq Chunks
  BY DEF Blocks
<1>4. /\ "hand" \in Kinds /\ "out" \in Kinds
      /\ t \in OwnersOf("hand") /\ NULL \in OwnersOf("out")
  BY DEF Kinds, OwnersOf
<1>5. ChunksAt("hand", t) \cap ChunksAt("out", NULL) = {}
  BY <1>4 DEF IInv, EachInOnePlace
<1> QED BY <1>2, <1>3, <1>5

(* The block that is written is all of the input, sorted. *)
LEMMA OutputStep ==
  ASSUME IInv, NEW t \in Threads, Output(t)
  PROVE  out = NULL /\ out' = [chunks |-> Chunks, sorted |-> TRUE] /\ out' # NULL
<1>1. PICK w \in Blocks : w.sorted /\ hand[t] = {w}
  BY DEF IInv, Typed, InPhase, Output, Phase
<1>2. out = NULL
  BY <1>1, ResultIsAlone
<1>3. phase[t] = "output" /\ out' = w
  BY <1>1 DEF Output, Phase
<1>4. \A u \in Threads \ {t} : phase[u] \in {"exit", "finished"}
  BY <1>3 DEF IInv, CountersTrue, Finished, InPhases
<1>5. Chunks \subseteq w.chunks
  BY <1>1, <1>2, <1>3, <1>4, AllIsHere, ChunksOfThread, ChunksOfResult
<1>6. w.chunks = Chunks /\ w = [chunks |-> w.chunks, sorted |-> w.sorted] /\ w.sorted = TRUE
  BY <1>1, <1>5 DEF Blocks
<1> QED BY <1>1, <1>2, <1>3, <1>6, WorkSortAssumption
-----------------------------------------------------------------------------
(* The counters: who has entered, and who has left. *)
LEMMA FiniteParts ==
  ASSUME NEW S \in SUBSET Threads
  PROVE  /\ IsFiniteSet(S) /\ Cardinality(S) \in Nat /\ Cardinality(S) <= n_hwcs
         /\ Cardinality(S) = n_hwcs => S = Threads
         /\ IsFiniteSet(Threads) /\ n_hwcs \in Nat
<1>1. IsFiniteSet(Threads)
  BY WorkSortAssumption
<1> QED BY <1>1, FS_Subset, FS_CardinalityType DEF n_hwcs

(* One more member is one more in the count.                                 *)
LEMMA OneMore ==
  ASSUME NEW S \in SUBSET Threads, NEW t \in Threads \ S
  PROVE  Cardinality(S \cup {t}) = Cardinality(S) + 1
BY FiniteParts, FS_AddElement

(* A thread that has left takes no step; the phase changes from enter in     *)
(* Enter and to finished in Exit only.                                       *)
LEMMA PhaseStep ==
  ASSUME IInv, NEW t \in Threads, Step(t)
  PROVE  /\ t \notin Finished
         /\ \/ /\ Enter(t) /\ t \in Outside /\ Outside' = Outside \ {t} /\ Finished' = Finished
               /\ n_entered' = n_entered + 1 /\ n_exited' = n_exited /\ last' = last
            \/ /\ Exit(t) /\ Outside' = Outside /\ Finished' = Finished \cup {t}
               /\ n_entered' = n_entered /\ n_exited' = n_exited + 1
            \/ /\ ~ Exit(t) /\ Outside' = Outside /\ Finished' = Finished
               /\ n_entered' = n_entered /\ n_exited' = n_exited /\ last' = last
<1> USE DEF Phase, bagVars, sortVars
<1>a. DOMAIN phase = Threads /\ InOperation(t) /\ phase[t] \in PhaseNames /\ pc[t] \in Pcs
  BY DEF IInv, Typed
<1>b. \A u \in Threads \ {t} : phase'[u] = phase[u]
  BY Others DEF IInv
<1>1. CASE Enter(t)
  <2>1. phase[t] = "enter" /\ phase'[t] = "loop"
    BY <1>1, <1>a DEF Enter
  <2>2. /\ t \in Outside /\ Outside' = Outside \ {t} /\ Finished' = Finished /\ t \notin Finished
    BY <1>b, <2>1 DEF Outside, Finished, InPhases
  <2> QED BY <1>1, <2>2 DEF Enter
<1>2. CASE Exit(t)
  <2>1. phase[t] = "exit" /\ phase'[t] = "finished"
    BY <1>2, <1>a DEF Exit
  <2>2. Outside' = Outside /\ Finished' = Finished \cup {t} /\ t \notin Finished
    BY <1>b, <2>1 DEF Outside, Finished, InPhases
  <2> QED BY <1>2, <2>2 DEF Exit
<1>3. CASE ~ Enter(t) /\ ~ Exit(t)
  <2>1. /\ phase[t] \notin {"enter", "finished"} /\ phase'[t] \notin {"enter", "finished"}
        /\ n_entered' = n_entered /\ n_exited' = n_exited /\ last' = last
    <3>1. CASE InQueueCall(t)
      <4>1. pc[t] # "idle"
        BY <3>1 DEF InQueueCall, Bag!Put, Bag!Take, Bag!Skip, Bag!Return, Bag!Goto
      <4>2. phase[t] \in {"loop", "first", "second"}
        BY <1>a, <4>1 DEF InOperation, Pcs
      <4> QED BY <3>1, <4>2 DEF InQueueCall
    <3>2. CASE DequeueFirst(t) \/ Leave(t) \/ SortFirst(t) \/ DequeueSecond(t) \/ Merge(t)
      BY <3>2, <1>a DEF DequeueFirst, Leave, SortFirst, DequeueSecond, Merge
    <3>3. CASE IsLastEntered(t) \/ IsLastExited(t) \/ Output(t) \/ Requeue(t)
      BY <3>3, <1>a DEF IsLastEntered, IsLastExited, Output, Requeue
    <3> QED BY <1>3, <3>1, <3>2, <3>3 DEF Step
  <2>2. t \notin Finished /\ Outside' = Outside /\ Finished' = Finished
    BY <1>b, <2>1 DEF Outside, Finished, InPhases
  <2> QED BY <1>3, <2>1, <2>2
<1> QED BY <1>1, <1>2, <1>3

(* Every step keeps the counters true.                                       *)
LEMMA CountersStep ==
  ASSUME IInv, NEW t \in Threads, Step(t)
  PROVE  CountersTrue'
<1>1. n_entered' = Cardinality(Threads \ Outside')
  <2>1. CASE t \in Outside /\ Outside' = Outside \ {t} /\ n_entered' = n_entered + 1
    <3>1. Threads \ Outside' = (Threads \ Outside) \cup {t} /\ t \notin Threads \ Outside
      BY <2>1
    <3>2. Cardinality((Threads \ Outside) \cup {t}) = Cardinality(Threads \ Outside) + 1
      BY <3>1, OneMore
    <3> QED BY <2>1, <3>1, <3>2 DEF IInv, CountersTrue
  <2>2. CASE Outside' = Outside /\ n_entered' = n_entered
    BY <2>2 DEF IInv, CountersTrue
  <2> QED BY <2>1, <2>2, PhaseStep
<1>2. n_exited' = Cardinality(Finished')
  <2>1. CASE Finished' = Finished \cup {t} /\ n_exited' = n_exited + 1
    <3>1. t \in Threads \ Finished /\ Finished \subseteq Threads
      BY PhaseStep DEF Finished, InPhases
    <3>2. Cardinality(Finished \cup {t}) = Cardinality(Finished) + 1
      BY <3>1, OneMore
    <3> QED BY <2>1, <3>2 DEF IInv, CountersTrue
  <2>2. CASE Finished' = Finished /\ n_exited' = n_exited
    BY <2>2 DEF IInv, CountersTrue
  <2> QED BY <2>1, <2>2, PhaseStep
<1>3. last' \subseteq Threads
  BY PhaseStep DEF IInv, CountersTrue, Exit
<1>4. ASSUME NEW v \in Threads, phase'[v] = "output", NEW u \in Threads \ {v}
      PROVE  u \in Finished'
  <2>a. Finished \subseteq Finished' /\ t \notin Finished
    BY PhaseStep
  <2>1. CASE v # t
    <3>1. phase[v] = "output"
      BY <1>4, <2>1, Others DEF IInv
    <3>2. t \in Finished
      BY <2>1, <3>1 DEF IInv, CountersTrue
    <3> QED BY <2>a, <3>2
  <2>2. CASE v = t /\ phase[t] = "output"
    BY <2>2, <2>a DEF IInv, CountersTrue
  <2>3. CASE v = t /\ phase[t] # "output"
    <3>1. IsLastExited(t) /\ n_exited = n_hwcs - 1
      <4> USE DEF Phase
      <4>a. DOMAIN phase = Threads
        BY DEF IInv, Typed
      <4>b. phase'[t] = "output" /\ phase[t] # "output"
        BY <1>4, <2>3
      <4>1. ~ (Enter(t) \/ DequeueFirst(t) \/ Leave(t) \/ SortFirst(t) \/ DequeueSecond(t))
        BY <4>a, <4>b DEF Enter, DequeueFirst, Leave, SortFirst, DequeueSecond
      <4>2. ~ (Merge(t) \/ IsLastEntered(t) \/ Output(t) \/ Requeue(t) \/ Exit(t))
        BY <4>a, <4>b DEF Merge, IsLastEntered, Output, Requeue, Exit
      <4>3. ~ InQueueCall(t)
        BY <4>b DEF InQueueCall, sortVars
      <4>4. IsLastExited(t)
        BY <4>1, <4>2, <4>3 DEF Step
      <4> QED BY <4>a, <4>b, <4>4 DEF IsLastExited
    <3>2. Finished \cup {t} = Threads
      <4>1. Finished \in SUBSET Threads /\ Finished \cup {t} \in SUBSET Threads /\ t \in Threads \ Finished
        BY <2>a DEF Finished, InPhases
      <4>2. Cardinality(Finished \cup {t}) = Cardinality(Finished) + 1
        BY <4>1, OneMore
      <4>3. n_exited = Cardinality(Finished) /\ n_hwcs \in Nat
        BY FiniteParts DEF IInv, CountersTrue
      <4>4. Cardinality(Finished \cup {t}) = n_hwcs
        BY <3>1, <4>2, <4>3
      <4> QED BY <4>1, <4>4, FiniteParts
    <3> QED BY <2>3, <2>a, <3>2
  <2> QED BY <2>1, <2>2, <2>3
<1> QED BY <1>1, <1>2, <1>3, <1>4 DEF CountersTrue

(* The thread whose exit makes the number complete is the only one that is   *)
(* told so, and then the result is written.                                  *)
LEMMA LastStep ==
  ASSUME IInv, NEW t \in Threads, Step(t)
  PROVE  OutputIsComplete' /\ OneIsLast'
<1>1. Output(t) \/ out' = out
  <2>1. Bag!Put(t) \/ Bag!Take(t) \/ Bag!Skip(t) \/ Bag!Return(t) => ~ InQueueCall(t) \/ out' = out
    BY DEF InQueueCall, sortVars
  <2>2. Enter(t) \/ DequeueFirst(t) \/ Leave(t) \/ SortFirst(t) \/ DequeueSecond(t) => out' = out
    BY DEF Enter, DequeueFirst, Leave, SortFirst, DequeueSecond
  <2>3. Merge(t) \/ IsLastEntered(t) \/ IsLastExited(t) \/ Requeue(t) \/ Exit(t) => out' = out
    BY DEF Merge, IsLastEntered, IsLastExited, Requeue, Exit
  <2> QED BY <2>1, <2>2, <2>3 DEF Step, InQueueCall
<1>2. OutputIsComplete' /\ (out # NULL => out' # NULL)
  BY <1>1, OutputStep DEF IInv, OutputIsComplete
<1>a. /\ n_exited = Cardinality(Finished) /\ n_entered = Cardinality(Threads \ Outside)
      /\ last \subseteq Threads /\ n_hwcs \in Nat /\ Finished \subseteq Threads
  BY FiniteParts DEF IInv, CountersTrue, Finished, InPhases
<1>3. CASE ~ Exit(t)
  <2>1. n_exited' = n_exited /\ last' = last
    BY <1>3, PhaseStep
  <2> QED BY <1>2, <2>1 DEF IInv, OneIsLast, n_hwcs
<1>4. CASE Exit(t)
  <2>1. n_exited # n_hwcs /\ t \notin Finished
    BY <1>a, PhaseStep, FiniteParts
  <2>2. last = {}
    <3>1. Cardinality(last) = 0
      BY <2>1 DEF IInv, OneIsLast
    <3> QED BY <1>a, <3>1, FiniteParts, FS_EmptySet
  <2>3. n_exited' = n_exited + 1
    BY <1>4 DEF Exit
  <2>4. CASE n_exited + 1 # n_hwcs
    <3>1. last' = {}
      BY <1>4, <2>2, <2>4 DEF Exit
    <3> QED BY <1>2, <2>3, <2>4, <3>1, FS_EmptySet DEF OneIsLast, n_hwcs
  <2>5. CASE n_exited + 1 = n_hwcs
    <3>1. Finished \cup {t} = Threads
      <4>1. Cardinality(Finished \cup {t}) = n_hwcs
        BY <1>a, <2>1, <2>5, OneMore
      <4> QED BY <1>a, <4>1, FiniteParts
    <3>2. phase[t] = "exit"
      BY <1>4 DEF Exit, Phase
    <3>3. Outside = {}
      BY <3>1, <3>2 DEF Outside, Finished, InPhases
    <3>4. n_entered = n_hwcs
      <4>1. Threads \ Outside = Threads
        BY <3>3
      <4> QED BY <1>a, <4>1 DEF n_hwcs
    <3>5. last' = {t}
      BY <1>4, <2>2, <2>5, <3>4 DEF Exit
    <3>6. out # NULL
      <4>1. \A u \in Threads \ {t} : phase[u] \in {"exit", "finished"}
        BY <3>1 DEF Finished, InPhases
      <4>2. ChunksAt("hand", t) = {}
        BY <3>2, ChunksOfThread DEF IInv, Typed, InPhase
      <4>3. \A c \in Chunks : c \in ChunksAt("out", NULL)
        BY <3>2, <4>1, <4>2, AllIsHere
      <4> QED BY <4>3, ChunksOfResult, WorkSortAssumption
    <3>7. Cardinality({t}) = 1
      BY FS_Singleton
    <3> QED BY <1>2, <2>3, <2>5, <3>5, <3>6, <3>7 DEF OneIsLast, n_hwcs
  <2> QED BY <2>4, <2>5
<1> QED BY <1>2, <1>3, <1>4
-----------------------------------------------------------------------------
(* The invariant holds at the start.                                         *)
LEMMA InitInvariant == Init => IInv
<1> SUFFICES ASSUME Init PROVE IInv
  OBVIOUS
<1>a. /\ pc = [t \in Threads |-> "idle"] /\ todo = [t \in Threads |-> <<>>]
      /\ val = [t \in Threads |-> NULL] /\ hand = [t \in Threads |-> {}]
      /\ phase = [t \in Threads |-> "enter"]
      /\ n_entered = 0 /\ n_exited = 0 /\ out = NULL /\ last = {}
  BY DEF Init
<1>b. \A c \in Chunks : Page(c) \in Blocks /\ Page(c).chunks = {c}
  BY DEF Page, Blocks
<1>c. \A q \in Queues : \E n \in Nat : queue[q] \in [1..n -> {Page(c) : c \in Chunks}]
  <2>1. Cardinality(Chunks) \in Nat
    BY WorkSortAssumption, FS_CardinalityType
  <2> QED BY <2>1 DEF Init, Queues
<1>d. ASSUME NEW q \in Queues
      PROVE  /\ queue[q] \in Seq(Blocks)
             /\ \A i \in 1..Len(queue[q]) : \E c \in Chunks : queue[q][i] = Page(c)
  <2>1. PICK n \in Nat : queue[q] \in [1..n -> {Page(c) : c \in Chunks}]
    BY <1>c
  <2>2. queue[q] \in [1..n -> Blocks]
    BY <1>b, <2>1
  <2>3. queue[q] \in Seq(Blocks) /\ Len(queue[q]) = n
    BY <2>2
  <2>4. \A i \in 1..n : queue[q][i] \in {Page(c) : c \in Chunks}
    BY <2>1
  <2> QED BY <2>3, <2>4
<1>e. \A q, r \in Queues : \A i \in 1..Len(queue[q]), j \in 1..Len(queue[r]) :
        queue[q][i] = queue[r][j] => q = r /\ i = j
  BY DEF Init, Queues
<1>1. Typed
  <2>1. queue \in [Queues -> Seq(Blocks)]
    <3>1. queue = [q \in Queues |-> queue[q]]
      BY DEF Init, Queues
    <3> QED BY <1>d, <3>1
  <2> QED BY <1>a, <2>1 DEF Typed, InOperation, InPhase, Pcs, PhaseNames
<1>2. \A t \in Threads : ChunksAt("hand", t) = {} /\ ChunksAt("val", t) = {}
  BY <1>a, ChunksOfThread
<1>3. \A x : ChunksAt("out", x) = {}
  BY <1>a, ChunksOfResult
<1>4. ASSUME NEW q \in Queues, NEW c
      PROVE  c \in ChunksAt("queue", q)
               <=> c \in Chunks /\ \E i \in 1..Len(queue[q]) : queue[q][i] = Page(c)
  <2>1. c \in ChunksAt("queue", q) <=> \E i \in 1..Len(queue[q]) : c \in queue[q][i].chunks
    BY ChunksAtPlaces DEF BlocksIn
  <2>2. \A i \in 1..Len(queue[q]) : c \in queue[q][i].chunks <=> c \in Chunks /\ queue[q][i] = Page(c)
    BY <1>b, <1>d
  <2> QED BY <2>1, <2>2
<1>5. EachInOnePlace
  <2>1. ASSUME NEW c \in Chunks PROVE \E k \in Kinds : \E x \in OwnersOf(k) : c \in ChunksAt(k, x)
    <3>1. PICK q \in Queues : \E i \in 1..Len(queue[q]) : queue[q][i] = Page(c)
      BY DEF Init, Queues
    <3>2. c \in ChunksAt("queue", q)
      BY <1>4, <3>1
    <3> QED BY <3>2 DEF Kinds, OwnersOf
  <2>2. ASSUME NEW q \in Queues, NEW r \in Queues, q # r
        PROVE  ChunksAt("queue", q) \cap ChunksAt("queue", r) = {}
    <3> SUFFICES ASSUME NEW c, c \in ChunksAt("queue", q), c \in ChunksAt("queue", r) PROVE FALSE
      OBVIOUS
    <3>1. PICK i \in 1..Len(queue[q]) : queue[q][i] = Page(c)
      BY <1>4
    <3>2. PICK j \in 1..Len(queue[r]) : queue[r][j] = Page(c)
      BY <1>4
    <3> QED BY <1>e, <2>2, <3>1, <3>2
  <2>3. ASSUME NEW k \in Kinds, NEW l \in Kinds, NEW x \in OwnersOf(k), NEW y \in OwnersOf(l),
               k # l \/ x # y
        PROVE  ChunksAt(k, x) \cap ChunksAt(l, y) = {}
    <3>1. k # "queue" => ChunksAt(k, x) = {}
      BY <1>2, <1>3 DEF Kinds, OwnersOf
    <3>2. l # "queue" => ChunksAt(l, y) = {}
      BY <1>2, <1>3 DEF Kinds, OwnersOf
    <3>3. k = "queue" /\ l = "queue" => x \in Queues /\ y \in Queues /\ x # y
      BY <2>3 DEF OwnersOf
    <3> QED BY <2>2, <3>1, <3>2, <3>3
  <2> QED BY <2>1, <2>3 DEF EachInOnePlace
<1>6. BlocksApart
  <2>1. ASSUME NEW q \in Queues, NEW i \in 1..Len(queue[q]), NEW j \in 1..Len(queue[q]), i # j
        PROVE  queue[q][i].chunks \cap queue[q][j].chunks = {}
    <3>1. PICK c \in Chunks : queue[q][i] = Page(c)
      BY <1>d
    <3>2. PICK d \in Chunks : queue[q][j] = Page(d)
      BY <1>d
    <3>3. c # d
      BY <1>e, <2>1, <3>1, <3>2
    <3> QED BY <1>b, <3>1, <3>2, <3>3
  <2> QED BY <1>a, <2>1 DEF BlocksApart
<1>7. QueuesWatched
  BY <1>a, WorkSortAssumption DEF QueuesWatched, Watches
<1>8. CountersTrue
  <2>1. Threads \ Outside = {} /\ Finished = {}
    BY <1>a DEF Outside, Finished, InPhases
  <2> QED BY <1>a, <2>1, FS_EmptySet DEF CountersTrue
<1>9. OutputIsComplete /\ OneIsLast
  <2>1. n_hwcs # 0
    BY WorkSortAssumption, FS_EmptySet DEF n_hwcs
  <2> QED BY <1>a, <2>1, FS_EmptySet DEF OutputIsComplete, OneIsLast
<1> QED BY <1>1, <1>5, <1>6, <1>7, <1>8, <1>9 DEF IInv

(* The inductive invariant of the sort. *)
THEOREM SortInvariant == Spec => []IInv
<1>1. ASSUME IInv, [Next]_vars PROVE IInv'
  <2>1. ASSUME NEW t \in Threads, Step(t) PROVE IInv'
    <3>1. Typed'
      BY <2>1, <1>1, TypedStep DEF IInv
    <3>2. EachInOnePlace' /\ BlocksApart'
      BY <2>1, <1>1, MovesStep, OutputStep
    <3>3. QueuesWatched' /\ CountersTrue' /\ OutputIsComplete' /\ OneIsLast'
      BY <2>1, <1>1, WatchedStep, CountersStep, LastStep
    <3> QED BY <3>1, <3>2, <3>3 DEF IInv
  <2>2. ASSUME UNCHANGED vars PROVE IInv'
    <3> USE <1>1, <2>2 DEF IInv, vars, bagVars, sortVars
    <3>1. Typed'
      BY DEF Typed, InOperation, InPhase
    <3>2. EachInOnePlace' /\ BlocksApart'
      <4>1. \A k, x : ChunksAt(k, x)' = ChunksAt(k, x)
        BY DEF ChunksAt, BlocksAt, BlocksIn
      <4>2. BlocksApart'
        BY DEF BlocksApart
      <4> QED BY <4>1, <4>2, NothingMoves
    <3>3. QueuesWatched'
      BY DEF QueuesWatched, Watches, BlocksOf
    <3>4. CountersTrue' /\ OutputIsComplete' /\ OneIsLast'
      BY DEF CountersTrue, Outside, Finished, InPhases, OutputIsComplete, OneIsLast, n_hwcs
    <3> QED BY <3>1, <3>2, <3>3, <3>4
  <2> QED BY <1>1, <2>1, <2>2 DEF Next, Joined
<1> QED BY InitInvariant, <1>1, PTL DEF Spec
-----------------------------------------------------------------------------
(* The types of the variables, and at most two blocks per thread (test_pin). *)
THEOREM TypeCorrect == Spec => []TypeOK
<1>1. ASSUME IInv PROVE TypeOK
  <2>1. n_entered \in 0..n_hwcs /\ n_exited \in 0..n_entered
    <3>1. /\ IsFiniteSet(Threads \ Outside) /\ Cardinality(Threads \ Outside) \in Nat
          /\ Cardinality(Threads \ Outside) <= n_hwcs /\ n_hwcs \in Nat
      BY FiniteParts
    <3>2. Finished \in SUBSET (Threads \ Outside) /\ Finished \in SUBSET Threads
      BY DEF Finished, Outside, InPhases
    <3>3. Cardinality(Finished) \in Nat /\ Cardinality(Finished) <= Cardinality(Threads \ Outside)
      BY <3>1, <3>2, FS_Subset, FiniteParts
    <3> QED BY <1>1, <3>1, <3>3 DEF IInv, CountersTrue
  <2>2. ASSUME NEW t \in Threads PROVE Cardinality(BlocksOf(t)) <= 2
    <3>1. \E v, w : BlocksOf(t) \subseteq {v, w}
      <4>1. InOperation(t) /\ InPhase(t) /\ pc[t] \in Pcs /\ phase[t] \in PhaseNames
        BY <1>1 DEF IInv, Typed
      <4>2. \/ \E w : hand[t] \subseteq {w}
            \/ val[t] = NULL /\ \E v, w : hand[t] = {v, w}
        BY <4>1 DEF InOperation, InPhase, Pcs, PhaseNames
      <4> QED BY <4>2 DEF BlocksOf
    <3>2. PICK v, w : BlocksOf(t) \in SUBSET {w, v}
      BY <3>1
    <3>3. Cardinality({w, v}) <= 2
      <4>1. Cardinality({w, v}) = 1 \/ Cardinality({w, v}) = 2
        BY Pairs
      <4> QED BY <4>1
    <3>4. IsFiniteSet({w, v})
      <4>1. IsFiniteSet({w}) /\ {w, v} = {w} \cup {v}
        BY FS_Singleton
      <4> QED BY <4>1, FS_AddElement
    <3>5. /\ Cardinality(BlocksOf(t)) <= Cardinality({w, v})
          /\ Cardinality(BlocksOf(t)) \in Nat /\ Cardinality({w, v}) \in Nat
      BY <3>2, <3>4, FS_Subset, FS_CardinalityType
    <3> QED BY <3>3, <3>5
  <2> QED BY <1>1, <2>1, <2>2 DEF IInv, Typed, PhaseNames, CountersTrue, TypeOK
<1> QED BY SortInvariant, <1>1, PTL

(* The blocks in the queues, with the threads and in the result partition    *)
(* the input at every moment: no chunk is lost when threads take, merge and  *)
(* put back blocks at the same time (wq_merge, test_pin).                    *)
THEOREM NoChunkIsLost == Spec => []ChunksPartitioned
<1>1. ASSUME IInv PROVE ChunksPartitioned
  <2>1. ASSUME NEW v
        PROVE  v \in AllBlocks <=> \E k \in Kinds : \E x \in OwnersOf(k) : v \in BlocksAt(k, x)
    <3>1. v \in AllBlocks <=>
            \/ \E t \in Threads : v \in hand[t]
            \/ \E t \in Threads : v \in {val[t]} \ {NULL}
            \/ \E q \in Queues : v \in BlocksIn(q)
            \/ v \in {out} \ {NULL}
      <4>1. v \in AllBlocks <=>
              \/ \E t \in Threads : v \in BlocksOf(t)
              \/ \E q \in Queues : v \in BlocksIn(q)
              \/ v \in {out} \ {NULL}
        BY DEF AllBlocks, Queues
      <4>2. \A t : v \in BlocksOf(t) <=> v \in hand[t] \/ v \in {val[t]} \ {NULL}
        BY DEF BlocksOf
      <4> HIDE DEF AllBlocks, Queues
      <4> QED BY <4>1, <4>2
    <3>2. /\ \A x : BlocksAt("hand", x) = hand[x] /\ BlocksAt("val", x) = {val[x]} \ {NULL}
          /\ \A x : BlocksAt("queue", x) = BlocksIn(x) /\ BlocksAt("out", x) = {out} \ {NULL}
      BY DEF BlocksAt
    <3>3. /\ OwnersOf("hand") = Threads /\ OwnersOf("val") = Threads
          /\ OwnersOf("queue") = Queues /\ OwnersOf("out") = {NULL}
      BY DEF OwnersOf
    <3> QED BY <3>1, <3>2, <3>3 DEF Kinds
  <2>2. ASSUME NEW k \in Kinds, NEW x \in OwnersOf(k), NEW v \in BlocksAt(k, x)
        PROVE  v \in Blocks /\ v.chunks \subseteq ChunksAt(k, x) /\ v.chunks \subseteq Chunks
    <3>1. v \in Blocks
      <4>1. /\ queue \in [Queues -> Seq(Blocks)] /\ out \in Blocks \cup {NULL}
            /\ \A u \in Threads : hand[u] \subseteq Blocks /\ val[u] \in Blocks \cup {NULL}
        BY <1>1 DEF IInv, Typed
      <4> QED BY <4>1, <2>2 DEF BlocksAt, BlocksIn, Kinds, OwnersOf
    <3> QED BY <2>2, <3>1 DEF ChunksAt, Blocks
  <2>3. UNION {w.chunks : w \in AllBlocks} = Chunks
    <3>1. ASSUME NEW c \in Chunks PROVE \E w \in AllBlocks : c \in w.chunks
      <4>1. PICK k \in Kinds : \E x \in OwnersOf(k) : c \in ChunksAt(k, x)
        BY <1>1 DEF IInv, EachInOnePlace
      <4>2. PICK x \in OwnersOf(k) : c \in ChunksAt(k, x)
        BY <4>1
      <4>3. PICK w \in BlocksAt(k, x) : c \in w.chunks
        BY <4>2 DEF ChunksAt
      <4> QED BY <2>1, <4>3
    <3> QED BY <2>1, <2>2, <3>1
  <2>4. ASSUME NEW v \in AllBlocks, NEW w \in AllBlocks, v # w PROVE v.chunks \cap w.chunks = {}
    <3>1. PICK k \in Kinds : \E x \in OwnersOf(k) : v \in BlocksAt(k, x)
      BY <2>1
    <3>2. PICK x \in OwnersOf(k) : v \in BlocksAt(k, x)
      BY <3>1
    <3>3. PICK l \in Kinds : \E y \in OwnersOf(l) : w \in BlocksAt(l, y)
      BY <2>1
    <3>4. PICK y \in OwnersOf(l) : w \in BlocksAt(l, y)
      BY <3>3
    <3>5. CASE k # l \/ x # y
      <4>1. ChunksAt(k, x) \cap ChunksAt(l, y) = {}
        BY <1>1, <3>5 DEF IInv, EachInOnePlace
      <4> QED BY <2>2, <3>2, <3>4, <4>1
    <3>6. CASE k = l /\ x = y
      <4>1. v \in BlocksAt(k, x) /\ w \in BlocksAt(k, x)
        BY <3>2, <3>4, <3>6
      <4>2. CASE k = "hand"
        BY <1>1, <2>4, <4>1, <4>2 DEF BlocksAt, OwnersOf, IInv, BlocksApart
      <4>3. CASE k = "queue"
        BY <1>1, <2>4, <4>1, <4>3 DEF BlocksAt, BlocksIn, OwnersOf, IInv, BlocksApart
      <4>4. CASE k \in {"val", "out"}
        BY <2>4, <4>1, <4>4 DEF BlocksAt
      <4> QED BY <4>2, <4>3, <4>4 DEF Kinds
    <3> QED BY <3>5, <3>6
  <2> QED BY <2>3, <2>4 DEF ChunksPartitioned
<1> QED BY SortInvariant, <1>1, PTL

(* What the last thread writes to array_out is all of the input, sorted: the *)
(* NULL of its second dequeue and the count of exits that                    *)
(* mctop_wq_is_last_thread reads are enough to know that no block is left.   *)
THEOREM ResultIsWhole == Spec => []OutputIsComplete
<1>1. IInv => OutputIsComplete
  BY DEF IInv
<1> QED BY SortInvariant, <1>1, PTL

(* The threads never all leave before the result is written. *)
THEOREM NobodyStrandsWork == Spec => []NoStrandedWork
<1>1. ASSUME IInv PROVE NoStrandedWork
  <2> SUFFICES ASSUME \A t \in Threads : phase[t] \in {"exit", "finished"} PROVE out # NULL
    BY DEF NoStrandedWork
  <2>1. PICK t \in Threads : TRUE
    BY WorkSortAssumption
  <2>2. ChunksAt("hand", t) = {}
    BY <1>1, ChunksOfThread DEF IInv, Typed, InPhase
  <2>3. \A c \in Chunks : c \in ChunksAt("out", NULL)
    BY <1>1, <2>2, AllIsHere
  <2> QED BY <2>3, ChunksOfResult, WorkSortAssumption
<1> QED BY SortInvariant, <1>1, PTL

(* mctop_wq_thread_exit returns 1 to one thread, the last, and only when the *)
(* result is written.                                                        *)
THEOREM OneThreadIsLast == Spec => []OneIsLast
<1>1. IInv => OneIsLast
  BY DEF IInv
<1> QED BY SortInvariant, <1>1, PTL
=============================================================================
