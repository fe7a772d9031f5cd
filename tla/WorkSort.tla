------------------------------- MODULE WorkSort -------------------------------
(***************************************************************************)
(* The parallel sort on top of the work queue (tests/work_queue_sort1.c,   *)
(* test_pin) with the functions it uses to find out who is last            *)
(* (mctop_wq.c, mctop_wq_thread_enter, mctop_wq_thread_exit and            *)
(* mctop_wq_is_last_thread).                                               *)
(*                                                                         *)
(* Each thread dequeues a block; it sorts an unsorted block and puts it    *)
(* back, merges two sorted blocks into one and puts that back, and leaves  *)
(* when its first dequeue returns NULL.  A thread that holds a sorted      *)
(* block, finds no second one and sees that all others have left keeps the *)
(* block as the result.  There is no termination detection but this: the   *)
(* correctness of the result rests on NULL answers given while other       *)
(* threads hold blocks in hand.                                            *)
(*                                                                         *)
(* The queue operations are the actions of WorkBag, which the code of the  *)
(* queue implements.  A block is the set of the input chunks merged in it, *)
(* and whether it is sorted.                                               *)
(***************************************************************************)
EXTENDS Naturals, Sequences, FiniteSets

CONSTANTS Threads, NQ, NULL, Local, NextQ,
          Chunks   \* the pages of the input, one block each at the start

Blocks == [chunks : (SUBSET Chunks) \ {{}}, sorted : BOOLEAN]

VARIABLES queue, pc, todo, val, seen, hand  \* those of WorkBag
VARIABLES
  phase,     \* where each thread is in test_pin
  n_entered, \* wq->n_entered
  n_exited,  \* wq->n_exited
  out,       \* array_out: the block written, NULL before
  last       \* the threads whose mctop_wq_thread_exit returned 1

Bag == INSTANCE WorkBag WITH Items <- Blocks

bagVars == <<queue, pc, todo, val, seen, hand>>
sortVars == <<phase, n_entered, n_exited, out, last>>
vars == <<bagVars, sortVars>>

n_hwcs == Cardinality(Threads)  \* wq->alloc->n_hwcs

(* Local and NextQ are as in WorkQueue: every queue is in the list of every  *)
(* thread (StealOrder_proofs).                                               *)
ASSUME WorkSortAssumption ==
  /\ IsFiniteSet(Threads) /\ Threads # {}
  /\ IsFiniteSet(Chunks) /\ Chunks # {}
  /\ NULL \notin Blocks
  /\ NQ \in Nat \ {0}
  /\ Local \in [Threads -> Bag!Queues]
  /\ NextQ \in [Bag!Queues -> Seq(Bag!Queues)]
  /\ \A q, r \in Bag!Queues : \E i \in 1..Len(NextQ[q]) : NextQ[q][i] = r

(* The block of one page that main creates. *)
Page(c) == [chunks |-> {c}, sorted |-> FALSE]

(* main has enqueued every page once, to the queue of its node. *)
Init ==
  /\ pc = [t \in Threads |-> "idle"]
  /\ todo = [t \in Threads |-> <<>>]
  /\ val = [t \in Threads |-> NULL]
  /\ seen = [t \in Threads |-> Bag!Unseen]
  /\ hand = [t \in Threads |-> {}]
  /\ queue \in [Bag!Queues ->
                 UNION {[1..n -> {Page(c) : c \in Chunks}] : n \in 0..Cardinality(Chunks)}]
  /\ \A c \in Chunks : \E q \in Bag!Queues : \E i \in 1..Len(queue[q]) : queue[q][i] = Page(c)
  /\ \A q, r \in Bag!Queues : \A i \in 1..Len(queue[q]), j \in 1..Len(queue[r]) :
       queue[q][i] = queue[r][j] => q = r /\ i = j
  /\ phase = [t \in Threads |-> "enter"]
  /\ n_entered = 0
  /\ n_exited = 0
  /\ out = NULL
  /\ last = {}

(* A step of test_pin between two calls to the queue. *)
Phase(t, from, to) ==
  /\ pc[t] = "idle"
  /\ phase[t] = from
  /\ phase' = [phase EXCEPT ![t] = to]

(* mctop_wq_thread_enter *)
Enter(t) ==
  /\ Phase(t, "enter", "loop")
  /\ n_entered' = n_entered + 1
  /\ UNCHANGED <<bagVars, n_exited, out, last>>

(* wqd = mctop_wq_dequeue(wq) *)
DequeueFirst(t) ==
  /\ Phase(t, "loop", "first")
  /\ Bag!CallDequeue(t, <<Local[t]>> \o NextQ[Local[t]])
  /\ UNCHANGED <<n_entered, n_exited, out, last>>

(* if (wqd == NULL) break *)
Leave(t) ==
  /\ Phase(t, "first", "exit")
  /\ hand[t] = {}
  /\ UNCHANGED <<bagVars, n_entered, n_exited, out, last>>

(* wq_sort(wqd) has work to do: the block goes back to the queue. *)
SortFirst(t) ==
  /\ Phase(t, "first", "requeue")
  /\ \E w \in hand[t] :
       /\ ~ w.sorted
       /\ hand' = [hand EXCEPT ![t] = {[w EXCEPT !.sorted = TRUE]}]
  /\ UNCHANGED <<queue, pc, todo, val, seen, n_entered, n_exited, out, last>>

(* wqd is sorted: wqd1 = mctop_wq_dequeue(wq) *)
DequeueSecond(t) ==
  /\ Phase(t, "first", "second")
  /\ \E w \in hand[t] : w.sorted
  /\ Bag!CallDequeue(t, <<Local[t]>> \o NextQ[Local[t]])
  /\ UNCHANGED <<n_entered, n_exited, out, last>>

(* Mutant of Merge: the new block has the length of the first one. *)
MergeShort(t) ==
  /\ Phase(t, "second", "requeue")
  /\ Cardinality(hand[t]) = 2
  /\ \E w \in hand[t] :
       hand' = [hand EXCEPT ![t] = {[w EXCEPT !.sorted = TRUE]}]
  /\ UNCHANGED <<queue, pc, todo, val, seen, n_entered, n_exited, out, last>>

(* wq_sort(wqd1); wqn = wq_merge(wqd, wqd1) *)
Merge(t) ==
  /\ Phase(t, "second", "requeue")
  /\ Cardinality(hand[t]) = 2
  /\ hand' = [hand EXCEPT ![t] =
                {[chunks |-> UNION {w.chunks : w \in hand[t]}, sorted |-> TRUE]}]
  /\ UNCHANGED <<queue, pc, todo, val, seen, n_entered, n_exited, out, last>>

(* wqd1 is NULL: mctop_wq_is_last_thread reads n_entered ... *)
IsLastEntered(t) ==
  /\ Cardinality(hand[t]) = 1
  /\ \/ n_entered = n_hwcs /\ Phase(t, "second", "is_last")
     \/ n_entered # n_hwcs /\ Phase(t, "second", "requeue")
  /\ UNCHANGED <<bagVars, n_entered, n_exited, out, last>>

(* Mutant of IsLastExited: the thread is last when only one other is left. *)
IsLastExitedEarly(t) ==
  /\ \/ n_exited >= n_hwcs - 2 /\ Phase(t, "is_last", "output")
     \/ n_exited < n_hwcs - 2 /\ Phase(t, "is_last", "requeue")
  /\ UNCHANGED <<bagVars, n_entered, n_exited, out, last>>

(* Mutant of IsLastExited: the thread waits for all to have left, itself too. *)
IsLastExitedNever(t) ==
  /\ \/ n_exited = n_hwcs /\ Phase(t, "is_last", "output")
     \/ n_exited # n_hwcs /\ Phase(t, "is_last", "requeue")
  /\ UNCHANGED <<bagVars, n_entered, n_exited, out, last>>

(* ... and n_exited. *)
IsLastExited(t) ==
  /\ \/ n_exited = n_hwcs - 1 /\ Phase(t, "is_last", "output")
     \/ n_exited # n_hwcs - 1 /\ Phase(t, "is_last", "requeue")
  /\ UNCHANGED <<bagVars, n_entered, n_exited, out, last>>

(* array_out = wqd->array; break *)
Output(t) ==
  /\ Phase(t, "output", "exit")
  /\ \E w \in hand[t] : out' = w
  /\ hand' = [hand EXCEPT ![t] = {}]
  /\ UNCHANGED <<queue, pc, todo, val, seen, n_entered, n_exited, last>>

(* Mutant of Requeue: the thread leaves after it has put the block back. *)
RequeueLeave(t) ==
  /\ Phase(t, "requeue", "exit")
  /\ \E w \in hand[t] : Bag!CallEnqueue(t, Local[t], w)
  /\ UNCHANGED <<n_entered, n_exited, out, last>>

(* mctop_wq_enqueue(wq, wqd) *)
Requeue(t) ==
  /\ Phase(t, "requeue", "loop")
  /\ \E w \in hand[t] : Bag!CallEnqueue(t, Local[t], w)
  /\ UNCHANGED <<n_entered, n_exited, out, last>>

(* Mutant of Exit: n_exited is read before it is incremented. *)
ExitFetchFirst(t) ==
  /\ Phase(t, "exit", "finished")
  /\ n_exited' = n_exited + 1
  /\ last' = IF n_exited = n_hwcs /\ n_entered = n_hwcs
             THEN last \cup {t} ELSE last
  /\ UNCHANGED <<bagVars, n_entered, out>>

(* mctop_wq_thread_exit *)
Exit(t) ==
  /\ Phase(t, "exit", "finished")
  /\ n_exited' = n_exited + 1
  /\ last' = IF n_exited + 1 = n_hwcs /\ n_entered = n_hwcs
             THEN last \cup {t} ELSE last
  /\ UNCHANGED <<bagVars, n_entered, out>>

(* The steps of the queue operation a thread is in. *)
InQueueCall(t) ==
  /\ Bag!Put(t) \/ Bag!Take(t) \/ Bag!Skip(t) \/ Bag!Return(t)
  /\ UNCHANGED sortVars

Step(t) ==
  \/ Enter(t) \/ DequeueFirst(t) \/ Leave(t) \/ SortFirst(t)
  \/ DequeueSecond(t) \/ Merge(t) \/ IsLastEntered(t) \/ IsLastExited(t)
  \/ Output(t) \/ Requeue(t) \/ Exit(t) \/ InQueueCall(t)

(* All threads have returned from test_pin: main joins them. *)
Joined ==
  /\ \A t \in Threads : phase[t] = "finished"
  /\ UNCHANGED vars

Next == (\E t \in Threads : Step(t)) \/ Joined

(* The threads are scheduled fairly. *)
Spec == Init /\ [][Next]_vars /\ \A t \in Threads : WF_vars(Step(t))

-----------------------------------------------------------------------------
(* The blocks a thread has: in hand, or as the argument of an enqueue or the *)
(* result of a dequeue under way.                                            *)
BlocksOf(t) == hand[t] \cup ({val[t]} \ {NULL})
BlocksIn(q) == {queue[q][i] : i \in 1..Len(queue[q])}
AllBlocks ==
  (UNION {BlocksOf(t) : t \in Threads}) \cup (UNION {BlocksIn(q) : q \in Bag!Queues})
    \cup ({out} \ {NULL})

(* Types of the variables of the sort. *)
TypeOK ==
  /\ phase \in [Threads -> {"enter", "loop", "first", "second", "is_last",
                            "output", "requeue", "exit", "finished"}]
  /\ n_entered \in 0..n_hwcs
  /\ n_exited \in 0..n_entered
  /\ out \in Blocks \cup {NULL}
  /\ last \subseteq Threads
  /\ \A t \in Threads : Cardinality(BlocksOf(t)) <= 2

(* The blocks in the queues, in the hands of the threads and in the result   *)
(* are a partition of the input at every moment: no chunk is sorted twice or *)
(* forgotten in a merge.                                                     *)
ChunksPartitioned ==
  /\ UNION {w.chunks : w \in AllBlocks} = Chunks
  /\ \A v, w \in AllBlocks : v # w => v.chunks \cap w.chunks = {}

(* A thread writes the result only when it is all of the input, sorted.      *)
OutputIsComplete == out # NULL => out = [chunks |-> Chunks, sorted |-> TRUE]

(* A thread that leaves because its dequeue found nothing never strands      *)
(* work: while there is a block outside the result, a thread that has not    *)
(* decided to leave will look again.                                         *)
NoStrandedWork ==
  out = NULL => \E t \in Threads : phase[t] \notin {"exit", "finished"}

(* Of all threads exactly the one that leaves last is told so, and it is     *)
(* told only when the result is written: what mctop_wq_is_last_thread says   *)
(* before the exit and what mctop_wq_thread_exit returns agree.              *)
OneIsLast ==
  /\ Cardinality(last) = (IF n_exited = n_hwcs THEN 1 ELSE 0)
  /\ last # {} => out # NULL

(* Once all threads but one have left, the last one finishes: it merges what *)
(* is left, writes the result and leaves.  (That all but one leave at all is *)
(* not guaranteed: two threads may forever take one block each, find no      *)
(* second one, and put theirs back.)                                         *)
LastThreadFinishes ==
  n_exited = n_hwcs - 1 ~> (n_exited = n_hwcs /\ out # NULL)
=============================================================================
