-------------------------- MODULE MCWorkQueueCalls --------------------------
(***************************************************************************)
(* WorkQueue with a client that makes finitely many calls.  A spin lock    *)
(* promises nothing to one thread among others that keep taking it, so the *)
(* question that makes sense is whether finitely many calls all return.    *)
(***************************************************************************)
EXTENDS MCWorkQueue

CONSTANT MaxCalls  \* bound: the calls each thread makes

VARIABLE calls     \* the calls each thread has made

MCInit == Init /\ calls = [t \in Threads |-> 0]

MCCall(t) ==
  /\ calls[t] < MaxCalls
  /\ Call(t)
  /\ calls' = [calls EXCEPT ![t] = @ + 1]

MCStep(t) == Step(t) /\ UNCHANGED calls

(* All calls have returned: the program is over, which is no deadlock. *)
Finished ==
  /\ \A t \in Threads : pc[t] = "idle" /\ calls[t] = MaxCalls
  /\ UNCHANGED <<vars, calls>>

MCNext == (\E t \in Threads : MCCall(t) \/ MCStep(t)) \/ Finished

MCSpec ==
  /\ MCInit
  /\ [][MCNext]_<<vars, calls>>
  /\ \A t \in Threads : WF_<<vars, calls>>(MCStep(t))

(* Every call returns: the locks that mctop_wq_get_size_atomic collects one  *)
(* after the other never close a circle with those of another one or of an   *)
(* enqueue or dequeue, every lock taken is released, and every loop over     *)
(* the queues ends.                                                          *)
EveryCallReturns == \A t \in Threads : pc[t] # "idle" ~> pc[t] = "idle"
=============================================================================
