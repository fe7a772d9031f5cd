----------------------------- MODULE StealOrder -----------------------------
(***************************************************************************)
(* The order in which a thread steals (mctop_wq.c, mctop_wq_create and     *)
(* mctop_sort_uint_index): for queue self, the latencies from its socket   *)
(* to every socket, listed from its own one on and around, are sorted by   *)
(* an exchange sort of their indices; next_q takes all indices but the     *)
(* first, turned back into queue numbers, and ends with the queue itself.  *)
(***************************************************************************)
EXTENDS Naturals, FiniteSets

CONSTANTS n,       \* wq->n_queues
          MaxLat   \* bound: the largest latency of the instance

ASSUME StealOrderAssumption == n \in Nat \ {0} /\ MaxLat \in Nat

VARIABLES self,    \* the queue whose next_q is filled (i of mctop_wq_create)
          arr,     \* lats: arr[k] is the latency to socket (self + k) % n
          sorted,  \* the indices of arr, exchanged until they are in order
          i, j     \* the loops of mctop_sort_uint_index

stealVars == <<self, arr, sorted, i, j>>

Index == 0..n - 1

(* A latency within a socket is lower than any latency between two sockets: *)
(* mctop_ids_get_latency returns the level's latency of the socket itself,  *)
(* and levels are in the order of their latencies.                          *)
StealInit ==
  /\ self \in Index
  /\ arr \in [Index -> 0..MaxLat]
  /\ \A k \in Index : k # 0 => arr[0] < arr[k]
  /\ sorted = [k \in Index |-> k]
  /\ i = 0
  /\ j = 1

(* The body of the inner loop. *)
Compare ==
  /\ i < n
  /\ j < n
  /\ sorted' = IF arr[sorted[j]] < arr[sorted[i]]
               THEN [sorted EXCEPT ![i] = sorted[j], ![j] = sorted[i]]
               ELSE sorted
  /\ j' = j + 1
  /\ UNCHANGED <<self, arr, i>>

(* The next round of the outer loop. *)
NextRound ==
  /\ i < n
  /\ j >= n
  /\ i' = i + 1
  /\ j' = i + 2
  /\ UNCHANGED <<self, arr, sorted>>

Done == i = n /\ UNCHANGED stealVars

StealNext == Compare \/ NextRound \/ Done

StealSpec == StealInit /\ [][StealNext]_stealVars

(* Mutant of next_q: the list is not shifted by one. *)
next_qUnshifted ==
  [k \in Index |-> IF k = n - 1 THEN self ELSE (self + sorted[k]) % n]

(* next_q[k - 1] = (i + indexes[k]) % n_queues for k >= 1; the last entry is *)
(* the queue itself.                                                         *)
next_q ==
  [k \in Index |-> IF k = n - 1 THEN self ELSE (self + sorted[k + 1]) % n]

(* The latency from the socket of self to that of queue q. *)
LatencyTo(q) == arr[(q + n - self) % n]

-----------------------------------------------------------------------------
StealTypeOK ==
  /\ self \in Index
  /\ arr \in [Index -> Nat]
  /\ sorted \in [Index -> Index]
  /\ i \in 0..n
  /\ j \in i + 1..n + 1

(* The sort never loses or repeats an index. *)
IsPermutation == \A a, b \in Index : sorted[a] = sorted[b] => a = b

(* What the loops have reached: the first i indices are final, and the one   *)
(* at i is the least of those compared with it so far.                       *)
SortedSoFar ==
  /\ \A a, b \in Index : a < i /\ a < b => arr[sorted[a]] <= arr[sorted[b]]
  /\ i < n => \A b \in Index : i < b /\ b < j => arr[sorted[i]] <= arr[sorted[b]]

(* The steal list of a queue: every queue is in it exactly once, the queue   *)
(* itself at the end, the others in the order of their latency.  (WorkQueue  *)
(* assumes of next_q that it leaves out no queue.)                           *)
StealListIsRight ==
  i = n =>
    /\ \A q \in Index : \E k \in Index : next_q[k] = q
    /\ next_q[n - 1] = self
    /\ \A a, b \in 0..n - 2 : a < b => LatencyTo(next_q[a]) <= LatencyTo(next_q[b])
=============================================================================
