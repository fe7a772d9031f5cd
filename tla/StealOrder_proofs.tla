-------------------------- MODULE StealOrder_proofs --------------------------
(***************************************************************************)
(* Proofs about the steal order (mctop_wq.c, mctop_sort_uint_index and     *)
(* mctop_wq_create), for every number of queues and all latencies.         *)
(***************************************************************************)
EXTENDS StealOrder, FiniteSetTheorems, FunctionTheorems, TLAPS

(* The two outcomes of a comparison, entry by entry: nothing moves, or the *)
(* entries at i and j are exchanged.                                       *)
LEMMA CompareCases ==
  ASSUME StealTypeOK, Compare
  PROVE  /\ i \in Index /\ j \in Index /\ i < j
         /\ UNCHANGED <<self, arr, i>> /\ j' = j + 1
         /\ \/ /\ sorted' = sorted
               /\ arr[sorted[i]] <= arr[sorted[j]]
            \/ /\ sorted' \in [Index -> Index]
               /\ sorted'[i] = sorted[j]
               /\ sorted'[j] = sorted[i]
               /\ \A k \in Index \ {i, j} : sorted'[k] = sorted[k]
               /\ arr[sorted[j]] < arr[sorted[i]]
<1> USE StealOrderAssumption
<1>1. i \in Index /\ j \in Index /\ i < j
  BY DEF StealTypeOK, Compare, Index
<1>2. sorted \in [Index -> Index] /\ arr \in [Index -> Nat]
  BY DEF StealTypeOK
<1>3. CASE arr[sorted[j]] < arr[sorted[i]]
  <2>1. sorted' = [[sorted EXCEPT ![i] = sorted[j]] EXCEPT ![j] = sorted[i]]
    BY <1>3 DEF Compare
  <2> QED
    BY <1>1, <1>2, <1>3, <2>1 DEF Compare
<1>4. CASE ~ (arr[sorted[j]] < arr[sorted[i]])
  <2>1. sorted[i] \in Index /\ sorted[j] \in Index
    BY <1>1, <1>2
  <2>2. arr[sorted[i]] \in Nat /\ arr[sorted[j]] \in Nat
    BY <1>2, <2>1
  <2> QED
    BY <1>1, <1>4, <2>2 DEF Compare
<1> QED
  BY <1>3, <1>4

(* The loop variables and the arrays of the sort keep their types. *)
THEOREM TypeCorrect == StealSpec => []StealTypeOK
<1> USE StealOrderAssumption
<1>1. StealInit => StealTypeOK
  BY DEF StealInit, StealTypeOK, Index
<1>2. StealTypeOK /\ [StealNext]_stealVars => StealTypeOK'
  <2> SUFFICES ASSUME StealTypeOK, [StealNext]_stealVars PROVE StealTypeOK'
    OBVIOUS
  <2>1. CASE Compare
    <3>1. sorted' \in [Index -> Index]
      BY <2>1, CompareCases DEF StealTypeOK
    <3>2. i \in Nat /\ j \in Nat /\ i < n /\ i < j /\ j < n
      BY <2>1, CompareCases DEF Index
    <3>3. i' = i /\ j' = j + 1
      BY <2>1, CompareCases
    <3>4. j' \in i' + 1..n + 1 /\ i' \in 0..n
      BY <3>2, <3>3
    <3> QED
      BY <2>1, <3>1, <3>4 DEF StealTypeOK, Compare
  <2>2. CASE NextRound
    BY <2>2 DEF NextRound, StealTypeOK
  <2>3. CASE Done \/ UNCHANGED stealVars
    BY <2>3 DEF Done, stealVars, StealTypeOK
  <2> QED
    BY <2>1, <2>2, <2>3 DEF StealNext
<1> QED
  BY <1>1, <1>2, PTL DEF StealSpec

(* An exchange never loses an index of the array that is sorted. *)
THEOREM SortKeepsAllIndices == StealSpec => []IsPermutation
<1>1. StealInit => IsPermutation
  BY DEF StealInit, IsPermutation
<1>2. StealTypeOK /\ IsPermutation /\ [StealNext]_stealVars => IsPermutation'
  <2> SUFFICES ASSUME StealTypeOK, IsPermutation, [StealNext]_stealVars PROVE IsPermutation'
    OBVIOUS
  <2>1. CASE Compare
    BY <2>1, CompareCases DEF IsPermutation
  <2>2. CASE NextRound \/ Done \/ UNCHANGED stealVars
    BY <2>2 DEF NextRound, Done, stealVars, IsPermutation
  <2> QED
    BY <2>1, <2>2 DEF StealNext
<1> QED
  BY <1>1, <1>2, TypeCorrect, PTL DEF StealSpec

(* Every round of the sort fixes the next least latency: an exchange at i    *)
(* and j moves only indices behind the fixed ones, whose latencies are at    *)
(* least as high.                                                            *)
THEOREM RoundsSort == StealSpec => []SortedSoFar
<1> USE StealOrderAssumption
<1>1. StealInit => SortedSoFar
  BY DEF StealInit, SortedSoFar, Index
<1>2. StealTypeOK /\ SortedSoFar /\ [StealNext]_stealVars => SortedSoFar'
  <2> SUFFICES ASSUME StealTypeOK, SortedSoFar, [StealNext]_stealVars PROVE SortedSoFar'
    OBVIOUS
  <2>0. \A k \in Index : arr[sorted[k]] \in Nat
    BY DEF StealTypeOK
  <2>1. CASE Compare
    <3>1. /\ i \in Index /\ j \in Index /\ i < j
          /\ UNCHANGED <<arr, i>> /\ j' = j + 1
      BY <2>1, CompareCases
    <3>2. i \in Nat /\ j \in Nat /\ i < n /\ j < n
      BY <3>1 DEF Index
    <3>3. CASE sorted' = sorted /\ arr[sorted[i]] <= arr[sorted[j]]
      <4>1. \A b \in Index : i < b /\ b < j + 1 => arr[sorted[i]] <= arr[sorted[b]]
        <5> SUFFICES ASSUME NEW b \in Index, i < b, b < j + 1
                     PROVE  arr[sorted[i]] <= arr[sorted[b]]
          OBVIOUS
        <5>1. b < j \/ b = j
          BY <3>2 DEF Index
        <5> QED
          BY <3>2, <3>3, <5>1 DEF SortedSoFar
      <4> QED
        BY <3>1, <3>3, <4>1 DEF SortedSoFar
    <3>4. CASE /\ sorted'[i] = sorted[j] /\ sorted'[j] = sorted[i]
               /\ \A k \in Index \ {i, j} : sorted'[k] = sorted[k]
               /\ arr[sorted[j]] < arr[sorted[i]]
      <4> DEFINE lat(k) == arr[sorted[k]]
                 new(k) == arr[sorted'[k]]
      <4>1. /\ new(i) = lat(j) /\ new(j) = lat(i) /\ lat(j) < lat(i)
            /\ \A k \in Index \ {i, j} : new(k) = lat(k)
        BY <3>4
      <4>2. \A k \in Index : lat(k) \in Nat
        BY <2>0
      <4>3. /\ \A a, b \in Index : a < i /\ a < b => lat(a) <= lat(b)
            /\ \A b \in Index : i < b /\ b < j => lat(i) <= lat(b)
        BY <3>2 DEF SortedSoFar
      <4> HIDE DEF lat, new
      <4>4. \A a, b \in Index : a < i /\ a < b => new(a) <= new(b)
        <5> SUFFICES ASSUME NEW a \in Index, NEW b \in Index, a < i, a < b
                     PROVE  new(a) <= new(b)
          OBVIOUS
        <5>1. a # i /\ a # j
          BY <3>1, <3>2 DEF Index
        <5>2. new(a) = lat(a)
          BY <4>1, <5>1
        <5>3. lat(a) <= lat(i) /\ lat(a) <= lat(j) /\ lat(a) <= lat(b)
          BY <3>1, <3>2, <4>3 DEF Index
        <5> QED
          BY <3>1, <4>1, <5>2, <5>3
      <4>5. \A b \in Index : i < b /\ b < j + 1 => new(i) <= new(b)
        <5> SUFFICES ASSUME NEW b \in Index, i < b, b < j + 1
                     PROVE  new(i) <= new(b)
          OBVIOUS
        <5>1. CASE b = j
          BY <3>1, <4>1, <4>2, <5>1
        <5>2. CASE b # j
          <6>1. b < j /\ b # i
            BY <3>2, <5>2 DEF Index
          <6>2. new(b) = lat(b) /\ lat(i) <= lat(b)
            BY <4>1, <4>3, <5>2, <6>1
          <6> QED
            BY <3>1, <4>1, <4>2, <6>2
        <5> QED
          BY <5>1, <5>2
      <4> QED
        BY <3>1, <4>4, <4>5 DEF SortedSoFar, lat, new
    <3> QED
      BY <2>1, <3>3, <3>4, CompareCases
  <2>2. CASE NextRound
    <3>1. i \in Nat /\ j \in Nat /\ i < n /\ j >= n /\ i' = i + 1 /\ j' = i + 2
      BY <2>2 DEF NextRound, StealTypeOK
    <3>2. \A b \in Index : i < b => arr[sorted[i]] <= arr[sorted[b]]
      BY <3>1 DEF SortedSoFar, Index
    <3>3. arr' = arr /\ sorted' = sorted
      BY <2>2 DEF NextRound
    <3>4. (\A a, b \in Index : a < i /\ a < b => arr[sorted[a]] <= arr[sorted[b]])'
      BY <3>1, <3>2, <3>3 DEF SortedSoFar, Index
    <3>5. (i < n => \A b \in Index : i < b /\ b < j => arr[sorted[i]] <= arr[sorted[b]])'
      BY <3>1 DEF Index
    <3> QED
      BY <3>4, <3>5 DEF SortedSoFar
  <2>3. CASE Done \/ UNCHANGED stealVars
    BY <2>3 DEF Done, stealVars, SortedSoFar
  <2> QED
    BY <2>1, <2>2, <2>3 DEF StealNext
<1> QED
  BY <1>1, <1>2, TypeCorrect, PTL DEF StealSpec

(* The arithmetic of next_q: walking s sockets on from one and asking for    *)
(* the distance back gives s again.                                          *)
LEMMA AroundAndBack ==
  ASSUME NEW a \in Index, NEW s \in Index
  PROVE  /\ (a + s) % n \in Index
         /\ (((a + s) % n) + n - a) % n = s
<1> USE StealOrderAssumption DEF Index
<1>1. \A x \in 0..n - 1 : x % n = x /\ (x + n) % n = x
  OBVIOUS
<1>2. CASE a + s < n
  <2>1. (a + s) % n = a + s
    BY <1>1, <1>2
  <2>2. ((a + s) + n - a) = s + n
    OBVIOUS
  <2> QED
    BY <1>1, <1>2, <2>1, <2>2
<1>3. CASE a + s >= n
  <2>1. (a + s - n) \in 0..n - 1 /\ a + s = (a + s - n) + n
    BY <1>3
  <2>2. (a + s) % n = a + s - n
    BY <1>1, <2>1
  <2>3. ((a + s - n) + n - a) = s
    OBVIOUS
  <2> QED
    BY <1>1, <2>1, <2>2, <2>3
<1> QED
  BY <1>2, <1>3

(* Every queue is at one distance around the ring from any other. *)
LEMMA BackAndAround ==
  ASSUME NEW a \in Index, NEW q \in Index
  PROVE  /\ (q + n - a) % n \in Index
         /\ (a + ((q + n - a) % n)) % n = q
         /\ (q + n - a) % n = 0 => q = a
<1> USE StealOrderAssumption DEF Index
<1>1. \A x \in 0..n - 1 : x % n = x /\ (x + n) % n = x
  OBVIOUS
<1>2. CASE q >= a
  <2>1. q - a \in 0..n - 1 /\ q + n - a = (q - a) + n
    BY <1>2
  <2>2. (q + n - a) % n = q - a
    BY <1>1, <2>1
  <2> QED
    BY <1>1, <2>1, <2>2
<1>3. CASE q < a
  <2>1. q + n - a \in 1..n - 1
    BY <1>3
  <2>2. (q + n - a) % n = q + n - a
    BY <1>1, <2>1
  <2>3. a + (q + n - a) = q + n
    OBVIOUS
  <2> QED
    BY <1>1, <2>1, <2>2, <2>3
<1> QED
  BY <1>2, <1>3

(* An array of indices without repetitions has every index: the range of an *)
(* injection of a finite set into itself is the whole set.                  *)
LEMMA PermutationIsOnto ==
  ASSUME StealTypeOK, IsPermutation
  PROVE  \A s \in Index : \E k \in Index : sorted[k] = s
<1>1. IsFiniteSet(Index)
  BY FS_Interval, StealOrderAssumption DEF Index
<1>2. sorted \in Injection(Index, Index)
  BY DEF StealTypeOK, IsPermutation, Injection, IsInjective
<1>3. sorted \in Surjection(Index, Index)
  BY <1>1, <1>2, FS_Injection
<1> QED
  BY <1>3 DEF Surjection

(* What the construction assumes of the latencies, and never changes: the *)
(* own socket is the closest.                                             *)
SelfIsClosest == \A k \in Index : k # 0 => arr[0] < arr[k]

(* The sort never moves the own queue from the front. *)
LEMMA SelfStaysClosest == StealSpec => []SelfIsClosest
<1>1. StealInit => SelfIsClosest
  BY DEF StealInit, SelfIsClosest
<1>2. SelfIsClosest /\ [StealNext]_stealVars => SelfIsClosest'
  BY DEF SelfIsClosest, StealNext, Compare, NextRound, Done, stealVars
<1> QED
  BY <1>1, <1>2, PTL DEF StealSpec

(* The steal list names every queue, ends with the queue itself, and is in   *)
(* the order of the latencies, whatever the topology.                        *)
THEOREM StealOrderCorrect == StealSpec => []StealListIsRight
<1>1. StealTypeOK /\ IsPermutation /\ SortedSoFar /\ SelfIsClosest => StealListIsRight
  <2> SUFFICES ASSUME StealTypeOK, IsPermutation, SortedSoFar, SelfIsClosest, i = n
               PROVE  /\ \A q \in Index : \E k \in Index : next_q[k] = q
                      /\ next_q[n - 1] = self
                      /\ \A a, b \in 0..n - 2 :
                           a < b => LatencyTo(next_q[a]) <= LatencyTo(next_q[b])
    BY DEF StealListIsRight
  <2>1. n \in Nat /\ n > 0 /\ 0 \in Index /\ n - 1 \in Index
    BY StealOrderAssumption DEF Index
  <2>2. /\ self \in Index
        /\ \A k \in Index : sorted[k] \in Index /\ arr[sorted[k]] \in Nat
    BY DEF StealTypeOK
  <2>3. \A a, b \in Index : a < b => arr[sorted[a]] <= arr[sorted[b]]
    BY <2>1 DEF SortedSoFar, Index
  <2>4. sorted[0] = 0
    <3>1. PICK k \in Index : sorted[k] = 0
      BY <2>1, PermutationIsOnto
    <3>2. k # 0 => arr[sorted[0]] <= arr[0]
      BY <2>1, <2>3, <3>1 DEF Index
    <3>3. sorted[0] # 0 => arr[0] < arr[sorted[0]]
      BY <2>1, <2>2 DEF SelfIsClosest
    <3>4. arr[0] \in Nat /\ arr[sorted[0]] \in Nat
      BY <2>1, <2>2 DEF StealTypeOK
    <3> QED
      BY <3>1, <3>2, <3>3, <3>4
  <2>5. next_q[n - 1] = self
    BY <2>1 DEF next_q
  <2>6. ASSUME NEW k \in 0..n - 2
        PROVE  /\ k \in Index /\ k + 1 \in Index
               /\ next_q[k] = (self + sorted[k + 1]) % n
               /\ LatencyTo(next_q[k]) = arr[sorted[k + 1]]
    <3>1. k \in Index /\ k + 1 \in Index /\ k # n - 1
      BY <2>1 DEF Index
    <3>2. next_q[k] = (self + sorted[k + 1]) % n
      BY <3>1 DEF next_q
    <3> QED
      BY <2>2, <3>1, <3>2, AroundAndBack, ZenonT(60) DEF LatencyTo
  <2>7. \A a, b \in 0..n - 2 : a < b => LatencyTo(next_q[a]) <= LatencyTo(next_q[b])
    <3> SUFFICES ASSUME NEW a \in 0..n - 2, NEW b \in 0..n - 2, a < b
                 PROVE  LatencyTo(next_q[a]) <= LatencyTo(next_q[b])
      OBVIOUS
    <3>1. a + 1 < b + 1
      OBVIOUS
    <3> QED
      BY <2>3, <2>6, <3>1
  <2>8. ASSUME NEW q \in Index
        PROVE  \E k \in Index : next_q[k] = q
    <3>1. PICK k \in Index : sorted[k] = (q + n - self) % n
      BY <2>2, BackAndAround, PermutationIsOnto
    <3>2. CASE k = 0
      <4>1. q = self
        BY <2>2, <2>4, <3>1, <3>2, BackAndAround
      <4> QED
        BY <2>1, <2>5, <4>1
    <3>3. CASE k # 0
      <4>1. k - 1 \in 0..n - 2 /\ (k - 1) + 1 = k
        BY <2>1, <3>3 DEF Index
      <4>2. next_q[k - 1] = (self + sorted[k]) % n /\ k - 1 \in Index
        BY <2>6, <4>1
      <4> QED
        BY <2>2, <3>1, <4>2, BackAndAround
    <3> QED
      BY <3>2, <3>3
  <2> QED
    BY <2>5, <2>7, <2>8
<1> QED
  BY <1>1, TypeCorrect, SortKeepsAllIndices, RoundsSort, SelfStaysClosest, PTL
=============================================================================
