----------------------------- MODULE Mctop_proofs -----------------------------
(***************************************************************************)
(* Proofs about the clustering of latencies (cdf.c) and the description    *)
(* file (mctop.c, mctop_load.c), for any latencies of any number of        *)
(* contexts, any sensitivity, any number of clusters asked for, and any    *)
(* number of kills and of runs with --augment.                             *)
(*                                                                         *)
(* Two ideas carry the clustering.  A sorted array has at place i the      *)
(* element with i - 1 elements below it (darray_sort); so no element is    *)
(* left out.  The starts of the clusters, sorted, cut the points into      *)
(* intervals; so every point is in one of them, whatever the starts are,   *)
(* and what the sensitivity decides is only how many there are.            *)
(*                                                                         *)
(* The file begins with the normalised latencies, and every later stage    *)
(* and run appends to it (FileInv).  With what the clusters are, this says *)
(* what a later run can read from it.                                      *)
(***************************************************************************)
EXTENDS Mctop, FiniteSetTheorems, SequenceTheorems, TLAPS

Below(S, e) == {d \in S : d < e}

(* An element has more elements below it than a smaller one. *)
LEMMA RankGrows ==
  ASSUME NEW S \in SUBSET Int, IsFiniteSet(S), NEW e \in S, NEW f \in S, e < f
  PROVE  /\ Cardinality(Below(S, e)) \in Nat
         /\ Cardinality(Below(S, e)) < Cardinality(Below(S, f))
<1>1. Below(S, e) \subseteq Below(S, f) /\ Below(S, f) \subseteq S
  <2>1. \A d \in S : d < e => d < f
    OBVIOUS
  <2> QED BY <2>1 DEF Below
<1>2. IsFiniteSet(Below(S, f))
  BY <1>1, FS_Subset
<1>3. Below(S, e) # Below(S, f)
  BY DEF Below
<1>4. /\ IsFiniteSet(Below(S, e))
      /\ Cardinality(Below(S, e)) <= Cardinality(Below(S, f))
      /\ Cardinality(Below(S, e)) # Cardinality(Below(S, f))
  BY <1>1, <1>2, <1>3, FS_Subset
<1>5. Cardinality(Below(S, e)) \in Nat /\ Cardinality(Below(S, f)) \in Nat
  BY <1>2, <1>4, FS_CardinalityType
<1> QED BY <1>4, <1>5

(* Every number of elements below occurs. *)
LEMMA EveryRankOccurs ==
  ASSUME NEW S \in SUBSET Int, IsFiniteSet(S), NEW i \in 1..Cardinality(S)
  PROVE  \E e \in S : Cardinality(Below(S, e)) = i - 1
<1> DEFINE n == Cardinality(S)
           rank == [e \in S |-> Cardinality(Below(S, e))]
<1>1. n \in Nat
  BY FS_CardinalityType
<1>2. \A e \in S : rank[e] \in 0..(n - 1)
  <2> TAKE e \in S
  <2>1. Below(S, e) \subseteq S /\ e \notin Below(S, e)
    BY DEF Below
  <2>2. IsFiniteSet(Below(S, e)) /\ Cardinality(Below(S, e)) <= n /\ Cardinality(Below(S, e)) # n
    BY <2>1, FS_Subset
  <2>3. Cardinality(Below(S, e)) \in Nat
    BY <2>2, FS_CardinalityType
  <2> QED BY <1>1, <2>2, <2>3
<1>3. \A e, f \in S : e # f => rank[e] # rank[f]
  <2> SUFFICES ASSUME NEW e \in S, NEW f \in S, e # f
               PROVE  Cardinality(Below(S, e)) # Cardinality(Below(S, f))
    OBVIOUS
  <2>1. CASE e < f
    BY <2>1, RankGrows
  <2>2. CASE f < e
    BY <2>2, RankGrows
  <2> QED BY <2>1, <2>2
<1>4. rank \in Injection(S, 0..(n - 1))
  BY <1>2, <1>3 DEF Injection, IsInjective
<1>5. IsFiniteSet(0..(n - 1)) /\ Cardinality(0..(n - 1)) = n
  <2> HIDE DEF n
  <2>1. n - 1 \in Int /\ (0 > n - 1 <=> n = 0)
    BY <1>1
  <2>2. /\ IsFiniteSet(0..(n - 1))
        /\ Cardinality(0..(n - 1)) = IF 0 > n - 1 THEN 0 ELSE (n - 1) - 0 + 1
    BY <2>1, FS_Interval, SMTT(40)
  <2> QED BY <1>1, <2>1, <2>2
<1>6. rank \in Surjection(S, 0..(n - 1))
  BY <1>4, <1>5, FS_Injection
<1>7. i - 1 \in 0..(n - 1)
  BY <1>1
<1> QED BY <1>6, <1>7 DEF Surjection

(* The sorted array has all elements, in order. *)
LEMMA SortedArray ==
  ASSUME NEW S \in SUBSET Int, IsFiniteSet(S),
         NEW q, q = darray_sort(S)
  PROVE  /\ q \in Seq(S) /\ Len(q) = Cardinality(S) /\ Len(q) \in Nat
         /\ \A i \in 1..Len(q) : q[i] \in S /\ Cardinality(Below(S, q[i])) = i - 1
         /\ \A i, j \in 1..Len(q) : i < j => q[i] < q[j]
         /\ \A e \in S : \E i \in 1..Len(q) : q[i] = e
<1> DEFINE n == Cardinality(S)
<1>1. n \in Nat
  BY FS_CardinalityType
<1>2. q = [i \in 1..n |-> CHOOSE e \in S : Cardinality(Below(S, e)) = i - 1]
  BY DEF darray_sort, Below
<1>3. \A i \in 1..n : q[i] \in S /\ Cardinality(Below(S, q[i])) = i - 1
  <2> TAKE i \in 1..n
  <2>1. \E e \in S : Cardinality(Below(S, e)) = i - 1
    BY EveryRankOccurs
  <2>2. q[i] = CHOOSE e \in S : Cardinality(Below(S, e)) = i - 1
    BY <1>2
  <2> QED BY <2>1, <2>2
<1>4. q \in [1..n -> S]
  BY <1>2, <1>3
<1>5. q \in Seq(S) /\ Len(q) = n
  BY <1>1, <1>4, SeqDef, LenProperties
<1>6. \A i, j \in 1..n : i < j => q[i] < q[j]
  <2> SUFFICES ASSUME NEW i \in 1..n, NEW j \in 1..n, i < j, ~(q[i] < q[j])
               PROVE  FALSE
    OBVIOUS
  <2>1. q[i] \in S /\ q[j] \in S /\ q[i] \in Int /\ q[j] \in Int
    BY <1>3
  <2>2. Cardinality(Below(S, q[i])) = i - 1 /\ Cardinality(Below(S, q[j])) = j - 1
    BY <1>3
  <2>3. CASE q[i] = q[j]
    BY <2>2, <2>3, <1>1
  <2>4. CASE q[j] < q[i]
    BY <2>1, <2>2, <2>4, <1>1, RankGrows
  <2> QED BY <2>1, <2>3, <2>4
<1>7. \A e \in S : \E i \in 1..n : q[i] = e
  <2> TAKE e \in S
  <2>1. Below(S, e) \subseteq S /\ e \notin Below(S, e)
    BY DEF Below
  <2>2. IsFiniteSet(Below(S, e)) /\ Cardinality(Below(S, e)) <= n /\ Cardinality(Below(S, e)) # n
    BY <2>1, FS_Subset
  <2>3. Cardinality(Below(S, e)) \in Nat
    BY <2>2, FS_CardinalityType
  <2> DEFINE i == Cardinality(Below(S, e)) + 1
  <2>4. i \in 1..n
    BY <1>1, <2>2, <2>3
  <2>5. q[i] \in S /\ Cardinality(Below(S, q[i])) = Cardinality(Below(S, e))
    BY <1>3, <2>3, <2>4
  <2>6. q[i] = e
    <3> DEFINE f == q[i]
    <3>1. f \in S /\ f \in Int /\ e \in Int
      BY <2>5
    <3>2. Cardinality(Below(S, f)) = Cardinality(Below(S, e))
      BY <2>5
    <3> HIDE DEF f, i
    <3>3. ~(f < e)
      BY <3>1, <3>2, <2>3, RankGrows
    <3>4. ~(e < f)
      BY <3>1, <3>2, <2>3, RankGrows
    <3> QED BY <3>1, <3>3, <3>4 DEF f
  <2> QED BY <2>4, <2>6
<1> QED BY <1>1, <1>3, <1>5, <1>6, <1>7
-----------------------------------------------------------------------------
(* The last point of the k-th of the intervals that begin at the given points. *)
To(from, n, k) == IF k = Len(from) THEN n ELSE from[k + 1] - 1

(* Any set of starts that has the first point cuts the points into intervals: *)
(* none is empty, they follow each other, and every point is in one.          *)
LEMMA StartsCut ==
  ASSUME NEW n \in Nat, NEW S \in SUBSET (1..n), 1 \in S,
         NEW from, from = darray_sort(S)
  PROVE  /\ from \in Seq(S) /\ Len(from) \in Nat \ {0} /\ from[1] = 1
         /\ \A k \in 1..Len(from) : /\ from[k] \in 1..n /\ To(from, n, k) \in 1..n
                                    /\ from[k] <= To(from, n, k)
         /\ \A j, k \in 1..Len(from) : j < k => To(from, n, j) < from[k]
         /\ \A i \in 1..n : \E k \in 1..Len(from) : from[k] <= i /\ i <= To(from, n, k)
         /\ \A e \in S : \E k \in 1..Len(from) : from[k] = e
<1> DEFINE m == Len(from)
<1>0. S \in SUBSET Int
  OBVIOUS
<1>1. IsFiniteSet(S)
  <2>1. IsFiniteSet(1..n)
    BY FS_Interval
  <2> QED BY <2>1, FS_Subset
<1>2. /\ from \in Seq(S) /\ m = Cardinality(S) /\ m \in Nat
      /\ \A i \in 1..m : from[i] \in S /\ Cardinality(Below(S, from[i])) = i - 1
      /\ \A i, j \in 1..m : i < j => from[i] < from[j]
      /\ \A e \in S : \E i \in 1..m : from[i] = e
  BY <1>0, <1>1, SortedArray
<1> HIDE DEF m
<1>3. m # 0
  BY <1>2
<1>4. \A k \in 1..m : from[k] \in 1..n
  BY <1>2
<1>5. from[1] = 1
  <2>1. PICK i \in 1..m : from[i] = 1
    BY <1>2
  <2>2. 1 \in 1..m /\ from[1] \in 1..n
    BY <1>2, <1>3, <1>4
  <2>3. ~(1 < i)
    BY <1>2, <2>1, <2>2
  <2> QED BY <2>1, <2>3, <1>2
<1>6. \A k \in 1..m : To(from, n, k) \in 1..n /\ from[k] <= To(from, n, k)
  <2> TAKE k \in 1..m
  <2>1. CASE k = m
    BY <2>1, <1>2, <1>4 DEF To, m
  <2>2. CASE k # m
    <3>1. k \in 1..m /\ k + 1 \in 1..m /\ k < k + 1
      BY <2>2, <1>2
    <3>2. from[k] < from[k + 1] /\ from[k] \in 1..n /\ from[k + 1] \in 1..n
      BY <3>1, <1>2, <1>4
    <3>3. To(from, n, k) = from[k + 1] - 1
      BY <2>2 DEF To, m
    <3> QED BY <3>2, <3>3
  <2> QED BY <2>1, <2>2
<1>7. \A j, k \in 1..m : j < k => To(from, n, j) < from[k]
  <2> SUFFICES ASSUME NEW j \in 1..m, NEW k \in 1..m, j < k
               PROVE  To(from, n, j) < from[k]
    OBVIOUS
  <2>1. j # m /\ j + 1 \in 1..m /\ (j + 1 < k \/ j + 1 = k)
    BY <1>2
  <2>2. To(from, n, j) = from[j + 1] - 1
    BY <2>1 DEF To, m
  <2>3. from[j + 1] \in 1..n /\ from[k] \in 1..n
    BY <2>1, <1>4
  <2>4. from[j + 1] < from[k] \/ from[j + 1] = from[k]
    BY <2>1, <1>2
  <2> QED BY <2>2, <2>3, <2>4
<1>8. \A i \in 1..n : \E k \in 1..m : from[k] <= i /\ i <= To(from, n, k)
  <2> SUFFICES ASSUME NEW i \in 1..n
               PROVE  \E k \in 1..m : from[k] <= i /\ i <= To(from, n, k)
    OBVIOUS
  <2> DEFINE T == {s \in S : s <= i}
             k == Cardinality(T)
  <2>1. /\ T \subseteq S /\ IsFiniteSet(T) /\ k <= m
    BY <1>1, <1>2, FS_Subset
  <2>2. k \in Nat
    BY <2>1, FS_CardinalityType
  <2>3. k # 0
    <3>1. 1 \in T
      OBVIOUS
    <3> QED BY <2>1, <3>1, FS_EmptySet
  <2>4. k \in 1..m
    BY <1>2, <2>1, <2>2, <2>3
  <2>5. \A j \in 1..m : IsFiniteSet(Below(S, from[j]))
    <3>1. \A j \in 1..m : Below(S, from[j]) \subseteq S
      BY DEF Below
    <3> QED BY <3>1, <1>1, FS_Subset
  <2>6. from[k] <= i
    <3> SUFFICES ASSUME i < from[k] PROVE FALSE
      BY <1>4, <2>4
    <3>1. from[k] \in 1..n
      BY <1>4, <2>4
    <3>2. T \subseteq Below(S, from[k])
      <4> DEFINE f == from[k]
      <4>1. f \in 1..n /\ i < f
        BY <3>1
      <4> HIDE DEF f
      <4>2. \A e \in S : e <= i => e < f
        BY <4>1
      <4>3. T \subseteq Below(S, f)
        BY <4>2 DEF Below
      <4> QED BY <4>3 DEF f
    <3>3. k <= Cardinality(Below(S, from[k]))
      BY <3>2, <2>4, <2>5, FS_Subset
    <3>4. Cardinality(Below(S, from[k])) = k - 1
      BY <1>2, <2>4
    <3> HIDE DEF k
    <3> QED BY <3>3, <3>4, <2>2
  <2>7. k # m => i < from[k + 1]
    <3> SUFFICES ASSUME k # m, from[k + 1] <= i PROVE FALSE
      BY <1>2, <1>4, <2>4, SMTT(40)
    <3> DEFINE f == from[k + 1]
               B == Below(S, f)
    <3>1. k + 1 \in 1..m
      BY <1>2, <2>4
    <3>2. f \in S /\ f \in 1..n /\ f <= i /\ IsFiniteSet(B)
      BY <3>1, <1>2, <1>4, <2>5
    <3>3. Cardinality(B) = (k + 1) - 1
      BY <1>2, <3>1
    <3>4. B \cup {f} \subseteq T
      <4> HIDE DEF f
      <4>1. \A e \in S : e < f => e <= i
        BY <3>2
      <4> QED BY <4>1, <3>2 DEF Below
    <3>5. f \notin B
      BY <3>2 DEF Below
    <3>6. Cardinality(B \cup {f}) = Cardinality(B) + 1
      BY <3>2, <3>5, FS_AddElement
    <3>7. Cardinality(B \cup {f}) <= k
      BY <3>4, <2>1, FS_Subset
    <3> HIDE DEF k, f, B
    <3> QED BY <3>3, <3>6, <3>7, <2>2
  <2> HIDE DEF k
  <2>8. i <= To(from, n, k)
    <3>1. CASE k = m
      BY <3>1 DEF To, m
    <3>2. CASE k # m
      <4>1. k + 1 \in 1..m /\ To(from, n, k) = from[k + 1] - 1
        BY <3>2, <1>2, <2>4 DEF To, m
      <4>2. from[k + 1] \in 1..n
        BY <4>1, <1>4
      <4> QED BY <4>1, <4>2, <3>2, <2>7
    <3> QED BY <3>1, <3>2
  <2> QED BY <2>4, <2>6, <2>8
<1> QED BY <1>2, <1>3, <1>4, <1>5, <1>6, <1>7, <1>8 DEF m

(* The index of the median of k-th interval, and the fields of its cluster. *)
MedianOf(from, n, k) == from[k] + (To(from, n, k) - from[k] + 1) \div 2

(* A cluster by cluster: what Clusters makes of points and starts. *)
LEMMA ClustersAre ==
  ASSUME NEW P, NEW s, Len(P) \in Nat, Len(P) # 0,
         NEW from, from = darray_sort(Starts(P, s)),
         NEW c, c = Clusters(P, s)
  PROVE  /\ DOMAIN c = 1..Len(from) /\ Len(c) = Len(from)
         /\ \A k \in 1..Len(from) :
              /\ c[k].val_min = IF k = 1 THEN 0 ELSE P[from[k]]
              /\ c[k].val_max = P[To(from, Len(P), k)]
              /\ c[k].median = P[MedianOf(from, Len(P), k)]
<1>1. Starts(P, s) \in SUBSET (1..Len(P)) /\ 1 \in Starts(P, s)
  BY DEF Starts
<1>2. Len(from) \in Nat \ {0}
  BY <1>1, StartsCut
<1>3. c = [k \in 1..Len(from) |->
            [val_min |-> IF k = 1 THEN 0 ELSE P[from[k]],
             val_max |-> P[To(from, Len(P), k)],
             median  |-> P[MedianOf(from, Len(P), k)]]]
  BY DEF Clusters, To, MedianOf
<1>4. DOMAIN c = 1..Len(from)
  BY <1>3
<1>5. Len(c) = Len(from)
  BY <1>2, <1>3
<1> QED BY <1>3, <1>4, <1>5

(* The points of cdf_create: all values, once each, in order. *)
LEMMA PointsAre ==
  ASSUME NEW V \in SUBSET Nat, IsFiniteSet(V), V # {},
         NEW P, P = cdf_calc(V)
  PROVE  /\ P \in Seq(V) /\ Len(P) \in Nat \ {0} /\ ToSet(P) = V
         /\ \A i \in 1..Len(P) : P[i] \in Nat
         /\ \A i, j \in 1..Len(P) : i < j => P[i] < P[j]
<1>1. /\ P \in Seq(V) /\ Len(P) = Cardinality(V) /\ Len(P) \in Nat
      /\ \A i \in 1..Len(P) : P[i] \in V
      /\ \A i, j \in 1..Len(P) : i < j => P[i] < P[j]
      /\ \A e \in V : \E i \in 1..Len(P) : P[i] = e
  <2>1. V \in SUBSET Int /\ P = darray_sort(V)
    BY DEF cdf_calc
  <2> QED BY <2>1, SortedArray, SMTT(40)
<1>2. Len(P) # 0
  BY <1>1, FS_EmptySet
<1>3. ToSet(P) = V
  <2>1. DOMAIN P = 1..Len(P)
    BY <1>1, LenProperties
  <2> QED BY <1>1, <2>1 DEF ToSet
<1> QED BY <1>1, <1>2, <1>3

(* Every point is in the bounds of one cluster, the one whose interval it is  *)
(* in: the lower bound 0 of the first cluster takes in no point of another.   *)
LEMMA OneClusterEach ==
  ASSUME NEW V \in SUBSET Nat, IsFiniteSet(V), V # {},
         NEW P, P = cdf_calc(V), NEW s,
         NEW from, from = darray_sort(Starts(P, s)),
         NEW c, c = Clusters(P, s),
         NEW i \in 1..Len(P), NEW k \in 1..Len(from),
         from[k] <= i, i <= To(from, Len(P), k)
  PROVE  \A j \in 1..Len(from) : c[j].val_min <= P[i] /\ P[i] <= c[j].val_max <=> j = k
<1> DEFINE n == Len(P)
           m == Len(from)
           to(j) == To(from, n, j)
<1>1. /\ n \in Nat \ {0} /\ \A a \in 1..n : P[a] \in Nat
      /\ \A a, b \in 1..n : a < b => P[a] < P[b]
  BY PointsAre
<1>2. Starts(P, s) \in SUBSET (1..n) /\ 1 \in Starts(P, s)
  BY <1>1 DEF Starts
<1>3. /\ m \in Nat \ {0} /\ from[1] = 1
      /\ \A j \in 1..m : from[j] \in 1..n /\ to(j) \in 1..n /\ from[j] <= to(j)
      /\ \A a, b \in 1..m : a < b => to(a) < from[b]
  BY <1>1, <1>2, StartsCut, ZenonT(60)
<1>4. \A j \in 1..m : /\ c[j].val_min = IF j = 1 THEN 0 ELSE P[from[j]]
                      /\ c[j].val_max = P[to(j)]
  BY <1>1, ClustersAre
<1> HIDE DEF n, m, to
<1>5. i \in 1..n /\ k \in 1..m /\ from[k] <= i /\ i <= to(k)
  BY DEF n, m, to
<1>6. ASSUME NEW j \in 1..m
      PROVE  c[j].val_min <= P[i] /\ P[i] <= c[j].val_max <=> j = k
  <2>1. /\ from[j] \in 1..n /\ to(j) \in 1..n /\ from[j] <= to(j)
        /\ from[k] \in 1..n /\ to(k) \in 1..n /\ i \in Nat /\ j \in Nat /\ k \in Nat
    BY <1>3, <1>5
  <2>2. P[i] \in Nat /\ P[from[j]] \in Nat /\ P[to(j)] \in Nat
    BY <1>1, <1>5, <2>1
  <2>3. CASE j = k
    <3>1. P[from[j]] <= P[i]
      BY <1>1, <1>5, <2>1, <2>2, <2>3, SMTT(40)
    <3>2. P[i] <= P[to(j)]
      BY <1>1, <1>5, <2>1, <2>2, <2>3
    <3> QED BY <1>4, <2>2, <2>3, <3>1, <3>2
  <2>4. CASE j < k
    <3>1. to(j) < i
      BY <1>3, <1>5, <2>1, <2>4
    <3>2. P[to(j)] < P[i]
      BY <1>1, <1>5, <2>1, <3>1
    <3> QED BY <1>4, <2>2, <2>4, <3>2
  <2>5. CASE k < j
    <3>1. i < from[j] /\ j # 1
      BY <1>3, <1>5, <2>1, <2>5
    <3>2. P[i] < P[from[j]]
      BY <1>1, <1>5, <2>1, <3>1
    <3> QED BY <1>4, <2>2, <2>5, <3>1, <3>2
  <2> QED BY <2>1, <2>3, <2>4, <2>5
<1> QED BY <1>6 DEF m

(* A point has the median of the cluster whose interval it is in.             *)
LEMMA InOneCluster ==
  ASSUME NEW V \in SUBSET Nat, IsFiniteSet(V), V # {},
         NEW P, P = cdf_calc(V), NEW s,
         NEW from, from = darray_sort(Starts(P, s)),
         NEW c, c = Clusters(P, s),
         NEW i \in 1..Len(P), NEW k \in 1..Len(from), NEW v, v = P[i],
         from[k] <= i, i <= To(from, Len(P), k)
  PROVE  /\ {d \in ToSet(c) : d.val_min <= v /\ v <= d.val_max} = {c[k]}
         /\ cdf_cluster_value_to_cluster_median(c, v) = c[k].median
<1> DEFINE m == Len(from)
<1>1. /\ Len(P) \in Nat \ {0} /\ v \in V /\ v \in Nat
  BY PointsAre
<1>2. Starts(P, s) \in SUBSET (1..Len(P)) /\ 1 \in Starts(P, s)
  BY <1>1 DEF Starts
<1>3. m \in Nat \ {0}
  BY <1>1, <1>2, StartsCut
<1>4. DOMAIN c = 1..m /\ Len(c) = m
  BY <1>1, ClustersAre
<1>5. \A j \in 1..m : c[j].val_min <= v /\ v <= c[j].val_max <=> j = k
  BY OneClusterEach
<1>6. {d \in ToSet(c) : d.val_min <= v /\ v <= d.val_max} = {c[k]}
  BY <1>4, <1>5 DEF ToSet
<1>7. cdf_cluster_value_to_cluster_median(c, v) = c[k].median
  <2> DEFINE I == {j \in 1..Len(c) : v >= c[j].val_min /\ v <= c[j].val_max}
  <2>1. I = {k}
    <3>1. \A j \in 1..m : v >= c[j].val_min <=> c[j].val_min <= v
      OBVIOUS
    <3> QED BY <1>4, <1>5, <3>1
  <2>2. Min(I) = k
    BY <2>1 DEF Min
  <2>3. SelectInSeq(c, LAMBDA d : v >= d.val_min /\ v <= d.val_max) = k
    BY <2>1, <2>2 DEF SelectInSeq
  <2>4. k # 0
    BY <1>3
  <2> QED BY <2>3, <2>4 DEF cdf_cluster_value_to_cluster_median
<1> QED BY <1>6, <1>7

(* The median of a cluster is one of its points. *)
LEMMA MedianInside ==
  ASSUME NEW a \in Nat, NEW b \in Nat, a <= b
  PROVE  /\ a + (b - a + 1) \div 2 \in Nat
         /\ a <= a + (b - a + 1) \div 2 /\ a + (b - a + 1) \div 2 <= b
<1>1. (b - a + 1) \div 2 \in Nat /\ (b - a + 1) \div 2 <= b - a
  OBVIOUS
<1> QED BY <1>1

(* A point is 0 exactly when the median of its cluster is. *)
LEMMA ZeroIsAlone ==
  ASSUME NEW V \in SUBSET Nat, IsFiniteSet(V), V # {},
         NEW P, P = cdf_calc(V), NEW s,
         NEW from, from = darray_sort(Starts(P, s)),
         NEW i \in 1..Len(P), NEW k \in 1..Len(from),
         from[k] <= i, i <= To(from, Len(P), k)
  PROVE  P[MedianOf(from, Len(P), k)] = 0 <=> P[i] = 0
<1> DEFINE n == Len(P)
           m == Len(from)
           to(j) == To(from, n, j)
           md == MedianOf(from, n, k)
<1>1. /\ n \in Nat \ {0} /\ \A a \in 1..n : P[a] \in Nat
      /\ \A a, b \in 1..n : a < b => P[a] < P[b]
  BY PointsAre
<1>2. Starts(P, s) \in SUBSET (1..n) /\ 1 \in Starts(P, s)
  BY <1>1 DEF Starts
<1>3. /\ m \in Nat \ {0} /\ from[1] = 1
      /\ \A j \in 1..m : from[j] \in 1..n /\ to(j) \in 1..n /\ from[j] <= to(j)
      /\ \A a, b \in 1..m : a < b => to(a) < from[b]
  BY <1>1, <1>2, StartsCut, ZenonT(60)
<1>a. \A e \in Starts(P, s) : \E j \in 1..m : from[j] = e
  <2> DEFINE S == Starts(P, s)
  <2> HIDE DEF S
  <2>1. S \in SUBSET Int /\ from = darray_sort(S)
    BY <1>2 DEF S
  <2>2. IsFiniteSet(S)
    <3>1. IsFiniteSet(1..n)
      BY <1>1, FS_Interval
    <3> QED BY <1>2, <3>1, FS_Subset DEF S
  <2>3. \A e \in S : \E j \in 1..Len(from) : from[j] = e
    BY <2>1, <2>2, SortedArray
  <2> QED BY <2>3 DEF S
<1>4. P[1] = 0 /\ n > 1 => 2 \in Starts(P, s)
  <2>1. P[1] = 0 /\ n > 1 => P[2 - 1] = 0 /\ P[2] > 0 /\ 2 \in 2..n
    <3>1. n > 1 => 1 \in 1..n /\ 2 \in 1..n
      BY <1>1
    <3> QED BY <1>1, <3>1
  <2> QED BY <2>1 DEF Starts
<1>5. md = from[k] + (to(k) - from[k] + 1) \div 2
  BY DEF MedianOf
<1> HIDE DEF n, m, to, md
<1>6. /\ i \in 1..n /\ k \in 1..m /\ from[k] <= i /\ i <= to(k)
      /\ from[k] \in 1..n /\ to(k) \in 1..n
  BY <1>3 DEF n, m, to
<1>7. md \in 1..n /\ from[k] <= md /\ md <= to(k)
  <2>1. from[k] \in Nat /\ to(k) \in Nat /\ from[k] <= to(k)
    BY <1>3, <1>6
  <2>2. md \in Nat /\ from[k] <= md /\ md <= to(k)
    BY <1>5, <2>1, MedianInside
  <2> QED BY <1>1, <1>6, <2>2
<1>8. ASSUME NEW a \in 1..n, NEW b \in 1..n, P[a] = 0,
             from[k] <= a, a <= to(k), from[k] <= b, b <= to(k)
      PROVE  P[b] = 0
  <2>1. a = 1
    <3>1. 1 \in 1..n /\ P[1] \in Nat
      BY <1>1
    <3>2. ~ (1 < a)
      BY <1>1, <1>8, <3>1
    <3> QED BY <3>1, <3>2
  <2>2. k = 1
    <3>1. from[k] = 1
      BY <1>6, <1>8, <2>1
    <3>2. 1 \in 1..m /\ to(1) \in 1..n /\ from[1] <= to(1)
      BY <1>3
    <3>3. ~ (1 < k)
      BY <1>3, <1>6, <3>1, <3>2
    <3> QED BY <1>6, <3>3
  <2>3. b = 1
    <3>1. CASE n = 1
      BY <1>8, <3>1
    <3>2. CASE n > 1
      <4>1. PICK j \in 1..m : from[j] = 2
        BY <1>4, <1>a, <1>8, <2>1, <3>2
      <4>2. j # 1 /\ 1 \in 1..m /\ 1 < j
        BY <1>3, <4>1
      <4>3. to(1) < 2
        BY <1>3, <4>1, <4>2
      <4> QED BY <1>8, <1>6, <2>2, <4>3
    <3> QED BY <1>1, <3>1, <3>2
  <2> QED BY <1>8, <2>1, <2>3
<1>9. P[md] = 0 <=> P[i] = 0
  BY <1>6, <1>7, <1>8
<1> QED BY <1>9 DEF md, n
-----------------------------------------------------------------------------
(* What cdf_cluster leaves is sound, for any values and any sensitivity.     *)
(* Sound says of points P and clusters c what ClustersAreSound says of the   *)
(* variables.                                                                *)
Sound(P, c) ==
  /\ ToSet([k \in DOMAIN c |-> c[k].median]) \subseteq ToSet(P)
  /\ \A i, j \in DOMAIN c : i < j => c[i].median < c[j].median
  /\ \A v \in ToSet(P) :
       /\ Quantify(ToSet(c), LAMBDA d : d.val_min <= v /\ v <= d.val_max) = 1
       /\ (cdf_cluster_value_to_cluster_median(c, v) = 0) = (v = 0)

(* Whatever the values and the sensitivity, the clusters cdf_cluster builds are sound. *)
LEMMA AnyClustersAreSound ==
  ASSUME NEW V \in SUBSET Nat, IsFiniteSet(V), V # {},
         NEW P, P = cdf_calc(V), NEW s, NEW c, c = Clusters(P, s)
  PROVE  Sound(P, c) /\ Len(c) \in Nat
<1> DEFINE n == Len(P)
           from == darray_sort(Starts(P, s))
           m == Len(from)
           to(j) == To(from, n, j)
           md(j) == MedianOf(from, n, j)
<1>1. /\ n \in Nat \ {0} /\ \A a \in 1..n : P[a] \in Nat
      /\ \A a, b \in 1..n : a < b => P[a] < P[b]
      /\ P \in Seq(V) /\ DOMAIN P = 1..n
  BY PointsAre, LenProperties
<1>2. Starts(P, s) \in SUBSET (1..n) /\ 1 \in Starts(P, s)
  BY <1>1 DEF Starts
<1>3. /\ m \in Nat \ {0}
      /\ \A j \in 1..m : from[j] \in 1..n /\ to(j) \in 1..n /\ from[j] <= to(j)
      /\ \A a, b \in 1..m : a < b => to(a) < from[b]
  BY <1>1, <1>2, StartsCut
<1>a. \A i \in 1..n : \E k \in 1..m : from[k] <= i /\ i <= to(k)
  BY <1>1, <1>2, StartsCut
<1>4. /\ DOMAIN c = 1..m /\ Len(c) = m
      /\ \A j \in 1..m : c[j].median = P[md(j)]
  BY <1>1, ClustersAre
<1>5. \A j \in 1..m : md(j) \in 1..n /\ from[j] <= md(j) /\ md(j) <= to(j)
  <2> TAKE j \in 1..m
  <2>1. md(j) = from[j] + (to(j) - from[j] + 1) \div 2
    BY DEF MedianOf
  <2>2. /\ from[j] \in 1..n /\ to(j) \in 1..n /\ from[j] <= to(j)
        /\ from[j] \in Nat /\ to(j) \in Nat
    BY <1>3
  <2> HIDE DEF md, from, to
  <2>3. md(j) \in Nat /\ from[j] <= md(j) /\ md(j) <= to(j)
    BY <2>1, <2>2, MedianInside
  <2> QED BY <1>1, <2>2, <2>3
<1>6. ToSet([k \in DOMAIN c |-> c[k].median]) \subseteq ToSet(P)
  <2>1. \A k \in DOMAIN c : c[k].median \in ToSet(P)
    BY <1>1, <1>4, <1>5 DEF ToSet
  <2> QED BY <2>1 DEF ToSet
<1>7. \A i, j \in DOMAIN c : i < j => c[i].median < c[j].median
  <2> SUFFICES ASSUME NEW i \in 1..m, NEW j \in 1..m, i < j
               PROVE  P[md(i)] < P[md(j)]
    BY <1>4
  <2> HIDE DEF md, from, to, m, n
  <2>1. md(i) \in 1..n /\ md(j) \in 1..n /\ md(i) <= to(i) /\ to(i) < from[j] /\ from[j] <= md(j)
    BY <1>3, <1>5
  <2>2. md(i) < md(j)
    BY <1>1, <1>3, <2>1, SMTT(40)
  <2> QED BY <1>1, <2>1, <2>2
<1>8. ASSUME NEW v \in ToSet(P)
      PROVE  /\ Quantify(ToSet(c), LAMBDA d : d.val_min <= v /\ v <= d.val_max) = 1
             /\ (cdf_cluster_value_to_cluster_median(c, v) = 0) = (v = 0)
  <2>1. PICK i \in 1..n : P[i] = v
    BY <1>1 DEF ToSet
  <2>2. PICK k \in 1..m : from[k] <= i /\ i <= to(k)
    BY <1>a
  <2>3. /\ {d \in ToSet(c) : d.val_min <= v /\ v <= d.val_max} = {c[k]}
        /\ cdf_cluster_value_to_cluster_median(c, v) = c[k].median
    BY <2>1, <2>2, InOneCluster
  <2>4. Quantify(ToSet(c), LAMBDA d : d.val_min <= v /\ v <= d.val_max) = 1
    <3>1. Cardinality({c[k]}) = 1
      BY FS_Singleton
    <3> QED BY <2>3, <3>1 DEF Quantify
  <2>6. P[md(k)] = 0 <=> P[i] = 0
    BY <2>2, ZeroIsAlone
  <2>7. (c[k].median = 0) = (v = 0)
    BY <1>4, <2>1, <2>2, <2>6
  <2> QED BY <2>3, <2>4, <2>7
<1> QED BY <1>3, <1>4, <1>6, <1>7, <1>8 DEF Sound
-----------------------------------------------------------------------------
(* What the clusters are good for: they keep the order of the latencies, the  *)
(* table of medians has the same clusters, and no sensitivity above all       *)
(* latencies leaves more than two.                                            *)

(* The median that stands for a larger latency is not smaller. *)
LEMMA MediansKeepOrder ==
  ASSUME NEW V \in SUBSET Nat, IsFiniteSet(V), V # {},
         NEW P, P = cdf_calc(V), NEW s, NEW c, c = Clusters(P, s),
         NEW v \in V, NEW w \in V, v <= w
  PROVE  /\ cdf_cluster_value_to_cluster_median(c, v) \in V
         /\ cdf_cluster_value_to_cluster_median(c, v) <= cdf_cluster_value_to_cluster_median(c, w)
<1> DEFINE n == Len(P)
           from == darray_sort(Starts(P, s))
           m == Len(from)
           to(j) == To(from, n, j)
<1>1. /\ n \in Nat \ {0} /\ \A a \in 1..n : P[a] \in Nat
      /\ \A a, b \in 1..n : a < b => P[a] < P[b]
      /\ ToSet(P) = V /\ DOMAIN P = 1..n
  BY PointsAre, LenProperties
<1>2. Starts(P, s) \in SUBSET (1..n) /\ 1 \in Starts(P, s)
  BY <1>1 DEF Starts
<1>3. /\ m \in Nat \ {0}
      /\ \A j \in 1..m : from[j] \in 1..n /\ to(j) \in 1..n /\ from[j] <= to(j)
      /\ \A a, b \in 1..m : a < b => to(a) < from[b]
      /\ \A i \in 1..n : \E k \in 1..m : from[k] <= i /\ i <= to(k)
  BY <1>1, <1>2, StartsCut
<1>4. DOMAIN c = 1..m /\ Len(c) = m
  BY <1>1, ClustersAre
<1>5. /\ \A a, b \in 1..m : a < b => c[a].median < c[b].median
      /\ \A a \in 1..m : c[a].median \in V
  <2>1. Sound(P, c)
    BY AnyClustersAreSound
  <2>2. \A a, b \in DOMAIN c : a < b => c[a].median < c[b].median
    BY <2>1, Zenon DEF Sound
  <2>3. ToSet([k \in DOMAIN c |-> c[k].median]) \subseteq V
    BY <1>1, <2>1, Zenon DEF Sound
  <2> QED BY <1>4, <2>2, <2>3 DEF ToSet
<1>6. PICK i \in 1..n, j \in 1..n : P[i] = v /\ P[j] = w
  BY <1>1 DEF ToSet
<1>7. PICK k \in 1..m, l \in 1..m : from[k] <= i /\ i <= to(k) /\ from[l] <= j /\ j <= to(l)
  BY <1>3
<1>8. /\ cdf_cluster_value_to_cluster_median(c, v) = c[k].median
      /\ cdf_cluster_value_to_cluster_median(c, w) = c[l].median
  BY <1>6, <1>7, InOneCluster, SMTT(40)
<1> HIDE DEF n, m, from, to
<1>9. ~ (j < i)
  BY <1>1, <1>6
<1>10. ~ (l < k)
  <2> SUFFICES ASSUME l < k PROVE FALSE
    OBVIOUS
  <2>1. to(l) < from[k] /\ to(l) \in 1..n /\ from[k] \in 1..n
    BY <1>3
  <2>2. j \in Int /\ i \in Int /\ to(l) \in Int /\ from[k] \in Int
    BY <1>1, <2>1
  <2> QED BY <1>7, <1>9, <2>1, <2>2
<1>11. k = l \/ k < l
  BY <1>3, <1>10
<1>12. /\ c[k].median \in V /\ c[l].median \in V
       /\ c[k].median \in Nat /\ c[l].median \in Nat
  BY <1>5
<1>13. c[k].median = c[l].median \/ c[k].median < c[l].median
  BY <1>5, <1>11
<1>14. c[k].median <= c[l].median
  BY <1>12, <1>13
<1> QED BY <1>8, <1>12, <1>14

(* The sorted array is the only way to list a set in order. *)
LEMMA OnlyOneOrder ==
  ASSUME NEW S \in SUBSET Int, NEW m \in Nat, NEW f \in [1..m -> S],
         \A j, k \in 1..m : j < k => f[j] < f[k],
         \A e \in S : \E k \in 1..m : f[k] = e
  PROVE  Len(darray_sort(S)) = m /\ \A k \in 1..m : darray_sort(S)[k] = f[k]
<1> DEFINE q == darray_sort(S)
<1>1. ASSUME NEW T \in SUBSET Int, NEW r \in Nat, r <= m,
             T = {f[k] : k \in 1..r}
      PROVE  IsFiniteSet(T) /\ Cardinality(T) = r
  <2> DEFINE g == [k \in 1..r |-> f[k]]
  <2>1. \A j, k \in 1..r : f[j] = f[k] => j = k
    <3> SUFFICES ASSUME NEW j \in 1..r, NEW k \in 1..r, f[j] = f[k] PROVE j = k
      OBVIOUS
    <3>1. j \in 1..m /\ k \in 1..m /\ f[j] \in Int
      BY <1>1
    <3>2. ~ (j < k) /\ ~ (k < j)
      BY <3>1
    <3> QED BY <3>1, <3>2
  <2>2. g \in Bijection(1..r, T)
    BY <1>1, <2>1 DEF Bijection, Injection, Surjection, IsInjective
  <2>3. ExistsBijection(1..r, T)
    BY <2>2 DEF ExistsBijection
  <2> QED BY <2>3, FS_CountingElements, FS_NatBijection
<1>2. S = {f[k] : k \in 1..m}
  OBVIOUS
<1>3. IsFiniteSet(S) /\ Cardinality(S) = m
  <2>1. m <= m
    OBVIOUS
  <2> QED BY <1>1, <1>2, <2>1, Zenon
<1>4. \A k \in 1..m : Cardinality(Below(S, f[k])) = k - 1
  <2> TAKE k \in 1..m
  <2>1. Below(S, f[k]) = {f[j] : j \in 1..(k - 1)}
    <3>1. ASSUME NEW e \in Below(S, f[k]) PROVE e \in {f[j] : j \in 1..(k - 1)}
      <4>1. PICK j \in 1..m : f[j] = e
        BY <3>1 DEF Below
      <4>2. f[j] < f[k] /\ f[j] \in Int /\ f[k] \in Int
        BY <3>1, <4>1 DEF Below
      <4>3. j # k /\ ~ (k < j)
        BY <4>2
      <4>4. j \in 1..(k - 1)
        BY <4>3
      <4> QED BY <4>1, <4>4
    <3>2. ASSUME NEW j \in 1..(k - 1) PROVE f[j] \in Below(S, f[k])
      <4>1. j \in 1..m /\ j < k
        OBVIOUS
      <4> QED BY <4>1 DEF Below
    <3> QED BY <3>1, <3>2
  <2>2. k - 1 \in Nat /\ k - 1 <= m
    OBVIOUS
  <2>3. Below(S, f[k]) \in SUBSET Int
    BY Zenon DEF Below
  <2> QED BY <1>1, <2>1, <2>2, <2>3
<1>5. /\ Len(q) = m
      /\ \A i \in 1..m : q[i] \in S /\ Cardinality(Below(S, q[i])) = i - 1
  BY <1>3, SortedArray
<1>6. ASSUME NEW k \in 1..m PROVE q[k] = f[k]
  <2> HIDE DEF q
  <2>0. q[k] \in S /\ f[k] \in S
    BY <1>5
  <2>1. /\ q[k] \in S /\ f[k] \in S /\ q[k] \in Int /\ f[k] \in Int
        /\ Cardinality(Below(S, q[k])) = Cardinality(Below(S, f[k]))
        /\ Cardinality(Below(S, q[k])) \in Int
    <3>1. Cardinality(Below(S, q[k])) = k - 1 /\ Cardinality(Below(S, f[k])) = k - 1
      BY <1>4, <1>5
    <3>2. q[k] \in Int /\ f[k] \in Int
      BY <2>0, Zenon
    <3>3. k - 1 \in Int
      OBVIOUS
    <3> QED BY <2>0, <3>1, <3>2, <3>3
  <2>2. ~ (q[k] < f[k])
    BY <1>3, <2>1, RankGrows
  <2>3. ~ (f[k] < q[k])
    BY <1>3, <2>1, RankGrows
  <2> QED BY <2>1, <2>2, <2>3
<1> QED BY <1>5, <1>6

(* The medians that stand for the latencies are those of the clusters. *)
LEMMA MediansAreValues ==
  ASSUME NEW V \in SUBSET Nat, IsFiniteSet(V), V # {},
         NEW P, P = cdf_calc(V), NEW s, NEW c, c = Clusters(P, s),
         NEW W,
         \A v \in V : cdf_cluster_value_to_cluster_median(c, v) \in W,
         \A e \in W : \E v \in V : e = cdf_cluster_value_to_cluster_median(c, v)
  PROVE  Len(darray_sort(W)) = Len(c) /\ \A k \in 1..Len(c) : darray_sort(W)[k] = c[k].median
<1> DEFINE n == Len(P)
           from == darray_sort(Starts(P, s))
           m == Len(from)
           to(j) == To(from, n, j)
           md(j) == MedianOf(from, n, j)
           f == [k \in 1..m |-> c[k].median]
<1>1. n \in Nat \ {0} /\ ToSet(P) = V /\ DOMAIN P = 1..n
  BY PointsAre, LenProperties
<1>2. Starts(P, s) \in SUBSET (1..n) /\ 1 \in Starts(P, s)
  BY <1>1 DEF Starts
<1>3. /\ m \in Nat \ {0}
      /\ \A j \in 1..m : from[j] \in 1..n /\ to(j) \in 1..n /\ from[j] <= to(j)
      /\ \A i \in 1..n : \E k \in 1..m : from[k] <= i /\ i <= to(k)
  BY <1>1, <1>2, StartsCut
<1>4. DOMAIN c = 1..m /\ Len(c) = m /\ \A j \in 1..m : c[j].median = P[md(j)]
  BY <1>1, ClustersAre
<1>5. \A j \in 1..m : md(j) \in 1..n /\ from[j] <= md(j) /\ md(j) <= to(j)
  <2> TAKE j \in 1..m
  <2>1. md(j) = from[j] + (to(j) - from[j] + 1) \div 2
    BY DEF MedianOf
  <2>2. /\ from[j] \in 1..n /\ to(j) \in 1..n /\ from[j] <= to(j)
        /\ from[j] \in Nat /\ to(j) \in Nat
    BY <1>3
  <2> HIDE DEF md, from, to
  <2>3. md(j) \in Nat /\ from[j] <= md(j) /\ md(j) <= to(j)
    BY <2>1, <2>2, MedianInside
  <2> QED BY <1>1, <2>2, <2>3
<1>6. \A a, b \in 1..m : a < b => f[a] < f[b]
  <2>1. Sound(P, c)
    BY AnyClustersAreSound
  <2>2. \A a, b \in DOMAIN c : a < b => c[a].median < c[b].median
    BY <2>1, Zenon DEF Sound
  <2> QED BY <1>4, <2>2
<1>7. \A k \in 1..m : f[k] \in W
  <2> TAKE k \in 1..m
  <2>1. P[md(k)] \in V
    BY <1>1, <1>5 DEF ToSet
  <2>2. cdf_cluster_value_to_cluster_median(c, P[md(k)]) = c[k].median
    BY <1>5, InOneCluster
  <2> QED BY <2>1, <2>2
<1>8. \A e \in W : \E k \in 1..m : f[k] = e
  <2> TAKE e \in W
  <2>0. PICK v \in V : e = cdf_cluster_value_to_cluster_median(c, v)
    OBVIOUS
  <2>1. PICK i \in 1..n : P[i] = v
    BY <1>1 DEF ToSet
  <2>2. PICK k \in 1..m : from[k] <= i /\ i <= to(k)
    BY <1>3
  <2>3. cdf_cluster_value_to_cluster_median(c, v) = c[k].median
    <3> HIDE DEF f
    <3> QED BY <2>1, <2>2, InOneCluster
  <2> QED BY <2>0, <2>3
<1>9. W \in SUBSET Int
  <2>1. \A v \in V : cdf_cluster_value_to_cluster_median(c, v) \in V
    <3> TAKE v \in V
    <3>1. v <= v
      OBVIOUS
    <3> QED BY <3>1, MediansKeepOrder
  <2>2. W \subseteq V
    BY <2>1
  <2> QED BY <2>2
<1>10. Len(darray_sort(W)) = m /\ \A k \in 1..m : darray_sort(W)[k] = f[k]
  <2> HIDE DEF f, m, n, from, to, md
  <2>1. m \in Nat
    BY <1>3
  <2>2. f \in [1..m -> W]
    BY <1>7, Zenon DEF f
  <2> QED BY <1>6, <1>8, <1>9, <2>1, <2>2, OnlyOneOrder
<1> QED BY <1>4, <1>10

(* With a sensitivity that no latency exceeds there are at most two clusters: *)
(* the 0 of the diagonal, and the rest.                                       *)
LEMMA CoarseClusters ==
  ASSUME NEW V \in SUBSET Nat, IsFiniteSet(V), V # {},
         NEW P, P = cdf_calc(V), NEW s \in Int, P[Len(P)] <= s
  PROVE  Len(Clusters(P, s)) <= 2
<1> DEFINE n == Len(P)
           S == Starts(P, s)
<1>1. /\ n \in Nat \ {0} /\ \A a \in 1..n : P[a] \in Nat
      /\ \A a, b \in 1..n : a < b => P[a] < P[b]
  BY PointsAre
<1>2. S \in SUBSET (1..n) /\ 1 \in S
  BY <1>1 DEF Starts
<1>3. S \subseteq 1..2
  <2> SUFFICES ASSUME NEW i \in S, i # 1 PROVE i = 2
    BY <1>1, <1>2
  <2>1. i \in 2..n /\ (P[i] > P[i - 1] + s \/ (P[i - 1] = 0 /\ P[i] > 0))
    BY DEF Starts
  <2>2. i \in 1..n /\ i - 1 \in 1..n /\ 1 \in 1..n /\ n \in 1..n
    BY <1>1, <2>1
  <2>3. P[i] <= P[n]
    <3>1. i = n \/ i < n
      BY <2>1, <1>1
    <3> QED BY <1>1, <2>2, <3>1
  <2> HIDE DEF n
  <2>4. P[i] \in Nat /\ P[i - 1] \in Nat /\ P[1] \in Nat /\ P[n] \in Nat /\ P[n] <= s
    BY <1>1, <2>2 DEF n
  <2>5. P[i - 1] = 0
    BY <2>1, <2>3, <2>4
  <2>6. ~ (1 < i - 1)
    BY <1>1, <2>2, <2>4, <2>5
  <2> QED BY <2>1, <2>6
<1>4. IsFiniteSet(1..2) /\ Cardinality(1..2) = 2
  <2>1. PICK a \in Int, b \in Int : a = 1 /\ b = 2
    OBVIOUS
  <2>2. IsFiniteSet(a..b) /\ Cardinality(a..b) = IF a > b THEN 0 ELSE b - a + 1
    BY FS_Interval
  <2> QED BY <2>1, <2>2
<1>5. IsFiniteSet(S) /\ Cardinality(S) <= 2
  BY <1>3, <1>4, FS_Subset
<1>6. Len(darray_sort(S)) = Cardinality(S)
  <2> HIDE DEF S
  <2>1. S \in SUBSET Int
    BY <1>2
  <2> QED BY <1>5, <2>1, SortedArray
<1>7. Len(Clusters(P, s)) = Len(darray_sort(S))
  BY <1>1, ClustersAre
<1> QED BY <1>5, <1>6, <1>7
-----------------------------------------------------------------------------
(* All latencies measured. *)
Values == UNION {{machine.lat[x][y] : y \in Hwcs} : x \in Hwcs}

(* The clusters are found once, of all the latencies measured. *)
SearchOnce ==
  /\ machine \in Machines /\ settings \in Settings
  /\ pc \in {"calc", "cluster"} => cc = << >>
  /\ pc = "cluster" => points = cdf_calc(Values)

IInv == SearchOnce /\ ClustersAreSound

(* The latencies are finitely many numbers. *)
LEMMA ValuesAre ==
  ASSUME machine \in Machines
  PROVE  Values \in SUBSET Nat /\ IsFiniteSet(Values) /\ Values # {}
<1>1. N \in Nat \ {0} /\ \A x, y \in Hwcs : machine.lat[x][y] \in Nat
  BY MachinesAssumption DEF N, Hwcs
<1>2. IsFiniteSet(Hwcs) /\ 0 \in Hwcs
  BY <1>1, FS_Interval DEF Hwcs
<1>3. Values = {machine.lat[p[1]][p[2]] : p \in Hwcs \X Hwcs}
  <2>1. Values \subseteq {machine.lat[p[1]][p[2]] : p \in Hwcs \X Hwcs}
    <3> SUFFICES ASSUME NEW v \in Values
                 PROVE  \E p \in Hwcs \X Hwcs : v = machine.lat[p[1]][p[2]]
      OBVIOUS
    <3>1. PICK x \in Hwcs, y \in Hwcs : v = machine.lat[x][y]
      BY DEF Values
    <3>2. <<x, y>> \in Hwcs \X Hwcs /\ <<x, y>>[1] = x /\ <<x, y>>[2] = y
      OBVIOUS
    <3> QED BY <3>1, <3>2
  <2>2. {machine.lat[p[1]][p[2]] : p \in Hwcs \X Hwcs} \subseteq Values
    BY DEF Values
  <2> QED BY <2>1, <2>2
<1>4. IsFiniteSet(Hwcs \X Hwcs)
  BY <1>2, FS_Product
<1> DEFINE L == [p \in Hwcs \X Hwcs |-> machine.lat[p[1]][p[2]]]
<1>5. L \in Surjection(Hwcs \X Hwcs, Values)
  <2>1. L \in [Hwcs \X Hwcs -> Values]
    BY <1>3
  <2>2. \A v \in Values : \E p \in Hwcs \X Hwcs : L[p] = v
    BY <1>3
  <2> QED BY <2>1, <2>2 DEF Surjection
<1>6. IsFiniteSet(Values)
  BY <1>4, <1>5, FS_Surjection
<1>7. Values \in SUBSET Nat
  BY <1>1 DEF Values
<1>8. Values # {}
  <2>1. machine.lat[0][0] \in Values
    BY <1>2 DEF Values
  <2> QED BY <2>1
<1> QED BY <1>6, <1>7, <1>8

(* The property is about points, clusters and settings only. *)
SoundIfFound(P, c, o) ==
  c # << >> => Sound(P, c) /\ (o.hint # 0 => Len(c) = o.hint)

(* The property, in both states, in terms of what it is about. *)
LEMMA SoundMeans ==
  /\ ClustersAreSound <=> SoundIfFound(points, cc, settings)
  /\ ClustersAreSound' <=> SoundIfFound(points', cc', settings')
<1>1. ClustersAreSound <=> SoundIfFound(points, cc, settings)
  BY Zenon DEF ClustersAreSound, Sound, SoundIfFound
<1>2. ClustersAreSound' <=> SoundIfFound(points', cc', settings')
  BY Zenon DEF ClustersAreSound, Sound, SoundIfFound, Quantify, ToSet,
               cdf_cluster_value_to_cluster_median, SelectInSeq
<1> QED BY <1>1, <1>2

(* The invariant holds when crawl is through. *)
LEMMA SoundAtInit ==
  ASSUME Init
  PROVE  IInv
BY DEF Init, IInv, SearchOnce, ClustersAreSound

(* A stage after the search leaves points and clusters alone. *)
LEMMA StageKeeps ==
  ASSUME IInv, UNCHANGED <<machine, settings, points, cc>>,
         pc' \notin {"calc", "cluster"} \/ pc' = pc
  PROVE  IInv'
<1>1. SearchOnce'
  BY DEF IInv, SearchOnce, Values, N, Hwcs
<1>2. ClustersAreSound'
  BY SoundMeans DEF IInv
<1> QED BY <1>1, <1>2 DEF IInv

(* One pass of the search: whatever the sensitivity, its clusters are sound. *)
LEMMA ClusterKeeps ==
  ASSUME IInv, Cluster
  PROVE  IInv'
<1> DEFINE found == Clusters(points, sens)
           d == settings.hint - Len(found)
<1>1. /\ pc = "cluster" /\ points = cdf_calc(Values) /\ cc = << >> /\ machine \in Machines
      /\ UNCHANGED <<machine, settings, points>>
  BY DEF Cluster, IInv, SearchOnce
<1>2. Values' = Values
  BY <1>1 DEF Values, N, Hwcs
<1>3. CASE cc' = found /\ pc' = "describe" /\ (settings.hint = 0 \/ d = 0)
  <2>1. Sound(points, found) /\ Len(found) \in Nat
    BY <1>1, ValuesAre, AnyClustersAreSound
  <2>2. settings.hint # 0 => Len(found) = settings.hint
    <3>1. settings.hint \in Nat
      BY SettingsAssumption DEF IInv, SearchOnce
    <3> QED BY <1>3, <2>1, <3>1
  <2> HIDE DEF found
  <2>3. ClustersAreSound'
    BY <1>1, <1>3, <2>1, <2>2, SoundMeans DEF SoundIfFound
  <2>4. SearchOnce'
    BY <1>1, <1>3 DEF IInv, SearchOnce
  <2> QED BY <2>3, <2>4 DEF IInv
<1>4. CASE cc' = cc
  <2>1. ClustersAreSound'
    BY <1>1, <1>4 DEF ClustersAreSound
  <2> QED BY <1>1, <1>2, <1>4, <2>1 DEF IInv, SearchOnce
<1> QED BY <1>3, <1>4 DEF Cluster

(* No step of the driver leaves the invariant: only the search writes the clusters. *)
LEMMA NextKeeps ==
  ASSUME IInv, [Next]_vars
  PROVE  IInv'
<1>1. CASE UNCHANGED vars
  BY <1>1, StageKeeps DEF vars
<1>2. CASE Points
  <2>1. Values' = Values /\ pc' = "cluster" /\ cc' = cc /\ cc = << >> /\ machine' = machine
    BY <1>2 DEF Points, Values, N, Hwcs, IInv, SearchOnce
  <2>2. points' = cdf_calc(Values)
    BY <1>2 DEF Points, Values
  <2>3. ClustersAreSound'
    BY <2>1 DEF ClustersAreSound
  <2>4. settings \in Settings /\ settings' = settings /\ machine \in Machines
    BY <1>2 DEF Points, IInv, SearchOnce
  <2> QED BY <2>1, <2>2, <2>3, <2>4 DEF IInv, SearchOnce
<1>3. CASE Cluster
  BY <1>3, ClusterKeeps
<1>4. CASE Describe \/ MemLatencies \/ MemLatenciesKnown
  BY <1>4, StageKeeps DEF Describe, MemLatencies, MemLatenciesKnown
<1>5. CASE Bandwidth \/ PrintWritten \/ BandwidthKnown \/ Free
  BY <1>5, StageKeeps DEF Bandwidth, PrintWritten, BandwidthKnown, Free
<1>6. CASE Construct
  <2>1. pc' \notin {"calc", "cluster"}
    BY <1>6 DEF Construct, After
  <2> QED BY <1>6, <2>1, StageKeeps DEF Construct
<1>7. CASE mctop_load
  <2>1. pc' \notin {"calc", "cluster"}
    BY <1>7 DEF mctop_load, After
  <2> QED BY <1>7, <2>1, StageKeeps DEF mctop_load
<1>8. CASE Kill
  BY <1>8, StageKeeps DEF Kill
<1>9. CASE Augment
  BY <1>9 DEF Augment, IInv, SearchOnce, ClustersAreSound
<1> QED BY <1>1, <1>2, <1>3, <1>4, <1>5, <1>6, <1>7, <1>8, <1>9 DEF Next, Work

(* The clusters are found once, and are sound: the inductive invariant. *)
THEOREM ClusterInvariant == Spec => []IInv
BY SoundAtInit, NextKeeps, PTL DEF Spec

(* Every measured latency lies in exactly one cluster, the medians are        *)
(* measured values in increasing order, and only 0 is normalised to 0, for    *)
(* any latencies, any sensitivity the search may come to, and any hint        *)
(* (cdf_cluster of cdf.c).                                                    *)
THEOREM SearchFindsClusters == Spec => []ClustersAreSound
<1>1. IInv => ClustersAreSound
  BY DEF IInv
<1> QED BY <1>1, ClusterInvariant, PTL
-----------------------------------------------------------------------------
(* The description file, whatever stages the process was killed between.      *)
MemKinds == {"Mem_latencies", "Mem_bw-READ", "Mem_bw1-READ", "Mem_bw-WRITE", "Mem_bw1-WRITE"}
HasKind(f, kind) == \E i \in DOMAIN f : f[i].kind = kind

(* The first section is the latency table, and only that one is.  Bandwidths  *)
(* are there in pairs, what was written only with what was read.              *)
Sections(f, table) ==
  /\ \E S : f \in Seq(S)
  /\ f # << >> => f[1].kind = "lat" /\ f[1].data = table
  /\ \A i \in DOMAIN f : i # 1 => f[i].kind \in MemKinds
  /\ HasKind(f, "Mem_bw-READ") <=> HasKind(f, "Mem_bw1-READ")
  /\ HasKind(f, "Mem_bw-WRITE") <=> HasKind(f, "Mem_bw1-WRITE")
  /\ HasKind(f, "Mem_bw-WRITE") => HasKind(f, "Mem_bw-READ")

(* The latencies, each replaced by the median of its cluster. *)
NormalizedLatencies == Normalized(machine.lat, Clusters(points, sens))

FileInv ==
  /\ Sections(file, NormalizedLatencies)
  /\ file # << >> => points = cdf_calc(Values)
  /\ pc \in {"calc", "cluster", "describe"} => file = << >>
  /\ pc \in {"construct", "mem_lat", "bandwidth", "bandwidth written", "free", "done"} =>
       file # << >>
  /\ pc \in {"cluster", "describe"} => points = cdf_calc(Values)
  /\ pc = "describe" => cc = Clusters(points, sens)
  /\ pc = "bandwidth written" => HasKind(file, "Mem_bw-READ")

(* What a sequence of sections is after more of them were appended. *)
LEMMA Appended ==
  ASSUME NEW S, NEW T, NEW f \in Seq(S), NEW g \in Seq(T)
  PROVE  /\ f \o g \in Seq(S \cup T)
         /\ Len(f) \in Nat /\ Len(g) \in Nat
         /\ DOMAIN f = 1..Len(f) /\ DOMAIN g = 1..Len(g)
         /\ DOMAIN (f \o g) = 1..(Len(f) + Len(g))
         /\ \A i \in 1..Len(f) : (f \o g)[i] = f[i]
         /\ \A i \in 1..Len(g) : (f \o g)[Len(f) + i] = g[i]
         /\ \A kind : HasKind(f \o g, kind) <=> HasKind(f, kind) \/ HasKind(g, kind)
<1> DEFINE h == f \o g
<1>1. f \in Seq(S \cup T) /\ g \in Seq(S \cup T)
  <2>1. S \subseteq S \cup T /\ T \subseteq S \cup T
    OBVIOUS
  <2> QED BY <2>1, SeqMonotonic
<1>2. /\ h \in Seq(S \cup T)
      /\ Len(h) = Len(f) + Len(g)
      /\ \A i \in 1..(Len(f) + Len(g)) : h[i] = IF i <= Len(f) THEN f[i] ELSE g[i - Len(f)]
  BY <1>1, ConcatProperties
<1>3. /\ Len(f) \in Nat /\ Len(g) \in Nat
      /\ DOMAIN f = 1..Len(f) /\ DOMAIN g = 1..Len(g) /\ DOMAIN h = 1..(Len(f) + Len(g))
  BY <1>2, LenProperties
<1> HIDE DEF h
<1>4. \A i \in 1..Len(f) : h[i] = f[i]
  <2> TAKE i \in 1..Len(f)
  <2>1. i \in 1..(Len(f) + Len(g)) /\ i <= Len(f)
    BY <1>3
  <2> QED BY <1>2, <2>1
<1>5. \A i \in 1..Len(g) : h[Len(f) + i] = g[i]
  <2> TAKE i \in 1..Len(g)
  <2>1. /\ Len(f) + i \in 1..(Len(f) + Len(g)) /\ ~ (Len(f) + i <= Len(f))
        /\ (Len(f) + i) - Len(f) = i
    BY <1>3
  <2> QED BY <1>2, <2>1
<1>6. \A kind : HasKind(h, kind) <=> HasKind(f, kind) \/ HasKind(g, kind)
  <2> TAKE kind
  <2>1. ASSUME HasKind(h, kind) PROVE HasKind(f, kind) \/ HasKind(g, kind)
    <3>1. PICK i \in 1..(Len(f) + Len(g)) : h[i].kind = kind
      BY <1>3, <2>1 DEF HasKind
    <3>2. CASE i <= Len(f)
      <4>1. i \in 1..Len(f)
        BY <1>3, <3>2
      <4> QED BY <1>3, <1>4, <3>1, <4>1 DEF HasKind
    <3>3. CASE ~ (i <= Len(f))
      <4>1. i - Len(f) \in 1..Len(g) /\ Len(f) + (i - Len(f)) = i
        BY <1>3, <3>3
      <4>2. h[i] = g[i - Len(f)]
        BY <1>5, <4>1
      <4> QED BY <1>3, <3>1, <4>1, <4>2 DEF HasKind
    <3> QED BY <3>2, <3>3
  <2>2. ASSUME HasKind(f, kind) PROVE HasKind(h, kind)
    <3>1. PICK i \in 1..Len(f) : f[i].kind = kind
      BY <1>3, <2>2 DEF HasKind
    <3>2. i \in 1..(Len(f) + Len(g)) /\ h[i] = f[i]
      BY <1>3, <1>4
    <3> QED BY <1>3, <3>1, <3>2 DEF HasKind
  <2>3. ASSUME HasKind(g, kind) PROVE HasKind(h, kind)
    <3>1. PICK i \in 1..Len(g) : g[i].kind = kind
      BY <1>3, <2>3 DEF HasKind
    <3>2. Len(f) + i \in 1..(Len(f) + Len(g)) /\ h[Len(f) + i] = g[i]
      BY <1>3, <1>5
    <3> QED BY <1>3, <3>1, <3>2 DEF HasKind
  <2> QED BY <2>1, <2>2, <2>3
<1> QED BY <1>2, <1>3, <1>4, <1>5, <1>6 DEF h

(* A file stays in order when sections of memory are appended to it. *)
LEMMA SectionsAppended ==
  ASSUME NEW f, NEW table, Sections(f, table), f # << >>,
         NEW T, NEW g \in Seq(T),
         \A i \in 1..Len(g) : g[i].kind \in MemKinds,
         HasKind(g, "Mem_bw-READ") <=> HasKind(g, "Mem_bw1-READ"),
         HasKind(g, "Mem_bw-WRITE") <=> HasKind(g, "Mem_bw1-WRITE"),
         HasKind(g, "Mem_bw-WRITE") => HasKind(f, "Mem_bw-READ")
  PROVE  Sections(f \o g, table) /\ f \o g # << >>
<1>1. PICK S : f \in Seq(S)
  BY DEF Sections
<1> DEFINE h == f \o g
<1>2. /\ h \in Seq(S \cup T)
      /\ Len(f) \in Nat /\ Len(g) \in Nat
      /\ DOMAIN f = 1..Len(f) /\ DOMAIN g = 1..Len(g) /\ DOMAIN h = 1..(Len(f) + Len(g))
      /\ \A i \in 1..Len(f) : h[i] = f[i]
      /\ \A i \in 1..Len(g) : h[Len(f) + i] = g[i]
  BY <1>1, Appended, SMTT(30)
<1>a. \A kind : HasKind(h, kind) <=> HasKind(f, kind) \/ HasKind(g, kind)
  BY <1>1, Appended, ZenonT(30)
<1> HIDE DEF h
<1>3. 1 \in 1..Len(f) /\ 1 \in DOMAIN h
  <2>1. Len(f) # 0
    BY <1>1, EmptySeq
  <2> QED BY <1>2, <2>1
<1>4. h # << >>
  BY <1>3
<1>5. h[1].kind = "lat" /\ h[1].data = table
  BY <1>2, <1>3 DEF Sections
<1>6. \A i \in DOMAIN h : i # 1 => h[i].kind \in MemKinds
  <2> SUFFICES ASSUME NEW i \in 1..(Len(f) + Len(g)), i # 1
               PROVE  h[i].kind \in MemKinds
    BY <1>2
  <2>1. CASE i <= Len(f)
    <3>1. i \in 1..Len(f)
      BY <1>2, <2>1
    <3> QED BY <1>2, <3>1 DEF Sections
  <2>2. CASE ~ (i <= Len(f))
    <3>1. i - Len(f) \in 1..Len(g) /\ Len(f) + (i - Len(f)) = i
      BY <1>2, <2>2
    <3>2. h[i] = g[i - Len(f)]
      BY <1>2, <3>1
    <3> QED BY <3>1, <3>2
  <2> QED BY <2>1, <2>2
<1>7. /\ HasKind(h, "Mem_bw-READ") <=> HasKind(h, "Mem_bw1-READ")
      /\ HasKind(h, "Mem_bw-WRITE") <=> HasKind(h, "Mem_bw1-WRITE")
      /\ HasKind(h, "Mem_bw-WRITE") => HasKind(h, "Mem_bw-READ")
  BY <1>a DEF Sections
<1>8. Sections(h, table)
  BY <1>2, <1>5, <1>6, <1>7 DEF Sections
<1> QED BY <1>4, <1>8 DEF h

(* A file of one section, the latencies. *)
LEMMA FirstSection ==
  ASSUME NEW e, e.kind = "lat", NEW table, e.data = table
  PROVE  Sections(<<e>>, table) /\ <<e>> # << >>
<1> DEFINE f == <<e>>
<1>1. f \in Seq({e}) /\ DOMAIN f = 1..1 /\ f[1] = e
  OBVIOUS
<1>2. f # << >>
  OBVIOUS
<1>3. \A i \in DOMAIN f : i = 1
  BY <1>1
<1> HIDE DEF f
<1>4. \A kind \in MemKinds : ~ HasKind(f, kind)
  BY <1>1, <1>3 DEF HasKind, MemKinds
<1>5. Sections(f, table)
  BY <1>1, <1>3, <1>4 DEF Sections, MemKinds
<1> QED BY <1>2, <1>5 DEF f

(* The kinds of one section, or of two, that are appended together. *)
LEMMA KindsOfOne ==
  ASSUME NEW a
  PROVE  /\ <<a>> \in Seq({a}) /\ \A i \in 1..Len(<<a>>) : <<a>>[i] = a
         /\ \A kind : HasKind(<<a>>, kind) <=> a.kind = kind
<1> DEFINE g == <<a>>
<1>1. g \in Seq({a}) /\ Len(g) = 1 /\ DOMAIN g = 1..1 /\ g[1] = a
  OBVIOUS
<1> HIDE DEF g
<1>2. 1 \in DOMAIN g /\ \A i \in DOMAIN g : g[i] = a
  BY <1>1
<1>3. \A i \in 1..Len(g) : g[i] = a
  BY <1>1, <1>2
<1>4. \A kind : HasKind(g, kind) <=> a.kind = kind
  BY <1>2, Zenon DEF HasKind
<1> QED BY <1>1, <1>3, <1>4 DEF g

LEMMA KindsOfTwo ==
  ASSUME NEW a, NEW b
  PROVE  /\ <<a, b>> \in Seq({a, b})
         /\ \A i \in 1..Len(<<a, b>>) : <<a, b>>[i] \in {a, b}
         /\ \A kind : HasKind(<<a, b>>, kind) <=> a.kind = kind \/ b.kind = kind
<1> DEFINE g == <<a, b>>
<1>1. g \in Seq({a, b}) /\ Len(g) = 2 /\ DOMAIN g = 1..2 /\ g[1] = a /\ g[2] = b
  OBVIOUS
<1> HIDE DEF g
<1>2. 1 \in DOMAIN g /\ 2 \in DOMAIN g /\ \A i \in DOMAIN g : g[i] = a \/ g[i] = b
  BY <1>1
<1>3. \A i \in 1..Len(g) : g[i] \in {a, b}
  BY <1>1, <1>2
<1>4. \A kind : HasKind(g, kind) <=> a.kind = kind \/ b.kind = kind
  <2> TAKE kind
  <2>1. ASSUME HasKind(g, kind) PROVE a.kind = kind \/ b.kind = kind
    BY <1>2, <2>1 DEF HasKind
  <2>2. ASSUME a.kind = kind PROVE HasKind(g, kind)
    <3>1. g[1].kind = kind
      BY <1>1, <2>2
    <3> QED BY <1>2, <3>1 DEF HasKind
  <2>3. ASSUME b.kind = kind PROVE HasKind(g, kind)
    <3>1. g[2].kind = kind
      BY <1>1, <2>3
    <3> QED BY <1>2, <3>1 DEF HasKind
  <2> QED BY <2>1, <2>2, <2>3
<1> QED BY <1>1, <1>3, <1>4 DEF g

(* An empty file is in order. *)
LEMMA NoSections ==
  ASSUME NEW table
  PROVE  Sections(<< >>, table)
<1>1. << >> \in Seq({}) /\ DOMAIN << >> = {}
  OBVIOUS
<1> QED BY <1>1 DEF Sections, HasKind

(* What the file is compared with changes with the search only. *)
LEMMA SameTables ==
  ASSUME UNCHANGED <<machine, points, sens>>
  PROVE  NormalizedLatencies' = NormalizedLatencies /\ Values' = Values
<1>1. Starts(points, sens)' = Starts(points, sens)
  BY DEF Starts
<1>2. Clusters(points, sens)' = Clusters(points, sens)
  BY <1>1 DEF Clusters, darray_sort
<1>3. NormalizedLatencies' = NormalizedLatencies
  BY <1>2 DEF NormalizedLatencies, Normalized, cdf_cluster_value_to_cluster_median, SelectInSeq
<1>4. Values' = Values
  BY DEF Values, N, Hwcs
<1> QED BY <1>3, <1>4

(* A stage behind the search that writes nothing. *)
LEMMA FileStays ==
  ASSUME FileInv, UNCHANGED <<machine, points, sens, file>>,
         pc' \notin {"calc", "cluster", "describe", "bandwidth written"},
         file # << >> \/ pc' \notin {"construct", "mem_lat", "bandwidth", "free", "done"}
  PROVE  FileInv'
<1>1. NormalizedLatencies' = NormalizedLatencies /\ Values' = Values
  BY SameTables
<1>2. Sections(file, NormalizedLatencies)'
  BY <1>1 DEF FileInv, Sections, HasKind
<1> QED BY <1>1, <1>2 DEF FileInv

(* A stage that appends sections of memory. *)
LEMMA FileGrowsBy ==
  ASSUME FileInv, file # << >>, UNCHANGED <<machine, points, sens>>,
         NEW T, NEW g \in Seq(T), file' = file \o g,
         \A i \in 1..Len(g) : g[i].kind \in MemKinds,
         HasKind(g, "Mem_bw-READ") <=> HasKind(g, "Mem_bw1-READ"),
         HasKind(g, "Mem_bw-WRITE") <=> HasKind(g, "Mem_bw1-WRITE"),
         HasKind(g, "Mem_bw-WRITE") => HasKind(file, "Mem_bw-READ"),
         pc' \in {"bandwidth", "bandwidth written", "free"},
         pc' = "bandwidth written" => HasKind(g, "Mem_bw-READ")
  PROVE  FileInv'
<1>1. NormalizedLatencies' = NormalizedLatencies /\ Values' = Values
  BY SameTables
<1>2. Sections(file, NormalizedLatencies)
  BY DEF FileInv
<1>3. Sections(file \o g, NormalizedLatencies) /\ file \o g # << >>
  BY <1>2, SectionsAppended
<1>4. Sections(file', NormalizedLatencies') /\ file' # << >>
  BY <1>1, <1>3
<1>5. HasKind(g, "Mem_bw-READ") => HasKind(file', "Mem_bw-READ")
  <2>1. PICK S : file \in Seq(S)
    BY <1>2 DEF Sections
  <2>2. \A kind : HasKind(file \o g, kind) <=> HasKind(file, kind) \/ HasKind(g, kind)
    BY <2>1, Appended, ZenonT(30)
  <2> QED BY <2>2
<1>6. points' = cdf_calc(Values')
  BY <1>1 DEF FileInv
<1>7. HasKind(file, "Mem_bw-READ")' = HasKind(file', "Mem_bw-READ")
  BY DEF HasKind
<1>8. Sections(file, NormalizedLatencies)' = Sections(file', NormalizedLatencies')
  BY DEF Sections, HasKind
<1> QED BY <1>4, <1>5, <1>6, <1>7, <1>8 DEF FileInv

(* The stages up to the first section. *)
LEMMA FileBegins ==
  ASSUME FileInv, Points \/ Cluster \/ Describe
  PROVE  FileInv'
<1>1. CASE Points
  <2>1. Values' = Values /\ file = << >> /\ file' = << >> /\ pc' = "cluster"
    BY <1>1 DEF Points, FileInv, Values, N, Hwcs
  <2>2. points' = cdf_calc(Values)
    BY <1>1 DEF Points, Values
  <2>3. Sections(file, NormalizedLatencies)'
    BY <2>1, NoSections DEF Sections, HasKind
  <2> QED BY <2>1, <2>2, <2>3 DEF FileInv
<1>2. CASE Cluster
  <2>1. /\ pc = "cluster" /\ file = << >> /\ file' = << >>
        /\ UNCHANGED <<machine, points>> /\ points = cdf_calc(Values)
        /\ pc' \in {"cluster", "describe", "gave up"}
        /\ pc' = "describe" => cc' = Clusters(points, sens) /\ sens' = sens
    BY <1>2 DEF Cluster, FileInv
  <2>2. Values' = Values
    <3>1. machine' = machine
      BY <2>1
    <3> QED BY <3>1 DEF Values, N, Hwcs
  <2>3. Sections(file, NormalizedLatencies)'
    BY <2>1, NoSections DEF Sections, HasKind
  <2>4. ASSUME pc' = "describe" PROVE cc' = Clusters(points, sens)'
    <3>1. points' = points /\ sens' = sens
      BY <2>1, <2>4
    <3>2. Clusters(points, sens)' = Clusters(points, sens)
      BY <3>1 DEF Clusters, Starts, darray_sort
    <3> QED BY <2>1, <2>4, <3>2
  <2> QED BY <2>1, <2>2, <2>3, <2>4 DEF FileInv
<1>3. CASE Describe
  <2> DEFINE e == [kind |-> "lat", is_smt |-> IsSmtCpu, data |-> Norm]
  <2>1. /\ pc = "describe" /\ file' = <<e>> /\ pc' = "construct"
        /\ UNCHANGED <<machine, points, sens>>
        /\ points = cdf_calc(Values) /\ cc = Clusters(points, sens)
    BY <1>3 DEF Describe, FileInv
  <2>2. NormalizedLatencies' = NormalizedLatencies /\ Values' = Values
    BY <2>1, SameTables
  <2>3. e.kind = "lat" /\ e.data = NormalizedLatencies
    BY <2>1 DEF NormalizedLatencies, Norm
  <2> HIDE DEF e
  <2>4. Sections(<<e>>, NormalizedLatencies) /\ <<e>> # << >>
    BY <2>3, FirstSection
  <2>5. Sections(file', NormalizedLatencies') /\ file' # << >>
    BY <2>1, <2>2, <2>4
  <2>6. Sections(file, NormalizedLatencies)' = Sections(file', NormalizedLatencies')
    BY DEF Sections, HasKind
  <2> QED BY <2>1, <2>2, <2>5, <2>6 DEF FileInv
<1> QED BY <1>1, <1>2, <1>3

(* The stages that append what was measured of the memory. *)
LEMMA FileGoesOn ==
  ASSUME FileInv, MemLatencies \/ MemLatenciesKnown \/ Bandwidth \/ PrintWritten
  PROVE  FileInv'
<1>0. PICK S : file \in Seq(S)
  BY DEF FileInv, Sections
<1>1. ASSUME NEW d, file' = Append(file, [kind |-> "Mem_latencies", data |-> d]),
             pc = "mem_lat", pc' = "bandwidth", UNCHANGED <<machine, points, sens>>
      PROVE  FileInv'
  <2> DEFINE e == [kind |-> "Mem_latencies", data |-> d]
  <2>1. e.kind = "Mem_latencies"
    OBVIOUS
  <2>2. file' = Append(file, e)
    BY <1>1
  <2> HIDE DEF e
  <2>3. Append(file, e) = file \o <<e>>
    <3>1. file \in Seq(S \cup {e})
      BY <1>0, SeqMonotonic
    <3> QED BY <3>1, AppendIsConcat
  <2>4. /\ <<e>> \in Seq({e}) /\ \A i \in 1..Len(<<e>>) : <<e>>[i] = e
        /\ \A kind : HasKind(<<e>>, kind) <=> e.kind = kind
    BY KindsOfOne
  <2>5. \A i \in 1..Len(<<e>>) : <<e>>[i].kind \in MemKinds
    BY <2>1, <2>4 DEF MemKinds
  <2>6. /\ ~ HasKind(<<e>>, "Mem_bw-READ") /\ ~ HasKind(<<e>>, "Mem_bw1-READ")
        /\ ~ HasKind(<<e>>, "Mem_bw-WRITE") /\ ~ HasKind(<<e>>, "Mem_bw1-WRITE")
    BY <2>1, <2>4
  <2>7. file # << >>
    BY <1>1 DEF FileInv
  <2> QED BY <1>1, <2>2, <2>3, <2>4, <2>5, <2>6, <2>7, FileGrowsBy
<1>2. CASE MemLatencies
  BY <1>1, <1>2 DEF MemLatencies
<1>3. CASE MemLatenciesKnown
  <2>1. /\ pc = "mem_lat" /\ pc' = "bandwidth" /\ UNCHANGED <<machine, points, sens>>
        /\ file # << >>
        /\ \/ file' = file
           \/ file' = Append(file, [kind |-> "Mem_latencies", data |-> mem_lat_table])
    BY <1>3 DEF MemLatenciesKnown, FileInv
  <2> QED BY <1>1, <2>1, FileStays
<1>4. CASE Bandwidth
  <2> DEFINE a == [kind |-> "Mem_bw-READ", data |-> Bw(machine.bw)]
             b == [kind |-> "Mem_bw1-READ", data |-> Bw(machine.bw1)]
  <2>1. /\ file' = file \o <<a, b>> /\ file # << >> /\ pc' = "bandwidth written"
        /\ UNCHANGED <<machine, points, sens>>
    BY <1>4 DEF Bandwidth, FileInv
  <2>2. a.kind = "Mem_bw-READ" /\ b.kind = "Mem_bw1-READ"
    OBVIOUS
  <2> HIDE DEF a, b
  <2>3. /\ <<a, b>> \in Seq({a, b})
        /\ \A i \in 1..Len(<<a, b>>) : <<a, b>>[i] \in {a, b}
        /\ \A kind : HasKind(<<a, b>>, kind) <=> a.kind = kind \/ b.kind = kind
    BY KindsOfTwo
  <2>4. \A i \in 1..Len(<<a, b>>) : <<a, b>>[i].kind \in MemKinds
    BY <2>2, <2>3 DEF MemKinds
  <2>5. /\ HasKind(<<a, b>>, "Mem_bw-READ") /\ HasKind(<<a, b>>, "Mem_bw1-READ")
        /\ ~ HasKind(<<a, b>>, "Mem_bw-WRITE") /\ ~ HasKind(<<a, b>>, "Mem_bw1-WRITE")
    BY <2>2, <2>3
  <2> QED BY <2>1, <2>3, <2>4, <2>5, FileGrowsBy
<1>5. CASE PrintWritten
  <2> DEFINE a == [kind |-> "Mem_bw-WRITE", data |-> Bw(machine.bw)]
             b == [kind |-> "Mem_bw1-WRITE", data |-> Bw(machine.bw1)]
  <2>1. /\ file' = file \o <<a, b>> /\ file # << >> /\ pc' = "free"
        /\ UNCHANGED <<machine, points, sens>> /\ HasKind(file, "Mem_bw-READ")
    BY <1>5 DEF PrintWritten, FileInv
  <2>2. a.kind = "Mem_bw-WRITE" /\ b.kind = "Mem_bw1-WRITE"
    OBVIOUS
  <2> HIDE DEF a, b
  <2>3. /\ <<a, b>> \in Seq({a, b})
        /\ \A i \in 1..Len(<<a, b>>) : <<a, b>>[i] \in {a, b}
        /\ \A kind : HasKind(<<a, b>>, kind) <=> a.kind = kind \/ b.kind = kind
    BY KindsOfTwo
  <2>4. \A i \in 1..Len(<<a, b>>) : <<a, b>>[i].kind \in MemKinds
    BY <2>2, <2>3 DEF MemKinds
  <2>5. /\ HasKind(<<a, b>>, "Mem_bw-WRITE") /\ HasKind(<<a, b>>, "Mem_bw1-WRITE")
        /\ ~ HasKind(<<a, b>>, "Mem_bw-READ") /\ ~ HasKind(<<a, b>>, "Mem_bw1-READ")
    BY <2>2, <2>3
  <2> QED BY <2>1, <2>3, <2>4, <2>5, FileGrowsBy
<1> QED BY <1>2, <1>3, <1>4, <1>5

(* No step, a kill or a new run included, leaves the invariant of the file. *)
LEMMA FileNextKeeps ==
  ASSUME FileInv, [Next]_vars
  PROVE  FileInv'
<1>1. CASE UNCHANGED vars
  <2>1. NormalizedLatencies' = NormalizedLatencies /\ Values' = Values
    BY <1>1, SameTables DEF vars
  <2>2. Sections(file, NormalizedLatencies)' = Sections(file', NormalizedLatencies')
    BY DEF Sections, HasKind
  <2>3. HasKind(file, "Mem_bw-READ")' = HasKind(file', "Mem_bw-READ")
    BY DEF HasKind
  <2>4. Clusters(points, sens)' = Clusters(points, sens)
    BY <1>1 DEF vars, Clusters, Starts, darray_sort
  <2>5. UNCHANGED <<pc, cc, points, file>>
    BY <1>1 DEF vars
  <2> QED BY <2>1, <2>2, <2>3, <2>4, <2>5 DEF FileInv
<1>2. CASE Points \/ Cluster \/ Describe
  BY <1>2, FileBegins
<1>3. CASE MemLatencies \/ MemLatenciesKnown \/ Bandwidth \/ PrintWritten
  BY <1>3, FileGoesOn
<1>4. CASE Construct
  <2>1. /\ UNCHANGED <<machine, points, sens, file>> /\ file # << >>
        /\ pc' = After(topo', "mem_lat")
    BY <1>4 DEF Construct, FileInv
  <2>2. pc' \notin {"calc", "cluster", "describe", "bandwidth written"}
    BY <2>1 DEF After
  <2> QED BY <2>1, <2>2, FileStays
<1>5. CASE mctop_load
  <2>1. CASE file = << >>
    <3>1. UNCHANGED <<machine, points, sens, file>> /\ pc' = "no file"
      BY <1>5, <2>1 DEF mctop_load
    <3> QED BY <3>1, FileStays
  <2>2. CASE file # << >>
    <3>1. UNCHANGED <<machine, points, sens, file>> /\ pc' = After(topo', "mem_lat")
      BY <1>5, <2>2 DEF mctop_load
    <3>2. pc' \notin {"calc", "cluster", "describe", "bandwidth written"}
      BY <3>1 DEF After
    <3> QED BY <2>2, <3>1, <3>2, FileStays
  <2> QED BY <2>1, <2>2
<1>6. CASE BandwidthKnown
  <2>1. UNCHANGED <<machine, points, sens, file>> /\ pc' = "free" /\ file # << >>
    BY <1>6 DEF BandwidthKnown, FileInv
  <2> QED BY <2>1, FileStays
<1>7. CASE Free
  <2>1. /\ UNCHANGED <<machine, points, sens, file>> /\ file # << >>
        /\ pc' \in {"done", "crash in free"}
    BY <1>7 DEF Free, FileInv
  <2> QED BY <2>1, FileStays
<1>8. CASE Kill
  <2>1. UNCHANGED <<machine, points, sens, file>> /\ pc' = "killed"
    BY <1>8 DEF Kill
  <2> QED BY <2>1, FileStays
<1>9. CASE Augment
  <2>1. UNCHANGED <<machine, points, sens, file>> /\ pc' = "load"
    BY <1>9 DEF Augment
  <2> QED BY <2>1, FileStays
<1> QED BY <1>1, <1>2, <1>3, <1>4, <1>5, <1>6, <1>7, <1>8, <1>9 DEF Next, Work

(* The inductive invariant of the description file: what the stages, and the  *)
(* runs, rely on.                                                             *)
THEOREM FileInvariant == Spec => []FileInv
<1>1. Init => FileInv
  <2> SUFFICES ASSUME Init PROVE FileInv
    OBVIOUS
  <2>1. file = << >> /\ pc = "calc"
    BY DEF Init
  <2> QED BY <2>1, NoSections DEF FileInv
<1>2. FileInv /\ [Next]_vars => FileInv'
  BY FileNextKeeps
<1> QED BY <1>1, <1>2, PTL DEF Spec

(* Nothing that was found is ever taken back: whatever is killed and started  *)
(* again, a step only appends to the description file (the print_ functions   *)
(* of mctop.c).                                                               *)
FileGrows == \E g : file' = file \o g

THEOREM FileOnlyGrows == Spec => [][FileGrows]_vars
<1>1. ASSUME FileInv, Next PROVE FileGrows
  <2>1. PICK S : file \in Seq(S)
    BY <1>1 DEF FileInv, Sections
  <2>2. ASSUME NEW e, file' = Append(file, e) PROVE FileGrows
    <3>1. file \in Seq(S \cup {e}) /\ e \in S \cup {e}
      BY <2>1, SeqMonotonic
    <3>2. file' = file \o <<e>>
      BY <2>2, <3>1, AppendIsConcat
    <3> QED BY <3>2 DEF FileGrows
  <2>3. ASSUME file' = file PROVE FileGrows
    <3>1. file' = file \o << >>
      BY <2>1, <2>3, ConcatEmptySeq
    <3> QED BY <3>1 DEF FileGrows
  <2>4. CASE Describe
    <3>1. file = << >> /\ file' = Append(file, [kind |-> "lat", is_smt |-> IsSmtCpu, data |-> Norm])
      BY <1>1, <2>4 DEF FileInv, Describe
    <3> QED BY <2>2, <3>1
  <2>5. CASE MemLatencies
    BY <2>2, <2>5 DEF MemLatencies
  <2>6. CASE MemLatenciesKnown
    BY <2>2, <2>3, <2>6 DEF MemLatenciesKnown
  <2>7. CASE Bandwidth \/ PrintWritten
    BY <2>7 DEF Bandwidth, PrintWritten, FileGrows
  <2>8. CASE Points \/ Cluster \/ Construct \/ BandwidthKnown \/ Free
    BY <2>3, <2>8 DEF Points, Cluster, Construct, BandwidthKnown, Free
  <2>9. CASE mctop_load \/ Kill \/ Augment
    BY <2>3, <2>9 DEF mctop_load, Kill, Augment
  <2> QED BY <1>1, <2>4, <2>5, <2>6, <2>7, <2>8, <2>9 DEF Next, Work
<1>2. FileInv /\ [Next]_vars => [FileGrows]_vars
  BY <1>1
<1> QED BY <1>2, FileInvariant, PTL DEF Spec

(* The table of the file, entry by entry. *)
LEMMA TableEntries ==
  ASSUME IInv, FileInv, file # << >>
  PROVE  /\ Values \in SUBSET Nat /\ IsFiniteSet(Values) /\ Values # {}
         /\ points = cdf_calc(Values)
         /\ DOMAIN Table = Hwcs
         /\ \A x, y \in Hwcs :
              /\ DOMAIN Table[x] = Hwcs /\ machine.lat[x][y] \in Values
              /\ Table[x][y] =
                   cdf_cluster_value_to_cluster_median(Clusters(points, sens), machine.lat[x][y])
<1>1. machine \in Machines /\ points = cdf_calc(Values)
  BY DEF IInv, SearchOnce, FileInv
<1>2. machine.lat \in [Hwcs -> [Hwcs -> Nat]]
  BY <1>1, MachinesAssumption DEF Hwcs, N
<1>3. Table = NormalizedLatencies
  <2>1. PICK S : file \in Seq(S)
    BY DEF FileInv, Sections
  <2>2. Head(file) = file[1]
    BY <2>1, HeadTailProperties
  <2> QED BY <2>2 DEF FileInv, Sections, Table
<1>4. Table = [x \in Hwcs |-> [y \in Hwcs |->
                 cdf_cluster_value_to_cluster_median(Clusters(points, sens), machine.lat[x][y])]]
  BY <1>2, <1>3 DEF NormalizedLatencies, Normalized
<1>5. \A x, y \in Hwcs : machine.lat[x][y] \in Values
  BY DEF Values
<1> QED BY <1>1, <1>4, <1>5, ValuesAre

(* In the description file the latencies are in the order they were measured  *)
(* in, what is 0 there was 0, and every entry is a latency that was measured  *)
(* (lat_table_normalized_create and print_lat_table).                         *)
TableKeepsOrder ==
  file # << >> =>
    /\ \A x, y, u, v \in Hwcs :
         machine.lat[x][y] <= machine.lat[u][v] => Table[x][y] <= Table[u][v]
    /\ \A x, y \in Hwcs :
         /\ Table[x][y] \in Values
         /\ Table[x][y] = 0 <=> machine.lat[x][y] = 0

THEOREM TableIsInOrder == Spec => []TableKeepsOrder
<1>1. IInv /\ FileInv => TableKeepsOrder
  <2> SUFFICES ASSUME IInv, FileInv, file # << >>
               PROVE  TableKeepsOrder
    BY DEF TableKeepsOrder
  <2> DEFINE c == Clusters(points, sens)
             median(v) == cdf_cluster_value_to_cluster_median(c, v)
  <2>1. /\ Values \in SUBSET Nat /\ IsFiniteSet(Values) /\ Values # {}
        /\ points = cdf_calc(Values)
        /\ \A x, y \in Hwcs : machine.lat[x][y] \in Values /\ Table[x][y] = median(machine.lat[x][y])
    BY TableEntries
  <2>2. \A v, w \in Values : v <= w => median(v) \in Values /\ median(v) <= median(w)
    BY <2>1, MediansKeepOrder
  <2>3. \A v \in Values : median(v) = 0 <=> v = 0
    <3>1. Sound(points, c) /\ ToSet(points) = Values
      BY <2>1, AnyClustersAreSound, PointsAre
    <3> QED BY <3>1, Zenon DEF Sound
  <2>4. \A v \in Values : median(v) \in Values
    <3> TAKE v \in Values
    <3>1. v <= v
      BY <2>1
    <3> QED BY <2>2, <3>1
  <2> HIDE DEF median, c
  <2>5. ASSUME NEW x \in Hwcs, NEW y \in Hwcs, NEW u \in Hwcs, NEW v \in Hwcs,
               machine.lat[x][y] <= machine.lat[u][v]
        PROVE  Table[x][y] <= Table[u][v]
    BY <2>1, <2>2, <2>5
  <2>6. ASSUME NEW x \in Hwcs, NEW y \in Hwcs
        PROVE  Table[x][y] \in Values /\ (Table[x][y] = 0 <=> machine.lat[x][y] = 0)
    BY <2>1, <2>3, <2>4
  <2> QED BY <2>5, <2>6 DEF TableKeepsOrder
<1> QED BY <1>1, ClusterInvariant, FileInvariant, PTL

(* A run that loads the file clusters the latencies as the run that measured  *)
(* them did: mctop_infer_clustering takes every value of the table for a      *)
(* cluster, and these are the medians, no more and no fewer.                  *)
LoadedClustersAreThose ==
  file # << >> =>
    LET found  == Clusters(points, sens)
        loaded == mctop_infer_clustering(Table)
    IN  /\ Len(loaded) = Len(found)
        /\ \A k \in 1..Len(found) : loaded[k].median = found[k].median

THEOREM LoadFindsTheClusters == Spec => []LoadedClustersAreThose
<1>1. IInv /\ FileInv => LoadedClustersAreThose
  <2> SUFFICES ASSUME IInv, FileInv, file # << >>
               PROVE  LoadedClustersAreThose
    BY DEF LoadedClustersAreThose
  <2> DEFINE c == Clusters(points, sens)
             median(v) == cdf_cluster_value_to_cluster_median(c, v)
             W == UNION {{Table[x][y] : y \in DOMAIN Table[x]} : x \in DOMAIN Table}
             loaded == mctop_infer_clustering(Table)
  <2>1. /\ Values \in SUBSET Nat /\ IsFiniteSet(Values) /\ Values # {}
        /\ points = cdf_calc(Values)
        /\ DOMAIN Table = Hwcs
        /\ \A x, y \in Hwcs :
             /\ DOMAIN Table[x] = Hwcs /\ machine.lat[x][y] \in Values
             /\ Table[x][y] = median(machine.lat[x][y])
    BY TableEntries
  <2> HIDE DEF median
  <2>2. \A v \in Values : median(v) \in W
    <3> TAKE v \in Values
    <3>1. PICK x \in Hwcs, y \in Hwcs : v = machine.lat[x][y]
      BY DEF Values
    <3>2. x \in DOMAIN Table /\ y \in DOMAIN Table[x] /\ Table[x][y] = median(v)
      BY <2>1, <3>1
    <3> QED BY <3>2
  <2>3. \A e \in W : \E v \in Values : e = median(v)
    <3> TAKE e \in W
    <3>1. PICK x \in Hwcs, y \in Hwcs : e = Table[x][y]
      BY <2>1
    <3> QED BY <2>1, <3>1
  <2>4. Len(darray_sort(W)) = Len(c) /\ \A k \in 1..Len(c) : darray_sort(W)[k] = c[k].median
    <3> HIDE DEF W
    <3> QED BY <2>1, <2>2, <2>3, MediansAreValues DEF median
  <2>5. loaded = [k \in 1..Len(darray_sort(W)) |-> [median |-> darray_sort(W)[k]]]
    BY DEF mctop_infer_clustering
  <2>6. Len(c) \in Nat
    BY <2>1, AnyClustersAreSound
  <2> HIDE DEF W, c, loaded
  <2>7. loaded = [k \in 1..Len(c) |-> [median |-> darray_sort(W)[k]]]
    BY <2>4, <2>5
  <2>8. Len(loaded) = Len(c) /\ \A k \in 1..Len(c) : loaded[k].median = c[k].median
    BY <2>4, <2>6, <2>7
  <2> QED BY <2>8 DEF LoadedClustersAreThose, loaded, c
<1> QED BY <1>1, ClusterInvariant, FileInvariant, PTL
-----------------------------------------------------------------------------
(* The search for a number of clusters has so many passes left: going down,   *)
(* the sensitivity runs out; going up, it leaves the latencies behind.        *)
PassesLeft ==
  LET largest == points[Len(points)]
  IN  IF dir = 0 THEN sens + largest + 1
      ELSE IF dir > 0 THEN sens
      ELSE IF sens <= largest THEN largest - sens + 1 ELSE 0

SearchState == pc \in {"calc", "cluster"} => sens \in Nat \ {0} /\ dir \in Int

(* The search changes its sensitivity by whole numbers and keeps it positive. *)
LEMMA SearchStateHolds == Spec => []SearchState
<1>1. Init => SearchState
  BY SettingsAssumption DEF Init, SearchState
<1>2. ASSUME IInv, SearchState, [Next]_vars PROVE SearchState'
  <2>1. CASE UNCHANGED vars \/ Points \/ Kill
    BY <1>2, <2>1 DEF SearchState, vars, Points, Kill
  <2>2. CASE Cluster
    <3>1. machine \in Machines /\ settings \in Settings /\ points = cdf_calc(Values)
      BY <1>2, <2>2 DEF IInv, SearchOnce, Cluster
    <3>2. Len(Clusters(points, sens)) \in Nat /\ settings.hint \in Nat
      BY <3>1, ValuesAre, AnyClustersAreSound, SettingsAssumption
    <3> DEFINE d == settings.hint - Len(Clusters(points, sens))
    <3>3. /\ sens \in Nat \ {0} /\ d \in Int
          /\ pc' = "cluster" => dir' = d /\ sens' = sens - d /\ sens - d > 0
      <4>1. pc = "cluster"
        BY <2>2 DEF Cluster
      <4>2. sens \in Nat \ {0}
        BY <1>2, <4>1 DEF SearchState
      <4>3. pc' = "cluster" => dir' = d /\ sens' = sens - d /\ sens - d > 0
        BY <2>2 DEF Cluster
      <4> QED BY <3>2, <4>2, <4>3
    <3>4. pc' # "calc"
      BY <2>2 DEF Cluster
    <3> HIDE DEF d
    <3>5. pc' = "cluster" => sens' \in Nat \ {0} /\ dir' \in Int
      BY <3>3
    <3> QED BY <3>4, <3>5 DEF SearchState
  <2>3. CASE Describe \/ MemLatencies \/ MemLatenciesKnown \/ Bandwidth \/ PrintWritten
             \/ BandwidthKnown \/ Free \/ Augment
    BY <2>3 DEF SearchState, Describe, MemLatencies, MemLatenciesKnown, Bandwidth,
                PrintWritten, BandwidthKnown, Free, Augment
  <2>4. CASE Construct \/ mctop_load
    BY <2>4 DEF SearchState, Construct, mctop_load, After
  <2> QED BY <1>2, <2>1, <2>2, <2>3, <2>4 DEF Next, Work
<1>3. IInv /\ SearchState /\ [Next]_vars => SearchState'
  BY <1>2
<1> QED BY <1>1, <1>3, ClusterInvariant, PTL DEF Spec

(* A pass that is not the last one leaves fewer passes: the safety half of    *)
(* SearchEnds (the loop of cdf_cluster).                                      *)
SearchShrinks ==
  Cluster /\ pc' = "cluster" => PassesLeft \in Nat /\ PassesLeft' \in Nat /\ PassesLeft' < PassesLeft

THEOREM SearchRunsOut == Spec => [][SearchShrinks]_vars
<1>1. ASSUME IInv, SearchState, Cluster, pc' = "cluster"
      PROVE  PassesLeft \in Nat /\ PassesLeft' \in Nat /\ PassesLeft' < PassesLeft
  <2> DEFINE k == Len(Clusters(points, sens))
             d == settings.hint - k
             largest == points[Len(points)]
  <2>1. /\ machine \in Machines /\ settings \in Settings /\ points = cdf_calc(Values)
        /\ sens \in Nat \ {0} /\ dir \in Int
    BY <1>1 DEF IInv, SearchOnce, Cluster, SearchState
  <2>2. settings.hint \in Nat \ {1}
    BY <2>1, SettingsAssumption
  <2>3. k \in Nat /\ largest \in Nat /\ (largest <= sens => k <= 2)
    <3>1. Values \in SUBSET Nat /\ IsFiniteSet(Values) /\ Values # {}
      BY <2>1, ValuesAre
    <3>2. largest \in Nat
      BY <2>1, <3>1, PointsAre
    <3> QED BY <2>1, <3>1, <3>2, AnyClustersAreSound, CoarseClusters
  <2>4. /\ settings.hint # 0 /\ d # 0
        /\ dir' = d /\ sens' = sens - d /\ sens - d > 0 /\ points' = points
        /\ ~ (dir < 0 /\ d > 0) /\ ~ (dir > 0 /\ d < 0)
    BY <1>1 DEF Cluster
  <2> DEFINE left(a, s) == IF a = 0 THEN s + largest + 1
                           ELSE IF a > 0 THEN s
                           ELSE IF s <= largest THEN largest - s + 1 ELSE 0
  <2>5. PassesLeft = left(dir, sens)
    BY DEF PassesLeft
  <2>6. PassesLeft' = left(d, sens - d)
    BY <2>4 DEF PassesLeft
  <2>7. d \in Int
    BY <2>2, <2>3
  <2>8. d < 0 => ~ (largest <= sens)
    BY <2>2, <2>3, <2>4
  <2> HIDE DEF d, k, largest
  <2>9. /\ left(dir, sens) \in Nat /\ left(d, sens - d) \in Nat
        /\ left(d, sens - d) < left(dir, sens)
    BY <2>1, <2>3, <2>4, <2>7, <2>8
  <2> QED BY <2>5, <2>6, <2>9
<1>2. IInv /\ SearchState /\ [Next]_vars => [SearchShrinks]_vars
  BY <1>1 DEF SearchShrinks
<1> QED BY <1>2, ClusterInvariant, SearchStateHolds, PTL DEF Spec
===============================================================================
