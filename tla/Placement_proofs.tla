--------------------------- MODULE Placement_proofs ---------------------------
(***************************************************************************)
(* Proofs about programs that place their threads.                         *)
(*                                                                         *)
(* The pool (mctop_alloc.c): what mctop_alloc_pool_set_alloc makes current *)
(* is what was asked for, for any topologies, any arguments and any size   *)
(* of the tables.                                                          *)
(*                                                                         *)
(* The node tree (mctop_node_tree.c and its client, the merge sort): for   *)
(* any number of threads, nodes and levels, if TreeIsSound holds of the    *)
(* tree when it has been made, then whatever is merged is whole, all data  *)
(* arrives, and the threads never all wait for each other.                 *)
(*                                                                         *)
(* The policies (mctop_alloc.c): for any topology of sockets that are      *)
(* alike, any number of contexts and any limit, the sockets taken are the  *)
(* best by bandwidth and latency, and the contexts handed out are as many  *)
(* as promised, each once, of those sockets, and of as many cores as they  *)
(* can be.  The folds of the policies are unrolled to functions of the     *)
(* number of steps (FoldUnrolls), about which induction over Nat is left.  *)
(***************************************************************************)
EXTENDS Placement, FiniteSetTheorems, SequenceTheorems, WellFoundedInduction,
        TLAPS

(* The least of some naturals. *)
LEMMA LeastIs ==
  ASSUME NEW S \in SUBSET Nat, S # {}
  PROVE  Min(S) \in S /\ \A y \in S : Min(S) <= y
<1>1. PICK x \in S : \A y \in S : ~ (<<y, x>> \in OpToRel(<, Nat))
  BY WFMin, NatLessThanWellFounded
<1>2. ASSUME NEW y \in S PROVE x <= y
  <2>1. OpToRel(<, Nat) = {ss \in Nat \X Nat : ss[1] < ss[2]}
    BY DEF OpToRel
  <2>2. <<y, x>> \in Nat \X Nat /\ ~ (<<y, x>> \in {ss \in Nat \X Nat : ss[1] < ss[2]})
    BY <1>1, <2>1
  <2>3. ~ (y < x)
    BY <2>2
  <2> QED BY <2>3
<1> QED BY <1>2 DEF Min
-----------------------------------------------------------------------------
(* The pool. *)
Calls == Int \X Int \X Policies
Topos == {Topologies[name] : name \in PoolTopologies}
Allocs == {mctop_alloc_create_simple(t, g[1], g[2], g[3]) : t \in Topos, g \in Calls}
Made == [n_hwcs : Int, n_config : Int, alloc : Allocs]

IsFor(e, g) == e.n_hwcs = g[1] /\ e.n_config = g[2]

(* A call keeps its policy; all its arguments are numbers. *)
LEMMA ActualIs ==
  ASSUME NEW a \in Int, NEW b \in Int, NEW p \in Policies
  PROVE  Actual(<<a, b, p>>) \in Calls /\ Actual(<<a, b, p>>)[3] = p
<1> DEFINE g == <<a, b, p>>
<1>1. g \in Calls /\ g[2] = b /\ g[3] = p
  BY DEF Calls
<1>2. <<ALL, ALL, p>> \in Calls /\ <<ALL, b, p>> \in Calls
  BY DEF Calls, ALL
<1>3. \/ Actual(g) = <<ALL, ALL, p>>
      \/ Actual(g) = <<ALL, b, p>>
      \/ Actual(g) = g
  <2>1. CASE g[3] \in {"NONE", "SEQUENTIAL"}
    <3>1. g[3] \notin MinLat \cup RoundRobin
      BY <2>1 DEF MinLat, RoundRobin
    <3> QED BY <1>1, <2>1, <3>1, Zenon DEF Actual
  <2>2. CASE g[3] \notin {"NONE", "SEQUENTIAL"} /\ g[3] \in MinLat \cup RoundRobin
    BY <1>1, <2>2, Zenon DEF Actual
  <2>3. CASE g[3] \notin {"NONE", "SEQUENTIAL"} /\ g[3] \notin MinLat \cup RoundRobin
    BY <1>1, <2>3, Zenon DEF Actual
  <2> QED BY <2>1, <2>2, <2>3
<1> QED BY <1>1, <1>2, <1>3

(* The loop finds an entry with the arguments, if there is one. *)
LEMMA FoundIs ==
  ASSUME NEW q \in Seq(Made), NEW g \in Calls
  PROVE  /\ Found(q, g) \in Nat
         /\ Found(q, g) > 0 => Found(q, g) \in 1..Len(q) /\ IsFor(q[Found(q, g)], g)
         /\ Found(q, g) > 0 <=> \E i \in 1..Len(q) : IsFor(q[i], g)
<1> DEFINE I == {i \in 1..Len(q) : q[i].n_hwcs = g[1] /\ q[i].n_config = g[2]}
<1>1. Found(q, g) = IF I # {} THEN Min(I) ELSE 0
  BY DEF Found, SelectInSeq
<1>2. I \in SUBSET Nat /\ Len(q) \in Nat
  BY LenProperties
<1>3. CASE I # {}
  <2>1. Min(I) \in I
    BY <1>2, <1>3, LeastIs
  <2> QED BY <1>1, <1>2, <1>3, <2>1, SMTT(40) DEF IsFor
<1>4. CASE I = {}
  BY <1>1, <1>2, <1>4 DEF IsFor
<1> QED BY <1>3, <1>4

Pools == [topo : Topos, allocs : [Policies -> Seq(Made)],
          current_alloc : {None} \cup (Policies \X Nat)]

PoolTypeOK == ap \in Pools /\ asked \in Seq(Calls)

(* A table has room for its entries, and no two of them have the same arguments. *)
TableOK(q) ==
  /\ Len(q) <= MCTOP_ALLOC_POOL_MAX_N
  /\ \A i, j \in 1..Len(q) :
       q[i].n_hwcs = q[j].n_hwcs /\ q[i].n_config = q[j].n_config => i = j

(* What the loop of mctop_alloc_pool_set_alloc leaves, a full table included: *)
(* then the last entry is current, whatever it is for.                        *)
CallsAnswered ==
  asked # << >> =>
    LET g == Last(asked)
        entries == ap.allocs[g[3]]
        same == Cardinality({i \in DOMAIN entries : IsFor(entries[i], g)})
    IN  /\ ap.current_alloc[1] = g[3]
        /\ \/ ap.current_alloc[2] \in DOMAIN entries /\ IsFor(Current, g) /\ same = 1
           \/ /\ same = 0
              /\ Len(entries) = MCTOP_ALLOC_POOL_MAX_N
              /\ ap.current_alloc[2] = MCTOP_ALLOC_POOL_MAX_N
        /\ \A i \in DOMAIN asked :
             \/ Len(ap.allocs[asked[i][3]]) = MCTOP_ALLOC_POOL_MAX_N
             \/ Found(ap.allocs[asked[i][3]], asked[i]) > 0

PoolIInv ==
  \/ PoolIdle
  \/ /\ PoolTypeOK
     /\ \A p \in Policies : TableOK(ap.allocs[p])
     /\ CallsAnswered

(* What is made for a call is an entry for it. *)
LEMMA CreateIs ==
  ASSUME NEW t \in Topos, NEW g \in Calls
  PROVE  mctop_alloc_args_create(t, g) \in Made /\ IsFor(mctop_alloc_args_create(t, g), g)
<1>1. g[1] \in Int /\ g[2] \in Int
  BY DEF Calls
<1>2. mctop_alloc_create_simple(t, g[1], g[2], g[3]) \in Allocs
  BY DEF Allocs
<1> QED BY <1>1, <1>2 DEF mctop_alloc_args_create, Made, IsFor

(* CallsAnswered as a statement about a pool and its calls. *)
Answers(pool, calls) ==
  calls # << >> =>
    LET g == Last(calls)
        entries == pool.allocs[g[3]]
        cur == pool.allocs[pool.current_alloc[1]][pool.current_alloc[2]]
        same == Cardinality({i \in DOMAIN entries : IsFor(entries[i], g)})
    IN  /\ pool.current_alloc[1] = g[3]
        /\ \/ pool.current_alloc[2] \in DOMAIN entries /\ IsFor(cur, g) /\ same = 1
           \/ /\ same = 0
              /\ Len(entries) = MCTOP_ALLOC_POOL_MAX_N
              /\ pool.current_alloc[2] = MCTOP_ALLOC_POOL_MAX_N
        /\ \A i \in DOMAIN calls :
             \/ Len(pool.allocs[calls[i][3]]) = MCTOP_ALLOC_POOL_MAX_N
             \/ Found(pool.allocs[calls[i][3]], calls[i]) > 0

(* CallsAnswered is Answers of the pools and the calls, in both states of a step. *)
LEMMA AnswersMeans ==
  /\ CallsAnswered <=> Answers(ap, asked)
  /\ CallsAnswered' <=> Answers(ap', asked')
<1>1. CallsAnswered <=> Answers(ap, asked)
  BY Zenon DEF CallsAnswered, Answers, IsFor, Current
<1>2. CallsAnswered' <=> Answers(ap', asked')
  BY Zenon DEF CallsAnswered, Answers, IsFor, Current, Last, Found, SelectInSeq
<1> QED BY <1>1, <1>2

(* A table with one entry for the arguments has exactly that one. *)
LEMMA OneEntry ==
  ASSUME NEW q \in Seq(Made), TableOK(q), NEW g \in Calls, NEW i \in 1..Len(q), IsFor(q[i], g)
  PROVE  Cardinality({j \in DOMAIN q : IsFor(q[j], g)}) = 1
<1>1. DOMAIN q = 1..Len(q)
  BY LenProperties
<1>2. {j \in DOMAIN q : IsFor(q[j], g)} = {i}
  BY <1>1 DEF TableOK, IsFor
<1> QED BY <1>2, FS_Singleton

(* The call appended to the calls so far is the last one. *)
LEMMA LastCall ==
  ASSUME NEW calls \in Seq(Calls), NEW g \in Calls
  PROVE  /\ Append(calls, g) \in Seq(Calls) /\ Last(Append(calls, g)) = g
         /\ \A i \in DOMAIN Append(calls, g) :
              \/ i \in DOMAIN calls /\ Append(calls, g)[i] = calls[i]
              \/ Append(calls, g)[i] = g
         /\ Append(calls, g) # << >>
<1>1. /\ Append(calls, g) \in Seq(Calls) /\ Len(Append(calls, g)) = Len(calls) + 1
      /\ \A i \in 1..Len(calls) : Append(calls, g)[i] = calls[i]
      /\ Append(calls, g)[Len(calls) + 1] = g
  BY AppendProperties
<1>2. /\ Len(calls) \in Nat /\ DOMAIN calls = 1..Len(calls)
      /\ DOMAIN Append(calls, g) = 1..Len(calls) + 1
  BY <1>1, LenProperties
<1>3. Append(calls, g) # << >>
  BY <1>1, <1>2, EmptySeq
<1> QED BY <1>1, <1>2, <1>3 DEF Last

(* A pool with another current allocator. *)
LEMMA PoolWithCurrent ==
  ASSUME NEW P \in Pools, NEW c \in Policies \X Nat, NEW Q, Q = [P EXCEPT !.current_alloc = c]
  PROVE  Q \in Pools /\ Q.topo = P.topo /\ Q.allocs = P.allocs /\ Q.current_alloc = c
BY DEF Pools

(* One call of mctop_alloc_pool_set_alloc, by the outcome of its loop. *)
LEMMA SetAllocKeeps ==
  ASSUME PoolTypeOK, \A p \in Policies : TableOK(ap.allocs[p]), CallsAnswered,
         NEW g \in Calls, ap' = WithAlloc(ap, g), asked' = Append(asked, g)
  PROVE  PoolTypeOK' /\ (\A p \in Policies : TableOK(ap.allocs[p]))' /\ CallsAnswered'
<1> DEFINE p == g[3]
           q == ap.allocs[p]
           i == Found(q, g)
           max == MCTOP_ALLOC_POOL_MAX_N
           e == mctop_alloc_args_create(ap.topo, g)
<1>1. /\ p \in Policies /\ q \in Seq(Made) /\ Len(q) \in Nat /\ DOMAIN q = 1..Len(q)
      /\ ap.topo \in Topos /\ asked \in Seq(Calls) /\ TableOK(q)
  BY LenProperties DEF PoolTypeOK, Pools, Calls
<1>2. /\ i \in Nat
      /\ i > 0 => i \in 1..Len(q) /\ IsFor(q[i], g)
      /\ i > 0 <=> \E j \in 1..Len(q) : IsFor(q[j], g)
  BY <1>1, FoundIs
<1>3. max \in Nat \ {0} /\ Len(q) <= max
  BY <1>1, PoolAssumption DEF TableOK
<1>4. /\ asked' \in Seq(Calls) /\ Last(asked') = g /\ asked' # << >>
      /\ \A k \in DOMAIN asked' :
           (k \in DOMAIN asked /\ asked'[k] = asked[k]) \/ asked'[k] = g
  BY <1>1, LastCall
<1>5. asked # << >> => \A k \in DOMAIN asked :
        \/ Len(ap.allocs[asked[k][3]]) = max
        \/ Found(ap.allocs[asked[k][3]], asked[k]) > 0
  BY AnswersMeans DEF Answers
<1>6. \A k \in DOMAIN asked :
        /\ asked[k] \in Calls /\ asked[k][3] \in Policies
        /\ \/ Len(ap.allocs[asked[k][3]]) = max
           \/ Found(ap.allocs[asked[k][3]], asked[k]) > 0
  <2>1. DOMAIN asked = 1..Len(asked) /\ (DOMAIN asked # {} => asked # << >>)
    BY <1>1, LenProperties
  <2>2. \A k \in DOMAIN asked : asked[k] \in Calls /\ asked[k][3] \in Policies
    BY <1>1, <2>1, ElementOfSeq DEF Calls
  <2> QED BY <1>5, <2>1, <2>2
<1>7. CASE i > 0
  <2>1. ap' = [ap EXCEPT !.current_alloc = <<p, i>>]
    <3>1. i # 0
      BY <1>7
    <3> QED BY <1>7, <3>1, Zenon DEF WithAlloc
  <2>2. /\ ap'.topo = ap.topo /\ ap'.allocs = ap.allocs /\ ap'.current_alloc = <<p, i>>
        /\ PoolTypeOK'
    <3>1. <<p, i>> \in Policies \X Nat
      BY <1>1, <1>2
    <3> QED BY <1>1, <1>4, <2>1, <3>1, PoolWithCurrent DEF PoolTypeOK
  <2>3. Cardinality({j \in DOMAIN q : IsFor(q[j], g)}) = 1
    BY <1>1, <1>2, <1>7, OneEntry
  <2>4. \A k \in DOMAIN asked' :
          \/ Len(ap'.allocs[asked'[k][3]]) = max
          \/ Found(ap'.allocs[asked'[k][3]], asked'[k]) > 0
    BY <1>4, <1>6, <1>7, <2>2
  <2>5. Answers(ap', asked')
    <3>1. ap'.current_alloc[1] = p /\ ap'.current_alloc[2] = i
      BY <2>2
    <3>2. ap'.allocs[p] = q /\ IsFor(q[i], g) /\ i \in DOMAIN q
      BY <1>1, <1>2, <1>7, <2>2
    <3> HIDE DEF p, q, i
    <3>3. /\ i \in DOMAIN ap'.allocs[p] /\ IsFor(ap'.allocs[p][i], g)
          /\ Cardinality({j \in DOMAIN ap'.allocs[p] : IsFor(ap'.allocs[p][j], g)}) = 1
      BY <2>3, <3>2
    <3> QED BY <1>4, <2>4, <3>1, <3>3, Zenon DEF Answers, p, q, max
  <2> QED BY <2>2, <2>5, AnswersMeans
<1>8. CASE i = 0 /\ Len(q) < max
  <2> DEFINE r == Append(q, e)
  <2>1. ap' = [ap EXCEPT !.allocs[p] = r, !.current_alloc = <<p, Len(q) + 1>>]
    <3>1. ~ (i > 0)
      BY <1>8
    <3> QED BY <1>8, <3>1, Zenon DEF WithAlloc
  <2>2. e \in Made /\ IsFor(e, g)
    BY <1>1, CreateIs
  <2>3. /\ r \in Seq(Made) /\ Len(r) = Len(q) + 1 /\ r[Len(q) + 1] = e
        /\ \A j \in 1..Len(q) : r[j] = q[j]
        /\ DOMAIN r = 1..Len(r)
    BY <1>1, <2>2, AppendProperties, LenProperties
  <2> HIDE DEF r
  <2>4. /\ PoolTypeOK'
        /\ ap'.topo = ap.topo /\ ap'.current_alloc = <<p, Len(q) + 1>>
        /\ ap'.allocs[p] = r /\ \A o \in Policies : o # p => ap'.allocs[o] = ap.allocs[o]
    <3>1. <<p, Len(q) + 1>> \in Policies \X Nat
      BY <1>1
    <3>2. ap \in Pools /\ p \in Policies /\ r \in Seq(Made)
      BY <1>1, <2>3 DEF PoolTypeOK
    <3> HIDE DEF p, q
    <3>3. /\ ap' \in Pools /\ ap'.topo = ap.topo /\ ap'.current_alloc = <<p, Len(q) + 1>>
          /\ ap'.allocs[p] = r /\ \A o \in Policies : o # p => ap'.allocs[o] = ap.allocs[o]
      <4> DEFINE c == <<p, Len(q) + 1>>
      <4> HIDE DEF c
      <4>1. c \in Policies \X Nat /\ ap' = [ap EXCEPT !.allocs[p] = r, !.current_alloc = c]
        BY <2>1, <3>1 DEF c
      <4>2. /\ ap' \in Pools /\ ap'.topo = ap.topo /\ ap'.current_alloc = c
            /\ ap'.allocs[p] = r /\ \A o \in Policies : o # p => ap'.allocs[o] = ap.allocs[o]
        <5>1. ap' \in Pools
          <6> DEFINE F == [ap.allocs EXCEPT ![p] = r]
          <6>1. F \in [Policies -> Seq(Made)] /\ ap' = [ap EXCEPT !.allocs = F, !.current_alloc = c]
            BY <3>2, <4>1 DEF Pools
          <6> HIDE DEF F
          <6> QED BY <3>2, <4>1, <6>1 DEF Pools
        <5>2. ap'.topo = ap.topo
          BY <3>2, <4>1 DEF Pools
        <5>3. ap'.current_alloc = c
          BY <3>2, <4>1 DEF Pools
        <5>4. ap'.allocs[p] = r
          BY <3>2, <4>1 DEF Pools
        <5>5. \A o \in Policies : o # p => ap'.allocs[o] = ap.allocs[o]
          BY <3>2, <4>1 DEF Pools
        <5> QED BY <5>1, <5>2, <5>3, <5>4, <5>5
      <4> QED BY <4>2 DEF c
    <3> QED BY <1>4, <3>3 DEF PoolTypeOK
  <2>5. Len(q) + 1 \in 1..Len(r) /\ \A j \in 1..Len(r) : j \in 1..Len(q) \/ j = Len(q) + 1
    BY <1>1, <2>3
  <2>6. TableOK(r)
    <3>1. \A j \in 1..Len(q) : ~ IsFor(r[j], g)
      BY <1>2, <1>8, <2>3
    <3>2. IsFor(r[Len(q) + 1], g)
      BY <2>2, <2>3
    <3>3. \A j, k \in 1..Len(r) :
            r[j].n_hwcs = r[k].n_hwcs /\ r[j].n_config = r[k].n_config => j = k
      <4>1. \A j, k \in 1..Len(q) :
              r[j].n_hwcs = r[k].n_hwcs /\ r[j].n_config = r[k].n_config => j = k
        BY <1>1, <2>3 DEF TableOK
      <4>2. \A j \in 1..Len(q) : LET k == Len(q) + 1 IN
              ~ (r[j].n_hwcs = r[k].n_hwcs /\ r[j].n_config = r[k].n_config)
        BY <3>1, <3>2 DEF IsFor
      <4> QED BY <2>5, <4>1, <4>2
    <3>4. Len(r) <= max
      BY <1>1, <1>3, <1>8, <2>3
    <3> QED BY <3>3, <3>4 DEF TableOK
  <2>7. Cardinality({j \in DOMAIN r : IsFor(r[j], g)}) = 1 /\ IsFor(r[Len(q) + 1], g)
    BY <2>2, <2>3, <2>5, <2>6, OneEntry
  <2>8. ASSUME NEW k \in DOMAIN asked'
        PROVE  \/ Len(ap'.allocs[asked'[k][3]]) = max
               \/ Found(ap'.allocs[asked'[k][3]], asked'[k]) > 0
    <3>1. CASE asked'[k] = g
      <4>1. Len(q) + 1 \in 1..Len(r) /\ IsFor(r[Len(q) + 1], g)
        BY <2>5, <2>7
      <4>2. Found(r, g) > 0
        BY <2>3, <4>1, FoundIs
      <4> QED BY <2>4, <3>1, <4>2
    <3>2. CASE k \in DOMAIN asked /\ asked'[k] = asked[k] /\ asked[k][3] # p
      BY <1>6, <2>4, <3>2
    <3>3. CASE k \in DOMAIN asked /\ asked'[k] = asked[k] /\ asked[k][3] = p
      <4>1. asked[k] \in Calls /\ Found(q, asked[k]) > 0
        BY <1>6, <1>8, <3>3
      <4>2. PICK j \in 1..Len(q) : IsFor(q[j], asked[k])
        BY <1>1, <4>1, FoundIs
      <4>3. j \in 1..Len(r) /\ IsFor(r[j], asked[k])
        BY <1>1, <2>3, <4>2
      <4>4. Found(r, asked[k]) > 0
        BY <2>3, <4>1, <4>3, FoundIs
      <4> QED BY <2>4, <3>3, <4>4
    <3> QED BY <1>4, <3>1, <3>2, <3>3
  <2>9. Answers(ap', asked')
    <3>1. Cardinality({j \in DOMAIN ap'.allocs[p] : IsFor(ap'.allocs[p][j], g)}) = 1
      BY <2>4, <2>7, Zenon
    <3>2. /\ ap'.current_alloc[1] = p
          /\ ap'.current_alloc[2] \in DOMAIN ap'.allocs[p]
          /\ IsFor(ap'.allocs[ap'.current_alloc[1]][ap'.current_alloc[2]], g)
      BY <2>3, <2>4, <2>5, <2>7
    <3> QED BY <1>4, <2>8, <3>1, <3>2, Zenon DEF Answers
  <2>10. (\A o \in Policies : TableOK(ap.allocs[o]))'
    BY <2>4, <2>6
  <2> QED BY <2>4, <2>9, <2>10, AnswersMeans
<1>9. CASE i = 0 /\ Len(q) = max
  <2>1. ap' = [ap EXCEPT !.current_alloc = <<p, Len(q)>>]
    <3>1. ~ (i > 0) /\ ~ (Len(q) < max)
      BY <1>3, <1>9
    <3> QED BY <3>1, Zenon DEF WithAlloc
  <2>2. /\ ap'.topo = ap.topo /\ ap'.allocs = ap.allocs /\ ap'.current_alloc = <<p, Len(q)>>
        /\ PoolTypeOK'
    <3>1. <<p, Len(q)>> \in Policies \X Nat
      BY <1>1
    <3> QED BY <1>1, <1>4, <2>1, <3>1, PoolWithCurrent DEF PoolTypeOK
  <2>3. Cardinality({j \in DOMAIN q : IsFor(q[j], g)}) = 0
    <3>1. {j \in DOMAIN q : IsFor(q[j], g)} = {}
      BY <1>1, <1>2, <1>9
    <3> QED BY <3>1, FS_EmptySet
  <2>4. \A k \in DOMAIN asked' :
          \/ Len(ap'.allocs[asked'[k][3]]) = max
          \/ Found(ap'.allocs[asked'[k][3]], asked'[k]) > 0
    BY <1>4, <1>6, <1>9, <2>2
  <2>5. Answers(ap', asked')
    BY <1>4, <1>9, <2>2, <2>3, <2>4 DEF Answers
  <2> QED BY <2>2, <2>5, AnswersMeans
<1> QED BY <1>1, <1>2, <1>3, <1>7, <1>8, <1>9

(* An empty pool, and one with an allocator of every policy. *)
LEMMA PoolInitKeeps ==
  ASSUME PoolInit
  PROVE  PoolIInv
<1>1. PICK t \in Topos :
        \/ ap = mctop_alloc_pool_create_empty(t) /\ asked = << >>
        \/ \E g \in Args : ap = mctop_alloc_pool_create(t, g) /\ asked = <<Actual(g)>>
  BY DEF PoolInit, Topos
<1>2. MCTOP_ALLOC_POOL_MAX_N \in Nat \ {0}
  BY PoolAssumption
<1>3. CASE ap = mctop_alloc_pool_create_empty(t) /\ asked = << >>
  <2>1. /\ ap \in Pools /\ asked \in Seq(Calls)
        /\ \A p \in Policies : ap.allocs[p] = << >>
    BY <1>3 DEF mctop_alloc_pool_create_empty, Pools
  <2>2. \A p \in Policies : TableOK(ap.allocs[p])
    BY <1>2, <2>1 DEF TableOK
  <2>3. CallsAnswered
    BY <1>3, AnswersMeans DEF Answers
  <2> QED BY <2>1, <2>2, <2>3 DEF PoolIInv, PoolTypeOK
<1>4. ASSUME NEW g \in Args, ap = mctop_alloc_pool_create(t, g), asked = <<Actual(g)>>
      PROVE  PoolIInv
  <2> DEFINE each(p) == Actual(<<g[1], g[2], p>>)
             b == Actual(g)
  <2>1. g \in Calls /\ g[1] \in Int /\ g[2] \in Int /\ g[3] \in Policies /\ g = <<g[1], g[2], g[3]>>
    BY PoolAssumption DEF Calls
  <2>2. \A p \in Policies : each(p) \in Calls /\ each(p)[3] = p
    BY <2>1, ActualIs
  <2>3. b = each(g[3]) /\ b \in Calls /\ b[3] = g[3]
    BY <2>1, <2>2
  <2>4. ap = [topo |-> t,
              allocs |-> [p \in Policies |-> <<mctop_alloc_args_create(t, each(p))>>],
              current_alloc |-> <<g[3], 1>>]
    BY <1>4 DEF mctop_alloc_pool_create
  <2> HIDE DEF each, b
  <2>5. \A p \in Policies : /\ mctop_alloc_args_create(t, each(p)) \in Made
                            /\ IsFor(mctop_alloc_args_create(t, each(p)), each(p))
    BY <2>2, CreateIs
  <2>6. /\ ap.topo = t /\ ap.current_alloc = <<g[3], 1>>
        /\ ap.allocs = [p \in Policies |-> <<mctop_alloc_args_create(t, each(p))>>]
        /\ ap = [topo |-> ap.topo, allocs |-> ap.allocs, current_alloc |-> ap.current_alloc]
    BY <2>4
  <2>7. ap.allocs \in [Policies -> Seq(Made)]
    BY <2>5, <2>6
  <2>8. ap \in Pools /\ asked \in Seq(Calls)
    <3>1. ap.current_alloc \in {None} \cup (Policies \X Nat)
      BY <2>1, <2>6
    <3>2. asked = <<b>>
      BY <1>4 DEF b
    <3> QED BY <2>3, <2>6, <2>7, <3>1, <3>2, SMTT(40) DEF Pools
  <2>9. \A p \in Policies : /\ ap.allocs[p] \in Seq(Made) /\ Len(ap.allocs[p]) = 1
                            /\ IsFor(ap.allocs[p][1], each(p))
                            /\ TableOK(ap.allocs[p])
    BY <1>2, <2>5, <2>6, <2>7 DEF TableOK
  <2> DEFINE q == ap.allocs[g[3]]
  <2>10. q \in Seq(Made) /\ TableOK(q) /\ 1 \in 1..Len(q) /\ IsFor(q[1], b)
    BY <2>1, <2>3, <2>9
  <2>11. Cardinality({i \in DOMAIN q : IsFor(q[i], b)}) = 1
    BY <2>3, <2>10, OneEntry
  <2>12. Found(q, b) > 0
    BY <2>3, <2>10, FoundIs
  <2>13. /\ asked # << >> /\ Last(asked) = b
         /\ \A i \in DOMAIN asked : asked[i] = b
    BY <1>4 DEF b, Last
  <2>14. Answers(ap, asked)
    <3>1. /\ ap.current_alloc[1] = b[3] /\ ap.current_alloc[2] \in DOMAIN ap.allocs[b[3]]
          /\ IsFor(ap.allocs[ap.current_alloc[1]][ap.current_alloc[2]], b)
      BY <2>3, <2>6, <2>10, LenProperties
    <3>2. Cardinality({i \in DOMAIN ap.allocs[b[3]] : IsFor(ap.allocs[b[3]][i], b)}) = 1
      BY <2>3, <2>11
    <3>3. \A i \in DOMAIN asked : Found(ap.allocs[asked[i][3]], asked[i]) > 0
      BY <2>3, <2>12, <2>13
    <3> QED BY <2>13, <3>1, <3>2, <3>3, Zenon DEF Answers
  <2> QED BY <2>8, <2>9, <2>14, AnswersMeans DEF PoolIInv, PoolTypeOK
<1> QED BY <1>1, <1>3, <1>4

(* What the pool depends on is changed by mctop_alloc_pool_set_alloc only. *)
LEMMA PoolNextKeeps ==
  ASSUME PoolIInv, [Next]_vars
  PROVE  PoolIInv'
<1>1. CASE UNCHANGED poolVars
  <2>1. ap' = ap /\ asked' = asked
    BY <1>1 DEF poolVars
  <2>2. CallsAnswered' <=> CallsAnswered
    BY <2>1, AnswersMeans
  <2> QED BY <2>1, <2>2 DEF PoolIInv, PoolIdle, PoolTypeOK
<1>2. CASE ap # None /\ PoolNext
  <2>1. PoolTypeOK /\ (\A p \in Policies : TableOK(ap.allocs[p])) /\ CallsAnswered
    BY <1>2 DEF PoolIInv, PoolIdle
  <2>2. PICK g \in Args : mctop_alloc_pool_set_alloc(g[1], g[2], g[3])
    BY <1>2 DEF PoolNext
  <2> DEFINE b == Actual(<<g[1], g[2], g[3]>>)
  <2>3. g[1] \in Int /\ g[2] \in Int /\ g[3] \in Policies
    BY PoolAssumption
  <2>4. b \in Calls
    BY <2>3, ActualIs
  <2>5. ap' = WithAlloc(ap, b) /\ asked' = Append(asked, b)
    BY <2>2 DEF mctop_alloc_pool_set_alloc
  <2> HIDE DEF b
  <2>6. PoolTypeOK' /\ (\A p \in Policies : TableOK(ap.allocs[p]))' /\ CallsAnswered'
    BY <2>1, <2>4, <2>5, SetAllocKeeps
  <2> QED BY <2>6 DEF PoolIInv
<1>3. CASE UNCHANGED vars
  BY <1>1, <1>3 DEF vars
<1> QED BY <1>1, <1>2, <1>3 DEF Next

(* The inductive invariant of the pool: its tables never overflow, no entry   *)
(* has the arguments of another of its table, and the current entry is that   *)
(* of the last call or, with a full table, the last one.                      *)
THEOREM PoolInvariant == Spec => []PoolIInv
<1>1. Init => PoolIInv
  BY PoolInitKeeps DEF Init, PoolIInv
<1>2. PoolIInv /\ [Next]_vars => PoolIInv'
  BY PoolNextKeeps
<1> QED BY <1>1, <1>2, PTL DEF Spec

(* The entries for a call are none, or one.                                   *)
LEMMA AtMostOneEntry ==
  ASSUME PoolTypeOK, \A p \in Policies : TableOK(ap.allocs[p]), NEW g \in Calls
  PROVE  /\ EntriesFor(g) = {j \in 1..Len(ap.allocs[g[3]]) : IsFor(ap.allocs[g[3]][j], g)}
         /\ \A j \in EntriesFor(g) : EntriesFor(g) = {j}
         /\ EntriesFor(g) # {} => Cardinality(EntriesFor(g)) = 1
         /\ Found(ap.allocs[g[3]], g) > 0 => EntriesFor(g) # {}
<1> DEFINE q == ap.allocs[g[3]]
<1>1. q \in Seq(Made) /\ DOMAIN q = 1..Len(q) /\ TableOK(q)
  BY LenProperties DEF PoolTypeOK, Pools, Calls
<1>2. EntriesFor(g) = {j \in 1..Len(q) : IsFor(q[j], g)}
  BY <1>1 DEF EntriesFor, IsFor
<1> HIDE DEF q
<1>3. \A j, k \in 1..Len(q) : IsFor(q[j], g) /\ IsFor(q[k], g) => j = k
  BY <1>1 DEF TableOK, IsFor
<1>4. ASSUME NEW j \in EntriesFor(g)
      PROVE  EntriesFor(g) = {j}
  BY <1>2, <1>3, <1>4
<1>5. EntriesFor(g) # {} => Cardinality(EntriesFor(g)) = 1
  BY <1>4, FS_Singleton
<1>6. Found(q, g) > 0 => EntriesFor(g) # {}
  BY <1>1, <1>2, FoundIs
<1> QED BY <1>2, <1>4, <1>5, <1>6 DEF q

(* Unless its table is full without an entry for the arguments,               *)
(* mctop_alloc_pool_set_alloc makes the one allocator current that has them,  *)
(* and every such call still has its one entry after any other calls          *)
(* (mctop_alloc.c, the pool).                                                 *)
THEOREM PoolFindsAllocators == Spec => []PoolAnswers
<1>1. PoolIInv => PoolAnswers
  <2>1. CASE PoolIdle
    BY <2>1 DEF PoolIdle, PoolAnswers
  <2>2. CASE PoolTypeOK /\ (\A p \in Policies : TableOK(ap.allocs[p])) /\ CallsAnswered
    <3> SUFFICES ASSUME asked # << >>
                 PROVE  LET g == Last(asked) IN
                        /\ ~OutOfSpace(g) => /\ ap.current_alloc[1] = g[3]
                                             /\ EntriesFor(g) = {ap.current_alloc[2]}
                        /\ \A k \in DOMAIN asked :
                             ~OutOfSpace(asked[k]) => Cardinality(EntriesFor(asked[k])) = 1
      BY Zenon DEF PoolAnswers
    <3> DEFINE g == Last(asked)
               n == ap.current_alloc[2]
    <3>1. /\ asked \in Seq(Calls) /\ Len(asked) \in Nat /\ DOMAIN asked = 1..Len(asked)
          /\ Len(asked) # 0 /\ \A k \in DOMAIN asked : asked[k] \in Calls
      BY <2>2, LenProperties, ElementOfSeq, EmptySeq DEF PoolTypeOK
    <3>2. g \in Calls
      BY <3>1 DEF Last
    <3> HIDE DEF g
    <3>3. /\ ap.current_alloc[1] = g[3]
          /\ \/ n \in DOMAIN ap.allocs[g[3]] /\ IsFor(Current, g)
             \/ /\ Cardinality({j \in DOMAIN ap.allocs[g[3]] : IsFor(ap.allocs[g[3]][j], g)}) = 0
                /\ Len(ap.allocs[g[3]]) = MCTOP_ALLOC_POOL_MAX_N
          /\ \A k \in DOMAIN asked :
                \/ Len(ap.allocs[asked[k][3]]) = MCTOP_ALLOC_POOL_MAX_N
                \/ Found(ap.allocs[asked[k][3]], asked[k]) > 0
      BY <2>2, Zenon DEF CallsAnswered, g
    <3>4. /\ ap.allocs[g[3]] \in Seq(Made) /\ Len(ap.allocs[g[3]]) \in Nat
          /\ DOMAIN ap.allocs[g[3]] = 1..Len(ap.allocs[g[3]])
          /\ EntriesFor(g) = {j \in DOMAIN ap.allocs[g[3]] : IsFor(ap.allocs[g[3]][j], g)}
      <4>1. ap.allocs[g[3]] \in Seq(Made)
        BY <2>2, <3>2 DEF PoolTypeOK, Pools, Calls
      <4>2. EntriesFor(g) = {j \in DOMAIN ap.allocs[g[3]] : IsFor(ap.allocs[g[3]][j], g)}
        BY Zenon DEF EntriesFor, IsFor
      <4> QED BY <4>1, <4>2, LenProperties
    <3>5. ASSUME ~OutOfSpace(g)
          PROVE  EntriesFor(g) = {n}
      <4>1. n \in DOMAIN ap.allocs[g[3]] /\ IsFor(Current, g)
        <5>1. CASE Cardinality(EntriesFor(g)) = 0 /\ Len(ap.allocs[g[3]]) = MCTOP_ALLOC_POOL_MAX_N
          <6>1. EntriesFor(g) # {}
            BY <3>5, <5>1 DEF OutOfSpace
          <6> QED BY <2>2, <3>2, <5>1, <6>1, AtMostOneEntry
        <5> QED BY <3>3, <3>4, <5>1
      <4>2. Current = ap.allocs[g[3]][n]
        BY <3>3 DEF Current
      <4>3. n \in EntriesFor(g)
        BY <3>4, <4>1, <4>2
      <4> QED BY <2>2, <3>2, <4>3, AtMostOneEntry
    <3>6. ASSUME NEW k \in DOMAIN asked, ~OutOfSpace(asked[k])
          PROVE  Cardinality(EntriesFor(asked[k])) = 1
      <4>1. asked[k] \in Calls
        BY <3>1
      <4>2. EntriesFor(asked[k]) # {}
        <5>1. CASE Len(ap.allocs[asked[k][3]]) = MCTOP_ALLOC_POOL_MAX_N
          BY <3>6, <5>1 DEF OutOfSpace
        <5>2. CASE Found(ap.allocs[asked[k][3]], asked[k]) > 0
          BY <2>2, <4>1, <5>2, AtMostOneEntry
        <5> QED BY <3>3, <5>1, <5>2
      <4> QED BY <2>2, <4>1, <4>2, AtMostOneEntry
    <3> QED BY <3>3, <3>5, <3>6 DEF g
  <2> QED BY <2>1, <2>2 DEF PoolIInv
<1> QED BY <1>1, PoolInvariant, PTL

-----------------------------------------------------------------------------
(* The node tree.  What does not change once main has created tree and        *)
(* threads: who has a role at which level, in which pair, with which number.  *)
PairAt(th, l) == CHOOSE p \in PairsOf(info[th].node, l) : TRUE

Roles ==
  [n |-> NumLevels, threads |-> Threads, nodes |-> TreeNodes,
   node |-> [th \in Threads |-> info[th].node],
   leads |-> {th \in Threads : info[th].insocket = 0},
   parts |-> {th \in Threads : Participates(info[th], nt.barrier_for)},
   pairs |-> [l \in TreeLevels |-> LevelPairs(l)],
   there |-> [l \in TreeLevels |-> ThreadsAt(l)],
   pair |-> [l \in TreeLevels |-> [th \in ThreadsAt(l) |-> PairAt(th, l)]],
   number |-> [l \in TreeLevels |-> [th \in ThreadsAt(l) |-> NumberAt(th, l)]],
   wait |-> [l \in TreeLevels |-> nt.levels[l + 1].n_wait],
   full |-> NumLevels > 0 /\ Len(alloc.sockets) = 2^NumLevels]

LevelsOf(S) == 0..(S.n - 1)
NodesOf(S, l) == UNION {{p.nodes[1], p.nodes[2]} : p \in S.pairs[l]}
TopOf(S) == NodesOf(S, S.n - 1)
Leads(S, th, node) == th \in S.leads /\ S.node[th] = node

(* A pair of its own nodes, with a thread of the level for each of its shares. *)
PairIsSound(S, l, p) ==
  /\ p.nodes[1] \in S.nodes /\ p.nodes[2] \in S.nodes /\ p.n_hwcs \in Nat
  /\ \A q \in S.pairs[l] : p.nodes[1] = q.nodes[1] \/ l = 0 => p = q
  /\ \E th \in S.there[l] : S.pair[l][th] = p
  /\ \A id \in 0..(p.n_hwcs - 1) :
       \E th \in S.there[l] : S.pair[l][th] = p /\ S.number[l][th] = id

(* What TreeIsSound says of the roles. *)
RolesAreSound(S) ==
  /\ S.n \in Nat /\ IsFiniteSet(S.threads) /\ S.parts \subseteq S.threads
  /\ S.full => S.n > 0 /\ TopOf(S) = S.nodes
  /\ \A l \in LevelsOf(S) :
       /\ S.there[l] \in SUBSET S.parts /\ Cardinality(S.there[l]) = S.wait[l]
       /\ \A k \in 0..l : S.there[k] \subseteq S.there[l]
       /\ S.pairs[l] # {}
       /\ \A p \in S.pairs[l] : PairIsSound(S, l, p)
       /\ \A th \in S.there[l] :
            S.pair[l][th] \in S.pairs[l] /\ S.number[l][th] \in Int
       /\ \A node \in NodesOf(S, l) :
            \E th \in S.there[l] : \A u \in S.threads : Leads(S, u, node) <=> u = th
       /\ l > 0 => NodesOf(S, l - 1) = {p.nodes[1] : p \in S.pairs[l]}

(* A thread has not yet come through the first, the second barrier of a level. *)
Before1(th, l) == lvl[th] > l \/ (lvl[th] = l /\ pc[th] \in {"enter", "waits"})
Before2(th, l) ==
  lvl[th] > l \/ (lvl[th] = l /\ pc[th] \in {"enter", "waits", "merge", "merged"})

AllShares(S) == [id : Int, of : Nat, nodes : SUBSET S.nodes]

ControlTypeOK(S) ==
  /\ pc \in [S.threads -> {"enter", "waits", "merge", "merged", "swap", "leave", "leaves", "done"}]
  /\ lvl \in [S.threads -> -1..(S.n - 1)]
  /\ at \in [0..S.n -> SUBSET S.threads]

DataTypeOK(S) ==
  /\ node_data \in [S.nodes -> [source : SUBSET AllShares(S), destination : SUBSET AllShares(S)]]
  /\ array \in SUBSET AllShares(S)

(* A thread merges at levels where it has a role; one that has left the loop  *)
(* has none at the levels to come.                                            *)
HasRole(S) ==
  \A th \in S.threads :
    /\ pc[th] = "enter" => th \in S.parts
    /\ pc[th] \in {"waits", "merge", "merged", "swap"} =>
         lvl[th] \in LevelsOf(S) /\ th \in S.there[lvl[th]]
    /\ pc[th] \in {"leave", "leaves", "done"} =>
         \A l \in LevelsOf(S) : l <= lvl[th] => th \notin S.there[l]

(* Who waits where; no barrier is full. *)
AtBarriers(S) ==
  /\ \A l \in LevelsOf(S) :
       /\ at[l] = {th \in S.threads : lvl[th] = l /\ pc[th] \in {"waits", "merged"}}
       /\ at[l] # S.there[l]
  /\ at[S.n] = {th \in S.threads : pc[th] = "leaves"}
  /\ S.threads # {} => at[S.n] # S.threads

(* The threads of a level are all before a barrier of it, or all behind it.   *)
InStep(S) ==
  /\ \A l \in LevelsOf(S) : \A th, u \in S.there[l] :
       (Before1(th, l) => Before1(u, l)) /\ (Before2(th, l) => Before2(u, l))
  /\ \A th, u \in S.threads : pc[th] = "done" => pc[u] = "done"

(* The merges of the level above are through, those of this level are not. *)
Ready(S, l) ==
  /\ l = S.n - 1 \/ \E th \in S.there[l + 1] : ~ Before2(th, l + 1)
  /\ \E th \in S.there[l] : Before2(th, l)

(* The data of a node at a level: in its other buffer until its leader swaps. *)
Got(S, node, l) ==
  IF \E th \in S.threads : Leads(S, th, node) /\ lvl[th] = l + 1
  THEN Whole(node_data[node].destination) ELSE Whole(node_data[node].source)

(* The nodes of a level that is ready have all data between them. *)
SourcesWhole(S) ==
  \A l \in LevelsOf(S) : Ready(S, l) =>
    /\ \A node \in NodesOf(S, l) : Got(S, node, l) # {}
    /\ UNION {Got(S, node, l) : node \in NodesOf(S, l)} = TopOf(S)

Target(p, l) == IF l = 0 THEN array ELSE node_data[p.nodes[1]].destination
Sum(p) == Whole(node_data[p.nodes[1]].source) \cup Whole(node_data[p.nodes[2]].source)

(* The shares of the threads that have merged are in the target of their pair, *)
(* and nothing else is.                                                        *)
SharesWritten(S) ==
  \A l \in LevelsOf(S) : \A th \in S.there[l] : lvl[th] = l /\ pc[th] = "merged" =>
    LET p == S.pair[l][th]
    IN  /\ \A r \in Target(p, l) : r.of = p.n_hwcs /\ r.nodes = Sum(p)
        /\ Share(S.number[l][th], p.n_hwcs, Sum(p)) \in Target(p, l)

(* Once level 0 is through the result has the data of the highest level. *)
ResultWhole(S) ==
  S.n > 0 /\ (\E th \in S.there[0] : ~ Before2(th, 0)) => Whole(array) = TopOf(S)

TreeControl(S) == ControlTypeOK(S) /\ HasRole(S) /\ AtBarriers(S) /\ InStep(S)
TreeData(S) == DataTypeOK(S) /\ SourcesWhole(S) /\ SharesWritten(S) /\ ResultWhole(S)
TreeInv(S) == S = Roles /\ RolesAreSound(S) /\ TreeControl(S) /\ TreeData(S)

(* The inductive invariant of the node tree. *)
TreeIInv ==
  IF client # None
  THEN /\ Threads = 1..alloc.n_hwcs /\ alloc.n_hwcs \in Nat
       /\ \E S : TreeInv(S)
  ELSE \A th \in Threads : pc[th] \in {"enter", "leave"}

-----------------------------------------------------------------------------
(* Tree and threads stay what they are. *)
LEMMA RolesStay ==
  ASSUME alloc' = alloc, nt' = nt, info' = info, DOMAIN node_data' = DOMAIN node_data
  PROVE  Roles' = Roles
<1>1. ASSUME NEW node, NEW l PROVE PairsOf(node, l)' = PairsOf(node, l)
  BY Zenon DEF PairsOf, NumLevels
<1>2. TreeLevels' = TreeLevels /\ Threads' = Threads /\ TreeNodes' = TreeNodes
      /\ NumLevels' = NumLevels
  BY DEF TreeLevels, NumLevels, Threads, TreeNodes
<1>3. \A l : LevelPairs(l)' = LevelPairs(l)
  BY DEF LevelPairs
<1>4. ASSUME NEW l PROVE ThreadsAt(l)' = ThreadsAt(l)
  <2>1. \A th : PairsOf(info[th].node, l)' = PairsOf(info[th].node, l)
    BY <1>1, Zenon
  <2> QED BY <1>2, <2>1, Zenon DEF ThreadsAt
<1>5. ASSUME NEW l, NEW th PROVE PairAt(th, l)' = PairAt(th, l)
  <2>1. PairsOf(info[th].node, l)' = PairsOf(info[th].node, l)
    BY <1>1, Zenon
  <2> QED BY <2>1, Zenon DEF PairAt
<1>6. ASSUME NEW l, NEW th PROVE NumberAt(th, l)' = NumberAt(th, l)
  <2>1. PairsOf(info[th].node, l)' = PairsOf(info[th].node, l)
    BY <1>1, Zenon
  <2>2. WorkAt(th, l)' = WorkAt(th, l)
    BY <2>1, Zenon DEF WorkAt, mctop_node_tree_get_work_description
  <2>3. PlaceInNode(th)' = PlaceInNode(th)
    BY Zenon DEF PlaceInNode
  <2> QED BY <2>2, <2>3, Zenon DEF NumberAt
<1> QED BY <1>2, <1>3, <1>4, <1>5, <1>6, Zenon DEF Roles

(* What TreeTypeOK says of one level. *)
LEMMA LevelTypes ==
  ASSUME TreeTypeOK, NEW l \in TreeLevels
  PROVE  /\ NumLevels \in Nat /\ TreeLevels = 0..(NumLevels - 1)
         /\ LET q == nt.levels[l + 1].pairs
            IN  /\ Len(q) \in Nat /\ DOMAIN q = 1..Len(q)
                /\ LevelPairs(l) = {q[k] : k \in 1..Len(q)}
         /\ \A p \in LevelPairs(l) :
              /\ p.nodes = <<p.nodes[1], p.nodes[2]>> /\ p.n_hwcs \in Nat
              /\ p.nodes[1] \in TreeNodes /\ p.nodes[2] \in TreeNodes
<1> DEFINE Pairs == [nodes : TreeNodes \X TreeNodes, socket_ids : Seq(Nat),
                     help_nodes : Seq(TreeNodes), offered : Nat,
                     offsets : Seq(Nat), n_hwcs : Nat]
           q == nt.levels[l + 1].pairs
<1>1. nt.levels \in Seq([pairs : Seq(Pairs), n_help : Nat, n_wait : Nat])
  BY DEF TreeTypeOK
<1>2. NumLevels \in Nat /\ TreeLevels = 0..(NumLevels - 1) /\ l + 1 \in 1..Len(nt.levels)
  BY <1>1, LenProperties DEF NumLevels, TreeLevels
<1> HIDE DEF Pairs
<1>3. nt.levels[l + 1] \in [pairs : Seq(Pairs), n_help : Nat, n_wait : Nat]
  BY <1>1, <1>2, ElementOfSeq
<1>4. q \in Seq(Pairs)
  BY <1>3
<1> HIDE DEF q
<1>5. Len(q) \in Nat /\ DOMAIN q = 1..Len(q) /\ \A k \in 1..Len(q) : q[k] \in Pairs
  BY <1>4, LenProperties, ElementOfSeq
<1>6. LevelPairs(l) = {q[k] : k \in 1..Len(q)}
  BY <1>5, Zenon DEF LevelPairs, ToSet, q
<1>7. ASSUME NEW p \in LevelPairs(l)
      PROVE  /\ p.nodes = <<p.nodes[1], p.nodes[2]>> /\ p.n_hwcs \in Nat
             /\ p.nodes[1] \in TreeNodes /\ p.nodes[2] \in TreeNodes
  <2>1. p \in Pairs
    BY <1>5, <1>6
  <2> QED BY <2>1 DEF Pairs
<1> QED BY <1>2, <1>5, <1>6, <1>7 DEF q

(* The pairs of a node: those it is in, and with EVERYONE those it helps. *)
LEMMA PairsOfNode ==
  ASSUME TreeTypeOK, NEW l \in TreeLevels, NEW node
  PROVE  /\ PairsOf(node, l) \subseteq LevelPairs(l)
         /\ \A p \in LevelPairs(l) :
              node = p.nodes[1] \/ node = p.nodes[2] => p \in PairsOf(node, l)
<1>1. PairsOf(node, l) = {p \in LevelPairs(l) :
         \/ darray_exists(p.nodes, node)
         \/ nt.barrier_for \in EveryoneKinds /\ darray_exists(p.help_nodes, node)}
  BY LevelTypes DEF PairsOf, LevelPairs
<1>2. ASSUME NEW p \in LevelPairs(l), node = p.nodes[1] \/ node = p.nodes[2]
      PROVE  darray_exists(p.nodes, node)
  <2>1. p.nodes = <<p.nodes[1], p.nodes[2]>>
    BY LevelTypes
  <2>2. Len(p.nodes) = 2
    BY <2>1
  <2>3. 1 \in 1..Len(p.nodes) /\ 2 \in 1..Len(p.nodes)
    BY <2>2
  <2> QED BY <1>2, <2>3, Zenon DEF darray_exists, Contains
<1> QED BY <1>1, <1>2

(* A thread with a role at a level has a pair there, and merges for it. *)
LEMMA PairOfThread ==
  ASSUME TreeTypeOK, NEW l \in TreeLevels, NEW th \in ThreadsAt(l)
  PROVE  /\ PairAt(th, l) \in PairsOf(info[th].node, l)
         /\ PairAt(th, l) \in LevelPairs(l)
         /\ WorkAt(th, l).destination = PairAt(th, l).nodes[1]
         /\ WorkAt(th, l).source = PairAt(th, l).nodes[2]
         /\ WorkAt(th, l).num_hw_contexts = PairAt(th, l).n_hwcs
         /\ NumberAt(th, l) = WorkAt(th, l).id_offset + PlaceInNode(th)
<1>1. PairsOf(info[th].node, l) # {}
  BY DEF ThreadsAt
<1>2. PairAt(th, l) \in PairsOf(info[th].node, l)
  BY <1>1 DEF PairAt
<1>3. WorkAt(th, l).destination = PairAt(th, l).nodes[1]
  BY DEF WorkAt, mctop_node_tree_get_work_description, PairAt
<1>4. WorkAt(th, l).source = PairAt(th, l).nodes[2]
  BY DEF WorkAt, mctop_node_tree_get_work_description, PairAt
<1>5. WorkAt(th, l).num_hw_contexts = PairAt(th, l).n_hwcs
  BY DEF WorkAt, mctop_node_tree_get_work_description, PairAt
<1> QED BY <1>2, <1>3, <1>4, <1>5, PairsOfNode DEF NumberAt

(* The pairs of a sound level: no node is in two, every number has a thread. *)
LEMMA SoundLevel ==
  ASSUME TreeTypeOK, NEW l \in TreeLevels, LevelIsSound(l),
         NEW p \in LevelPairs(l)
  PROVE  /\ \A q \in LevelPairs(l) : p.nodes[1] = q.nodes[1] \/ l = 0 => p = q
         /\ \E th \in ThreadsAt(l) : PairAt(th, l) = p
         /\ \A id \in 0..(p.n_hwcs - 1) :
              \E th \in ThreadsAt(l) : PairAt(th, l) = p /\ NumberAt(th, l) = id
         /\ \A th \in ThreadsAt(l) : PairAt(th, l) = p => NumberAt(th, l) \in Int
<1>1. p.n_hwcs \in Nat /\ p.nodes[1] \in TreeNodes
  BY LevelTypes
<1>2. \A node \in TreeNodes : \A q, r \in PairsOf(node, l) : q = r
  BY Zenon DEF LevelIsSound
<1>3. ASSUME NEW q \in LevelPairs(l), p.nodes[1] = q.nodes[1] PROVE p = q
  <2>1. p \in PairsOf(p.nodes[1], l) /\ q \in PairsOf(p.nodes[1], l)
    BY <1>3, PairsOfNode
  <2> QED BY <1>1, <1>2, <2>1
<1>4. ASSUME NEW q \in LevelPairs(l), l = 0 PROVE p = q
  <2>1. Len(nt.levels[l + 1].pairs) = 1
    BY <1>4, Zenon DEF LevelIsSound
  <2> QED BY <2>1, LevelTypes, SMTT(60)
<1> DEFINE mine == {th \in ThreadsAt(l) : WorkAt(th, l).destination = p.nodes[1]}
<1>5. {NumberAt(th, l) : th \in mine} = 0..(p.n_hwcs - 1)
  BY Zenon DEF LevelIsSound
<1>6. \A th \in ThreadsAt(l) : th \in mine <=> PairAt(th, l) = p
  BY <1>3, PairOfThread
<1> HIDE DEF mine
<1>7. mine \subseteq ThreadsAt(l)
  BY DEF mine
<1>8. \E th \in ThreadsAt(l) : PairAt(th, l) = p
  <2>1. p.nodes[1] \in LevelNodes(l)
    <3>1. p.nodes[1] \in ToSet(p.nodes)
      <4>1. 1 \in DOMAIN p.nodes
        BY LevelTypes
      <4> QED BY <4>1 DEF ToSet
    <3> QED BY <3>1 DEF LevelNodes
  <2>2. PICK th \in ThreadsAt(l) : LeadersOf(p.nodes[1]) = {th}
    BY <2>1, Zenon DEF LevelIsSound
  <2>3. info[th].node = p.nodes[1]
    BY <2>2 DEF LeadersOf
  <2>4. p \in PairsOf(p.nodes[1], l) /\ PairAt(th, l) \in PairsOf(p.nodes[1], l)
    BY <2>3, PairsOfNode, PairOfThread
  <2> QED BY <1>1, <1>2, <2>4
<1>9. \A id \in 0..(p.n_hwcs - 1) :
        \E th \in ThreadsAt(l) : PairAt(th, l) = p /\ NumberAt(th, l) = id
  BY <1>5, <1>6, <1>7
<1>10. \A th \in ThreadsAt(l) : PairAt(th, l) = p => NumberAt(th, l) \in Int
  BY <1>1, <1>5, <1>6
<1> QED BY <1>3, <1>4, <1>8, <1>9, <1>10

(* The nodes of a level are left in the pairs of the next; there are pairs.  *)
LEMMA LevelsGrow ==
  ASSUME TreeTypeOK, \A k \in TreeLevels : LevelIsSound(k), NEW l \in TreeLevels
  PROVE  /\ LevelPairs(l) # {}
         /\ LevelNodes(l) = UNION {{p.nodes[1], p.nodes[2]} : p \in LevelPairs(l)}
         /\ l > 0 => LevelNodes(l - 1) = {p.nodes[1] : p \in LevelPairs(l)}
<1> DEFINE q(k) == nt.levels[k + 1].pairs
<1>1. NumLevels \in Nat /\ TreeLevels = 0..(NumLevels - 1)
  BY LevelTypes
<1>2. \A k \in TreeLevels :
        /\ Len(q(k)) \in Nat /\ DOMAIN q(k) = 1..Len(q(k))
        /\ LevelPairs(k) = {q(k)[i] : i \in 1..Len(q(k))}
  BY LevelTypes
<1>3. \A k \in TreeLevels : k = 0 => Len(q(k)) = 1
  BY Zenon DEF LevelIsSound
<1>4. \A k \in TreeLevels : k # 0 =>
        /\ Len(q(k)) = 2 * Len(q(k - 1))
        /\ \A i \in 1..Len(q(k)) :
             q(k)[i].nodes[1] = q(k - 1)[(i + 1) \div 2].nodes[((i - 1) % 2) + 1]
  <2> SUFFICES ASSUME NEW k \in TreeLevels, k # 0
               PROVE  /\ Len(q(k)) = 2 * Len(q(k - 1))
                      /\ \A i \in 1..Len(q(k)) :
                           q(k)[i].nodes[1] = q(k - 1)[(i + 1) \div 2].nodes[((i - 1) % 2) + 1]
    OBVIOUS
  <2>1. GrowsFrom(nt.levels[k + 1], nt.levels[k])
    BY Zenon DEF LevelIsSound
  <2>2. nt.levels[k] = nt.levels[(k - 1) + 1]
    BY <1>1
  <2> QED BY <1>2, <2>1, <2>2 DEF GrowsFrom
<1> HIDE DEF q
<1>5. \A k \in TreeLevels : Len(q(k)) > 0
  <2> DEFINE none == {k \in TreeLevels : Len(q(k)) = 0}
  <2>1. none \in SUBSET Nat
    BY <1>1
  <2>2. CASE none # {}
    <3>1. PICK k \in none : \A j \in none : k <= j
      BY <2>1, <2>2, LeastIs
    <3>2. k \in TreeLevels /\ k # 0 /\ Len(q(k)) = 0
      BY <1>3, <3>1
    <3>3. k - 1 \in TreeLevels /\ k - 1 < k
      BY <1>1, <3>2
    <3>4. Len(q(k - 1)) = 0
      BY <1>2, <1>4, <3>2, <3>3
    <3> QED BY <1>1, <3>1, <3>3, <3>4
  <2>3. CASE none = {}
    BY <1>2, <2>3
  <2> QED BY <2>2, <2>3
<1>6. LevelPairs(l) # {}
  <2>1. 1 \in 1..Len(q(l))
    BY <1>2, <1>5
  <2>2. q(l)[1] \in LevelPairs(l)
    BY <1>2, <2>1
  <2> QED BY <2>2
<1>7. \A k \in TreeLevels :
        LevelNodes(k) = UNION {{p.nodes[1], p.nodes[2]} : p \in LevelPairs(k)}
  <2> SUFFICES ASSUME NEW k \in TreeLevels
               PROVE  LevelNodes(k) = UNION {{p.nodes[1], p.nodes[2]} : p \in LevelPairs(k)}
    OBVIOUS
  <2>1. \A p \in LevelPairs(k) : ToSet(p.nodes) = {p.nodes[1], p.nodes[2]}
    <3> SUFFICES ASSUME NEW p \in LevelPairs(k) PROVE ToSet(p.nodes) = {p.nodes[1], p.nodes[2]}
      OBVIOUS
    <3>1. p.nodes = <<p.nodes[1], p.nodes[2]>>
      BY LevelTypes
    <3>2. DOMAIN p.nodes = {1, 2}
      BY <3>1
    <3> QED BY <3>2 DEF ToSet
  <2> QED BY <2>1 DEF LevelNodes
<1>8. ASSUME l > 0 PROVE LevelNodes(l - 1) = {p.nodes[1] : p \in LevelPairs(l)}
  <2>1. l - 1 \in TreeLevels /\ l # 0
    BY <1>1, <1>8
  <2>2. ASSUME NEW p \in LevelPairs(l) PROVE p.nodes[1] \in LevelNodes(l - 1)
    <3>1. PICK i \in 1..Len(q(l)) : p = q(l)[i]
      BY <1>2
    <3>2. /\ (i + 1) \div 2 \in 1..Len(q(l - 1))
          /\ ((i - 1) % 2) + 1 = 1 \/ ((i - 1) % 2) + 1 = 2
      BY <1>2, <1>4, <2>1, <3>1
    <3>3. q(l - 1)[(i + 1) \div 2] \in LevelPairs(l - 1)
      BY <1>2, <2>1, <3>2
    <3>4. p.nodes[1] = q(l - 1)[(i + 1) \div 2].nodes[((i - 1) % 2) + 1]
      BY <1>4, <2>1, <3>1
    <3> QED BY <1>7, <2>1, <3>2, <3>3, <3>4
  <2>3. ASSUME NEW r \in LevelPairs(l - 1), NEW j \in {1, 2}
        PROVE  \E p \in LevelPairs(l) : p.nodes[1] = r.nodes[j]
    <3>1. PICK k \in 1..Len(q(l - 1)) : r = q(l - 1)[k]
      BY <1>2, <2>1
    <3> DEFINE i == 2 * (k - 1) + j
    <3>2. i \in 1..Len(q(l)) /\ (i + 1) \div 2 = k /\ ((i - 1) % 2) + 1 = j
      <4>1. k \in Nat /\ 1 <= k /\ k <= Len(q(l - 1)) /\ Len(q(l)) = 2 * Len(q(l - 1))
            /\ Len(q(l - 1)) \in Nat
        BY <1>2, <1>4, <2>1
      <4>2. \A n \in Nat : (2 * n + 2) \div 2 = n + 1 /\ (2 * n + 3) \div 2 = n + 1
                            /\ (2 * n) % 2 = 0 /\ (2 * n + 1) % 2 = 1
        OBVIOUS
      <4>3. k - 1 \in Nat /\ k = (k - 1) + 1
        BY <4>1
      <4>4. CASE j = 1
        <5>1. i + 1 = 2 * (k - 1) + 2 /\ i - 1 = 2 * (k - 1)
          BY <4>1, <4>4
        <5> QED BY <4>1, <4>2, <4>3, <4>4, <5>1
      <4>5. CASE j = 2
        <5>1. i + 1 = 2 * (k - 1) + 3 /\ i - 1 = 2 * (k - 1) + 1
          BY <4>1, <4>5
        <5> QED BY <4>1, <4>2, <4>3, <4>5, <5>1
      <4> QED BY <4>4, <4>5
    <3>3. q(l)[i].nodes[1] = r.nodes[j]
      BY <1>4, <2>1, <3>1, <3>2
    <3>4. q(l)[i] \in LevelPairs(l)
      BY <1>2, <3>2
    <3> QED BY <3>3, <3>4
  <2>4. \A node \in LevelNodes(l - 1) : \E p \in LevelPairs(l) : p.nodes[1] = node
    BY <1>7, <2>1, <2>3
  <2> QED BY <2>2, <2>4
<1> QED BY <1>6, <1>7, <1>8

(* Who has a role at a level has one at all that come before. *)
LEMMA RolesNest ==
  ASSUME TreeTypeOK, \A k \in TreeLevels : LevelIsSound(k),
         NEW l \in TreeLevels, NEW k \in 0..l
  PROVE  ThreadsAt(k) \subseteq ThreadsAt(l)
<1>1. NumLevels \in Nat /\ TreeLevels = 0..(NumLevels - 1)
  BY LevelTypes
<1>2. \A j \in TreeLevels : j # 0 => ThreadsAt(j - 1) \subseteq ThreadsAt(j)
  BY Zenon DEF LevelIsSound
<1> DEFINE not == {j \in k..l : ~ (ThreadsAt(k) \subseteq ThreadsAt(j))}
<1>3. not \in SUBSET Nat
  BY <1>1
<1>4. CASE not # {}
  <2>1. PICK j \in not : \A i \in not : j <= i
    BY <1>3, <1>4, LeastIs
  <2>2. j \in k..l /\ j # k /\ ~ (ThreadsAt(k) \subseteq ThreadsAt(j))
    BY <2>1
  <2>3. j \in TreeLevels /\ j # 0 /\ j - 1 \in k..l /\ j - 1 < j
    BY <1>1, <2>2
  <2>4. j - 1 \notin not
    BY <2>1, <2>3
  <2> QED BY <1>2, <2>2, <2>3, <2>4
<1>5. CASE not = {}
  <2>1. l \in k..l
    BY <1>1
  <2> QED BY <1>5, <2>1
<1> QED BY <1>4, <1>5

(* A tree that TreeIsSound holds of has sound roles. *)
LEMMA SoundRoles ==
  ASSUME TreeTypeOK, \A l \in TreeLevels : LevelIsSound(l), Threads = 1..alloc.n_hwcs
  PROVE  RolesAreSound(Roles)
<1> DEFINE S == Roles
<1>1. NumLevels \in Nat /\ S.n = NumLevels /\ LevelsOf(S) = TreeLevels
  <2>1. NumLevels \in Nat
    BY LenProperties DEF TreeTypeOK, NumLevels
  <2> QED BY <2>1 DEF Roles, LevelsOf, TreeLevels
<1>2. S.threads = Threads /\ S.nodes = TreeNodes /\ IsFiniteSet(S.threads)
  <2>1. IsFiniteSet(1..alloc.n_hwcs)
    BY FS_Interval DEF TreeTypeOK
  <2> QED BY <2>1 DEF Roles
<1>3. ASSUME NEW l \in TreeLevels
      PROVE  /\ S.there[l] = ThreadsAt(l) /\ S.pairs[l] = LevelPairs(l)
             /\ NodesOf(S, l) = LevelNodes(l)
             /\ S.wait[l] = nt.levels[l + 1].n_wait
             /\ \A th \in ThreadsAt(l) : /\ S.pair[l][th] = PairAt(th, l)
                                         /\ S.number[l][th] = NumberAt(th, l)
  <2>1. /\ S.there[l] = ThreadsAt(l) /\ S.pairs[l] = LevelPairs(l)
        /\ S.wait[l] = nt.levels[l + 1].n_wait
    BY DEF Roles
  <2>2. \A th \in ThreadsAt(l) : /\ S.pair[l][th] = PairAt(th, l)
                                 /\ S.number[l][th] = NumberAt(th, l)
    BY DEF Roles
  <2>3. NodesOf(S, l) = LevelNodes(l)
    <3>1. LevelNodes(l) = UNION {{p.nodes[1], p.nodes[2]} : p \in LevelPairs(l)}
      BY LevelsGrow
    <3> QED BY <2>1, <3>1, Zenon DEF NodesOf
  <2> QED BY <2>1, <2>2, <2>3
<1>4. /\ \A l \in TreeLevels : ThreadsAt(l) \in SUBSET S.parts
      /\ S.parts \subseteq S.threads
  BY DEF ThreadsAt, Roles
<1>5. \A th \in Threads : \A node : Leads(S, th, node) <=> th \in LeadersOf(node)
  BY DEF Leads, LeadersOf, Roles
<1>8. S.full => NumLevels > 0 /\ Len(alloc.sockets) = 2^NumLevels
  BY DEF Roles
<1> HIDE DEF S
<1>9. ASSUME S.full PROVE S.n > 0 /\ TopOf(S) = S.nodes
  <2>1. NumLevels > 0 /\ NumLevels - 1 \in TreeLevels
    BY <1>1, <1>8, <1>9 DEF TreeLevels
  <2>2. LevelNodes(NumLevels - 1) = TreeNodes
    BY <1>8, <1>9, <2>1, Zenon DEF LevelIsSound
  <2> QED BY <1>1, <1>2, <1>3, <2>1, <2>2 DEF TopOf
<1>6. ASSUME NEW l \in TreeLevels
      PROVE  /\ S.there[l] \in SUBSET S.parts /\ Cardinality(S.there[l]) = S.wait[l]
             /\ \A k \in 0..l : S.there[k] \subseteq S.there[l]
             /\ S.pairs[l] # {}
             /\ \A th \in S.there[l] :
                  S.pair[l][th] \in S.pairs[l] /\ S.number[l][th] \in Int
             /\ \A node \in NodesOf(S, l) :
                  \E th \in S.there[l] : \A u \in S.threads : Leads(S, u, node) <=> u = th
             /\ l > 0 => NodesOf(S, l - 1) = {p.nodes[1] : p \in S.pairs[l]}
  <2>1. \A k \in 0..l : k \in TreeLevels
    BY <1>1 DEF TreeLevels
  <2>2. \A k \in 0..l : S.there[k] \subseteq S.there[l]
    BY <1>3, <2>1, RolesNest
  <2>3. \A th \in ThreadsAt(l) : PairAt(th, l) \in LevelPairs(l) /\ NumberAt(th, l) \in Int
    BY PairOfThread, SoundLevel
  <2>4. ASSUME NEW node \in LevelNodes(l)
        PROVE  \E th \in ThreadsAt(l) : \A u \in Threads : Leads(S, u, node) <=> u = th
    <3>1. PICK th \in ThreadsAt(l) : LeadersOf(node) = {th}
      BY Zenon DEF LevelIsSound
    <3> QED BY <1>5, <3>1
  <2>5. l > 0 => l - 1 \in TreeLevels
    BY <1>1 DEF TreeLevels
  <2>6. /\ LevelPairs(l) # {}
        /\ l > 0 => LevelNodes(l - 1) = {p.nodes[1] : p \in LevelPairs(l)}
    BY LevelsGrow
  <2>7. Cardinality(ThreadsAt(l)) = nt.levels[l + 1].n_wait
    BY Zenon DEF LevelIsSound
  <2> QED BY <1>2, <1>3, <1>4, <2>2, <2>3, <2>4, <2>5, <2>6, <2>7
<1>7. ASSUME NEW l \in TreeLevels, NEW p \in S.pairs[l]
      PROVE  PairIsSound(S, l, p)
  <2>1. p \in LevelPairs(l) /\ LevelIsSound(l)
    BY <1>3
  <2>2. /\ \A q \in LevelPairs(l) : p.nodes[1] = q.nodes[1] \/ l = 0 => p = q
        /\ \E th \in ThreadsAt(l) : PairAt(th, l) = p
        /\ \A id \in 0..(p.n_hwcs - 1) :
              \E th \in ThreadsAt(l) : PairAt(th, l) = p /\ NumberAt(th, l) = id
    BY <2>1, SoundLevel
  <2>3. p.nodes[1] \in TreeNodes /\ p.nodes[2] \in TreeNodes /\ p.n_hwcs \in Nat
    BY <2>1, LevelTypes
  <2> QED BY <1>2, <1>3, <2>2, <2>3 DEF PairIsSound
<1> QED BY <1>1, <1>2, <1>4, <1>6, <1>7, <1>9, Zenon DEF RolesAreSound, S

-----------------------------------------------------------------------------
(* The steps of a thread, told by its roles.  It leaves the loop over the     *)
(* levels; it waits at a barrier; it is the last to come to one and all go    *)
(* on; it goes down a level.                                                  *)
LeavesLoop(S, th) ==
  /\ pc[th] = "enter" /\ ~ (lvl[th] \in LevelsOf(S) /\ th \in S.there[lvl[th]])
  /\ pc' = [pc EXCEPT ![th] = "leave"] /\ UNCHANGED <<lvl, at>>

Pauses(S, th, wait) ==
  /\ lvl[th] \in LevelsOf(S) /\ th \in S.there[lvl[th]]
  /\ at[lvl[th]] \cup {th} # S.there[lvl[th]]
  /\ at' = [at EXCEPT ![lvl[th]] = @ \cup {th}]
  /\ pc' = [pc EXCEPT ![th] = wait] /\ UNCHANGED lvl

Opens(S, th, wait, go) ==
  /\ lvl[th] \in LevelsOf(S) /\ th \in S.there[lvl[th]]
  /\ \A u \in S.there[lvl[th]] : lvl[u] = lvl[th] /\ (u = th \/ pc[u] = wait)
  /\ at' = [at EXCEPT ![lvl[th]] = {}]
  /\ pc' = [u \in S.threads |-> IF u \in S.there[lvl[th]] THEN go ELSE pc[u]]
  /\ UNCHANGED lvl

GoesDown(S, th) ==
  /\ pc[th] = "swap" /\ lvl[th] \in LevelsOf(S) /\ th \in S.there[lvl[th]]
  /\ lvl' = [lvl EXCEPT ![th] = @ - 1]
  /\ pc' = [pc EXCEPT ![th] = "enter"] /\ UNCHANGED at

PausesAtEnd(S, th) ==
  /\ pc[th] = "leave" /\ at[S.n] \cup {th} # S.threads
  /\ at' = [at EXCEPT ![S.n] = @ \cup {th}]
  /\ pc' = [pc EXCEPT ![th] = "leaves"] /\ UNCHANGED lvl

OpensEnd(S, th) ==
  /\ pc[th] = "leave" /\ \A u \in S.threads : u = th \/ pc[u] = "leaves"
  /\ at' = [at EXCEPT ![S.n] = {}]
  /\ pc' = [u \in S.threads |-> "done"] /\ UNCHANGED lvl

(* What merging writes. *)
Merges(S, th) ==
  LET l == lvl[th]
      p == S.pair[l][th]
      r == Share(S.number[l][th], p.n_hwcs, Sum(p))
  IN  /\ pc[th] = "merge"
      /\ IF l = 0 THEN array' = Write(array, r) /\ UNCHANGED node_data
         ELSE /\ node_data' = [node_data EXCEPT ![p.nodes[1]].destination = Write(@, r)]
              /\ UNCHANGED array

(* A barrier for the threads of a set lets them go on when all are there. *)
LEMMA BarrierIs ==
  ASSUME NEW th, NEW b, NEW n, NEW wait, NEW full, IsFiniteSet(full),
         Cardinality(full) = n, at[b] \cup {th} \subseteq full, BarrierWait(th, b, n, wait)
  PROVE  IF at[b] \cup {th} = full
         THEN /\ at' = [at EXCEPT ![b] = {}]
              /\ pc' = [u \in Threads |->
                          IF u \in full THEN Released[[pc EXCEPT ![th] = wait][u]] ELSE pc[u]]
         ELSE /\ at' = [at EXCEPT ![b] = @ \cup {th}]
              /\ pc' = [pc EXCEPT ![th] = wait]
<1>1. Cardinality(at[b] \cup {th}) = n <=> at[b] \cup {th} = full
  BY FS_Subset
<1>2. [at EXCEPT ![b] = at[b] \cup {th}] = [at EXCEPT ![b] = @ \cup {th}]
  OBVIOUS
<1> QED BY <1>1, <1>2, Zenon DEF BarrierWait

(* The roles of a thread, in the terms of the model. *)
LEMMA RoleIs ==
  ASSUME NEW S, S = Roles, RolesAreSound(S), NEW l \in Int
  PROVE  /\ S.threads = Threads /\ LevelsOf(S) = TreeLevels /\ S.n = AllLevels
         /\ S.nodes = TreeNodes
         /\ \A th \in Threads : /\ S.node[th] = info[th].node
                                /\ th \in S.leads <=> info[th].insocket = 0
         /\ \A th \in S.parts :
              PairsOf(info[th].node, l) # {} <=> l \in LevelsOf(S) /\ th \in S.there[l]
         /\ l \in LevelsOf(S) => S.wait[l] = nt.levels[l + 1].n_wait
         /\ l \in LevelsOf(S) => \A th \in S.there[l] :
              /\ WorkAt(th, l).destination = S.pair[l][th].nodes[1]
              /\ WorkAt(th, l).source = S.pair[l][th].nodes[2]
              /\ WorkAt(th, l).num_hw_contexts = S.pair[l][th].n_hwcs
              /\ WorkAt(th, l).id_offset + PlaceInNode(th) = S.number[l][th]
<1>1. /\ S.n = NumLevels /\ S.n \in Nat /\ LevelsOf(S) = TreeLevels
      /\ S.threads = Threads /\ S.nodes = TreeNodes
  BY DEF Roles, LevelsOf, TreeLevels, RolesAreSound
<1>2. S.n = AllLevels
  BY <1>1 DEF AllLevels
<1>3. \A th \in Threads : /\ S.node[th] = info[th].node
                          /\ th \in S.leads <=> info[th].insocket = 0
  BY DEF Roles
<1>4. ASSUME l \in TreeLevels
      PROVE  /\ S.there[l] = ThreadsAt(l) /\ S.wait[l] = nt.levels[l + 1].n_wait
             /\ \A th \in ThreadsAt(l) : /\ S.pair[l][th] = PairAt(th, l)
                                         /\ S.number[l][th] = NumberAt(th, l)
  BY <1>4 DEF Roles
<1>5. S.parts = {th \in Threads : Participates(info[th], nt.barrier_for)}
  BY DEF Roles
<1>6. l \notin TreeLevels => \A th : PairsOf(info[th].node, l) = {}
  <2>1. l \notin TreeLevels => l < 0 \/ l >= NumLevels
    BY <1>1 DEF TreeLevels
  <2> QED BY <2>1, Zenon DEF PairsOf
<1>7. ASSUME l \in TreeLevels, NEW th \in S.there[l]
      PROVE  /\ WorkAt(th, l).destination = S.pair[l][th].nodes[1]
             /\ WorkAt(th, l).source = S.pair[l][th].nodes[2]
             /\ WorkAt(th, l).num_hw_contexts = S.pair[l][th].n_hwcs
             /\ WorkAt(th, l).id_offset + PlaceInNode(th) = S.number[l][th]
  <2>1. S.pair[l][th] = PairAt(th, l) /\ S.number[l][th] = NumberAt(th, l)
    BY <1>4, <1>7
  <2>2. WorkAt(th, l).destination = PairAt(th, l).nodes[1]
    BY DEF WorkAt, mctop_node_tree_get_work_description, PairAt
  <2>3. WorkAt(th, l).source = PairAt(th, l).nodes[2]
    BY DEF WorkAt, mctop_node_tree_get_work_description, PairAt
  <2>4. WorkAt(th, l).num_hw_contexts = PairAt(th, l).n_hwcs
    BY DEF WorkAt, mctop_node_tree_get_work_description, PairAt
  <2> QED BY <2>1, <2>2, <2>3, <2>4 DEF NumberAt
<1>8. \A th \in S.parts :
        PairsOf(info[th].node, l) # {} <=> l \in TreeLevels /\ th \in S.there[l]
  <2>1. CASE l \in TreeLevels
    BY <1>4, <1>5, <2>1 DEF ThreadsAt
  <2>2. CASE l \notin TreeLevels
    BY <1>6, <2>2
  <2> QED BY <2>1, <2>2
<1> QED BY <1>1, <1>2, <1>3, <1>4, <1>7, <1>8

(* Who is let go on by which barrier. *)
LEMMA ReleasedIs ==
  Released["waits"] = "merge" /\ Released["merged"] = "swap" /\ Released["leaves"] = "done"
BY DEF Released

(* The types of a step's levels and places. *)
LEMMA PlaceIs ==
  ASSUME NEW S, TreeInv(S), NEW th \in S.threads
  PROVE  /\ S.n \in Nat /\ lvl[th] \in Int /\ lvl[th] >= -1 /\ lvl[th] < S.n
         /\ LevelsOf(S) = 0..(S.n - 1)
         /\ DOMAIN pc = S.threads
         /\ \A l \in LevelsOf(S) :
              /\ l \in Int /\ l # S.n /\ IsFiniteSet(S.there[l])
              /\ S.there[l] \subseteq S.threads /\ at[l] \subseteq S.there[l]
              /\ at[l] = {u \in S.there[l] : lvl[u] = l /\ pc[u] \in {"waits", "merged"}}
         /\ DOMAIN at = 0..S.n
<1>1. S.n \in Nat /\ IsFiniteSet(S.threads) /\ S.parts \subseteq S.threads
  BY DEF TreeInv, RolesAreSound
<1>2. lvl \in [S.threads -> -1..(S.n - 1)] /\ DOMAIN pc = S.threads /\ DOMAIN at = 0..S.n
  BY DEF TreeInv, TreeControl, ControlTypeOK
<1>3. LevelsOf(S) = 0..(S.n - 1)
  BY DEF LevelsOf
<1>4. ASSUME NEW l \in LevelsOf(S)
      PROVE  /\ IsFiniteSet(S.there[l]) /\ S.there[l] \subseteq S.threads
             /\ at[l] \subseteq S.there[l]
             /\ at[l] = {u \in S.there[l] : lvl[u] = l /\ pc[u] \in {"waits", "merged"}}
  <2>1. S.there[l] \in SUBSET S.parts
    BY DEF TreeInv, RolesAreSound
  <2>2. S.there[l] \subseteq S.threads
    BY <1>1, <2>1
  <2>3. at[l] = {u \in S.threads : lvl[u] = l /\ pc[u] \in {"waits", "merged"}}
    BY DEF TreeInv, TreeControl, AtBarriers
  <2>4. at[l] \subseteq S.there[l]
    BY <2>3 DEF TreeInv, TreeControl, HasRole
  <2>5. IsFiniteSet(S.there[l])
    BY <1>1, <2>2, FS_Subset
  <2> QED BY <2>2, <2>3, <2>4, <2>5
<1> QED BY <1>1, <1>2, <1>3, <1>4

(* A thread that comes to the entry barrier of a level leaves the loop, waits,
   or is the last to come and lets the waiting ones go. *)
LEMMA EnterIs ==
  ASSUME NEW S, TreeInv(S), NEW th \in S.threads, Enter(th)
  PROVE  /\ UNCHANGED <<node_data, array>> /\ pc[th] = "enter"
         /\ \/ LeavesLoop(S, th)
            \/ Pauses(S, th, "waits")
            \/ Opens(S, th, "waits", "merge")
<1> DEFINE l == lvl[th]
<1>1. l \in Int /\ S = Roles /\ RolesAreSound(S) /\ S.threads = Threads
  BY PlaceIs, RoleIs DEF TreeInv
<1>2. pc[th] = "enter" /\ UNCHANGED <<node_data, array, lvl>>
  BY DEF Enter
<1>3. th \in S.parts
  BY <1>2 DEF TreeInv, TreeControl, HasRole
<1>4. PairsOf(info[th].node, l) # {} <=> l \in LevelsOf(S) /\ th \in S.there[l]
  BY <1>1, <1>3, RoleIs
<1>5. CASE ~ (l \in LevelsOf(S) /\ th \in S.there[l])
  <2>1. pc' = [pc EXCEPT ![th] = "leave"] /\ UNCHANGED at
    BY <1>4, <1>5 DEF Enter
  <2> QED BY <1>2, <1>5, <2>1 DEF LeavesLoop
<1>6. CASE l \in LevelsOf(S) /\ th \in S.there[l]
  <2>1. BarrierWait(th, l, S.wait[l], "waits")
    <3>1. nt.levels[lvl[th] + 1].n_wait = S.wait[l]
      BY <1>1, <1>6, RoleIs
    <3>2. BarrierWait(th, lvl[th], nt.levels[lvl[th] + 1].n_wait, "waits")
      BY <1>4, <1>6 DEF Enter
    <3> QED BY <3>1, <3>2
  <2>2. Cardinality(S.there[l]) = S.wait[l]
    BY <1>1, <1>6 DEF RolesAreSound
  <2>3. at[l] \cup {th} \subseteq S.there[l] /\ IsFiniteSet(S.there[l])
    BY <1>6, PlaceIs
  <2> HIDE DEF l
  <2>4. IF at[l] \cup {th} = S.there[l]
        THEN /\ at' = [at EXCEPT ![l] = {}]
             /\ pc' = [u \in Threads |-> IF u \in S.there[l]
                                         THEN Released[[pc EXCEPT ![th] = "waits"][u]] ELSE pc[u]]
        ELSE /\ at' = [at EXCEPT ![l] = @ \cup {th}]
             /\ pc' = [pc EXCEPT ![th] = "waits"]
    BY <2>1, <2>2, <2>3, BarrierIs
  <2>5. CASE at[l] \cup {th} # S.there[l]
    BY <1>2, <1>6, <2>4, <2>5, Zenon DEF Pauses, l
  <2>6. CASE at[l] \cup {th} = S.there[l]
    <3>1. Before1(th, l)
      BY <1>2 DEF Before1, l
    <3>2. ASSUME NEW u \in S.there[l], u # th PROVE lvl[u] = l /\ pc[u] = "waits"
      <4>1. lvl[u] = l /\ pc[u] \in {"waits", "merged"}
        BY <1>6, <2>6, <3>2, PlaceIs
      <4>2. Before1(u, l)
        BY <1>6, <3>1 DEF TreeInv, TreeControl, InStep
      <4> QED BY <1>1, <4>1, <4>2 DEF Before1
    <3>3. \A u \in S.there[l] : lvl[u] = l /\ (u = th \/ pc[u] = "waits")
      BY <3>2 DEF l
    <3>4. \A u \in S.there[l] : [pc EXCEPT ![th] = "waits"][u] = "waits"
      BY <1>6, <3>2, PlaceIs
    <3>5. pc' = [u \in S.threads |-> IF u \in S.there[l] THEN "merge" ELSE pc[u]]
      BY <1>1, <2>4, <2>6, <3>4, ReleasedIs
    <3> QED BY <1>2, <1>6, <2>4, <2>6, <3>3, <3>5 DEF Opens, l
  <2> QED BY <1>2, <2>5, <2>6
<1> QED BY <1>2, <1>5, <1>6

(* A thread that merges writes its share, then waits or is the last to come
   and lets the waiting ones go. *)
LEMMA MergeIs ==
  ASSUME NEW S, TreeInv(S), NEW th \in S.threads, Merge(th)
  PROVE  /\ Merges(S, th)
         /\ Pauses(S, th, "merged") \/ Opens(S, th, "merged", "swap")
<1> DEFINE l == lvl[th]
<1>1. l \in Int /\ S = Roles /\ RolesAreSound(S) /\ S.threads = Threads
  BY PlaceIs, RoleIs DEF TreeInv
<1>2. pc[th] = "merge" /\ UNCHANGED lvl
  BY DEF Merge
<1>3. l \in LevelsOf(S) /\ th \in S.there[l]
  BY <1>2 DEF TreeInv, TreeControl, HasRole
<1>4. Merges(S, th)
  <2> DEFINE p == S.pair[l][th]
             w == Work(th)
  <2>1. Work(th) = WorkAt(th, l)
    BY DEF Work, WorkAt
  <2>2. /\ Work(th).destination = p.nodes[1] /\ Work(th).source = p.nodes[2]
        /\ Work(th).num_hw_contexts = p.n_hwcs
        /\ Work(th).id_offset + PlaceInNode(th) = S.number[l][th]
    BY <1>1, <1>3, <2>1, RoleIs
  <2>3. LET r == Share(w.id_offset + PlaceInNode(th), w.num_hw_contexts,
                       Whole(node_data[w.destination].source) \cup Whole(node_data[w.source].source))
        IN  IF lvl[th] = 0
            THEN array' = Write(array, r) /\ UNCHANGED node_data
            ELSE /\ node_data' = [node_data EXCEPT ![w.destination].destination = Write(@, r)]
                 /\ UNCHANGED array
    BY Zenon DEF Merge
  <2> HIDE DEF w
  <2>4. /\ w.destination = p.nodes[1] /\ w.source = p.nodes[2]
        /\ w.num_hw_contexts = p.n_hwcs
        /\ w.id_offset + PlaceInNode(th) = S.number[l][th]
    BY <2>2 DEF w
  <2> QED BY <1>2, <2>3, <2>4, Zenon DEF Merges, Sum
<1>5. Pauses(S, th, "merged") \/ Opens(S, th, "merged", "swap")
  <2>1. BarrierWait(th, l, S.wait[l], "merged")
    <3>1. nt.levels[lvl[th] + 1].n_wait = S.wait[l]
      BY <1>1, <1>3, RoleIs
    <3>2. BarrierWait(th, lvl[th], nt.levels[lvl[th] + 1].n_wait, "merged")
      BY Zenon DEF Merge
    <3> QED BY <3>1, <3>2
  <2>2. Cardinality(S.there[l]) = S.wait[l]
    BY <1>1, <1>3 DEF RolesAreSound
  <2>3. at[l] \cup {th} \subseteq S.there[l] /\ IsFiniteSet(S.there[l])
    BY <1>3, PlaceIs
  <2> HIDE DEF l
  <2>4. IF at[l] \cup {th} = S.there[l]
        THEN /\ at' = [at EXCEPT ![l] = {}]
             /\ pc' = [u \in Threads |-> IF u \in S.there[l]
                                         THEN Released[[pc EXCEPT ![th] = "merged"][u]] ELSE pc[u]]
        ELSE /\ at' = [at EXCEPT ![l] = @ \cup {th}]
             /\ pc' = [pc EXCEPT ![th] = "merged"]
    BY <2>1, <2>2, <2>3, BarrierIs
  <2>5. CASE at[l] \cup {th} # S.there[l]
    BY <1>2, <1>3, <2>4, <2>5, Zenon DEF Pauses, l
  <2>6. CASE at[l] \cup {th} = S.there[l]
    <3>1. ~ Before1(th, l)
      BY <1>1, <1>2 DEF Before1, l
    <3>2. ASSUME NEW u \in S.there[l], u # th PROVE lvl[u] = l /\ pc[u] = "merged"
      <4>1. lvl[u] = l /\ pc[u] \in {"waits", "merged"}
        BY <1>3, <2>6, <3>2, PlaceIs
      <4>2. ~ Before1(u, l)
        BY <1>3, <3>1 DEF TreeInv, TreeControl, InStep
      <4> QED BY <4>1, <4>2 DEF Before1
    <3>3. \A u \in S.there[l] : lvl[u] = l /\ (u = th \/ pc[u] = "merged")
      BY <3>2 DEF l
    <3>4. \A u \in S.there[l] : [pc EXCEPT ![th] = "merged"][u] = "merged"
      BY <1>3, <3>2, PlaceIs
    <3>5. pc' = [u \in S.threads |-> IF u \in S.there[l] THEN "swap" ELSE pc[u]]
      BY <1>1, <2>4, <2>6, <3>4, ReleasedIs
    <3> QED BY <1>2, <1>3, <2>4, <2>6, <3>3, <3>5 DEF Opens, l
  <2> QED BY <2>5, <2>6
<1> QED BY <1>4, <1>5

(* The barrier of all threads at the end: the last to come lets all others go. *)
LEMMA WaitAllIs ==
  ASSUME NEW S, TreeInv(S), NEW th \in S.threads, WaitAll(th),
         Threads = 1..alloc.n_hwcs, alloc.n_hwcs \in Nat
  PROVE  /\ UNCHANGED <<node_data, array>>
         /\ PausesAtEnd(S, th) \/ OpensEnd(S, th)
<1>1. S = Roles /\ RolesAreSound(S) /\ S.threads = Threads /\ S.n = AllLevels
  BY RoleIs DEF TreeInv
<1>2. pc[th] = "leave" /\ UNCHANGED <<node_data, array, lvl>>
  BY DEF WaitAll
<1>3. at[S.n] = {u \in S.threads : pc[u] = "leaves"}
  BY DEF TreeInv, TreeControl, AtBarriers
<1>4. BarrierWait(th, S.n, alloc.n_hwcs, "leaves")
  BY <1>1 DEF WaitAll
<1>5. IsFiniteSet(S.threads) /\ Cardinality(S.threads) = alloc.n_hwcs
  <2>1. Cardinality(1..alloc.n_hwcs) = alloc.n_hwcs
    BY FS_Interval
  <2> QED BY <1>1, <2>1 DEF RolesAreSound
<1>6. at[S.n] \cup {th} \subseteq S.threads
  BY <1>3
<1>7. IF at[S.n] \cup {th} = S.threads
      THEN /\ at' = [at EXCEPT ![S.n] = {}]
           /\ pc' = [u \in Threads |-> IF u \in S.threads
                                       THEN Released[[pc EXCEPT ![th] = "leaves"][u]] ELSE pc[u]]
      ELSE /\ at' = [at EXCEPT ![S.n] = @ \cup {th}]
           /\ pc' = [pc EXCEPT ![th] = "leaves"]
  BY <1>4, <1>5, <1>6, BarrierIs
<1>8. CASE at[S.n] \cup {th} # S.threads
  BY <1>2, <1>7, <1>8, Zenon DEF PausesAtEnd
<1>9. CASE at[S.n] \cup {th} = S.threads
  <2>1. \A u \in S.threads : u = th \/ pc[u] = "leaves"
    BY <1>3, <1>9
  <2>2. \A u \in S.threads : [pc EXCEPT ![th] = "leaves"][u] = "leaves"
    BY <2>1, PlaceIs
  <2>3. pc' = [u \in S.threads |-> "done"]
    BY <1>1, <1>7, <1>9, <2>2, ReleasedIs
  <2> QED BY <1>2, <1>7, <1>9, <2>1, <2>3 DEF OpensEnd
<1> QED BY <1>2, <1>8, <1>9

(* A thread behind the merge goes on to the next level; the one that leads
   swaps the buffers of its node first. *)
LEMMA SwapIs ==
  ASSUME NEW S, TreeInv(S), NEW th \in S.threads, Swap(th)
  PROVE  /\ GoesDown(S, th) /\ UNCHANGED array
         /\ node_data' = IF th \in S.leads
                         THEN [node_data EXCEPT ![S.node[th]] =
                                 [source |-> @.destination, destination |-> @.source]]
                         ELSE node_data
<1>1. S = Roles /\ RolesAreSound(S) /\ S.threads = Threads
  BY RoleIs DEF TreeInv
<1>2. S.node[th] = info[th].node /\ (th \in S.leads <=> info[th].insocket = 0)
  BY <1>1, RoleIs
<1>3. pc[th] = "swap"
  BY DEF Swap
<1>4. lvl[th] \in LevelsOf(S) /\ th \in S.there[lvl[th]]
  BY <1>3 DEF TreeInv, TreeControl, HasRole
<1>5. GoesDown(S, th) /\ UNCHANGED array
  BY <1>3, <1>4, Zenon DEF Swap, GoesDown
<1>6. node_data' = IF info[th].insocket = 0
                   THEN [node_data EXCEPT ![info[th].node] =
                           [source |-> @.destination, destination |-> @.source]]
                   ELSE node_data
  BY Zenon DEF Swap
<1> QED BY <1>2, <1>5, <1>6, Zenon

-----------------------------------------------------------------------------
(* Who is at which barrier stays right, step by step.                         *)

(* A thread that stops at a barrier of a level. *)
LEMMA PausesKeeps ==
  ASSUME NEW S, TreeInv(S), NEW th \in S.threads, NEW wait, Pauses(S, th, wait),
         \/ pc[th] = "enter" /\ wait = "waits"
         \/ pc[th] = "merge" /\ wait = "merged"
  PROVE  /\ TreeControl(S)'
         /\ \A u \in S.threads : \A l \in LevelsOf(S) : Before2(u, l)' <=> Before2(u, l)
<1> DEFINE l == lvl[th]
<1>1. /\ l \in LevelsOf(S) /\ th \in S.there[l] /\ at[l] \cup {th} # S.there[l]
      /\ at' = [at EXCEPT ![l] = @ \cup {th}]
      /\ pc' = [pc EXCEPT ![th] = wait] /\ lvl' = lvl
  BY DEF Pauses
<1>2. ControlTypeOK(S) /\ HasRole(S) /\ AtBarriers(S) /\ InStep(S)
  BY DEF TreeInv, TreeControl
<1>3. /\ \A k \in LevelsOf(S) : k # S.n /\ S.there[k] \subseteq S.threads /\ k \in 0..S.n
      /\ S.n \in 0..S.n
  BY PlaceIs
<1>4. wait \in {"waits", "merged"}
  OBVIOUS
<1>5. /\ \A u \in S.threads : pc'[u] = IF u = th THEN wait ELSE pc[u]
      /\ \A k \in 0..S.n : at'[k] = IF k = l THEN at[l] \cup {th} ELSE at[k]
  BY <1>1, <1>2 DEF ControlTypeOK
<1> HIDE DEF l
<1>6. ControlTypeOK(S)'
  BY <1>1, <1>2, <1>4 DEF ControlTypeOK
<1>7. HasRole(S)'
  <2> SUFFICES ASSUME NEW u \in S.threads
               PROVE  /\ pc'[u] = "enter" => u \in S.parts
                      /\ pc'[u] \in {"waits", "merge", "merged", "swap"} =>
                           lvl'[u] \in LevelsOf(S) /\ u \in S.there[lvl'[u]]
                      /\ pc'[u] \in {"leave", "leaves", "done"} =>
                           \A k \in LevelsOf(S) : k <= lvl'[u] => u \notin S.there[k]
    BY DEF HasRole
  <2>1. CASE u = th
    BY <1>1, <1>4, <1>5, <2>1 DEF l
  <2>2. CASE u # th
    BY <1>1, <1>2, <1>5, <2>2 DEF HasRole
  <2> QED BY <2>1, <2>2
<1>8. AtBarriers(S)'
  <2>1. ASSUME NEW k \in LevelsOf(S)
        PROVE  /\ at'[k] = {u \in S.threads : lvl'[u] = k /\ pc'[u] \in {"waits", "merged"}}
               /\ at'[k] # S.there[k]
    <3>1. /\ at[k] = {u \in S.threads : lvl[u] = k /\ pc[u] \in {"waits", "merged"}}
          /\ at[k] # S.there[k]
      BY <1>2 DEF AtBarriers
    <3>2. CASE k = l
      <4>1. at'[k] = at[k] \cup {th} /\ lvl'[th] = k
        BY <1>1, <1>3, <1>5, <3>2 DEF l
      <4> QED BY <1>1, <1>4, <1>5, <3>1, <3>2, <4>1
    <3>3. CASE k # l
      <4>1. at'[k] = at[k] /\ lvl'[th] # k
        BY <1>1, <1>3, <1>5, <3>3 DEF l
      <4> QED BY <1>1, <1>5, <3>1, <4>1
    <3> QED BY <3>2, <3>3
  <2>2. at'[S.n] = {u \in S.threads : pc'[u] = "leaves"}
    <3>1. at'[S.n] = at[S.n]
      BY <1>1, <1>3, <1>5
    <3>2. pc[th] # "leaves" /\ pc'[th] # "leaves"
      BY <1>5
    <3> QED BY <1>2, <1>5, <3>1, <3>2 DEF AtBarriers
  <2>3. S.threads # {} => at'[S.n] # S.threads
    BY <1>1, <1>2, <1>3, <1>5 DEF AtBarriers
  <2> QED BY <2>1, <2>2, <2>3 DEF AtBarriers
<1>9. \A u \in S.threads : \A k \in LevelsOf(S) :
        (Before1(u, k)' <=> Before1(u, k)) /\ (Before2(u, k)' <=> Before2(u, k))
  <2> SUFFICES ASSUME NEW u \in S.threads, NEW k \in LevelsOf(S)
               PROVE  (Before1(u, k)' <=> Before1(u, k)) /\ (Before2(u, k)' <=> Before2(u, k))
    OBVIOUS
  <2>1. lvl'[u] = lvl[u] /\ pc'[u] = IF u = th THEN wait ELSE pc[u]
    BY <1>1, <1>5
  <2> QED BY <2>1 DEF Before1, Before2
<1>10. InStep(S)'
  <2>1. \A u, v \in S.threads : pc'[u] = "done" => pc'[v] = "done"
    <3>1. \A u \in S.threads : pc[u] # "done"
      BY <1>2 DEF InStep
    <3> QED BY <1>4, <1>5, <3>1
  <2>2. \A k \in LevelsOf(S) : \A u, v \in S.there[k] :
          (Before1(u, k)' => Before1(v, k)') /\ (Before2(u, k)' => Before2(v, k)')
    BY <1>2, <1>3, <1>9 DEF InStep
  <2> QED BY <2>1, <2>2 DEF InStep
<1> QED BY <1>6, <1>7, <1>8, <1>9, <1>10 DEF TreeControl

(* The last thread to come to a barrier of a level. *)
LEMMA OpensKeeps ==
  ASSUME NEW S, TreeInv(S), NEW th \in S.threads, NEW wait, NEW go, Opens(S, th, wait, go),
         \/ pc[th] = "enter" /\ wait = "waits" /\ go = "merge"
         \/ pc[th] = "merge" /\ wait = "merged" /\ go = "swap"
  PROVE  /\ TreeControl(S)'
         /\ \A u \in S.threads : \A l \in LevelsOf(S) : l # lvl[th] \/ go = "merge" =>
              (Before2(u, l)' <=> Before2(u, l))
<1> SUFFICES ASSUME NEW l \in LevelsOf(S), l = lvl[th]
             PROVE  /\ TreeControl(S)'
                    /\ \A u \in S.threads : \A k \in LevelsOf(S) : k # l \/ go = "merge" =>
                         (Before2(u, k)' <=> Before2(u, k))
  BY DEF Opens
<1>1. /\ l \in LevelsOf(S) /\ th \in S.there[l]
      /\ \A u \in S.there[l] : lvl[u] = l /\ (u = th \/ pc[u] = wait)
      /\ at' = [at EXCEPT ![l] = {}]
      /\ pc' = [u \in S.threads |-> IF u \in S.there[l] THEN go ELSE pc[u]] /\ lvl' = lvl
  BY DEF Opens
<1>2. ControlTypeOK(S) /\ HasRole(S) /\ AtBarriers(S) /\ InStep(S)
  BY DEF TreeInv, TreeControl
<1>3. /\ \A k \in LevelsOf(S) : k # S.n /\ S.there[k] \subseteq S.threads /\ k \in 0..S.n
      /\ S.n \in 0..S.n
  BY PlaceIs
<1>4. /\ \A u \in S.threads : pc'[u] = IF u \in S.there[l] THEN go ELSE pc[u]
      /\ \A k \in 0..S.n : at'[k] = IF k = l THEN {} ELSE at[k]
  BY <1>1, <1>2 DEF ControlTypeOK
<1>5. \A u \in S.there[l] : pc[u] \in {"enter", "waits", "merge", "merged"}
  BY <1>1
<1>6. ControlTypeOK(S)'
  <2>1. go \in {"merge", "swap"}
    OBVIOUS
  <2> QED BY <1>1, <1>2, <2>1 DEF ControlTypeOK
<1>7. HasRole(S)'
  <2> SUFFICES ASSUME NEW u \in S.threads
               PROVE  /\ pc'[u] = "enter" => u \in S.parts
                      /\ pc'[u] \in {"waits", "merge", "merged", "swap"} =>
                           lvl'[u] \in LevelsOf(S) /\ u \in S.there[lvl'[u]]
                      /\ pc'[u] \in {"leave", "leaves", "done"} =>
                           \A k \in LevelsOf(S) : k <= lvl'[u] => u \notin S.there[k]
    BY DEF HasRole
  <2>1. CASE u \in S.there[l]
    BY <1>1, <1>4, <2>1
  <2>2. CASE u \notin S.there[l]
    BY <1>1, <1>2, <1>4, <2>2 DEF HasRole
  <2> QED BY <2>1, <2>2
<1>8. AtBarriers(S)'
  <2>1. ASSUME NEW k \in LevelsOf(S)
        PROVE  /\ at'[k] = {u \in S.threads : lvl'[u] = k /\ pc'[u] \in {"waits", "merged"}}
               /\ at'[k] # S.there[k]
    <3>1. /\ at[k] = {u \in S.threads : lvl[u] = k /\ pc[u] \in {"waits", "merged"}}
          /\ at[k] # S.there[k]
      BY <1>2 DEF AtBarriers
    <3>2. CASE k = l
      <4>1. at'[k] = {}
        BY <1>3, <1>4, <3>2
      <4>2. ASSUME NEW u \in S.threads, lvl'[u] = k, pc'[u] \in {"waits", "merged"} PROVE FALSE
        <5>1. u \notin S.there[l]
          BY <1>4, <4>2
        <5>2. pc[u] \in {"waits", "merged"} /\ lvl[u] = l
          BY <1>1, <1>4, <3>2, <4>2, <5>1
        <5> QED BY <1>2, <5>1, <5>2 DEF HasRole
      <4> QED BY <1>1, <3>2, <4>1, <4>2
    <3>3. CASE k # l
      <4>1. at'[k] = at[k]
        BY <1>3, <1>4, <3>3
      <4>2. \A u \in S.threads : lvl[u] = k => u \notin S.there[l]
        BY <1>1, <3>3
      <4> QED BY <1>1, <1>4, <3>1, <4>1, <4>2
    <3> QED BY <3>2, <3>3
  <2>2. at'[S.n] = {u \in S.threads : pc'[u] = "leaves"}
    <3>1. at'[S.n] = at[S.n]
      BY <1>1, <1>3, <1>4
    <3>2. \A u \in S.there[l] : pc[u] # "leaves" /\ go # "leaves"
      BY <1>5
    <3> QED BY <1>2, <1>4, <3>1, <3>2 DEF AtBarriers
  <2>3. S.threads # {} => at'[S.n] # S.threads
    BY <1>1, <1>2, <1>3, <1>4 DEF AtBarriers
  <2> QED BY <2>1, <2>2, <2>3 DEF AtBarriers
<1>9. ASSUME NEW u \in S.threads, NEW k \in LevelsOf(S), u \notin S.there[l] \/ k # l
      PROVE  (Before1(u, k)' <=> Before1(u, k)) /\ (Before2(u, k)' <=> Before2(u, k))
  <2>1. CASE u \notin S.there[l]
    <3>1. lvl'[u] = lvl[u] /\ pc'[u] = pc[u]
      BY <1>1, <1>4, <2>1
    <3> QED BY <3>1 DEF Before1, Before2
  <2>2. CASE u \in S.there[l] /\ k # l
    <3>1. lvl'[u] = l /\ lvl[u] = l
      BY <1>1, <2>2
    <3> QED BY <2>2, <3>1 DEF Before1, Before2
  <2> QED BY <1>9, <2>1, <2>2
<1>10. ASSUME NEW u \in S.there[l]
       PROVE  /\ ~ Before1(u, l)' /\ Before2(u, l)
              /\ Before2(u, l)' <=> go = "merge"
  <2>1. lvl'[u] = l /\ lvl[u] = l /\ pc'[u] = go /\ l \in Int
    <3>1. u \in S.threads
      BY <1>1, <1>3
    <3> QED BY <1>1, <1>4, <3>1, PlaceIs
  <2> QED BY <1>5, <2>1 DEF Before1, Before2
<1>11. InStep(S)'
  <2>1. \A u, v \in S.threads : pc'[u] = "done" => pc'[v] = "done"
    <3>1. \A u \in S.threads : pc[u] # "done"
      BY <1>2 DEF InStep
    <3> QED BY <1>4, <3>1
  <2>2. ASSUME NEW k \in LevelsOf(S), NEW u \in S.there[k], NEW v \in S.there[k]
        PROVE  (Before1(u, k)' => Before1(v, k)') /\ (Before2(u, k)' => Before2(v, k)')
    <3>1. CASE k = l
      BY <1>10, <3>1
    <3>2. CASE k # l
      <4>1. u \in S.threads /\ v \in S.threads
        BY <1>3
      <4>2. (Before1(u, k) => Before1(v, k)) /\ (Before2(u, k) => Before2(v, k))
        BY <1>2 DEF InStep
      <4> QED BY <1>9, <3>2, <4>1, <4>2
    <3> QED BY <3>1, <3>2
  <2> QED BY <2>1, <2>2 DEF InStep
<1>12. \A u \in S.threads : \A k \in LevelsOf(S) : k # l \/ go = "merge" =>
         (Before2(u, k)' <=> Before2(u, k))
  BY <1>9, <1>10
<1> QED BY <1>6, <1>7, <1>8, <1>11, <1>12 DEF TreeControl

(* A thread without a role at its level, which goes to the last barrier. *)
LEMMA LeavesLoopKeeps ==
  ASSUME NEW S, TreeInv(S), NEW th \in S.threads, LeavesLoop(S, th)
  PROVE  /\ TreeControl(S)'
         /\ \A l \in LevelsOf(S) : \A u \in S.there[l] : Before2(u, l)' <=> Before2(u, l)
<1>1. /\ pc[th] = "enter" /\ ~ (lvl[th] \in LevelsOf(S) /\ th \in S.there[lvl[th]])
      /\ pc' = [pc EXCEPT ![th] = "leave"] /\ lvl' = lvl /\ at' = at
  BY DEF LeavesLoop
<1>2. ControlTypeOK(S) /\ HasRole(S) /\ AtBarriers(S) /\ InStep(S)
  BY DEF TreeInv, TreeControl
<1>3. \A u \in S.threads : pc'[u] = IF u = th THEN "leave" ELSE pc[u]
  BY <1>1, <1>2 DEF ControlTypeOK
<1>4. \A l \in LevelsOf(S) : l <= lvl[th] => th \notin S.there[l]
  <2> SUFFICES ASSUME NEW l \in LevelsOf(S), l <= lvl[th] PROVE th \notin S.there[l]
    OBVIOUS
  <2>1. lvl[th] \in LevelsOf(S) /\ l \in 0..lvl[th]
    BY PlaceIs
  <2>2. S.there[l] \subseteq S.there[lvl[th]]
    BY <2>1 DEF TreeInv, RolesAreSound
  <2> QED BY <1>1, <2>1, <2>2
<1>5. ControlTypeOK(S)'
  BY <1>1, <1>2 DEF ControlTypeOK
<1>6. HasRole(S)'
  <2> SUFFICES ASSUME NEW u \in S.threads
               PROVE  /\ pc'[u] = "enter" => u \in S.parts
                      /\ pc'[u] \in {"waits", "merge", "merged", "swap"} =>
                           lvl'[u] \in LevelsOf(S) /\ u \in S.there[lvl'[u]]
                      /\ pc'[u] \in {"leave", "leaves", "done"} =>
                           \A k \in LevelsOf(S) : k <= lvl'[u] => u \notin S.there[k]
    BY DEF HasRole
  <2>1. CASE u = th
    BY <1>1, <1>3, <1>4, <2>1
  <2>2. CASE u # th
    BY <1>1, <1>2, <1>3, <2>2 DEF HasRole
  <2> QED BY <2>1, <2>2
<1>7. AtBarriers(S)'
  BY <1>1, <1>2, <1>3 DEF AtBarriers
<1>8. ASSUME NEW l \in LevelsOf(S), NEW u \in S.there[l]
      PROVE  (Before1(u, l)' <=> Before1(u, l)) /\ (Before2(u, l)' <=> Before2(u, l))
  <2>1. u \in S.threads
    BY PlaceIs
  <2>2. u # th \/ lvl[u] < l
    BY <1>4, <2>1, PlaceIs
  <2>3. lvl'[u] = lvl[u] /\ lvl[u] \in Int /\ l \in Int
        /\ (lvl[u] < l \/ pc'[u] = pc[u])
    BY <1>1, <1>3, <2>1, <2>2, PlaceIs
  <2> QED BY <2>3 DEF Before1, Before2
<1>9. InStep(S)'
  <2>1. \A u, v \in S.threads : pc'[u] = "done" => pc'[v] = "done"
    <3>1. \A u \in S.threads : pc[u] # "done"
      BY <1>1, <1>2 DEF InStep
    <3> QED BY <1>3, <3>1
  <2>2. \A k \in LevelsOf(S) : \A u, v \in S.there[k] :
          (Before1(u, k)' => Before1(v, k)') /\ (Before2(u, k)' => Before2(v, k)')
    BY <1>2, <1>8 DEF InStep
  <2> QED BY <2>1, <2>2 DEF InStep
<1> QED BY <1>5, <1>6, <1>7, <1>8, <1>9 DEF TreeControl

(* A thread that has merged goes to the level below. *)
LEMMA GoesDownKeeps ==
  ASSUME NEW S, TreeInv(S), NEW th \in S.threads, GoesDown(S, th)
  PROVE  /\ TreeControl(S)'
         /\ \A l \in LevelsOf(S) : \A u \in S.there[l] : Before2(u, l)' <=> Before2(u, l)
<1>1. /\ pc[th] = "swap" /\ lvl[th] \in LevelsOf(S) /\ th \in S.there[lvl[th]]
      /\ lvl' = [lvl EXCEPT ![th] = @ - 1]
      /\ pc' = [pc EXCEPT ![th] = "enter"] /\ at' = at
  BY DEF GoesDown
<1>2. ControlTypeOK(S) /\ HasRole(S) /\ AtBarriers(S) /\ InStep(S)
  BY DEF TreeInv, TreeControl
<1>3. /\ \A u \in S.threads : pc'[u] = IF u = th THEN "enter" ELSE pc[u]
      /\ \A u \in S.threads : lvl'[u] = IF u = th THEN lvl[th] - 1 ELSE lvl[u]
  BY <1>1, <1>2 DEF ControlTypeOK
<1>4. lvl[th] - 1 \in -1..(S.n - 1)
  BY <1>1, PlaceIs
<1>5. ControlTypeOK(S)'
  BY <1>1, <1>2, <1>4 DEF ControlTypeOK
<1>6. HasRole(S)'
  <2> SUFFICES ASSUME NEW u \in S.threads
               PROVE  /\ pc'[u] = "enter" => u \in S.parts
                      /\ pc'[u] \in {"waits", "merge", "merged", "swap"} =>
                           lvl'[u] \in LevelsOf(S) /\ u \in S.there[lvl'[u]]
                      /\ pc'[u] \in {"leave", "leaves", "done"} =>
                           \A k \in LevelsOf(S) : k <= lvl'[u] => u \notin S.there[k]
    BY DEF HasRole
  <2>1. CASE u = th
    <3>1. S.there[lvl[th]] \in SUBSET S.parts
      BY <1>1 DEF TreeInv, RolesAreSound
    <3> QED BY <1>1, <1>3, <2>1, <3>1
  <2>2. CASE u # th
    <3>1. pc'[u] = pc[u] /\ lvl'[u] = lvl[u]
      BY <1>3, <2>2
    <3> QED BY <1>2, <3>1 DEF HasRole
  <2> QED BY <2>1, <2>2
<1>7. AtBarriers(S)'
  <2>1. ASSUME NEW k \in LevelsOf(S)
        PROVE  at'[k] = {u \in S.threads : lvl'[u] = k /\ pc'[u] \in {"waits", "merged"}}
    <3>1. at[k] = {u \in S.threads : lvl[u] = k /\ pc[u] \in {"waits", "merged"}}
      BY <1>2 DEF AtBarriers
    <3>2. th \notin at[k] /\ pc'[th] \notin {"waits", "merged"}
      BY <1>1, <1>3, <3>1
    <3> QED BY <1>1, <1>3, <3>1, <3>2
  <2>2. at'[S.n] = {u \in S.threads : pc'[u] = "leaves"}
    BY <1>1, <1>2, <1>3 DEF AtBarriers
  <2> QED BY <1>1, <1>2, <2>1, <2>2 DEF AtBarriers
<1>8. ASSUME NEW l \in LevelsOf(S), NEW u \in S.there[l]
      PROVE  (Before1(u, l)' <=> Before1(u, l)) /\ (Before2(u, l)' <=> Before2(u, l))
  <2>1. u \in S.threads /\ lvl[u] \in Int /\ l \in Int
    BY PlaceIs
  <2>2. CASE u = th
    <3>1. lvl'[u] = lvl[u] - 1 /\ pc[u] = "swap" /\ pc'[u] = "enter"
      BY <1>1, <1>3, <2>2
    <3> QED BY <2>1, <3>1 DEF Before1, Before2
  <2>3. CASE u # th
    <3>1. lvl'[u] = lvl[u] /\ pc'[u] = pc[u]
      BY <1>3, <2>1, <2>3
    <3> QED BY <3>1 DEF Before1, Before2
  <2> QED BY <2>2, <2>3
<1>9. InStep(S)'
  <2>1. \A u, v \in S.threads : pc'[u] = "done" => pc'[v] = "done"
    <3>1. \A u \in S.threads : pc[u] # "done"
      BY <1>1, <1>2 DEF InStep
    <3> QED BY <1>3, <3>1
  <2>2. \A k \in LevelsOf(S) : \A u, v \in S.there[k] :
          (Before1(u, k)' => Before1(v, k)') /\ (Before2(u, k)' => Before2(v, k)')
    BY <1>2, <1>8 DEF InStep
  <2> QED BY <2>1, <2>2 DEF InStep
<1> QED BY <1>5, <1>6, <1>7, <1>8, <1>9 DEF TreeControl

(* A thread at the last barrier, which waits there or is the last of all. *)
LEMMA EndKeeps ==
  ASSUME NEW S, TreeInv(S), NEW th \in S.threads, PausesAtEnd(S, th) \/ OpensEnd(S, th)
  PROVE  /\ TreeControl(S)'
         /\ \A l \in LevelsOf(S) : \A u \in S.there[l] : Before2(u, l)' <=> Before2(u, l)
         /\ \A u \in S.threads : pc'[u] # pc[u] => pc[u] \in {"leave", "leaves"}
<1>1. ControlTypeOK(S) /\ HasRole(S) /\ AtBarriers(S) /\ InStep(S)
  BY DEF TreeInv, TreeControl
<1>2. pc[th] = "leave" /\ lvl' = lvl
  BY DEF PausesAtEnd, OpensEnd
<1>3. \A u \in S.threads : \/ pc'[u] = pc[u]
                           \/ pc[u] \in {"leave", "leaves"} /\ pc'[u] \in {"leaves", "done"}
  <2>1. CASE PausesAtEnd(S, th)
    BY <1>1, <2>1 DEF PausesAtEnd, ControlTypeOK
  <2>2. CASE OpensEnd(S, th)
    BY <1>1, <2>2 DEF OpensEnd, ControlTypeOK
  <2> QED BY <2>1, <2>2
<1>4. ControlTypeOK(S)'
  <2>1. CASE PausesAtEnd(S, th)
    BY <1>1, <2>1 DEF PausesAtEnd, ControlTypeOK
  <2>2. CASE OpensEnd(S, th)
    BY <1>1, <2>2 DEF OpensEnd, ControlTypeOK
  <2> QED BY <2>1, <2>2
<1>5. HasRole(S)'
  <2> SUFFICES ASSUME NEW u \in S.threads
               PROVE  /\ pc'[u] = "enter" => u \in S.parts
                      /\ pc'[u] \in {"waits", "merge", "merged", "swap"} =>
                           lvl'[u] \in LevelsOf(S) /\ u \in S.there[lvl'[u]]
                      /\ pc'[u] \in {"leave", "leaves", "done"} =>
                           \A k \in LevelsOf(S) : k <= lvl'[u] => u \notin S.there[k]
    BY DEF HasRole
  <2>1. CASE pc'[u] = pc[u]
    BY <1>1, <1>2, <2>1 DEF HasRole
  <2>2. CASE pc[u] \in {"leave", "leaves"} /\ pc'[u] \in {"leaves", "done"}
    BY <1>1, <1>2, <2>2 DEF HasRole
  <2> QED BY <1>3, <2>1, <2>2
<1>6. AtBarriers(S)'
  <2>1. \A k \in LevelsOf(S) : at'[k] = at[k]
    <3>1. \A k \in LevelsOf(S) : k \in 0..S.n /\ k # S.n
      BY PlaceIs
    <3> QED BY <1>1, <3>1 DEF ControlTypeOK, PausesAtEnd, OpensEnd
  <2>2. ASSUME NEW k \in LevelsOf(S)
        PROVE  /\ at'[k] = {u \in S.threads : lvl'[u] = k /\ pc'[u] \in {"waits", "merged"}}
               /\ at'[k] # S.there[k]
    BY <1>1, <1>2, <1>3, <2>1 DEF AtBarriers
  <2>3. S.n \in 0..S.n
    BY PlaceIs
  <2>4. /\ at'[S.n] = {u \in S.threads : pc'[u] = "leaves"}
        /\ S.threads # {} => at'[S.n] # S.threads
    <3>1. CASE PausesAtEnd(S, th)
      BY <1>1, <2>3, <3>1 DEF PausesAtEnd, ControlTypeOK, AtBarriers
    <3>2. CASE OpensEnd(S, th)
      BY <1>1, <2>3, <3>2 DEF OpensEnd, ControlTypeOK
    <3> QED BY <3>1, <3>2
  <2> QED BY <2>2, <2>4 DEF AtBarriers
<1>7. ASSUME NEW l \in LevelsOf(S), NEW u \in S.there[l]
      PROVE  (Before1(u, l)' <=> Before1(u, l)) /\ (Before2(u, l)' <=> Before2(u, l))
  <2>1. u \in S.threads
    BY PlaceIs
  <2>2. CASE pc'[u] = pc[u]
    BY <1>2, <2>2 DEF Before1, Before2
  <2>3. CASE pc[u] \in {"leave", "leaves"} /\ pc'[u] \in {"leaves", "done"}
    BY <1>2, <2>3 DEF Before1, Before2
  <2> QED BY <1>3, <2>1, <2>2, <2>3
<1>8. InStep(S)'
  <2>1. \A u, v \in S.threads : pc'[u] = "done" => pc'[v] = "done"
    <3>1. \A u \in S.threads : pc[u] # "done"
      BY <1>1, <1>2 DEF InStep
    <3>2. CASE PausesAtEnd(S, th)
      BY <1>1, <3>1, <3>2 DEF PausesAtEnd, ControlTypeOK
    <3>3. CASE OpensEnd(S, th)
      BY <3>3 DEF OpensEnd
    <3> QED BY <3>2, <3>3
  <2>2. \A k \in LevelsOf(S) : \A u, v \in S.there[k] :
          (Before1(u, k)' => Before1(v, k)') /\ (Before2(u, k)' => Before2(v, k)')
    BY <1>1, <1>7 DEF InStep
  <2> QED BY <2>1, <2>2 DEF InStep
<1> QED BY <1>3, <1>4, <1>5, <1>6, <1>7, <1>8 DEF TreeControl

-----------------------------------------------------------------------------
(* The data of a buffer: a part of the nodes. *)
LEMMA WholeType ==
  ASSUME NEW S, NEW buffer \in SUBSET AllShares(S)
  PROVE  Whole(buffer) \in SUBSET S.nodes
<1>1. CASE buffer = {}
  BY <1>1, Zenon DEF Whole
<1>2. CASE buffer # {}
  <2>1. (CHOOSE r \in buffer : TRUE) \in buffer
    BY <1>2
  <2>2. (CHOOSE r \in buffer : TRUE).nodes \in SUBSET S.nodes
    BY <2>1 DEF AllShares
  <2>3. Whole(buffer) = {} \/ Whole(buffer) = (CHOOSE r \in buffer : TRUE).nodes
    BY Zenon DEF Whole
  <2> QED BY <2>2, <2>3
<1> QED BY <1>1, <1>2

(* A buffer with all shares of one merge, and no other, has what was merged. *)
LEMMA WholeIs ==
  ASSUME NEW buffer, buffer # {}, NEW n, NEW W,
         \A r \in buffer : r.of = n /\ r.nodes = W,
         \A id \in 0..(n - 1) : Share(id, n, W) \in buffer
  PROVE  Whole(buffer) = W
<1> DEFINE complete ==
      {r \in buffer : \A id \in 0..(r.of - 1) : Share(id, r.of, r.nodes) \in buffer}
<1>1. \A r \in buffer : \A id \in 0..(r.of - 1) : Share(id, r.of, r.nodes) \in buffer
  <2> SUFFICES ASSUME NEW r \in buffer, NEW id \in 0..(r.of - 1)
               PROVE  Share(id, r.of, r.nodes) \in buffer
    OBVIOUS
  <2>1. r.of = n /\ r.nodes = W
    OBVIOUS
  <2> QED BY <2>1
<1>2. complete = buffer
  BY <1>1
<1>3. (CHOOSE r \in buffer : TRUE) \in buffer
  OBVIOUS
<1>4. Whole(buffer) = (CHOOSE r \in buffer : TRUE).nodes
  BY <1>2 DEF Whole
<1> QED BY <1>3, <1>4

(* What is written over a buffer. *)
LEMMA WriteIs ==
  ASSUME NEW buffer, NEW r
  PROVE  /\ r \in Write(buffer, r) /\ Write(buffer, r) \subseteq buffer \cup {r}
         /\ \A q \in Write(buffer, r) : q.of = r.of /\ q.nodes = r.nodes
         /\ \A q \in buffer : q.of = r.of /\ q.nodes = r.nodes => q \in Write(buffer, r)
BY DEF Write

(* While a thread merges at a level, or has merged there and waits, all the   *)
(* threads of the level do, and what their level has to merge is whole.       *)
LEMMA InAMerge ==
  ASSUME NEW S, TreeInv(S), NEW l \in LevelsOf(S), NEW th \in S.there[l], lvl[th] = l,
         pc[th] \in {"merge", "merged"}
  PROVE  /\ \A u \in S.there[l] : lvl[u] = l /\ pc[u] \in {"merge", "merged"}
         /\ \A k \in LevelsOf(S) : Ready(S, k) <=> k = l
         /\ \A node \in NodesOf(S, l) : Whole(node_data[node].source) # {}
         /\ UNION {Whole(node_data[node].source) : node \in NodesOf(S, l)} = TopOf(S)
<1>1. InStep(S) /\ HasRole(S) /\ ControlTypeOK(S)
  BY DEF TreeInv, TreeControl
<1>2. /\ S.n \in Nat /\ LevelsOf(S) = 0..(S.n - 1)
      /\ \A k \in LevelsOf(S) : k \in Int /\ S.there[k] \subseteq S.threads
      /\ \A u \in S.threads : lvl[u] \in Int /\ lvl[u] < S.n
  <2>1. th \in S.threads
    BY DEF TreeInv, RolesAreSound
  <2> QED BY <2>1, PlaceIs
<1>3. \A i, k \in LevelsOf(S) : i <= k => S.there[i] \subseteq S.there[k]
  <2> SUFFICES ASSUME NEW i \in LevelsOf(S), NEW k \in LevelsOf(S), i <= k
               PROVE  S.there[i] \subseteq S.there[k]
    OBVIOUS
  <2>1. i \in 0..k
    BY <1>2
  <2> QED BY <2>1 DEF TreeInv, RolesAreSound
<1>4. ~ Before1(th, l) /\ Before2(th, l)
  BY <1>2 DEF Before1, Before2
<1>5. ASSUME NEW u \in S.there[l] PROVE lvl[u] = l /\ pc[u] \in {"merge", "merged"}
  <2>1. ~ Before1(u, l) /\ Before2(u, l)
    BY <1>1, <1>4 DEF InStep
  <2>2. lvl[u] = l /\ pc[u] \in {"enter", "waits", "merge", "merged"}
    BY <2>1, <1>2 DEF Before1, Before2
  <2> QED BY <2>1, <2>2 DEF Before1
<1>6. Ready(S, l)
  <2>1. \E u \in S.there[l] : Before2(u, l)
    BY <1>4
  <2>2. ASSUME l # S.n - 1 PROVE \E u \in S.there[l + 1] : ~ Before2(u, l + 1)
    <3>1. l + 1 \in LevelsOf(S) /\ th \in S.there[l + 1]
      BY <1>2, <1>3, <2>2
    <3>2. ~ Before2(th, l + 1)
      BY <1>2 DEF Before2
    <3> QED BY <3>1, <3>2
  <2> QED BY <2>1, <2>2 DEF Ready
<1>7. ASSUME NEW k \in LevelsOf(S), Ready(S, k) PROVE k = l
  <2>1. PICK u \in S.there[k] : Before2(u, k)
    BY <1>7 DEF Ready
  <2>2. ~ (k > l)
    <3>1. SUFFICES ASSUME k > l PROVE FALSE
      OBVIOUS
    <3>2. th \in S.there[k] /\ ~ Before2(th, k)
      BY <1>2, <1>3, <3>1 DEF Before2
    <3> QED BY <1>1, <2>1, <3>2 DEF InStep
  <2>3. ~ (k < l)
    <3>1. SUFFICES ASSUME k < l PROVE FALSE
      OBVIOUS
    <3>2. k # S.n - 1 /\ k + 1 \in LevelsOf(S) /\ k + 1 <= l
      BY <1>2, <3>1
    <3>3. PICK v \in S.there[k + 1] : ~ Before2(v, k + 1)
      BY <1>7, <3>2 DEF Ready
    <3>4. v \in S.there[l] /\ k + 1 \in Int
      BY <1>2, <1>3, <3>2, <3>3
    <3>5. lvl[v] = l /\ pc[v] \in {"merge", "merged"}
      BY <1>5, <3>4
    <3>6. Before2(v, k + 1)
      BY <1>2, <3>2, <3>5 DEF Before2
    <3> QED BY <3>3, <3>6
  <2> QED BY <1>2, <2>2, <2>3
<1>8. ASSUME NEW node \in NodesOf(S, l)
      PROVE  Got(S, node, l) = Whole(node_data[node].source)
  <2>1. PICK v \in S.there[l] : \A u \in S.threads : Leads(S, u, node) <=> u = v
    BY DEF TreeInv, RolesAreSound
  <2>2. lvl[v] = l
    BY <1>5
  <2>3. \A u \in S.threads : Leads(S, u, node) => lvl[u] # l + 1
    BY <1>2, <2>1, <2>2
  <2> QED BY <2>3, Zenon DEF Got
<1>9. SourcesWhole(S)
  BY DEF TreeInv, TreeData
<1>10. /\ \A node \in NodesOf(S, l) : Got(S, node, l) # {}
       /\ UNION {Got(S, node, l) : node \in NodesOf(S, l)} = TopOf(S)
  BY <1>6, <1>9 DEF SourcesWhole
<1>11. {Got(S, node, l) : node \in NodesOf(S, l)}
         = {Whole(node_data[node].source) : node \in NodesOf(S, l)}
  BY <1>8
<1> QED BY <1>5, <1>6, <1>7, <1>8, <1>10, <1>11

(* Steps that neither merge nor swap nor pass a barrier behind a merge. *)
LEMMA DataStays ==
  ASSUME NEW S, TreeInv(S), lvl' = lvl, node_data' = node_data, array' = array,
         \A l \in LevelsOf(S) : \A u \in S.there[l] : Before2(u, l)' <=> Before2(u, l),
         \A l \in LevelsOf(S) : \A u \in S.there[l] : pc'[u] = "merged" => pc[u] = "merged"
  PROVE  TreeData(S)'
<1>1. DataTypeOK(S) /\ SourcesWhole(S) /\ SharesWritten(S) /\ ResultWhole(S)
  BY DEF TreeInv, TreeData
<1>2. DataTypeOK(S)'
  BY <1>1 DEF DataTypeOK, AllShares
<1>3. S.n \in Nat /\ LevelsOf(S) = 0..(S.n - 1)
  BY DEF TreeInv, RolesAreSound, LevelsOf
<1>4. ASSUME NEW l \in LevelsOf(S) PROVE Ready(S, l)' <=> Ready(S, l)
  <2>1. l = S.n - 1 \/ l + 1 \in LevelsOf(S)
    BY <1>3 DEF LevelsOf
  <2> QED BY <2>1 DEF Ready
<1>5. \A node, l : Got(S, node, l)' = Got(S, node, l)
  BY DEF Got, Leads
<1>6. SourcesWhole(S)'
  <2>1. ASSUME NEW l \in LevelsOf(S), Ready(S, l)'
        PROVE  /\ \A node \in NodesOf(S, l) : Got(S, node, l)' # {}
               /\ UNION {Got(S, node, l)' : node \in NodesOf(S, l)} = TopOf(S)
    <3>1. Ready(S, l)
      BY <1>4, <2>1
    <3>2. /\ \A node \in NodesOf(S, l) : Got(S, node, l) # {}
          /\ UNION {Got(S, node, l) : node \in NodesOf(S, l)} = TopOf(S)
      BY <1>1, <3>1 DEF SourcesWhole
    <3>3. {Got(S, node, l)' : node \in NodesOf(S, l)} = {Got(S, node, l) : node \in NodesOf(S, l)}
      BY <1>5
    <3> QED BY <1>5, <3>2, <3>3
  <2> QED BY <2>1 DEF SourcesWhole
<1>7. \A p, l : Target(p, l)' = Target(p, l) /\ Sum(p)' = Sum(p)
  BY DEF Target, Sum
<1>8. SharesWritten(S)'
  BY <1>1, <1>7, ZenonT(30) DEF SharesWritten
<1>9. ResultWhole(S)'
  <2>1. S.n > 0 => 0 \in LevelsOf(S)
    BY <1>3
  <2>2. Whole(array)' = Whole(array)
    OBVIOUS
  <2> QED BY <1>1, <2>1, <2>2 DEF ResultWhole
<1> QED BY <1>2, <1>6, <1>8, <1>9 DEF TreeData

(* What TreeInv says of the pairs of a level. *)
LEMMA PairsAre ==
  ASSUME NEW S, TreeInv(S), NEW l \in LevelsOf(S)
  PROVE  /\ l \in Int /\ l >= 0 /\ l < S.n /\ S.n \in Nat /\ S.pairs[l] # {}
         /\ S.there[l] \subseteq S.threads
         /\ NodesOf(S, l) \subseteq S.nodes
         /\ \A p \in S.pairs[l] :
              /\ p.nodes[1] \in NodesOf(S, l) /\ p.nodes[2] \in NodesOf(S, l)
              /\ p.n_hwcs \in Nat
              /\ \A q \in S.pairs[l] : p.nodes[1] = q.nodes[1] \/ l = 0 => p = q
              /\ \E th \in S.there[l] : S.pair[l][th] = p
              /\ \A id \in 0..(p.n_hwcs - 1) :
                   \E th \in S.there[l] : S.pair[l][th] = p /\ S.number[l][th] = id
         /\ \A th \in S.there[l] :
              S.pair[l][th] \in S.pairs[l] /\ S.number[l][th] \in Int
         /\ NodesOf(S, l) = {p.nodes[1] : p \in S.pairs[l]} \cup {p.nodes[2] : p \in S.pairs[l]}
<1>1. RolesAreSound(S) /\ S.n \in Nat /\ l \in Int /\ l >= 0 /\ l < S.n
  BY DEF TreeInv, RolesAreSound, LevelsOf
<1>2. NodesOf(S, l) = {p.nodes[1] : p \in S.pairs[l]} \cup {p.nodes[2] : p \in S.pairs[l]}
  BY DEF NodesOf
<1>3. /\ S.pairs[l] # {} /\ S.there[l] \subseteq S.parts /\ S.parts \subseteq S.threads
      /\ \A th \in S.there[l] :
              S.pair[l][th] \in S.pairs[l] /\ S.number[l][th] \in Int
  BY <1>1 DEF RolesAreSound
<1>4. \A p \in S.pairs[l] :
            /\ p.nodes[1] \in S.nodes /\ p.nodes[2] \in S.nodes /\ p.n_hwcs \in Nat
            /\ \A q \in S.pairs[l] : p.nodes[1] = q.nodes[1] \/ l = 0 => p = q
            /\ \E th \in S.there[l] : S.pair[l][th] = p
            /\ \A id \in 0..(p.n_hwcs - 1) :
                 \E th \in S.there[l] : S.pair[l][th] = p /\ S.number[l][th] = id
  BY <1>1 DEF RolesAreSound, PairIsSound
<1> QED BY <1>1, <1>2, <1>3, <1>4

(* The data of all nodes together, or of the pairs of a level, is the same. *)
LEMMA SumsAre ==
  ASSUME NEW S, TreeInv(S), NEW l \in LevelsOf(S)
  PROVE  UNION {Sum(p) : p \in S.pairs[l]} =
           UNION {Whole(node_data[node].source) : node \in NodesOf(S, l)}
BY PairsAre DEF Sum

(* A thread that merges writes its share to the target of its pair. *)
LEMMA MergeWrites ==
  ASSUME NEW S, TreeInv(S), NEW l \in LevelsOf(S), NEW th \in S.there[l], lvl[th] = l,
         Merges(S, th)
  PROVE  /\ DataTypeOK(S)'
         /\ l # 0 => array' = array
         /\ \A node \in S.nodes : node_data'[node].source = node_data[node].source
         /\ \A p \in S.pairs[l] : Sum(p)' = Sum(p)
         /\ \A u \in S.there[l] : u = th \/ pc[u] = "merged" =>
              LET p == S.pair[l][u]
              IN  /\ \A r \in Target(p, l)' : r.of = p.n_hwcs /\ r.nodes = Sum(p)
                  /\ Share(S.number[l][u], p.n_hwcs, Sum(p)) \in Target(p, l)'
<1> DEFINE p == S.pair[l][th]
           r == Share(S.number[l][th], p.n_hwcs, Sum(p))
<1>1. /\ pc[th] = "merge"
      /\ l = 0 => array' = Write(array, r) /\ node_data' = node_data
      /\ l # 0 => /\ node_data' = [node_data EXCEPT ![p.nodes[1]].destination = Write(@, r)]
                  /\ array' = array
  BY Zenon DEF Merges
<1>2. DataTypeOK(S) /\ SharesWritten(S)
  BY DEF TreeInv, TreeData
<1>3. p \in S.pairs[l] /\ p.nodes[1] \in S.nodes /\ p.nodes[2] \in S.nodes
  BY PairsAre
<1>4. r \in AllShares(S)
  <2>1. /\ node_data[p.nodes[1]].source \in SUBSET AllShares(S)
        /\ node_data[p.nodes[2]].source \in SUBSET AllShares(S)
    BY <1>2, <1>3 DEF DataTypeOK
  <2>2. Sum(p) \in SUBSET S.nodes
    BY <2>1, WholeType DEF Sum
  <2>3. S.number[l][th] \in Int /\ p.n_hwcs \in Nat
    BY PairsAre
  <2> HIDE DEF p
  <2> QED BY <2>2, <2>3 DEF Share, AllShares
<1>5. r.of = p.n_hwcs /\ r.nodes = Sum(p)
  BY DEF Share
<1> DEFINE dest == Write(node_data[p.nodes[1]].destination, r)
<1> HIDE DEF r
<1>6. l # 0 => node_data' = [node_data EXCEPT ![p.nodes[1]] =
                               [node_data[p.nodes[1]] EXCEPT !.destination = dest]]
  BY <1>1
<1>7. /\ DOMAIN node_data = S.nodes
      /\ \A node \in S.nodes :
           node_data[node] \in [source : SUBSET AllShares(S), destination : SUBSET AllShares(S)]
      /\ array \subseteq AllShares(S)
  BY <1>2 DEF DataTypeOK
<1>8. node_data[p.nodes[1]].destination \subseteq AllShares(S)
  BY <1>3, <1>7
<1>9. dest \in SUBSET AllShares(S) /\ Write(array, r) \in SUBSET AllShares(S)
  BY <1>4, <1>7, <1>8, WriteIs
<1> HIDE DEF dest, p
<1>10. l # 0 => \A node \in S.nodes :
         /\ node_data'[node].source = node_data[node].source
         /\ node_data'[node].destination =
              IF node = p.nodes[1] THEN dest ELSE node_data[node].destination
         /\ node_data'[node] \in [source : SUBSET AllShares(S), destination : SUBSET AllShares(S)]
  BY <1>3, <1>6, <1>7, <1>9
<1>11. \A node \in S.nodes : node_data'[node].source = node_data[node].source
  BY <1>1, <1>10
<1>12. DataTypeOK(S)'
  <2>1. AllShares(S)' = AllShares(S)
    BY DEF AllShares
  <2>2. CASE l = 0
    BY <1>1, <1>2, <1>9, <2>1, <2>2 DEF DataTypeOK
  <2>3. CASE l # 0
    <3>1. node_data' \in [S.nodes -> [source : SUBSET AllShares(S), destination : SUBSET AllShares(S)]]
      BY <1>6, <1>7, <1>10, <2>3
    <3> QED BY <1>1, <1>2, <2>1, <2>3, <3>1 DEF DataTypeOK
  <2> QED BY <2>2, <2>3
<1>13. ASSUME NEW q \in S.pairs[l] PROVE Sum(q)' = Sum(q)
  <2>1. q.nodes[1] \in S.nodes /\ q.nodes[2] \in S.nodes
    BY PairsAre
  <2> QED BY <1>11, <2>1 DEF Sum
<1>14. ASSUME NEW q \in S.pairs[l]
       PROVE  Target(q, l)' = IF q = p THEN Write(Target(q, l), r) ELSE Target(q, l)
  <2>1. q.nodes[1] \in S.nodes /\ (q.nodes[1] = p.nodes[1] \/ l = 0 => q = p)
    BY <1>3, PairsAre
  <2>2. CASE l = 0
    BY <1>1, <2>1, <2>2 DEF Target
  <2>3. CASE l # 0
    BY <1>10, <2>1, <2>3 DEF Target, dest
  <2> QED BY <2>2, <2>3
<1>15. ASSUME NEW u \in S.there[l], u = th \/ pc[u] = "merged"
       PROVE  LET q == S.pair[l][u]
              IN  /\ \A s \in Target(q, l)' : s.of = q.n_hwcs /\ s.nodes = Sum(q)
                  /\ Share(S.number[l][u], q.n_hwcs, Sum(q)) \in Target(q, l)'
  <2> DEFINE q == S.pair[l][u]
  <2>1. q \in S.pairs[l]
    BY PairsAre
  <2>2. CASE u = th
    <3>1. q = p /\ Target(q, l)' = Write(Target(q, l), r)
      BY <1>14, <2>1, <2>2 DEF p
    <3>2. r = Share(S.number[l][u], q.n_hwcs, Sum(q))
      BY <2>2 DEF r, p
    <3> QED BY <1>5, <3>1, <3>2, WriteIs
  <2>3. CASE u # th
    <3>1. pc[u] = "merged"
      BY <1>15, <2>3
    <3>2. lvl[u] = l
      BY <1>1, InAMerge
    <3> DEFINE s == Share(S.number[l][u], q.n_hwcs, Sum(q))
    <3>3. /\ \A x \in Target(q, l) : x.of = q.n_hwcs /\ x.nodes = Sum(q)
          /\ s \in Target(q, l)
      BY <1>2, <3>1, <3>2, Zenon DEF SharesWritten
    <3>4. CASE q = p
      <4>1. Target(q, l)' = Write(Target(q, l), r)
        BY <1>14, <2>1, <3>4
      <4>2. s.of = r.of /\ s.nodes = r.nodes
        BY <1>5, <3>4 DEF Share
      <4> HIDE DEF s, q
      <4>3. s \in Write(Target(q, l), r)
        BY <3>3, <4>2, WriteIs
      <4>4. \A x \in Target(q, l)' : x.of = q.n_hwcs /\ x.nodes = Sum(q)
        BY <1>5, <3>4, <4>1, WriteIs
      <4> QED BY <4>1, <4>3, <4>4 DEF s, q
    <3>5. CASE q # p
      <4>1. Target(q, l)' = Target(q, l)
        BY <1>14, <2>1, <3>5
      <4> QED BY <3>3, <4>1
    <3> QED BY <3>4, <3>5
  <2> QED BY <2>2, <2>3
<1> QED BY <1>1, <1>11, <1>12, <1>13, <1>15

(* Every share of a pair is some thread's. *)
LEMMA NumbersAre ==
  ASSUME NEW S, TreeInv(S), NEW l \in LevelsOf(S), NEW p \in S.pairs[l],
         NEW id \in 0..(p.n_hwcs - 1)
  PROVE  \E th \in S.there[l] : S.pair[l][th] = p /\ S.number[l][th] = id
<1>1. RolesAreSound(S)
  BY DEF TreeInv
<1>2. PairIsSound(S, l, p)
  BY <1>1, Zenon DEF RolesAreSound
<1> QED BY <1>2, Zenon DEF PairIsSound

(* The leader of a node of a level is a thread of the level. *)
LEMMA LeaderIs ==
  ASSUME NEW S, TreeInv(S), NEW l \in LevelsOf(S), NEW node \in NodesOf(S, l)
  PROVE  \E v \in S.there[l] : \A u \in S.threads : Leads(S, u, node) <=> u = v
BY DEF TreeInv, RolesAreSound

(* A merge after which the thread waits for the others of its level. *)
LEMMA MergePausesData ==
  ASSUME NEW S, TreeInv(S), NEW th \in S.threads, Merges(S, th), Pauses(S, th, "merged")
  PROVE  TreeData(S)'
<1> SUFFICES ASSUME NEW l \in LevelsOf(S), l = lvl[th] PROVE TreeData(S)'
  BY DEF Pauses
<1>1. /\ th \in S.there[l] /\ lvl' = lvl /\ pc[th] = "merge"
      /\ \A u \in S.threads : pc'[u] = IF u = th THEN "merged" ELSE pc[u]
  BY DEF Pauses, Merges, TreeInv, TreeControl, ControlTypeOK
<1>2. \A u \in S.threads : \A k \in LevelsOf(S) : Before2(u, k)' <=> Before2(u, k)
  BY <1>1, PausesKeeps
<1>3. /\ DataTypeOK(S)'
      /\ l # 0 => array' = array
      /\ \A node \in S.nodes : node_data'[node].source = node_data[node].source
      /\ \A p \in S.pairs[l] : Sum(p)' = Sum(p)
      /\ \A u \in S.there[l] : u = th \/ pc[u] = "merged" =>
              LET p == S.pair[l][u]
              IN  /\ \A r \in Target(p, l)' : r.of = p.n_hwcs /\ r.nodes = Sum(p)
                  /\ Share(S.number[l][u], p.n_hwcs, Sum(p)) \in Target(p, l)'
  BY <1>1, MergeWrites
<1>4. /\ \A u \in S.there[l] : lvl[u] = l /\ pc[u] \in {"merge", "merged"}
      /\ \A k \in LevelsOf(S) : Ready(S, k) <=> k = l
      /\ \A node \in NodesOf(S, l) : Whole(node_data[node].source) # {}
      /\ UNION {Whole(node_data[node].source) : node \in NodesOf(S, l)} = TopOf(S)
  BY <1>1, InAMerge
<1>5. SourcesWhole(S)'
  <2>1. ASSUME NEW k \in LevelsOf(S), Ready(S, k)' PROVE k = l
    <3>1. k = S.n - 1 \/ k + 1 \in LevelsOf(S)
      <4>1. k \in Int /\ k >= 0 /\ k < S.n /\ S.n \in Nat
        BY PairsAre
      <4> QED BY <4>1 DEF LevelsOf
    <3>2. S.there[k] \subseteq S.threads /\ (k + 1 \in LevelsOf(S) => S.there[k + 1] \subseteq S.threads)
      BY PairsAre
    <3>3. Ready(S, k)
      BY <1>2, <2>1, <3>1, <3>2 DEF Ready
    <3> QED BY <1>4, <3>3
  <2>2. ASSUME NEW node \in NodesOf(S, l)
        PROVE  Got(S, node, l)' = Whole(node_data[node].source)
    <3>1. PICK v \in S.there[l] : \A u \in S.threads : Leads(S, u, node) <=> u = v
      BY LeaderIs
    <3>2. l # l + 1 /\ node \in S.nodes
      BY PairsAre
    <3>3. \A u \in S.threads : ~ (Leads(S, u, node) /\ lvl'[u] = l + 1)
      BY <1>1, <1>4, <3>1, <3>2
    <3>4. Got(S, node, l)' = Whole(node_data'[node].source)
      BY <3>3 DEF Got, Leads
    <3> QED BY <1>3, <3>2, <3>4
  <2>3. {Got(S, node, l)' : node \in NodesOf(S, l)}
          = {Whole(node_data[node].source) : node \in NodesOf(S, l)}
    BY <2>2
  <2>4. /\ \A node \in NodesOf(S, l) : Got(S, node, l)' # {}
        /\ UNION {Got(S, node, l)' : node \in NodesOf(S, l)} = TopOf(S)
    BY <1>4, <2>2, <2>3
  <2> QED BY <2>1, <2>4 DEF SourcesWhole
<1>6. SharesWritten(S)'
  <2> SUFFICES ASSUME NEW k \in LevelsOf(S), NEW u \in S.there[k],
                      lvl'[u] = k, pc'[u] = "merged"
               PROVE  LET p == S.pair[k][u]
                      IN  /\ \A r \in Target(p, k)' : r.of = p.n_hwcs /\ r.nodes = Sum(p)'
                          /\ Share(S.number[k][u], p.n_hwcs, Sum(p)') \in Target(p, k)'
    BY DEF SharesWritten
  <2>1. u \in S.threads
    BY PairsAre
  <2>2. k = l /\ (u = th \/ pc[u] = "merged")
    <3>1. CASE u = th
      BY <1>1, <3>1
    <3>2. CASE u # th
      <4>1. pc[u] = "merged" /\ lvl[u] = k
        BY <1>1, <2>1, <3>2
      <4>2. Ready(S, k)
        BY <4>1, InAMerge
      <4> QED BY <1>4, <4>1, <4>2
    <3> QED BY <3>1, <3>2
  <2>3. S.pair[l][u] \in S.pairs[l]
    BY <2>2, PairsAre
  <2> QED BY <1>3, <2>2, <2>3
<1>7. ResultWhole(S)'
  <2> SUFFICES ASSUME S.n > 0, NEW v \in S.there[0], ~ Before2(v, 0)'
               PROVE  Whole(array)' = TopOf(S)
    BY DEF ResultWhole
  <2>1. 0 \in LevelsOf(S)
    BY PairsAre DEF LevelsOf
  <2>2. v \in S.threads /\ ~ Before2(v, 0)
    BY <1>2, <2>1, PairsAre
  <2>3. l # 0
    BY <1>4, <2>2 DEF Before2
  <2>4. Whole(array) = TopOf(S)
    BY <2>2 DEF ResultWhole, TreeInv, TreeData
  <2> QED BY <1>3, <2>3, <2>4
<1> QED BY <1>3, <1>5, <1>6, <1>7 DEF TreeData

(* The last merge of a level: what it was to write is whole. *)
LEMMA MergeOpensData ==
  ASSUME NEW S, TreeInv(S), NEW th \in S.threads, Merges(S, th),
         Opens(S, th, "merged", "swap")
  PROVE  TreeData(S)'
<1> SUFFICES ASSUME NEW l \in LevelsOf(S), l = lvl[th] PROVE TreeData(S)'
  BY DEF Opens
<1>1. /\ th \in S.there[l] /\ lvl' = lvl /\ pc[th] = "merge"
      /\ \A u \in S.there[l] : u = th \/ pc[u] = "merged"
      /\ \A u \in S.threads : pc'[u] = IF u \in S.there[l] THEN "swap" ELSE pc[u]
  BY DEF Opens, Merges
<1>2. \A u \in S.threads : \A k \in LevelsOf(S) : k # l => (Before2(u, k)' <=> Before2(u, k))
  BY <1>1, OpensKeeps
<1>3. /\ DataTypeOK(S)'
      /\ l # 0 => array' = array
      /\ \A u \in S.there[l] : u = th \/ pc[u] = "merged" =>
              LET p == S.pair[l][u]
              IN  /\ \A r \in Target(p, l)' : r.of = p.n_hwcs /\ r.nodes = Sum(p)
                  /\ Share(S.number[l][u], p.n_hwcs, Sum(p)) \in Target(p, l)'
  BY <1>1, MergeWrites
<1>4. /\ \A u \in S.there[l] : lvl[u] = l /\ pc[u] \in {"merge", "merged"}
      /\ \A k \in LevelsOf(S) : Ready(S, k) <=> k = l
      /\ \A node \in NodesOf(S, l) : Whole(node_data[node].source) # {}
      /\ UNION {Whole(node_data[node].source) : node \in NodesOf(S, l)} = TopOf(S)
  BY <1>1, InAMerge
<1>5. \A u \in S.there[l] : ~ Before2(u, l)'
  <2> SUFFICES ASSUME NEW u \in S.there[l] PROVE ~ Before2(u, l)'
    OBVIOUS
  <2>1. u \in S.threads /\ l \in Int
    BY PairsAre
  <2>2. lvl'[u] = l /\ pc'[u] = "swap"
    BY <1>1, <1>4, <2>1
  <2> QED BY <2>1, <2>2 DEF Before2
<1>6. \A k \in LevelsOf(S) : Ready(S, k)' => k = l - 1
  <2> SUFFICES ASSUME NEW k \in LevelsOf(S), Ready(S, k)' PROVE k = l - 1
    OBVIOUS
  <2>1. /\ k = S.n - 1 \/ k + 1 \in LevelsOf(S)
        /\ k \in Int /\ l \in Int
    BY PairsAre DEF LevelsOf
  <2>2. S.there[k] \subseteq S.threads /\ (k + 1 \in LevelsOf(S) => S.there[k + 1] \subseteq S.threads)
    BY PairsAre
  <2>3. k # l
    BY <1>5, <2>1 DEF Ready
  <2>4. ASSUME k + 1 # l PROVE Ready(S, k)
    BY <1>2, <2>1, <2>2, <2>3, <2>4 DEF Ready
  <2> QED BY <1>4, <2>1, <2>3, <2>4
<1>7. ASSUME NEW p \in S.pairs[l]
      PROVE  Whole(Target(p, l)') = Sum(p) /\ Sum(p) # {}
  <2>9. p.nodes[1] \in NodesOf(S, l)
    BY PairsAre
  <2>1. \A id \in 0..(p.n_hwcs - 1) :
          \E u \in S.there[l] : S.pair[l][u] = p /\ S.number[l][u] = id
    BY NumbersAre
  <2>2. PICK v \in S.there[l] : S.pair[l][v] = p
    BY PairsAre
  <2>3. \A u \in S.there[l] : S.pair[l][u] = p =>
          /\ \A r \in Target(p, l)' : r.of = p.n_hwcs /\ r.nodes = Sum(p)
          /\ Share(S.number[l][u], p.n_hwcs, Sum(p)) \in Target(p, l)'
    BY <1>1, <1>3
  <2>4. /\ Target(p, l)' # {}
        /\ \A r \in Target(p, l)' : r.of = p.n_hwcs /\ r.nodes = Sum(p)
    BY <2>2, <2>3
  <2>5. \A id \in 0..(p.n_hwcs - 1) : Share(id, p.n_hwcs, Sum(p)) \in Target(p, l)'
    BY <2>1, <2>3
  <2>6. \A B : /\ B # {} /\ \A r \in B : r.of = p.n_hwcs /\ r.nodes = Sum(p)
               /\ \A id \in 0..(p.n_hwcs - 1) : Share(id, p.n_hwcs, Sum(p)) \in B
               => Whole(B) = Sum(p)
    BY WholeIs
  <2>7. Whole(Target(p, l)') = Sum(p)
    BY <2>4, <2>5, <2>6
  <2>8. Sum(p) # {}
    BY <1>4, <2>9 DEF Sum
  <2> QED BY <2>7, <2>8
<1>8. UNION {Sum(p) : p \in S.pairs[l]} = TopOf(S)
  BY <1>4, SumsAre
<1>9. SourcesWhole(S)'
  <2> SUFFICES ASSUME NEW k \in LevelsOf(S), Ready(S, k)'
               PROVE  /\ \A node \in NodesOf(S, k) : Got(S, node, k)' # {}
                      /\ UNION {Got(S, node, k)' : node \in NodesOf(S, k)} = TopOf(S)
    BY DEF SourcesWhole
  <2>1. k = l - 1 /\ l # 0 /\ l > 0 /\ k + 1 = l /\ k \in 0..l
    BY <1>6, PairsAre
  <2>2. NodesOf(S, k) = {p.nodes[1] : p \in S.pairs[l]}
    BY <2>1 DEF TreeInv, RolesAreSound
  <2>3. S.there[k] \subseteq S.there[l]
    BY <2>1 DEF TreeInv, RolesAreSound
  <2>4. ASSUME NEW p \in S.pairs[l] PROVE Got(S, p.nodes[1], k)' = Sum(p)
    <3> DEFINE node == p.nodes[1]
    <3>5. node \in NodesOf(S, k)
      BY <2>2
    <3> HIDE DEF node
    <3>1. PICK v \in S.there[k] : \A u \in S.threads : Leads(S, u, node) <=> u = v
      BY <3>5, LeaderIs
    <3>2. v \in S.threads /\ Leads(S, v, node) /\ lvl'[v] = k + 1
      BY <1>1, <1>4, <2>1, <2>3, <3>1, PairsAre
    <3>3. Got(S, p.nodes[1], k)' = Whole(node_data'[p.nodes[1]].destination)
      BY <3>2 DEF Got, Leads, node
    <3>4. Target(p, l)' = node_data'[p.nodes[1]].destination
      BY <2>1 DEF Target
    <3> QED BY <1>7, <3>3, <3>4
  <2>5. {Got(S, node, k)' : node \in NodesOf(S, k)} = {Sum(p) : p \in S.pairs[l]}
    BY <2>2, <2>4
  <2>6. \A node \in NodesOf(S, k) : Got(S, node, k)' # {}
    BY <1>7, <2>2, <2>4
  <2> QED BY <1>8, <2>5, <2>6
<1>10. SharesWritten(S)'
  <2> SUFFICES ASSUME NEW k \in LevelsOf(S), NEW u \in S.there[k],
                      lvl'[u] = k, pc'[u] = "merged"
               PROVE  FALSE
    BY DEF SharesWritten
  <2>1. u \in S.threads
    BY PairsAre
  <2>2. u \notin S.there[l] /\ pc[u] = "merged" /\ lvl[u] = k
    BY <1>1, <2>1
  <2>3. Ready(S, k)
    BY <2>2, InAMerge
  <2> QED BY <1>4, <2>2, <2>3
<1>11. ResultWhole(S)'
  <2> SUFFICES ASSUME S.n > 0, NEW v \in S.there[0], ~ Before2(v, 0)'
               PROVE  Whole(array)' = TopOf(S)
    BY DEF ResultWhole
  <2>1. 0 \in LevelsOf(S)
    BY PairsAre DEF LevelsOf
  <2>2. CASE l = 0
    <3>1. PICK p \in S.pairs[l] : \A q \in S.pairs[l] : p = q
      BY <2>2, PairsAre
    <3>2. UNION {Sum(q) : q \in S.pairs[l]} = Sum(p)
      BY <3>1
    <3>3. Target(p, l)' = array'
      BY <2>2 DEF Target
    <3> QED BY <1>7, <1>8, <3>2, <3>3
  <2>3. CASE l # 0
    <3>1. v \in S.threads /\ ~ Before2(v, 0)
      BY <1>2, <2>1, <2>3, PairsAre
    <3>2. Whole(array) = TopOf(S)
      BY <3>1 DEF ResultWhole, TreeInv, TreeData
    <3> QED BY <1>3, <2>3, <3>2
  <2> QED BY <2>2, <2>3
<1> QED BY <1>3, <1>9, <1>10, <1>11 DEF TreeData

(* The leader of a node makes what was written for it what it merges next. *)
LEMMA GoesDownData ==
  ASSUME NEW S, TreeInv(S), NEW th \in S.threads, GoesDown(S, th), array' = array,
         node_data' = IF th \in S.leads
                      THEN [node_data EXCEPT ![S.node[th]] =
                              [source |-> @.destination, destination |-> @.source]]
                      ELSE node_data
  PROVE  TreeData(S)'
<1> SUFFICES ASSUME NEW l \in LevelsOf(S), l = lvl[th] PROVE TreeData(S)'
  BY DEF GoesDown
<1>1. /\ th \in S.there[l] /\ pc[th] = "swap"
      /\ \A u \in S.threads : pc'[u] = IF u = th THEN "enter" ELSE pc[u]
      /\ \A u \in S.threads : lvl'[u] = IF u = th THEN l - 1 ELSE lvl[u]
  BY DEF GoesDown, TreeInv, TreeControl, ControlTypeOK
<1>2. \A k \in LevelsOf(S) : \A u \in S.there[k] : Before2(u, k)' <=> Before2(u, k)
  BY GoesDownKeeps
<1>3. InStep(S) /\ DataTypeOK(S) /\ SourcesWhole(S) /\ SharesWritten(S) /\ ResultWhole(S)
  BY DEF TreeInv, TreeControl, TreeData
<1>4. ASSUME NEW node \in S.nodes, ~ Leads(S, th, node)
      PROVE  node_data'[node] = node_data[node]
  <2>1. CASE th \in S.leads
    BY <1>3, <1>4, <2>1 DEF Leads, DataTypeOK
  <2>2. CASE th \notin S.leads
    BY <2>2
  <2> QED BY <2>1, <2>2
<1>5. ASSUME NEW node \in S.nodes, Leads(S, th, node)
      PROVE  node_data'[node].source = node_data[node].destination
  BY <1>3, <1>5 DEF Leads, DataTypeOK
<1>6. DataTypeOK(S)'
  <2>1. node_data' \in [S.nodes -> [source : SUBSET AllShares(S), destination : SUBSET AllShares(S)]]
    BY <1>3 DEF DataTypeOK
  <2>2. AllShares(S)' = AllShares(S)
    BY DEF AllShares
  <2> QED BY <1>3, <2>1, <2>2 DEF DataTypeOK
<1>7. ASSUME NEW k \in LevelsOf(S) PROVE Ready(S, k)' <=> Ready(S, k)
  <2>1. k = S.n - 1 \/ k + 1 \in LevelsOf(S)
    <3>1. k \in Int /\ k >= 0 /\ k < S.n /\ S.n \in Nat
      BY PairsAre
    <3> QED BY <3>1 DEF LevelsOf
  <2> QED BY <1>2, <2>1 DEF Ready
<1>8. ASSUME NEW k \in LevelsOf(S), Ready(S, k), th \in S.there[k] PROVE k + 1 = l
  <2>1. k \in Int /\ k >= 0 /\ k < S.n /\ S.n \in Nat /\ l \in Int /\ l < S.n
    BY PairsAre
  <2>2. ~ (k >= l)
    <3>1. SUFFICES ASSUME k >= l PROVE FALSE
      OBVIOUS
    <3>2. PICK u \in S.there[k] : Before2(u, k)
      BY <1>8 DEF Ready
    <3>3. ~ Before2(th, k)
      BY <1>1, <2>1, <3>1 DEF Before2
    <3> QED BY <1>3, <1>8, <3>2, <3>3 DEF InStep
  <2>3. ~ (k + 1 < l)
    <3>1. SUFFICES ASSUME k + 1 < l PROVE FALSE
      OBVIOUS
    <3>2. k # S.n - 1 /\ k + 1 \in LevelsOf(S) /\ k \in 0..(k + 1)
      BY <2>1, <3>1 DEF LevelsOf
    <3>3. PICK v \in S.there[k + 1] : ~ Before2(v, k + 1)
      BY <1>8, <3>2 DEF Ready
    <3>4. th \in S.there[k + 1]
      <4>1. S.there[k] \subseteq S.there[k + 1]
        BY <3>2 DEF TreeInv, RolesAreSound
      <4> QED BY <1>8, <4>1
    <3>5. Before2(th, k + 1)
      BY <2>1, <3>1 DEF Before2
    <3> QED BY <1>3, <3>2, <3>3, <3>4, <3>5 DEF InStep
  <2> QED BY <2>1, <2>2, <2>3
<1>9. ASSUME NEW k \in LevelsOf(S), Ready(S, k), NEW node \in NodesOf(S, k)
      PROVE  Got(S, node, k)' = Got(S, node, k)
  <2>1. PICK v \in S.there[k] : \A u \in S.threads : Leads(S, u, node) <=> u = v
    BY LeaderIs
  <2>2. v \in S.threads /\ node \in S.nodes /\ k \in Int /\ l \in Int
    BY PairsAre
  <2>3. CASE v = th
    <3>1. k + 1 = l /\ Leads(S, th, node)
      BY <1>8, <1>9, <2>1, <2>3
    <3>2. Got(S, node, k) = Whole(node_data[node].destination)
      BY <3>1 DEF Got
    <3>3. \A u \in S.threads : ~ (Leads(S, u, node) /\ lvl'[u] = k + 1)
      BY <1>1, <2>1, <2>2, <2>3, <3>1
    <3>4. Got(S, node, k)' = Whole(node_data'[node].source)
      BY <3>3 DEF Got, Leads
    <3> QED BY <1>5, <2>2, <3>1, <3>2, <3>4
  <2>4. CASE v # th
    <3>1. node_data'[node] = node_data[node] /\ lvl'[v] = lvl[v]
      BY <1>1, <1>4, <2>1, <2>2, <2>4
    <3>2. CASE lvl[v] = k + 1
      <4>1. Got(S, node, k) = Whole(node_data[node].destination)
        BY <2>1, <2>2, <3>2 DEF Got
      <4>2. Got(S, node, k)' = Whole(node_data'[node].destination)
        BY <2>1, <2>2, <3>1, <3>2 DEF Got, Leads
      <4> QED BY <3>1, <4>1, <4>2
    <3>3. CASE lvl[v] # k + 1
      <4>1. Got(S, node, k) = Whole(node_data[node].source)
        BY <2>1, <2>2, <3>3 DEF Got
      <4>2. Got(S, node, k)' = Whole(node_data'[node].source)
        BY <2>1, <2>2, <3>1, <3>3 DEF Got, Leads
      <4> QED BY <3>1, <4>1, <4>2
    <3> QED BY <3>2, <3>3
  <2> QED BY <2>3, <2>4
<1>10. SourcesWhole(S)'
  <2> SUFFICES ASSUME NEW k \in LevelsOf(S), Ready(S, k)'
               PROVE  /\ \A node \in NodesOf(S, k) : Got(S, node, k)' # {}
                      /\ UNION {Got(S, node, k)' : node \in NodesOf(S, k)} = TopOf(S)
    BY DEF SourcesWhole
  <2>1. Ready(S, k)
    BY <1>7
  <2>2. /\ \A node \in NodesOf(S, k) : Got(S, node, k) # {}
        /\ UNION {Got(S, node, k) : node \in NodesOf(S, k)} = TopOf(S)
    BY <1>3, <2>1 DEF SourcesWhole
  <2>3. {Got(S, node, k)' : node \in NodesOf(S, k)} = {Got(S, node, k) : node \in NodesOf(S, k)}
    BY <1>9, <2>1
  <2> QED BY <1>9, <2>1, <2>2, <2>3
<1>11. SharesWritten(S)'
  <2> SUFFICES ASSUME NEW k \in LevelsOf(S), NEW u \in S.there[k],
                      lvl'[u] = k, pc'[u] = "merged"
               PROVE  LET p == S.pair[k][u]
                      IN  /\ \A r \in Target(p, k)' : r.of = p.n_hwcs /\ r.nodes = Sum(p)'
                          /\ Share(S.number[k][u], p.n_hwcs, Sum(p)') \in Target(p, k)'
    BY DEF SharesWritten
  <2>1. u \in S.threads /\ u # th
    BY <1>1, PairsAre
  <2>2. lvl[u] = k /\ pc[u] = "merged"
    BY <1>1, <2>1
  <2>3. th \notin S.there[k]
    <3>1. \A v \in S.there[k] : pc[v] \in {"merge", "merged"}
      BY <2>2, InAMerge
    <3> QED BY <1>1, <3>1
  <2> DEFINE p == S.pair[k][u]
  <2>4. p \in S.pairs[k] /\ p.nodes[1] \in NodesOf(S, k) /\ p.nodes[2] \in NodesOf(S, k)
    BY PairsAre
  <2> HIDE DEF p
  <2>5. ASSUME NEW node \in NodesOf(S, k) PROVE node_data'[node] = node_data[node]
    <3>1. PICK v \in S.there[k] : \A w \in S.threads : Leads(S, w, node) <=> w = v
      BY LeaderIs
    <3>2. ~ Leads(S, th, node) /\ node \in S.nodes
      BY <2>3, <3>1, PairsAre
    <3> QED BY <1>4, <3>2
  <2>6. Target(p, k)' = Target(p, k)
    BY <2>4, <2>5 DEF Target
  <2>7. Sum(p)' = Sum(p)
    BY <2>4, <2>5 DEF Sum
  <2>8. /\ \A r \in Target(p, k) : r.of = p.n_hwcs /\ r.nodes = Sum(p)
        /\ Share(S.number[k][u], p.n_hwcs, Sum(p)) \in Target(p, k)
    BY <1>3, <2>2, Zenon DEF SharesWritten, p
  <2> QED BY <2>6, <2>7, <2>8 DEF p
<1>12. ResultWhole(S)'
  <2>1. S.n > 0 => 0 \in LevelsOf(S)
    BY PairsAre DEF LevelsOf
  <2>2. Whole(array)' = Whole(array)
    OBVIOUS
  <2> QED BY <1>2, <1>3, <2>1, <2>2 DEF ResultWhole
<1> QED BY <1>6, <1>10, <1>11, <1>12 DEF TreeData

(* Every step of a thread. *)
LEMMA TreeStepKeeps ==
  ASSUME NEW S, TreeInv(S), NEW th \in S.threads, TreeStep(th),
         Threads = 1..alloc.n_hwcs, alloc.n_hwcs \in Nat
  PROVE  TreeControl(S)' /\ TreeData(S)'
<1>1. \A k \in LevelsOf(S) : S.there[k] \subseteq S.threads
  BY PairsAre
<1>2. DOMAIN pc = S.threads
  BY DEF TreeInv, TreeControl, ControlTypeOK
<1>3. CASE Enter(th)
  <2>1. pc[th] = "enter" /\ node_data' = node_data /\ array' = array
    BY <1>3, EnterIs
  <2>2. CASE LeavesLoop(S, th)
    <3>1. /\ TreeControl(S)'
          /\ \A l \in LevelsOf(S) : \A u \in S.there[l] : Before2(u, l)' <=> Before2(u, l)
      BY <2>2, LeavesLoopKeeps
    <3>2. lvl' = lvl /\ \A u \in S.threads : pc'[u] = "merged" => pc[u] = "merged"
      BY <1>2, <2>2 DEF LeavesLoop
    <3> QED BY <1>1, <2>1, <3>1, <3>2, DataStays
  <2>3. CASE Pauses(S, th, "waits")
    <3>1. /\ TreeControl(S)'
          /\ \A u \in S.threads : \A l \in LevelsOf(S) : Before2(u, l)' <=> Before2(u, l)
      BY <2>1, <2>3, PausesKeeps
    <3>2. lvl' = lvl /\ \A u \in S.threads : pc'[u] = "merged" => pc[u] = "merged"
      BY <1>2, <2>3 DEF Pauses
    <3> QED BY <1>1, <2>1, <3>1, <3>2, DataStays
  <2>4. CASE Opens(S, th, "waits", "merge")
    <3>1. /\ TreeControl(S)'
          /\ \A u \in S.threads : \A l \in LevelsOf(S) : Before2(u, l)' <=> Before2(u, l)
      BY <2>1, <2>4, OpensKeeps
    <3>2. lvl' = lvl /\ \A u \in S.threads : pc'[u] = "merged" => pc[u] = "merged"
      BY <1>2, <2>4 DEF Opens
    <3> QED BY <1>1, <2>1, <3>1, <3>2, DataStays
  <2> QED BY <1>3, <2>2, <2>3, <2>4, EnterIs
<1>4. CASE Merge(th)
  <2>1. Merges(S, th) /\ (Pauses(S, th, "merged") \/ Opens(S, th, "merged", "swap"))
    BY <1>4, MergeIs
  <2>2. pc[th] = "merge"
    BY <2>1 DEF Merges
  <2>3. CASE Pauses(S, th, "merged")
    BY <2>1, <2>2, <2>3, PausesKeeps, MergePausesData
  <2>4. CASE Opens(S, th, "merged", "swap")
    BY <2>1, <2>2, <2>4, OpensKeeps, MergeOpensData
  <2> QED BY <2>1, <2>3, <2>4
<1>5. CASE Swap(th)
  <2>1. /\ GoesDown(S, th) /\ array' = array
        /\ node_data' = IF th \in S.leads
                        THEN [node_data EXCEPT ![S.node[th]] =
                                [source |-> @.destination, destination |-> @.source]]
                        ELSE node_data
    BY <1>5, SwapIs
  <2>2. TreeData(S)'
    BY <2>1, GoesDownData
  <2> QED BY <2>1, <2>2, GoesDownKeeps
<1>6. CASE WaitAll(th)
  <2>1. /\ node_data' = node_data /\ array' = array
        /\ PausesAtEnd(S, th) \/ OpensEnd(S, th)
    BY <1>6, WaitAllIs
  <2>2. lvl' = lvl /\ \A u \in S.threads : pc'[u] = "merged" => pc[u] = "merged"
    BY <1>2, <2>1 DEF PausesAtEnd, OpensEnd
  <2> QED BY <1>1, <2>1, <2>2, EndKeeps, DataStays
<1> QED BY <1>3, <1>4, <1>5, <1>6 DEF TreeStep

(* What main has created: the nodes have their own data, no thread has begun. *)
LEMMA TreeInitKeeps ==
  ASSUME TreeInit, TreeIsSound, client # None
  PROVE  /\ Threads = 1..alloc.n_hwcs /\ alloc.n_hwcs \in Nat
         /\ TreeInv(Roles)
<1> SUFFICES ASSUME NEW S, S = Roles
             PROVE  /\ Threads = 1..alloc.n_hwcs /\ alloc.n_hwcs \in Nat
                    /\ TreeInv(S)
  OBVIOUS
<1>1. /\ Threads = 1..alloc.n_hwcs
      /\ pc = [id \in Threads |->
                 IF Participates(info[id], nt.barrier_for) THEN "enter" ELSE "leave"]
      /\ lvl = [id \in Threads |-> NumLevels - 1]
      /\ at = [l \in 0..AllLevels |-> {}] /\ array = {}
      /\ node_data = [n \in TreeNodes |-> [source |-> {Share(0, 1, {n})}, destination |-> {}]]
  <2> DEFINE IsMade(c, t, a) ==
               /\ client = c
               /\ alloc = a
               /\ nt = mctop_alloc_node_tree_create(t, a, c.barrier_for)
               /\ info = [id \in 1..a.n_hwcs |-> Info(t, a, id)]
               /\ pc = [id \in DOMAIN info |->
                          IF Participates(info[id], c.barrier_for) THEN "enter" ELSE "leave"]
               /\ lvl = [id \in DOMAIN info |-> NumLevels - 1]
               /\ at = [l \in 0..AllLevels |-> {}]
               /\ node_data = [n \in 0..(Len(a.sockets) - 1) |->
                                 [source |-> {Share(0, 1, {n})}, destination |-> {}]]
               /\ array = {}
  <2>4. PICK c \in Clients : \E t \in {Topologies[c.topo]} :
          \E a \in {mctop_alloc_create(t, c.n_hwcs, c.n_config, c.policy)} : IsMade(c, t, a)
    BY Zenon DEF TreeInit
  <2> HIDE DEF IsMade
  <2>5. PICK t, a : IsMade(c, t, a)
    BY <2>4
  <2>1. IsMade(c, t, alloc)
    BY <2>5 DEF IsMade
  <2>2. nt.barrier_for = c.barrier_for
    BY <2>1 DEF IsMade, mctop_alloc_node_tree_create
  <2>3. Threads = 1..alloc.n_hwcs /\ TreeNodes = 0..(Len(alloc.sockets) - 1)
    BY <2>1 DEF Threads, TreeNodes, IsMade
  <2> QED BY <2>1, <2>2, <2>3 DEF Threads, IsMade
<1>2. Fresh
  BY <1>1 DEF Fresh
<1>3. TreeTypeOK /\ \A l \in TreeLevels : LevelIsSound(l)
  BY <1>2 DEF TreeIsSound
<1>4. alloc.n_hwcs \in Nat
  BY <1>3 DEF TreeTypeOK
<1>5. RolesAreSound(S)
  BY <1>1, <1>3, SoundRoles
<1>6. /\ S.threads = Threads /\ LevelsOf(S) = TreeLevels /\ S.n = AllLevels
      /\ S.nodes = TreeNodes /\ S.n = NumLevels /\ S.n \in Nat
      /\ LevelsOf(S) = 0..(S.n - 1)
      /\ S.parts = {th \in Threads : Participates(info[th], nt.barrier_for)}
  <2>1. S.n = NumLevels /\ S.parts = {th \in Threads : Participates(info[th], nt.barrier_for)}
    BY DEF Roles
  <2>2. S.n \in Nat
    BY <1>5 DEF RolesAreSound
  <2> QED BY <1>5, <2>1, <2>2, RoleIs DEF LevelsOf
<1>7. /\ \A th \in S.threads : /\ pc[th] = IF th \in S.parts THEN "enter" ELSE "leave"
                               /\ lvl[th] = S.n - 1
      /\ \A l \in 0..S.n : at[l] = {}
  BY <1>1, <1>6
<1>8. \A l \in LevelsOf(S) : S.there[l] \subseteq S.parts /\ S.parts \subseteq S.threads
  BY <1>5 DEF RolesAreSound
<1>9. ControlTypeOK(S)
  BY <1>1, <1>6 DEF ControlTypeOK
<1>10. HasRole(S)
  BY <1>7, <1>8 DEF HasRole
<1>11. AtBarriers(S)
  <2>1. ASSUME NEW l \in LevelsOf(S) PROVE S.there[l] # {}
    <3>1. PICK p \in S.pairs[l] : TRUE
      BY <1>5 DEF RolesAreSound
    <3>2. PairIsSound(S, l, p)
      BY <1>5 DEF RolesAreSound
    <3> QED BY <3>2 DEF PairIsSound
  <2>2. \A l \in LevelsOf(S) : l \in 0..S.n /\ S.n \in 0..S.n
    BY <1>6
  <2>3. S.n \in 0..S.n
    BY <1>6
  <2> QED BY <1>7, <2>1, <2>2, <2>3 DEF AtBarriers
<1>12. ASSUME NEW l \in LevelsOf(S), NEW th \in S.there[l]
       PROVE  Before1(th, l) /\ Before2(th, l)
  <2>1. pc[th] = "enter" /\ lvl[th] = S.n - 1 /\ l \in Int /\ l <= S.n - 1
    BY <1>6, <1>7, <1>8
  <2> QED BY <1>6, <2>1 DEF Before1, Before2
<1>13. InStep(S)
  BY <1>7, <1>12 DEF InStep
<1>14. DataTypeOK(S)
  <2>1. \A n \in S.nodes : Share(0, 1, {n}) \in AllShares(S)
    BY DEF Share, AllShares
  <2> QED BY <1>1, <1>6, <2>1 DEF DataTypeOK
<1>15. SourcesWhole(S)
  <2> SUFFICES ASSUME NEW l \in LevelsOf(S), Ready(S, l)
               PROVE  /\ \A node \in NodesOf(S, l) : Got(S, node, l) # {}
                      /\ UNION {Got(S, node, l) : node \in NodesOf(S, l)} = TopOf(S)
    BY DEF SourcesWhole
  <2>1. l = S.n - 1
    <3>1. l # S.n - 1 => l + 1 \in LevelsOf(S)
      BY <1>6
    <3> QED BY <1>12, <3>1 DEF Ready
  <2>2. ASSUME NEW node \in NodesOf(S, l) PROVE Got(S, node, l) = {node}
    <3>1. node \in S.nodes
      <4>1. PICK p \in S.pairs[l] : node \in {p.nodes[1], p.nodes[2]}
        BY DEF NodesOf
      <4>2. PairIsSound(S, l, p)
        BY <1>5 DEF RolesAreSound
      <4> QED BY <4>1, <4>2 DEF PairIsSound
    <3>2. Got(S, node, l) = Whole(node_data[node].source)
      <4>1. \A th \in S.threads : lvl[th] # l + 1
        BY <1>6, <1>7, <2>1
      <4> QED BY <4>1 DEF Got
    <3>3. node_data[node].source = {Share(0, 1, {node})}
      BY <1>1, <1>6, <3>1
    <3>4. /\ \A r \in {Share(0, 1, {node})} : r.of = 1 /\ r.nodes = {node}
          /\ \A id \in 0..(1 - 1) : Share(id, 1, {node}) \in {Share(0, 1, {node})}
      BY DEF Share
    <3>5. Whole({Share(0, 1, {node})}) = {node}
      BY <3>4, WholeIs
    <3> QED BY <3>2, <3>3, <3>5
  <2>3. {Got(S, node, l) : node \in NodesOf(S, l)} = {{node} : node \in NodesOf(S, l)}
    BY <2>2
  <2>4. UNION {{node} : node \in NodesOf(S, l)} = TopOf(S)
    BY <2>1 DEF TopOf
  <2> QED BY <2>2, <2>3, <2>4
<1>16. SharesWritten(S)
  <2>1. \A l \in LevelsOf(S) : \A th \in S.there[l] : pc[th] # "merged"
    BY <1>7, <1>8
  <2> QED BY <2>1 DEF SharesWritten
<1>17. ResultWhole(S)
  <2>1. S.n > 0 => 0 \in LevelsOf(S)
    BY <1>6
  <2> QED BY <1>12, <2>1 DEF ResultWhole
<1> QED BY <1>1, <1>4, <1>5, <1>9, <1>10, <1>11, <1>13, <1>14, <1>15, <1>16, <1>17
        DEF TreeInv, TreeControl, TreeData

(* Every step of the system. *)
LEMMA TreeNextKeeps ==
  ASSUME TreeIInv, [Next]_vars
  PROVE  TreeIInv'
<1>1. CASE client # None
  <2>1. Threads = 1..alloc.n_hwcs /\ alloc.n_hwcs \in Nat
    BY <1>1 DEF TreeIInv
  <2>2. PICK S : TreeInv(S)
    BY <1>1 DEF TreeIInv
  <2>3. S = Roles /\ RolesAreSound(S) /\ S.threads = Threads
    BY <2>2, RoleIs DEF TreeInv
  <2>4. DOMAIN node_data = S.nodes
    BY <2>2 DEF TreeInv, TreeData, DataTypeOK
  <2>5. ASSUME client' = client, alloc' = alloc, nt' = nt, info' = info,
               TreeControl(S)', TreeData(S)'
        PROVE  TreeIInv'
    <3>1. DOMAIN node_data' = DOMAIN node_data
      BY <2>4, <2>5 DEF TreeData, DataTypeOK
    <3>2. Roles' = Roles
      BY <2>5, <3>1, RolesStay
    <3>3. TreeInv(S)'
      BY <2>3, <2>5, <3>2 DEF TreeInv, RolesAreSound, LevelsOf, NodesOf, TopOf, Leads,
                              PairIsSound
    <3>4. (Threads = 1..alloc.n_hwcs /\ alloc.n_hwcs \in Nat)'
      BY <2>1, <2>5 DEF Threads
    <3> QED BY <1>1, <2>5, <3>3, <3>4 DEF TreeIInv
  <2>6. CASE UNCHANGED treeVars
    <3>1. /\ client' = client /\ alloc' = alloc /\ nt' = nt /\ info' = info /\ pc' = pc
          /\ lvl' = lvl /\ at' = at /\ node_data' = node_data /\ array' = array
      BY <2>6 DEF treeVars
    <3>2. TreeControl(S)
      BY <2>2 DEF TreeInv
    <3>3. \A u, l : (Before1(u, l)' <=> Before1(u, l)) /\ (Before2(u, l)' <=> Before2(u, l))
      BY <3>1 DEF Before1, Before2
    <3>4. TreeControl(S)'
      BY <3>1, <3>2, <3>3 DEF TreeControl, ControlTypeOK, HasRole, AtBarriers, InStep
    <3>5. TreeData(S)'
      BY <2>2, <3>1, <3>3, DataStays
    <3> QED BY <2>5, <3>1, <3>4, <3>5
  <2>7. CASE TreeNext
    <3>1. PICK th \in Threads : TreeStep(th)
      BY <2>7 DEF TreeNext
    <3>2. client' = client /\ alloc' = alloc /\ nt' = nt /\ info' = info
      BY <3>1 DEF TreeStep, Enter, Merge, Swap, WaitAll
    <3>3. TreeControl(S)' /\ TreeData(S)'
      BY <2>1, <2>2, <2>3, <3>1, TreeStepKeeps
    <3> QED BY <2>5, <3>2, <3>3
  <2>8. [Next]_vars => UNCHANGED treeVars \/ TreeNext
    BY DEF Next, vars
  <2> QED BY <2>6, <2>7, <2>8
<1>2. CASE client = None
  <2>1. UNCHANGED treeVars
    BY <1>2 DEF Next, vars
  <2>2. client' = client /\ info' = info /\ pc' = pc
    BY <2>1 DEF treeVars
  <2> QED BY <1>2, <2>2 DEF TreeIInv, Threads
<1> QED BY <1>1, <1>2
-----------------------------------------------------------------------------
(* The inductive invariant of a program that merges on a tree, for a tree     *)
(* that is sound when main has created it: the threads of a level are before  *)
(* a barrier or behind it together, no barrier is full, and between the       *)
(* nodes of the level they are at lies all the data there was.                *)
THEOREM TreeInvariant == Spec /\ TreeIsSound => []TreeIInv
<1>1. Init /\ TreeIsSound => TreeIInv
  <2> SUFFICES ASSUME Init, TreeIsSound PROVE TreeIInv
    OBVIOUS
  <2>1. CASE TreeInit /\ client # None
    BY <2>1, TreeInitKeeps DEF TreeIInv
  <2>2. CASE TreeInit /\ client = None
    <3>1. \A th \in Threads : pc[th] \in {"enter", "leave"}
      BY <2>2 DEF TreeInit, Threads
    <3> QED BY <2>2, <3>1 DEF TreeIInv
  <2>3. CASE TreeIdle
    <3>1. client = None /\ Threads = {}
      BY <2>3 DEF TreeIdle, Threads
    <3> QED BY <3>1 DEF TreeIInv
  <2> QED BY <2>1, <2>2, <2>3 DEF Init
<1>2. TreeIInv /\ [Next]_vars => TreeIInv'
  BY TreeNextKeeps
<1> QED BY <1>1, <1>2, PTL DEF Spec

(* A thread never merges a buffer that another has not finished, and when a   *)
(* thread is through, with as many sockets as a power of 2, the result has    *)
(* the data of every node (mctop_sort_merge_cross_socket).                    *)
THEOREM DataArrives == Spec /\ TreeIsSound => []DataArrivesWhole
<1>1. TreeIInv => DataArrivesWhole
  <2> SUFFICES ASSUME TreeIInv PROVE DataArrivesWhole
    OBVIOUS
  <2>1. CASE client # None
    <3>1. PICK S : TreeInv(S)
      BY <2>1 DEF TreeIInv
    <3>2. S = Roles /\ RolesAreSound(S) /\ S.threads = Threads /\ S.nodes = TreeNodes
      BY <3>1, RoleIs DEF TreeInv
    <3>3. ASSUME NEW th \in Threads, pc[th] = "merge"
          PROVE  /\ Whole(node_data[Work(th).destination].source) # {}
                 /\ Whole(node_data[Work(th).source].source) # {}
      <4>1. lvl[th] \in LevelsOf(S) /\ th \in S.there[lvl[th]]
        BY <3>1, <3>2, <3>3 DEF TreeInv, TreeControl, HasRole
      <4> DEFINE p == S.pair[lvl[th]][th]
      <4>2. lvl[th] \in Int
        BY <3>1, <3>2, PlaceIs
      <4>3. Work(th) = WorkAt(th, lvl[th])
        BY DEF Work, WorkAt
      <4>4. Work(th).destination = p.nodes[1] /\ Work(th).source = p.nodes[2]
        BY <3>2, <4>1, <4>2, <4>3, RoleIs
      <4>5. p.nodes[1] \in NodesOf(S, lvl[th]) /\ p.nodes[2] \in NodesOf(S, lvl[th])
        BY <3>1, <4>1, PairsAre
      <4>6. \A node \in NodesOf(S, lvl[th]) : Whole(node_data[node].source) # {}
        BY <3>1, <3>3, <4>1, InAMerge
      <4> QED BY <4>4, <4>5, <4>6
    <3>4. ASSUME NEW th \in Threads, pc[th] = "done", NumLevels > 0,
                 Len(alloc.sockets) = 2^NumLevels
          PROVE  Whole(array) = TreeNodes
      <4>1. S.full
        BY <3>2, <3>4 DEF Roles
      <4>2. S.n > 0 /\ TopOf(S) = TreeNodes /\ S.n \in Nat /\ 0 \in LevelsOf(S)
        BY <3>2, <4>1 DEF RolesAreSound, LevelsOf
      <4>3. PICK p \in S.pairs[0] : TRUE
        BY <3>1, <4>2, PairsAre
      <4>4. PICK v \in S.there[0] : S.pair[0][v] = p
        BY <3>1, <4>2, PairsAre
      <4>5. v \in S.threads /\ pc[v] = "done"
        BY <3>1, <3>2, <3>4, <4>2, PairsAre DEF TreeInv, TreeControl, InStep
      <4>6. ~ (0 <= lvl[v])
        BY <3>1, <4>2, <4>5 DEF TreeInv, TreeControl, HasRole
      <4>7. lvl[v] \in Int
        BY <3>1, <4>5, PlaceIs
      <4>8. ~ Before2(v, 0)
        BY <4>6, <4>7 DEF Before2
      <4> QED BY <3>1, <4>2, <4>8 DEF TreeInv, TreeData, ResultWhole
    <3> QED BY <3>3, <3>4 DEF DataArrivesWhole
  <2>2. CASE client = None
    BY <2>2 DEF TreeIInv, DataArrivesWhole
  <2> QED BY <2>1, <2>2
<1> QED BY <1>1, TreeInvariant, PTL

(* Not every thread waits for another. *)
SomeoneGoesOn ==
  client # None /\ (\E th \in Threads : pc[th] # "done") =>
    \E th \in Threads : pc[th] \in {"enter", "merge", "swap", "leave"}

(* The threads never all wait: as long as one is not through, one is not at a *)
(* barrier and has a step to take (mctop_node_tree_barrier_wait,              *)
(* mctop_alloc_barrier_wait_all).                                             *)
THEOREM TreeDoesNotBlock == Spec /\ TreeIsSound => []SomeoneGoesOn
<1>1. TreeIInv => SomeoneGoesOn
  <2> SUFFICES ASSUME TreeIInv, client # None, NEW th \in Threads, pc[th] # "done",
                      \A u \in Threads : pc[u] \notin {"enter", "merge", "swap", "leave"}
               PROVE  FALSE
    BY DEF SomeoneGoesOn
  <2>1. PICK S : TreeInv(S)
    BY DEF TreeIInv
  <2>2. S.threads = Threads
    BY <2>1, RoleIs DEF TreeInv
  <2>3. \A u \in Threads : pc[u] \in {"waits", "merged", "leaves"}
    <3>1. \A u \in Threads : pc[u] # "done"
      BY <2>1, <2>2 DEF TreeInv, TreeControl, InStep
    <3> QED BY <2>1, <2>2, <3>1 DEF TreeInv, TreeControl, ControlTypeOK
  <2> DEFINE waiting == {u \in Threads : pc[u] \in {"waits", "merged"}}
             depths == {S.n - lvl[u] : u \in waiting}
  <2>4. waiting # {}
    <3>1. at[S.n] = {u \in S.threads : pc[u] = "leaves"} /\ at[S.n] # S.threads
      BY <2>1, <2>2 DEF TreeInv, TreeControl, AtBarriers
    <3> QED BY <2>2, <2>3, <3>1
  <2>5. depths \in SUBSET Nat
    <3>1. \A u \in Threads : S.n - lvl[u] \in Nat
      BY <2>1, <2>2, PlaceIs
    <3> QED BY <3>1
  <2>6. PICK d \in depths : \A e \in depths : d <= e
    <3>1. depths # {}
      BY <2>4
    <3> HIDE DEF depths
    <3> QED BY <2>5, <3>1, LeastIs
  <2>7. PICK v \in waiting : d = S.n - lvl[v]
    OBVIOUS
  <2>8. v \in S.threads /\ pc[v] \in {"waits", "merged"}
    BY <2>2
  <2>9. /\ S.n \in Nat /\ \A u \in Threads : lvl[u] \in Int
        /\ \A l \in LevelsOf(S) : l \in Int /\ S.there[l] \subseteq S.threads
    BY <2>1, <2>2, <2>8, PlaceIs
  <2>10. \A u \in waiting : lvl[u] <= lvl[v]
    <3>1. \A u \in waiting : d <= S.n - lvl[u]
      BY <2>6
    <3> QED BY <2>7, <2>8, <2>9, <3>1
  <2> HIDE DEF waiting, depths
  <2>11. lvl[v] \in LevelsOf(S) /\ v \in S.there[lvl[v]]
    BY <2>1, <2>8 DEF TreeInv, TreeControl, HasRole
  <2>12. PICK l \in LevelsOf(S) : l = lvl[v]
    BY <2>11
  <2>13. ASSUME NEW u \in S.there[l] PROVE lvl[u] = l /\ pc[u] \in {"waits", "merged"}
    <3>1. u \in Threads
      BY <2>2, <2>9
    <3>2. Before2(v, l)
      BY <2>8, <2>12 DEF Before2
    <3>3. Before2(u, l)
      BY <2>1, <2>11, <2>12, <3>2 DEF TreeInv, TreeControl, InStep
    <3>4. lvl[u] > l \/ lvl[u] = l
      BY <3>3 DEF Before2
    <3>5. pc[u] # "leaves"
      <4>1. pc[u] = "leaves" => ~ (l <= lvl[u])
        BY <2>1, <2>2, <3>1 DEF TreeInv, TreeControl, HasRole
      <4> QED BY <2>9, <3>1, <3>4, <4>1
    <3>6. pc[u] \in {"waits", "merged"}
      BY <2>3, <3>1, <3>5
    <3>7. lvl[u] <= l
      BY <2>10, <2>12, <3>1, <3>6 DEF waiting
    <3> QED BY <2>9, <3>1, <3>4, <3>6, <3>7
  <2>14. at[l] = S.there[l]
    <3>1. at[l] = {u \in S.there[l] : lvl[u] = l /\ pc[u] \in {"waits", "merged"}}
      BY <2>1, <2>8, PlaceIs
    <3> QED BY <2>13, <3>1
  <2> QED BY <2>1, <2>14 DEF TreeInv, TreeControl, AtBarriers
<1> QED BY <1>1, TreeInvariant, PTL

-----------------------------------------------------------------------------
(* Folds.  The sequences that the policies go through are folded by FoldLeft,  *)
(* whose definition is a function on the sets of places; here are its values.  *)
(* Induction on a number, told of the set of the numbers that it holds for. *)
LEMMA Inductive ==
  ASSUME NEW n \in Nat, NEW S, 0 \in S,
         \A k \in 0..(n - 1) : k \in S => k + 1 \in S
  PROVE  0..n \subseteq S
<1> DEFINE not == {k \in 0..n : k \notin S}
<1>1. not \in SUBSET Nat
  OBVIOUS
<1>2. CASE not # {}
  <2>1. PICK k \in not : \A j \in not : k <= j
    BY <1>1, <1>2, LeastIs
  <2>2. k # 0 /\ k - 1 \in 0..(n - 1) /\ (k - 1) + 1 = k /\ k - 1 \in 0..n /\ ~ (k <= k - 1)
    BY <2>1
  <2>3. k - 1 \in S
    BY <2>1, <2>2
  <2> QED BY <2>1, <2>2, <2>3
<1> QED BY <1>2

(* The greatest of some of the numbers up to n. *)
LEMMA GreatestIs ==
  ASSUME NEW n \in Nat, NEW S \in SUBSET (1..n), S # {}
  PROVE  Max(S) \in S /\ \A y \in S : Max(S) >= y
<1> DEFINE T == {n - x : x \in S}
<1>1. T \in SUBSET Nat /\ T # {}
  <2>1. \A x \in S : n - x \in Nat
    OBVIOUS
  <2> QED BY <2>1, Zenon
<1>2. PICK y \in T : \A z \in T : y <= z
  BY <1>1, LeastIs
<1>3. PICK x \in S : y = n - x
  BY <1>2
<1>4. \A z \in S : x >= z
  <2> TAKE z \in S
  <2>1. n - z \in T
    OBVIOUS
  <2>2. n - x <= n - z
    BY <1>2, <1>3, <2>1
  <2> QED BY <2>2
<1> QED BY <1>4 DEF Max
----
(* A fold over a sequence of length n, from base, takes a step for each      *)
(* place; what it is folded over is left to the step.                        *)
Folds(it, n, base, step) ==
  \A s \in SUBSET (1..n) : it[s] = IF s = {} THEN base ELSE step[<<it[s \ {Max(s)}], Max(s)>>]

\* The same, as far as the values are those the steps are made for.
Iterates(it, n, A, base, step) ==
  /\ it[{}] = base
  /\ \A s \in SUBSET (1..n) : s # {} /\ it[s \ {Max(s)}] \in A =>
        it[s] = step[<<it[s \ {Max(s)}], Max(s)>>]

\* The values one after the other.
Unrolls(g, n, base, step) == g[0] = base /\ \A k \in 1..n : g[k] = step[<<g[k - 1], k>>]

FoldsTo(x, n, A, base, step) == \E g \in [0..n -> A] : Unrolls(g, n, base, step) /\ x = g[n]

Stepping(n, A, base, step) == n \in Nat /\ base \in A /\ step \in [A \X (1..n) -> A]

LEMMA FoldExistsTyped ==
  ASSUME NEW n \in Nat, NEW A, NEW base \in A, NEW step \in [A \X (1..n) -> A]
  PROVE  \E it \in [SUBSET (1..n) -> A] : Folds(it, n, base, step)
<1> DEFINE Some(m) == \E it \in [SUBSET (1..m) -> A] : Folds(it, m, base, step)
           S == {m \in 0..n : Some(m)}
<1>1. 0 \in S
  <2> DEFINE it == [s \in SUBSET (1..0) |-> base]
  <2>1. \A s \in SUBSET (1..0) : s = {}
    OBVIOUS
  <2>2. it \in [SUBSET (1..0) -> A] /\ Folds(it, 0, base, step)
    BY <2>1 DEF Folds
  <2>3. Some(0)
    BY <2>2
  <2> HIDE DEF Some
  <2> QED BY <2>3
<1>2. ASSUME NEW m \in 0..(n - 1), m \in S PROVE m + 1 \in S
  <2>1. PICK it \in [SUBSET (1..m) -> A] : Folds(it, m, base, step)
    BY <1>2
  <2> DEFINE more == [s \in SUBSET (1..(m + 1)) |->
                        IF m + 1 \in s THEN step[<<it[s \ {m + 1}], m + 1>>] ELSE it[s]]
  <2>2. \A s \in SUBSET (1..(m + 1)) :
          /\ m + 1 \notin s => s \in SUBSET (1..m)
          /\ s \ {m + 1} \in SUBSET (1..m)
    OBVIOUS
  <2>3. more \in [SUBSET (1..(m + 1)) -> A]
    <3>1. m + 1 \in 1..n
      OBVIOUS
    <3> QED BY <2>1, <2>2, <3>1
  <2>4. ASSUME NEW s \in SUBSET (1..(m + 1))
        PROVE  more[s] = IF s = {} THEN base ELSE step[<<more[s \ {Max(s)}], Max(s)>>]
    <3>1. CASE m + 1 \in s
      <4>1. Max(s) = m + 1
        <5>1. m + 1 \in Nat /\ s # {}
          BY <3>1
        <5>2. Max(s) \in s /\ Max(s) >= m + 1
          BY <3>1, <5>1, GreatestIs
        <5>3. Max(s) \in 1..(m + 1)
          BY <5>2, Zenon
        <5> QED BY <5>1, <5>2, <5>3
      <4>2. s \ {m + 1} \in SUBSET (1..(m + 1)) /\ m + 1 \notin s \ {m + 1}
        OBVIOUS
      <4>3. more[s \ {m + 1}] = it[s \ {m + 1}]
        BY <4>2
      <4> QED BY <3>1, <4>1, <4>3
    <3>2. CASE m + 1 \notin s
      <4>1. s \in SUBSET (1..m) /\ more[s] = it[s]
        BY <2>2, <3>2
      <4>2. \A x : /\ s \ {x} \in SUBSET (1..m) /\ m + 1 \notin s \ {x}
                   /\ s \ {x} \in SUBSET (1..(m + 1))
        BY <3>2, <4>1, Zenon
      <4>3. more[s \ {Max(s)}] = it[s \ {Max(s)}]
        BY <4>2
      <4> QED BY <2>1, <4>1, <4>3 DEF Folds
    <3> QED BY <3>1, <3>2
  <2> HIDE DEF more
  <2>5. Some(m + 1)
    BY <2>3, <2>4 DEF Folds
  <2> QED BY <2>5
<1>3. n \in S
  <2> HIDE DEF S
  <2>1. 0..n \subseteq S
    BY <1>1, <1>2, Inductive
  <2> QED BY <2>1
<1> QED BY <1>3

(* The same, of a step that is known to be one. *)
LEMMA FoldExists ==
  ASSUME NEW n, NEW A, NEW base, NEW step, Stepping(n, A, base, step)
  PROVE  \E it \in [SUBSET (1..n) -> A] : Folds(it, n, base, step)
BY FoldExistsTyped, Zenon DEF Stepping

(* What is folded, place by place. *)
LEMMA FoldUnrollsTyped ==
  ASSUME NEW n \in Nat, NEW A, NEW base \in A, NEW step \in [A \X (1..n) -> A],
         NEW it, Iterates(it, n, A, base, step)
  PROVE  FoldsTo(it[1..n], n, A, base, step)
<1> DEFINE g == [k \in 0..n |-> it[1..k]]
           S == {k \in 0..n : g[k] \in A}
<1>1. g[0] = base
  <2>1. 1..0 = {}
    OBVIOUS
  <2> QED BY <2>1 DEF Iterates
<1>2. ASSUME NEW k \in 1..n, g[k - 1] \in A PROVE g[k] = step[<<g[k - 1], k>>]
  <2>1. 1..k \in SUBSET (1..n) /\ 1..k # {} /\ k \in 1..k
    OBVIOUS
  <2>2. Max(1..k) = k
    <3>1. Max(1..k) \in 1..k /\ Max(1..k) >= k
      BY <2>1, GreatestIs
    <3> QED BY <3>1
  <2>3. (1..k) \ {k} = 1..(k - 1)
    OBVIOUS
  <2>4. g[k] = it[1..k] /\ g[k - 1] = it[1..(k - 1)]
    OBVIOUS
  <2> HIDE DEF g
  <2> QED BY <1>2, <2>1, <2>2, <2>3, <2>4 DEF Iterates
<1> HIDE DEF g
<1>3. 0 \in S
  BY <1>1
<1>4. ASSUME NEW k \in 0..(n - 1), k \in S PROVE k + 1 \in S
  <2>1. k + 1 \in 1..n /\ (k + 1) - 1 = k /\ g[k] \in A
    BY <1>4
  <2>2. g[k + 1] = step[<<g[k], k + 1>>]
    BY <1>2, <2>1
  <2> QED BY <2>1, <2>2
<1>5. 0..n \subseteq S
  <2> HIDE DEF S
  <2> QED BY <1>3, <1>4, Inductive
<1>6. \A k \in 0..n : g[k] \in A
  BY <1>5
<1>7. g \in [0..n -> A]
  BY <1>6 DEF g
<1>8. \A k \in 1..n : g[k] = step[<<g[k - 1], k>>]
  <2> TAKE k \in 1..n
  <2>1. k - 1 \in 0..n
    OBVIOUS
  <2> QED BY <1>2, <1>6, <2>1
<1>9. it[1..n] = g[n]
  BY DEF g
<1> QED BY <1>1, <1>7, <1>8, <1>9 DEF Unrolls, FoldsTo

(* The same, of a step that is known to be one. *)
LEMMA FoldUnrolls ==
  ASSUME NEW n, NEW A, NEW base, NEW step, Stepping(n, A, base, step),
         NEW it, Iterates(it, n, A, base, step)
  PROVE  FoldsTo(it[1..n], n, A, base, step)
BY FoldUnrollsTyped, Zenon DEF Stepping

(* What exceeds another is not exceeded by what does not exceed the other. *)
LEMMA ExceedsMore ==
  ASSUME NEW a \in Nat, NEW b \in Nat, NEW c \in Nat, Exceeds(b, c), ~ Exceeds(a, c)
  PROVE  ~ Exceeds(a, b)
BY DEF Exceeds

(* mctop_find_double_max finds a place that no other surpasses. *)
LEMMA MostIs ==
  ASSUME NEW n \in Nat \ {0}, NEW arr \in [0..(n - 1) -> Nat]
  PROVE  /\ mctop_find_double_max(arr, n) \in 0..(n - 1)
         /\ \A s \in 0..(n - 1) : ~ Exceeds(arr[s], arr[mctop_find_double_max(arr, n)])
<1> DEFINE A == 0..(n - 1)
           m == n - 1
           seq == Loop(1, n - 1)
           step == [p \in A \X (1..m) |-> IF Exceeds(arr[p[2]], arr[p[1]]) THEN p[2] ELSE p[1]]
           IsIt(it) == it = [s \in SUBSET (1..m) |->
                               IF s = {} THEN 0
                               ELSE IF Exceeds(arr[seq[Max(s)]], arr[it[s \ {Max(s)}]])
                                    THEN seq[Max(s)] ELSE it[s \ {Max(s)}]]
           it == CHOOSE f : IsIt(f)
<1>1. m \in Nat /\ 0 \in A /\ Stepping(m, A, 0, step)
  BY DEF Stepping
<1>2. DOMAIN seq = 1..m /\ \A i \in 1..m : seq[i] = i
  BY DEF Loop
<1>3. mctop_find_double_max(arr, n) = it[1..m]
  BY <1>2, Zenon DEF mctop_find_double_max, FoldLeft, MapThenFoldSet
<1>4. \E f : IsIt(f)
  <2>1. PICK f \in [SUBSET (1..m) -> A] : Folds(f, m, 0, step)
    BY <1>1, FoldExists
  <2>2. ASSUME NEW s \in SUBSET (1..m), s # {}
        PROVE  f[s] = IF Exceeds(arr[seq[Max(s)]], arr[f[s \ {Max(s)}]])
                      THEN seq[Max(s)] ELSE f[s \ {Max(s)}]
    <3>1. Max(s) \in 1..m /\ s \ {Max(s)} \in SUBSET (1..m)
      BY <1>1, <2>2, GreatestIs, Zenon
    <3>2. f[s] = step[<<f[s \ {Max(s)}], Max(s)>>] /\ f[s \ {Max(s)}] \in A
      BY <2>1, <2>2, <3>1, Zenon DEF Folds
    <3> QED BY <1>2, <3>1, <3>2
  <2>3. f[{}] = 0
    BY <2>1 DEF Folds
  <2>4. IsIt(f)
    BY <2>1, <2>2, <2>3
  <2> QED BY <2>4
<1>5. IsIt(it)
  BY <1>4, Zenon
<1> HIDE DEF it, seq
<1>6. it[{}] = 0
  BY <1>5
<1>7. ASSUME NEW s \in SUBSET (1..m), s # {}, it[s \ {Max(s)}] \in A
      PROVE  it[s] = step[<<it[s \ {Max(s)}], Max(s)>>]
  <2>1. Max(s) \in 1..m
    BY <1>1, <1>7, GreatestIs, Zenon
  <2> QED BY <1>2, <1>5, <1>7, <2>1
<1> HIDE DEF IsIt, A, m, step
<1>8. PICK g \in [0..m -> A] : Unrolls(g, m, 0, step) /\ it[1..m] = g[m]
  <2>1. \A s \in SUBSET (1..m) : s # {} /\ it[s \ {Max(s)}] \in A =>
             it[s] = step[<<it[s \ {Max(s)}], Max(s)>>]
    BY <1>7
  <2>2. Iterates(it, m, A, 0, step)
    BY <1>6, <2>1, Zenon DEF Iterates
  <2>3. FoldsTo(it[1..m], m, A, 0, step)
    BY <1>1, <2>2, FoldUnrolls, Zenon
  <2> QED BY <2>3 DEF FoldsTo
<1>9. \A k \in 1..m : g[k] = IF Exceeds(arr[k], arr[g[k - 1]]) THEN k ELSE g[k - 1]
  <2> TAKE k \in 1..m
  <2>1. <<g[k - 1], k>> \in A \X (1..m) /\ g[k] = step[<<g[k - 1], k>>]
    <3>1. k - 1 \in 0..m
      BY <1>1
    <3> QED BY <1>8, <3>1 DEF Unrolls
  <2> QED BY <2>1 DEF step
<1>10. A = 0..m /\ \A k \in A : arr[k] \in Nat
  BY DEF A, m
<1> DEFINE Best == {k \in 0..m : \A j \in 0..k : ~ Exceeds(arr[j], arr[g[k]])}
<1>11. 0 \in Best
  <2>1. ~ Exceeds(arr[0], arr[0])
    BY <1>1, <1>10 DEF Exceeds
  <2> QED BY <1>1, <1>8, <2>1 DEF Unrolls
<1>12. ASSUME NEW k \in 0..(m - 1), k \in Best PROVE k + 1 \in Best
  <2>1. k + 1 \in 1..m /\ (k + 1) - 1 = k /\ k \in 0..m /\ k + 1 \in 0..m
    BY <1>1
  <2>2. g[k + 1] = IF Exceeds(arr[k + 1], arr[g[k]]) THEN k + 1 ELSE g[k]
    BY <1>9, <2>1
  <2>3. arr[k + 1] \in Nat /\ arr[g[k]] \in Nat
    BY <1>10, <1>8, <2>1
  <2>4. ASSUME NEW j \in 0..(k + 1) PROVE ~ Exceeds(arr[j], arr[g[k + 1]])
    <3>1. arr[j] \in Nat
      <4>1. j \in 0..m
        BY <1>1, <2>1
      <4> QED BY <1>10, <4>1
    <3>2. CASE j = k + 1
      BY <2>2, <2>3, <3>2 DEF Exceeds
    <3>3. CASE j # k + 1
      <4>1. j \in 0..k
        BY <1>1, <3>3
      <4>2. ~ Exceeds(arr[j], arr[g[k]])
        BY <1>12, <4>1
      <4>3. CASE Exceeds(arr[k + 1], arr[g[k]])
        <5>1. g[k + 1] = k + 1
          BY <2>2, <4>3
        <5>2. arr[g[k + 1]] = arr[k + 1]
          BY <5>1, Zenon
        <5>3. ~ Exceeds(arr[j], arr[k + 1])
          BY <2>3, <3>1, <4>2, <4>3, ExceedsMore
        <5> QED BY <5>2, <5>3, Zenon
      <4>4. CASE ~ Exceeds(arr[k + 1], arr[g[k]])
        <5>1. g[k + 1] = g[k]
          BY <2>2, <4>4
        <5>2. arr[g[k + 1]] = arr[g[k]]
          BY <5>1, Zenon
        <5> QED BY <4>2, <5>2, Zenon
      <4> QED BY <4>3, <4>4
    <3> QED BY <3>2, <3>3
  <2> QED BY <2>1, <2>4
<1>13. 0..m \subseteq Best
  <2> HIDE DEF Best
  <2> QED BY <1>1, <1>11, <1>12, Inductive
<1>14. m \in 0..m /\ g[m] \in A
  BY <1>1, <1>8
<1> QED BY <1>3, <1>8, <1>10, <1>13, <1>14 DEF m

(* Two places exchange what they have; places have the same in all, but for order. *)
Exchanged(q, i, j) == [q EXCEPT ![i] = q[j], ![j] = q[i]]

(* The places before i stay; those from i on have the same values, but for order. *)
SamePlaces(q, r, n, i) ==
  /\ \A x \in 1..(i - 1) : r[x] = q[x]
  /\ \A x \in i..n : \E y \in i..n : r[x] = q[y]
  /\ \A y \in i..n : \E x \in i..n : r[x] = q[y]
  /\ (\A x, y \in 1..n : q[x] = q[y] => x = y) => \A x, y \in 1..n : r[x] = r[y] => x = y

(* An exchange behind the first places leaves these, and the others but for order. *)
LEMMA ExchangeKeeps ==
  ASSUME NEW n \in Nat, NEW V, NEW i \in 1..n, NEW j \in i..n, NEW p \in [1..n -> V],
         NEW q \in [1..n -> V], SamePlaces(p, q, n, i)
  PROVE  /\ Exchanged(q, i, j) \in [1..n -> V]
         /\ SamePlaces(p, Exchanged(q, i, j), n, i)
<1> DEFINE r == Exchanged(q, i, j)
<1>1. /\ r \in [1..n -> V]
      /\ r[i] = q[j] /\ r[j] = q[i]
      /\ \A x \in 1..n : x # i /\ x # j => r[x] = q[x]
  BY DEF Exchanged
<1> HIDE DEF r
<1>2. \A x \in 1..(i - 1) : r[x] = p[x]
  <2> TAKE x \in 1..(i - 1)
  <2>1. x \in 1..n /\ x # i /\ x # j
    OBVIOUS
  <2> QED BY <1>1, <2>1 DEF SamePlaces
<1>3. \A x \in i..n : x \in 1..n
  OBVIOUS
<1>4. i \in i..n
  OBVIOUS
<1>5. ASSUME NEW x \in i..n PROVE \E y \in i..n : r[x] = p[y]
  <2>1. PICK z \in i..n : r[x] = q[z]
    BY <1>1, <1>3, <1>4, Zenon
  <2>2. \E y \in i..n : q[z] = p[y]
    BY Zenon DEF SamePlaces
  <2> QED BY <2>1, <2>2
<1>6. ASSUME NEW y \in i..n PROVE \E x \in i..n : r[x] = p[y]
  <2>1. PICK z \in i..n : q[z] = p[y]
    BY Zenon DEF SamePlaces
  <2>2. \E x \in i..n : r[x] = q[z]
    BY <1>1, <1>3, <1>4, Zenon
  <2> QED BY <2>1, <2>2
<1>7. ASSUME \A x, y \in 1..n : p[x] = p[y] => x = y, NEW x \in 1..n, NEW y \in 1..n, r[x] = r[y]
      PROVE  x = y
  <2>1. \A u, v \in 1..n : q[u] = q[v] => u = v
    BY <1>7, Zenon DEF SamePlaces
  <2>2. i \in 1..n /\ j \in 1..n
    OBVIOUS
  <2>3. \E u \in 1..n : r[x] = q[u] /\ (x = i => u = j) /\ (x = j => u = i) /\ (x # i /\ x # j => u = x)
    BY <1>1, <2>2, Zenon
  <2>4. \E v \in 1..n : r[y] = q[v] /\ (y = i => v = j) /\ (y = j => v = i) /\ (y # i /\ y # j => v = y)
    BY <1>1, <2>2, Zenon
  <2>5. PICK u \in 1..n : r[x] = q[u] /\ (x = i => u = j) /\ (x = j => u = i) /\ (x # i /\ x # j => u = x)
    BY <2>3
  <2>6. u = (IF y = i THEN j ELSE IF y = j THEN i ELSE y)
    BY <1>7, <2>1, <2>4, <2>5
  <2> QED BY <2>5, <2>6
<1> QED BY <1>1, <1>2, <1>5, <1>6, <1>7, Zenon DEF SamePlaces, r

(* Of two bandwidths at most one surpasses the other. *)
LEMMA ExceedsOnce ==
  ASSUME NEW a \in Nat, NEW b \in Nat, Exceeds(a, b)
  PROVE  ~ Exceeds(b, a)
BY DEF Exceeds

(* The inner loop. *)
LEMMA SortPlaceIs ==
  ASSUME NEW n \in Nat, NEW V, NEW arr \in [V -> Nat], NEW q0 \in [1..n -> V], NEW i \in 1..n
  PROVE  /\ SortPlace(arr, n, q0, i) \in [1..n -> V]
         /\ SamePlaces(q0, SortPlace(arr, n, q0, i), n, i)
         /\ \A j \in (i + 1)..n :
              ~ Exceeds(arr[SortPlace(arr, n, q0, i)[j]], arr[SortPlace(arr, n, q0, i)[i]])
<1> DEFINE A == [1..n -> V]
           m == n - i
           seq == Loop(i + 1, n)
           step == [p \in A \X (1..m) |-> IF Exceeds(arr[p[1][i + p[2]]], arr[p[1][i]])
                                          THEN Exchanged(p[1], i, i + p[2]) ELSE p[1]]
           op(q, j) == IF Exceeds(arr[q[j]], arr[q[i]]) THEN Exchanged(q, i, j) ELSE q
           IsIt(it) == it = [s \in SUBSET (1..m) |->
                               IF s = {} THEN q0 ELSE op(it[s \ {Max(s)}], seq[Max(s)])]
           it == CHOOSE f : IsIt(f)
<1>1. m \in Nat /\ q0 \in A /\ Stepping(m, A, q0, step)
  <2>1. m \in Nat
    OBVIOUS
  <2>2. ASSUME NEW p \in A \X (1..m) PROVE Exchanged(p[1], i, i + p[2]) \in A
    <3>1. p[2] \in 1..m /\ p[1] \in A
      OBVIOUS
    <3>2. i + p[2] \in 1..n /\ i \in 1..n
      <4> DEFINE k == p[2]
      <4>1. k \in 1..m
        BY <3>1
      <4> HIDE DEF k
      <4>2. i + k \in 1..n /\ i \in 1..n
        BY <4>1
      <4> QED BY <4>2 DEF k
    <3> QED BY <3>1, <3>2 DEF Exchanged
  <2>3. step \in [A \X (1..m) -> A]
    BY <2>2
  <2> QED BY <2>1, <2>3 DEF Stepping
<1>2. DOMAIN seq = 1..m /\ \A k \in 1..m : seq[k] = i + k
  BY DEF Loop
<1>3. SortPlace(arr, n, q0, i) = it[1..m]
  BY <1>2, Zenon DEF SortPlace, FoldLeft, MapThenFoldSet, Exchanged
<1>4. \E f : IsIt(f)
  <2>1. PICK f \in [SUBSET (1..m) -> A] : Folds(f, m, q0, step)
    BY <1>1, FoldExists
  <2>2. ASSUME NEW s \in SUBSET (1..m), s # {}
        PROVE  f[s] = op(f[s \ {Max(s)}], seq[Max(s)])
    <3>1. Max(s) \in 1..m /\ s \ {Max(s)} \in SUBSET (1..m)
      BY <1>1, <2>2, GreatestIs, Zenon
    <3>2. f[s] = step[<<f[s \ {Max(s)}], Max(s)>>] /\ f[s \ {Max(s)}] \in A
      BY <2>1, <2>2, <3>1, Zenon DEF Folds
    <3> QED BY <1>2, <3>1, <3>2
  <2>3. f[{}] = q0
    BY <2>1 DEF Folds
  <2>4. IsIt(f)
    <3> HIDE DEF op
    <3> QED BY <2>1, <2>2, <2>3
  <2> QED BY <2>4
<1>5. IsIt(it)
  BY <1>4, Zenon
<1> HIDE DEF it, seq
<1>6. it[{}] = q0
  BY <1>5
<1>7. ASSUME NEW s \in SUBSET (1..m), s # {}, it[s \ {Max(s)}] \in A
      PROVE  it[s] = step[<<it[s \ {Max(s)}], Max(s)>>]
  <2>1. Max(s) \in 1..m
    BY <1>1, <1>7, GreatestIs, Zenon
  <2> QED BY <1>2, <1>5, <1>7, <2>1
<1> HIDE DEF IsIt, A, m, step
<1>8. PICK g \in [0..m -> A] : Unrolls(g, m, q0, step) /\ it[1..m] = g[m]
  <2>1. \A s \in SUBSET (1..m) : s # {} /\ it[s \ {Max(s)}] \in A =>
             it[s] = step[<<it[s \ {Max(s)}], Max(s)>>]
    BY <1>7
  <2>2. Iterates(it, m, A, q0, step)
    BY <1>6, <2>1, Zenon DEF Iterates
  <2>3. FoldsTo(it[1..m], m, A, q0, step)
    BY <1>1, <2>2, FoldUnrolls, Zenon
  <2> QED BY <2>3 DEF FoldsTo
<1>9. \A k \in 1..m : g[k] = IF Exceeds(arr[g[k - 1][i + k]], arr[g[k - 1][i]])
                             THEN Exchanged(g[k - 1], i, i + k) ELSE g[k - 1]
  <2> TAKE k \in 1..m
  <2>1. <<g[k - 1], k>> \in A \X (1..m) /\ g[k] = step[<<g[k - 1], k>>]
    <3>1. k - 1 \in 0..m
      BY <1>1
    <3> QED BY <1>8, <3>1 DEF Unrolls
  <2> QED BY <2>1 DEF step
<1> DEFINE Best(k) == /\ SamePlaces(q0, g[k], n, i)
                      /\ \A j \in (i + 1)..(i + k) : ~ Exceeds(arr[g[k][j]], arr[g[k][i]])
           Bests == {k \in 0..m : Best(k)}
<1>10. m = n - i /\ \A q \in A : q \in [1..n -> V]
  BY DEF A, m
<1>11. 0 \in Bests
  <2>1. \A x \in i..n : x \in 1..n
    OBVIOUS
  <2>2. SamePlaces(q0, q0, n, i)
    BY <2>1, Zenon DEF SamePlaces
  <2>3. g[0] = q0 /\ 0 \in 0..m
    BY <1>1, <1>8 DEF Unrolls
  <2> QED BY <2>2, <2>3
<1>12. ASSUME NEW k \in 0..(m - 1), k \in Bests PROVE k + 1 \in Bests
  <2>1. /\ k + 1 \in 1..m /\ (k + 1) - 1 = k /\ k \in 0..m /\ k + 1 \in 0..m
        /\ i + (k + 1) \in 1..n /\ i + (k + 1) \in i..n /\ i + (k + 1) \in (i + 1)..n
    BY <1>1, <1>10
  <2> DEFINE j == i + (k + 1)
  <2>2. g[k + 1] = IF Exceeds(arr[g[k][j]], arr[g[k][i]]) THEN Exchanged(g[k], i, j) ELSE g[k]
    BY <1>9, <2>1
  <2>3. g[k] \in [1..n -> V] /\ SamePlaces(q0, g[k], n, i)
    BY <1>8, <1>10, <1>12, <2>1
  <2>4. Exchanged(g[k], i, j) \in [1..n -> V] /\ SamePlaces(q0, Exchanged(g[k], i, j), n, i)
    BY <2>1, <2>3, ExchangeKeeps
  <2>5. SamePlaces(q0, g[k + 1], n, i)
    BY <2>2, <2>3, <2>4, Zenon
  <2>6. \A x \in (i + 1)..(i + k) : x \in 1..n /\ x # i /\ x # j
    BY <2>1
  <2>7. \A x \in (i + 1)..(i + (k + 1)) : x = j \/ x \in (i + 1)..(i + k)
    BY <2>1
  <2>8. \A x \in (i + 1)..(i + k) : ~ Exceeds(arr[g[k][x]], arr[g[k][i]])
    BY <1>12
  <2> HIDE DEF j
  <2>9. CASE Exceeds(arr[g[k][j]], arr[g[k][i]])
    <3>1. /\ g[k + 1][i] = g[k][j] /\ g[k + 1][j] = g[k][i]
          /\ \A x \in (i + 1)..(i + k) : g[k + 1][x] = g[k][x]
      BY <2>1, <2>2, <2>3, <2>6, <2>9 DEF Exchanged, j
    <3>2. j \in 1..n /\ arr[g[k][j]] \in Nat /\ arr[g[k][i]] \in Nat
      BY <2>1, <2>3 DEF j
    <3>3. ~ Exceeds(arr[g[k][i]], arr[g[k][j]])
      BY <2>9, <3>2, ExceedsOnce
    <3>4. ASSUME NEW x \in (i + 1)..(i + k)
          PROVE  ~ Exceeds(arr[g[k][x]], arr[g[k][j]])
      <4>1. x \in 1..n /\ arr[g[k][x]] \in Nat
        BY <2>3, <2>6
      <4> QED BY <2>8, <2>9, <3>2, <4>1, ExceedsMore
    <3>5. ASSUME NEW x \in (i + 1)..(i + (k + 1))
          PROVE  ~ Exceeds(arr[g[k + 1][x]], arr[g[k + 1][i]])
      BY <2>7, <3>1, <3>3, <3>4, Zenon
    <3> QED BY <2>1, <2>5, <3>5
  <2>10. CASE ~ Exceeds(arr[g[k][j]], arr[g[k][i]])
    <3>1. g[k + 1] = g[k]
      BY <2>2, <2>10
    <3>2. ASSUME NEW x \in (i + 1)..(i + (k + 1))
          PROVE  ~ Exceeds(arr[g[k + 1][x]], arr[g[k + 1][i]])
      BY <2>7, <2>8, <2>10, <3>1, Zenon
    <3> QED BY <2>1, <2>5, <3>2
  <2> QED BY <2>9, <2>10
<1>13. 0..m \subseteq Bests
  <2> HIDE DEF Bests
  <2> QED BY <1>1, <1>11, <1>12, Inductive
<1>14. m \in 0..m /\ g[m] \in [1..n -> V] /\ i + m = n
  BY <1>1, <1>8, <1>10
<1>15. Best(m)
  BY <1>13, <1>14
<1> QED BY <1>3, <1>8, <1>14, <1>15

(* All numbers below n, each once. *)
Orders(q, n) ==
  /\ q \in [1..n -> 0..(n - 1)]
  /\ \A x, y \in 1..n : q[x] = q[y] => x = y
  /\ \A v \in 0..(n - 1) : \E x \in 1..n : q[x] = v

(* The whole sort. *)
LEMMA SortIs ==
  ASSUME NEW n \in Nat, NEW arr \in [0..(n - 1) -> Nat]
  PROVE  /\ Orders(mctop_sort_double_index(arr, n), n)
         /\ \A i \in 1..n : \A j \in (i + 1)..n :
              ~ Exceeds(arr[mctop_sort_double_index(arr, n)[j]],
                        arr[mctop_sort_double_index(arr, n)[i]])
<1> DEFINE V == 0..(n - 1)
           A == [1..n -> V]
           q0 == Loop(0, n - 1)
           seq == Loop(1, n)
           step == [p \in A \X (1..n) |-> SortPlace(arr, n, p[1], p[2])]
           IsIt(it) == it = [s \in SUBSET (1..n) |->
                               IF s = {} THEN q0 ELSE SortPlace(arr, n, it[s \ {Max(s)}], seq[Max(s)])]
           it == CHOOSE f : IsIt(f)
<1>0. q0 = [k \in 1..n |-> k - 1]
  BY DEF Loop
<1>1. Stepping(n, A, q0, step)
  <2>1. q0 \in A
    BY <1>0
  <2>2. ASSUME NEW p \in A \X (1..n) PROVE SortPlace(arr, n, p[1], p[2]) \in A
    <3>1. p[1] \in [1..n -> V] /\ p[2] \in 1..n
      OBVIOUS
    <3> QED BY <3>1, SortPlaceIs
  <2> QED BY <2>1, <2>2 DEF Stepping
<1>2. DOMAIN seq = 1..n /\ \A k \in 1..n : seq[k] = k
  BY DEF Loop
<1>3. mctop_sort_double_index(arr, n) = it[1..n]
  BY <1>2, Zenon DEF mctop_sort_double_index, FoldLeft, MapThenFoldSet
<1> HIDE DEF A, q0
<1>4. \E f : IsIt(f)
  <2>1. PICK f \in [SUBSET (1..n) -> A] : Folds(f, n, q0, step)
    BY <1>1, FoldExists
  <2>2. ASSUME NEW s \in SUBSET (1..n), s # {}
        PROVE  f[s] = SortPlace(arr, n, f[s \ {Max(s)}], seq[Max(s)])
    <3>1. Max(s) \in 1..n /\ s \ {Max(s)} \in SUBSET (1..n)
      BY <2>2, GreatestIs, Zenon
    <3>2. f[s] = step[<<f[s \ {Max(s)}], Max(s)>>] /\ f[s \ {Max(s)}] \in A
      BY <2>1, <2>2, <3>1, Zenon DEF Folds
    <3> QED BY <1>2, <3>1, <3>2
  <2>3. f[{}] = q0
    BY <2>1 DEF Folds
  <2>4. IsIt(f)
    BY <2>1, <2>2, <2>3
  <2> QED BY <2>4
<1>5. IsIt(it)
  BY <1>4, Zenon
<1> HIDE DEF it, seq
<1>6. it[{}] = q0
  BY <1>5
<1>7. ASSUME NEW s \in SUBSET (1..n), s # {}, it[s \ {Max(s)}] \in A
      PROVE  it[s] = step[<<it[s \ {Max(s)}], Max(s)>>]
  <2>1. Max(s) \in 1..n
    BY <1>7, GreatestIs, Zenon
  <2> QED BY <1>2, <1>5, <1>7, <2>1
<1> HIDE DEF IsIt, step
<1>8. PICK g \in [0..n -> A] : Unrolls(g, n, q0, step) /\ it[1..n] = g[n]
  <2>1. \A s \in SUBSET (1..n) : s # {} /\ it[s \ {Max(s)}] \in A =>
             it[s] = step[<<it[s \ {Max(s)}], Max(s)>>]
    BY <1>7
  <2>2. Iterates(it, n, A, q0, step)
    BY <1>6, <2>1, Zenon DEF Iterates
  <2>3. FoldsTo(it[1..n], n, A, q0, step)
    BY <1>1, <2>2, FoldUnrolls, Zenon
  <2> QED BY <2>3 DEF FoldsTo
<1>9. \A k \in 1..n : g[k] = SortPlace(arr, n, g[k - 1], k)
  <2> TAKE k \in 1..n
  <2>1. <<g[k - 1], k>> \in A \X (1..n) /\ g[k] = step[<<g[k - 1], k>>]
    <3>1. k - 1 \in 0..n
      OBVIOUS
    <3> QED BY <1>8, <3>1 DEF Unrolls
  <2> QED BY <2>1 DEF step
<1> DEFINE Best(k) == /\ Orders(g[k], n)
                      /\ \A i \in 1..k : \A j \in (i + 1)..n : ~ Exceeds(arr[g[k][j]], arr[g[k][i]])
           Bests == {k \in 0..n : Best(k)}
<1>11. 0 \in Bests
  <2>1. g[0] = q0
    BY <1>8 DEF Unrolls
  <2>2. Orders(q0, n)
    <3>1. \A v \in 0..(n - 1) : v + 1 \in 1..n /\ q0[v + 1] = v
      BY <1>0
    <3> QED BY <1>0, <3>1 DEF Orders
  <2> QED BY <2>1, <2>2
<1>12. ASSUME NEW k \in 0..(n - 1), k \in Bests PROVE k + 1 \in Bests
  <2> DEFINE q == g[k]
             r == g[k + 1]
  <2>1. /\ k + 1 \in 1..n /\ (k + 1) - 1 = k /\ k \in 0..n /\ k + 1 \in 0..n
    OBVIOUS
  <2>2. r = SortPlace(arr, n, q, k + 1)
    BY <1>9, <2>1
  <2>3. q \in [1..n -> V] /\ Orders(q, n)
    BY <1>12 DEF Orders
  <2>4. /\ r \in [1..n -> V] /\ SamePlaces(q, r, n, k + 1)
        /\ \A j \in ((k + 1) + 1)..n : ~ Exceeds(arr[r[j]], arr[r[k + 1]])
    <3> HIDE DEF q, r
    <3> QED BY <2>1, <2>2, <2>3, SortPlaceIs
  <2>5. \A i \in 1..k : \A j \in (i + 1)..n : ~ Exceeds(arr[q[j]], arr[q[i]])
    BY <1>12
  <2> HIDE DEF q, r
  <2>6. \A x \in 1..n : x \in 1..k \/ x \in (k + 1)..n
    OBVIOUS
  <2>7. /\ \A x \in 1..k : x \in 1..((k + 1) - 1) /\ x \in 1..n
        /\ \A x \in (k + 1)..n : x \in 1..n
    OBVIOUS
  <2>8. Orders(r, n)
    <3>1. \A v \in 0..(n - 1) : \E x \in 1..n : r[x] = v
      <4> TAKE v \in 0..(n - 1)
      <4>1. PICK x \in 1..n : q[x] = v
        BY <2>3 DEF Orders
      <4>2. CASE x \in 1..k
        BY <2>4, <2>7, <4>1, <4>2 DEF SamePlaces
      <4>3. CASE x \in (k + 1)..n
        <5>1. \E z \in (k + 1)..n : r[z] = q[x]
          BY <2>4, <4>3, Zenon DEF SamePlaces
        <5> QED BY <2>7, <4>1, <5>1
      <4> QED BY <2>6, <4>2, <4>3
    <3>2. \A x, y \in 1..n : r[x] = r[y] => x = y
      BY <2>3, <2>4, Zenon DEF SamePlaces, Orders
    <3> QED BY <2>4, <3>1, <3>2 DEF Orders
  <2>9. ASSUME NEW i \in 1..(k + 1), NEW j \in (i + 1)..n
        PROVE  ~ Exceeds(arr[r[j]], arr[r[i]])
    <3>1. CASE i = k + 1
      BY <2>4, <3>1
    <3>2. CASE i # k + 1
      <4>1. i \in 1..k /\ j \in 1..n
        BY <3>2
      <4>2. r[i] = q[i]
        BY <2>4, <2>7, <4>1 DEF SamePlaces
      <4>3. \E z \in (i + 1)..n : r[j] = q[z]
        <5>1. CASE j \in 1..k
          <6>1. r[j] = q[j]
            BY <2>4, <2>7, <5>1, Zenon DEF SamePlaces
          <6> QED BY <6>1
        <5>2. CASE j \in (k + 1)..n
          <6>1. PICK z \in (k + 1)..n : r[j] = q[z]
            BY <2>4, <5>2, Zenon DEF SamePlaces
          <6>2. z \in (i + 1)..n
            BY <4>1
          <6> QED BY <6>1, <6>2
        <5> QED BY <2>6, <4>1, <5>1, <5>2
      <4> QED BY <2>5, <4>1, <4>2, <4>3, Zenon
    <3> QED BY <3>1, <3>2
  <2>10. Best(k + 1)
    BY <2>8, <2>9 DEF r
  <2> QED BY <2>1, <2>10
<1>13. 0..n \subseteq Bests
  <2> HIDE DEF Bests
  <2> QED BY <1>11, <1>12, Inductive
<1>14. Best(n)
  <2>1. n \in 0..n
    OBVIOUS
  <2> QED BY <1>13, <2>1
<1> QED BY <1>3, <1>8, <1>14

(* The values of a fold exist. *)
LEMMA Unrolled ==
  ASSUME NEW n, NEW A, NEW base, NEW step, Stepping(n, A, base, step)
  PROVE  \E g \in [0..n -> A] : Unrolls(g, n, base, step)
<1>1. n \in Nat /\ base \in A
  BY DEF Stepping
<1>2. PICK it \in [SUBSET (1..n) -> A] : Folds(it, n, base, step)
  BY FoldExists
<1>3. Iterates(it, n, A, base, step)
  <2>1. it[{}] = base
    BY <1>2 DEF Folds
  <2>2. \A s \in SUBSET (1..n) : s # {} /\ it[s \ {Max(s)}] \in A =>
             it[s] = step[<<it[s \ {Max(s)}], Max(s)>>]
    BY <1>2, Zenon DEF Folds
  <2> QED BY <2>1, <2>2, Zenon DEF Iterates
<1>4. FoldsTo(it[1..n], n, A, base, step)
  BY <1>3, FoldUnrolls, Zenon
<1> QED BY <1>4 DEF FoldsTo

LEMMA Concatenated ==
  ASSUME NEW X, NEW p \in Seq(X), NEW q \in Seq(X)
  PROVE  p \o q \in Seq(X) /\ Len(p \o q) = Len(p) + Len(q) /\ Len(p) \in Nat /\ Len(q) \in Nat
OBVIOUS

(* Sequences one after the other, the length of each being w. *)
Rows(q, n, w, X) ==
  /\ n \in Nat /\ w \in Nat /\ q \in [1..n -> Seq(X)]
  /\ \A i \in 1..n : Len(q[i]) = w

(* One after the other, they are as long as all of them together. *)
LEMMA RowsFlatten ==
  ASSUME NEW X, NEW n, NEW w, NEW q, Rows(q, n, w, X)
  PROVE  FlattenSeq(q) \in Seq(X) /\ Len(FlattenSeq(q)) = n * w
<1>0. /\ n \in Nat /\ w \in Nat /\ q \in [1..n -> Seq(X)]
      /\ \A i \in 1..n : Len(q[i]) = w
  BY DEF Rows
<1> USE <1>0
<1>1. q \in Seq(Seq(X)) /\ Len(q) = n
  OBVIOUS
<1>2. CASE n = 0
  <2>1. q = << >>
    BY <1>1, <1>2
  <2>2. FlattenSeq(q) = q
    BY <1>1, <1>2 DEF FlattenSeq
  <2>3. << >> \in Seq(X) /\ Len(<< >>) = 0 /\ n * w = 0
    BY <1>2
  <2> QED BY <2>1, <2>2, <2>3
<1>3. CASE n # 0
  <2> DEFINE A == Seq(X)
             step == [p \in A \X (1..n) |-> p[1] \o q[p[2]]]
             IsIt(f) == f = [i \in 1..n |-> IF i = 1 THEN q[i] ELSE f[i - 1] \o q[i]]
             f == CHOOSE f : IsIt(f)
  <2>1. FlattenSeq(q) = f[n]
    BY <1>1, <1>3, Zenon DEF FlattenSeq
  <2>2. \E h : IsIt(h)
    <3>1. Stepping(n, A, << >>, step)
      <4>1. ASSUME NEW p \in A \X (1..n) PROVE p[1] \o q[p[2]] \in A
        <5>1. p[1] \in Seq(X) /\ q[p[2]] \in Seq(X)
          OBVIOUS
        <5> QED BY <5>1
      <4> QED BY <4>1 DEF Stepping
    <3>2. PICK g \in [0..n -> A] : Unrolls(g, n, << >>, step)
      BY <3>1, Unrolled
    <3> DEFINE h == [i \in 1..n |-> g[i]]
    <3>3. ASSUME NEW i \in 1..n PROVE h[i] = IF i = 1 THEN q[i] ELSE h[i - 1] \o q[i]
      <4>1. g[i - 1] \in Seq(X) /\ q[i] \in Seq(X) /\ <<g[i - 1], i>> \in A \X (1..n)
        <5>1. i - 1 \in 0..n
          OBVIOUS
        <5> QED BY <5>1
      <4>2. g[i] = g[i - 1] \o q[i]
        BY <3>2, <4>1 DEF Unrolls
      <4>3. CASE i = 1
        <5>1. g[i - 1] = << >>
          BY <3>2, <4>3 DEF Unrolls
        <5>2. << >> \o q[i] = q[i]
          BY <4>1
        <5> QED BY <4>2, <4>3, <5>1, <5>2
      <4>4. CASE i # 1
        <5>1. i - 1 \in 1..n
          BY <4>4
        <5> QED BY <4>2, <4>4, <5>1
      <4> QED BY <4>3, <4>4
    <3> HIDE DEF h
    <3>4. h = [i \in 1..n |-> h[i]]
      BY DEF h
    <3>5. IsIt(h)
      BY <3>3, <3>4
    <3> QED BY <3>5
  <2>3. IsIt(f)
    BY <2>2, Zenon
  <2> HIDE DEF f
  <2>4. \A i \in 1..n : f[i] = IF i = 1 THEN q[i] ELSE f[i - 1] \o q[i]
    BY <2>3
  <2> DEFINE S == {k \in 0..n : k > 0 => f[k] \in Seq(X) /\ Len(f[k]) = k * w}
  <2>5. 0 \in S
    OBVIOUS
  <2>6. ASSUME NEW k \in 0..(n - 1), k \in S PROVE k + 1 \in S
    <3>1. k + 1 \in 1..n /\ k + 1 \in 0..n /\ (k + 1) - 1 = k
      OBVIOUS
    <3>2. CASE k = 0
      <4>1. f[k + 1] = q[k + 1]
        BY <2>4, <3>1, <3>2
      <4> QED BY <3>1, <3>2, <4>1
    <3>3. CASE k # 0
      <4>0. f[k] \in Seq(X) /\ Len(f[k]) = k * w /\ k + 1 # 1
        BY <2>6, <3>3
      <4>1. f[k + 1] = f[k] \o q[k + 1]
        BY <2>4, <3>1, <4>0, Zenon
      <4>2. q[k + 1] \in Seq(X) /\ Len(q[k + 1]) = w
        BY <3>1
      <4>3. f[k + 1] \in Seq(X) /\ Len(f[k + 1]) = Len(f[k]) + Len(q[k + 1])
        BY <4>0, <4>1, <4>2, Concatenated
      <4>4. k * w + w = (k + 1) * w
        OBVIOUS
      <4> QED BY <3>1, <4>0, <4>2, <4>3, <4>4
    <3> QED BY <3>2, <3>3
  <2>7. 0..n \subseteq S
    <3> HIDE DEF S
    <3> QED BY <2>5, <2>6, Inductive
  <2>8. n \in 0..n /\ n > 0
    BY <1>3
  <2> QED BY <2>1, <2>7, <2>8
<1> QED BY <1>2, <1>3

(* Every socket gives w contexts; what the filling of sockets needs, and what it gives. *)
Sized(t, S, per, sf, w) == \A s \in S : Len(mctop_socket_get_hwc_ids(t, s, per, sf, 0)) = w

Fillable(t, X, S, m, order, n, per, sf) ==
  /\ m \in Nat \ {0} /\ order \in [1..m -> S] /\ n \in Nat \ {0}
  /\ \A s \in S : mctop_socket_get_hwc_ids(t, s, per, sf, 0) \in Seq(X)

Filled(a, k, t, X, S, order, n, per, sf) ==
  /\ a.sockets = [i \in 1..k |-> order[i]]
  /\ a.hwcs \in Seq(X)
  /\ \A w \in Nat : Sized(t, S, per, sf, w) => Len(a.hwcs) = k * w /\ (k - 1) * w < n

(* The sockets that are filled are the first of those to visit, at least one; *)
(* if each gives w contexts, the last of them is needed.                      *)
LEMMA FillIs ==
  ASSUME NEW t, NEW X, NEW S, NEW m, NEW order, NEW n, NEW per, NEW sf,
         Fillable(t, X, S, m, order, n, per, sf)
  PROVE  \E k \in 1..m :
           Filled(FillSockets(t, order, n, per, sf), k, t, X, S, order, n, per, sf)
<1>0. /\ m \in Nat \ {0} /\ order \in [1..m -> S] /\ n \in Nat \ {0}
      /\ \A s \in S : mctop_socket_get_hwc_ids(t, s, per, sf, 0) \in Seq(X)
  BY DEF Fillable
<1> USE <1>0
<1> DEFINE A == [hwcs : Seq(X), sockets : Seq(S)]
           base == [hwcs |-> << >>, sockets |-> << >>]
           ids(s) == mctop_socket_get_hwc_ids(t, s, per, sf, 0)
           op(a, s) == IF Len(a.hwcs) >= n THEN a
                       ELSE [hwcs |-> a.hwcs \o ids(s), sockets |-> Append(a.sockets, s)]
           step == [p \in A \X (1..m) |-> op(p[1], order[p[2]])]
           IsIt(it) == it = [s \in SUBSET (1..m) |->
                               IF s = {} THEN base ELSE op(it[s \ {Max(s)}], order[Max(s)])]
           it == CHOOSE f : IsIt(f)
<1>1. Stepping(m, A, base, step)
  <2>1. base \in A
    OBVIOUS
  <2>2. ASSUME NEW a \in A, NEW i \in 1..m PROVE op(a, order[i]) \in A
    <3>1. a.hwcs \in Seq(X) /\ a.sockets \in Seq(S) /\ order[i] \in S /\ ids(order[i]) \in Seq(X)
      OBVIOUS
    <3> HIDE DEF ids
    <3>2. a.hwcs \o ids(order[i]) \in Seq(X) /\ Append(a.sockets, order[i]) \in Seq(S)
      BY <3>1
    <3> QED BY <3>2
  <2> HIDE DEF op, A
  <2>3. step \in [A \X (1..m) -> A]
    BY <2>2
  <2> QED BY <2>1, <2>3 DEF Stepping
<1>2. DOMAIN order = 1..m
  OBVIOUS
<1>3. FillSockets(t, order, n, per, sf) = it[1..m]
  BY <1>2, Zenon DEF FillSockets, FoldLeft, MapThenFoldSet, darray_add
<1> HIDE DEF op, A, base
<1>4. \E f : IsIt(f)
  <2>1. PICK f \in [SUBSET (1..m) -> A] : Folds(f, m, base, step)
    BY <1>1, FoldExists
  <2>2. ASSUME NEW s \in SUBSET (1..m), s # {}
        PROVE  f[s] = op(f[s \ {Max(s)}], order[Max(s)])
    <3>1. Max(s) \in 1..m /\ s \ {Max(s)} \in SUBSET (1..m)
      BY <2>2, GreatestIs, Zenon
    <3>2. f[s] = step[<<f[s \ {Max(s)}], Max(s)>>] /\ f[s \ {Max(s)}] \in A
      BY <2>1, <2>2, <3>1, Zenon DEF Folds
    <3> QED BY <3>1, <3>2
  <2>3. f[{}] = base
    BY <2>1 DEF Folds
  <2>4. IsIt(f)
    BY <2>1, <2>2, <2>3
  <2> QED BY <2>4
<1>5. IsIt(it)
  BY <1>4, Zenon
<1> HIDE DEF it
<1>6. it[{}] = base
  BY <1>5
<1>7. ASSUME NEW s \in SUBSET (1..m), s # {}, it[s \ {Max(s)}] \in A
      PROVE  it[s] = step[<<it[s \ {Max(s)}], Max(s)>>]
  <2>1. Max(s) \in 1..m
    BY <1>7, GreatestIs, Zenon
  <2> QED BY <1>5, <1>7, <2>1
<1> HIDE DEF IsIt, step
<1>8. PICK g \in [0..m -> A] : Unrolls(g, m, base, step) /\ it[1..m] = g[m]
  <2>1. \A s \in SUBSET (1..m) : s # {} /\ it[s \ {Max(s)}] \in A =>
             it[s] = step[<<it[s \ {Max(s)}], Max(s)>>]
    BY <1>7
  <2>2. Iterates(it, m, A, base, step)
    BY <1>6, <2>1, Zenon DEF Iterates
  <2>3. FoldsTo(it[1..m], m, A, base, step)
    BY <1>1, <2>2, FoldUnrolls, Zenon
  <2> QED BY <2>3 DEF FoldsTo
<1>9. \A k \in 1..m : g[k] = op(g[k - 1], order[k])
  <2> TAKE k \in 1..m
  <2>1. <<g[k - 1], k>> \in A \X (1..m) /\ g[k] = step[<<g[k - 1], k>>]
    <3>1. k - 1 \in 0..m
      OBVIOUS
    <3> QED BY <1>8, <3>1 DEF Unrolls
  <2> QED BY <2>1 DEF step
<1>10. \A k \in 0..m : g[k].hwcs \in Seq(X) /\ g[k].sockets \in Seq(S) /\ Len(g[k].hwcs) \in Nat
  <2> TAKE k \in 0..m
  <2>1. g[k] \in A
    BY <1>8, Zenon
  <2>2. \A a \in A : a.hwcs \in Seq(X) /\ a.sockets \in Seq(S)
    BY Zenon DEF A
  <2>3. g[k].hwcs \in Seq(X) /\ g[k].sockets \in Seq(S)
    BY <2>1, <2>2, Zenon
  <2>4. Len(g[k].hwcs) \in Nat
    BY <2>3, LenProperties
  <2> QED BY <2>3, <2>4
<1> DEFINE Fits(k, j) ==
             /\ k > 0 => j > 0
             /\ j < k => Len(g[k].hwcs) >= n
             /\ g[k].sockets = [i \in 1..j |-> order[i]]
             /\ \A w \in Nat : Sized(t, S, per, sf, w) =>
                  /\ Len(g[k].hwcs) = j * w
                  /\ j > 0 => (j - 1) * w < n
           Good == {k \in 0..m : \E j \in 0..k : Fits(k, j)}
<1>11. 0 \in Good
  <2>1. g[0] = [hwcs |-> << >>, sockets |-> << >>]
    BY <1>8 DEF Unrolls, base
  <2>2. [i \in 1..0 |-> order[i]] = << >> /\ Len(<< >>) = 0 /\ \A w \in Nat : 0 * w = 0
    OBVIOUS
  <2>3. Fits(0, 0)
    BY <2>1, <2>2
  <2> HIDE DEF Fits
  <2> QED BY <2>3
<1>12. ASSUME NEW k \in 0..(m - 1), k \in Good PROVE k + 1 \in Good
  <2>1. k + 1 \in 1..m /\ k + 1 \in 0..m /\ (k + 1) - 1 = k /\ k \in 0..m
    OBVIOUS
  <2>2. PICK j \in 0..k : Fits(k, j)
    <3> HIDE DEF Fits
    <3> QED BY <1>12
  <2>3. g[k + 1] = op(g[k], order[k + 1])
    BY <1>9, <2>1
  <2>4. CASE Len(g[k].hwcs) >= n
    <3>1. g[k + 1] = g[k]
      BY <2>3, <2>4 DEF op
    <3>2. j > 0
      <4>1. CASE k = 0
        <5>1. g[0] = [hwcs |-> << >>, sockets |-> << >>]
          BY <1>8 DEF Unrolls, base
        <5>2. Len(g[0].hwcs) = 0
          BY <5>1
        <5> QED BY <2>4, <4>1, <5>2
      <4> QED BY <2>2, <4>1
    <3>3. Fits(k + 1, j)
      BY <2>2, <2>4, <3>1, <3>2
    <3>4. j \in 0..(k + 1)
      OBVIOUS
    <3> HIDE DEF Fits
    <3> QED BY <2>1, <3>3, <3>4
  <2>5. CASE ~ (Len(g[k].hwcs) >= n)
    <3>1. j = k
      BY <2>2, <2>5
    <3>2. /\ g[k + 1].hwcs = g[k].hwcs \o ids(order[k + 1])
          /\ g[k + 1].sockets = Append(g[k].sockets, order[k + 1])
      <4> DEFINE h == g[k].hwcs \o ids(order[k + 1])
                 q == Append(g[k].sockets, order[k + 1])
      <4>1. g[k + 1] = [hwcs |-> h, sockets |-> q]
        <5> HIDE DEF ids
        <5> QED BY <2>3, <2>5, Zenon DEF op
      <4> HIDE DEF h, q
      <4>2. g[k + 1].hwcs = h /\ g[k + 1].sockets = q
        BY <4>1
      <4> QED BY <4>2 DEF h, q
    <3>3. order[k + 1] \in S /\ ids(order[k + 1]) \in Seq(X)
      BY <2>1
    <3>4. Len(g[k + 1].hwcs) = Len(g[k].hwcs) + Len(ids(order[k + 1]))
      <4> HIDE DEF ids
      <4> QED BY <1>10, <2>1, <3>2, <3>3, Concatenated
    <3>5. g[k + 1].sockets = [i \in 1..(k + 1) |-> order[i]]
      <4>1. g[k].sockets = [i \in 1..k |-> order[i]]
        BY <2>2, <3>1
      <4> QED BY <2>1, <3>2, <4>1
    <3>6. ASSUME NEW w \in Nat, Sized(t, S, per, sf, w)
          PROVE  Len(g[k + 1].hwcs) = (k + 1) * w /\ ((k + 1) - 1) * w < n
      <4>1. Len(g[k].hwcs) = k * w
        BY <2>2, <3>1, <3>6
      <4>2. Len(ids(order[k + 1])) = w
        BY <3>3, <3>6 DEF Sized
      <4>3. k * w + w = (k + 1) * w
        OBVIOUS
      <4>4. Len(g[k + 1].hwcs) = (k + 1) * w
        BY <3>4, <4>1, <4>2, <4>3
      <4>5. k * w < n
        BY <1>10, <2>1, <2>5, <4>1
      <4> QED BY <2>1, <4>4, <4>5
    <3>7. k + 1 > 0 /\ ~ (k + 1 < k + 1) /\ k + 1 \in 0..(k + 1)
      OBVIOUS
    <3>8. Fits(k + 1, k + 1)
      BY <3>5, <3>6, <3>7
    <3> HIDE DEF Fits
    <3> QED BY <2>1, <3>7, <3>8
  <2> QED BY <2>4, <2>5
<1>13. 0..m \subseteq Good
  <2> HIDE DEF Good
  <2> QED BY <1>11, <1>12, Inductive
<1>14. PICK j \in 0..m : Fits(m, j)
  <2>1. m \in Good
    <3> HIDE DEF Good
    <3> QED BY <1>13
  <2> HIDE DEF Fits
  <2> QED BY <2>1
<1>15. j \in 1..m
  BY <1>14
<1>16. /\ FillSockets(t, order, n, per, sf).sockets = [i \in 1..j |-> order[i]]
       /\ FillSockets(t, order, n, per, sf).hwcs \in Seq(X)
  BY <1>3, <1>8, <1>10, <1>14
<1>17. \A w \in Nat : Sized(t, S, per, sf, w) =>
         /\ Len(FillSockets(t, order, n, per, sf).hwcs) = j * w
         /\ (j - 1) * w < n
  BY <1>3, <1>8, <1>14, <1>15
<1> HIDE DEF Fits, Good
<1>18. Filled(FillSockets(t, order, n, per, sf), j, t, X, S, order, n, per, sf)
  BY <1>16, <1>17 DEF Filled
<1> QED BY <1>15, <1>18

(* The first members of a sequence. *)
LEMMA AtMostIs ==
  ASSUME NEW X, NEW q \in Seq(X), NEW n \in Nat
  PROVE  AtMost(q, n) \in Seq(X) /\ (Len(q) <= n => AtMost(q, n) = q)
BY DEF AtMost

(* What the topologies are assumed to be, for one of their sockets. *)
LEMMA SocketIs ==
  ASSUME NEW name \in DOMAIN Topologies, NEW t, t = Topologies[name], NEW s \in Sockets(t)
  PROVE  /\ t.n_sockets \in Nat \ {0} /\ t.n_hwcs \in Nat \ {0}
         /\ t.n_hwcs_per_core \in Nat \ {0} /\ t.socket_level \in Nat /\ t.is_smt \in BOOLEAN
         /\ t.gs[socket(t, s)].type = "SOCKET" /\ t.gs[socket(t, s)].level = t.socket_level
         /\ t.gs[socket(t, s)].latency = t.latencies[t.socket_level + 1]
         /\ t.gs[socket(t, s)].level = 0 => t.gs[socket(t, s)].latency = 0
         /\ t.gs[socket(t, s)].hwcs \in Seq(Contexts(t))
         /\ Len(t.gs[socket(t, s)].hwcs) = PerSocketOf(t) /\ PerSocketOf(t) \in Nat \ {0}
         /\ t.is_smt => /\ CoreHwcs(t, s) \in Seq([1..t.n_hwcs_per_core -> Contexts(t)])
                        /\ Len(CoreHwcs(t, s)) * t.n_hwcs_per_core = PerSocketOf(t)
         /\ mctop_socket_get_bw_local(t, s) \in Nat
<1>1. SocketsAreAlike(t)
  BY TopologiesAssumption
<1>2. /\ t.n_sockets \in Nat \ {0} /\ t.n_hwcs \in Nat \ {0} /\ t.n_hwcs_per_core \in Nat \ {0}
      /\ t.socket_level \in Nat /\ t.is_smt \in BOOLEAN
  BY <1>1, Zenon DEF SocketsAreAlike
<1> DEFINE it == t.gs[socket(t, s)]
<1>3. /\ it.type = "SOCKET" /\ it.level = t.socket_level
      /\ it.latency = t.latencies[t.socket_level + 1]
      /\ it.level = 0 => it.latency = 0
      /\ it.hwcs \in Seq(Contexts(t)) \ {<< >>} /\ Len(it.hwcs) = t.n_hwcs \div t.n_sockets
      /\ t.is_smt => /\ CoreHwcs(t, s) \in Seq([1..t.n_hwcs_per_core -> Contexts(t)])
                     /\ Len(CoreHwcs(t, s)) * t.n_hwcs_per_core = t.n_hwcs \div t.n_sockets
      /\ mctop_socket_get_bw_local(t, s) \in Nat
  BY <1>1, Zenon DEF SocketsAreAlike
<1>4. Len(it.hwcs) \in Nat \ {0}
  <2> HIDE DEF it
  <2>1. it.hwcs \in Seq(Contexts(t)) /\ it.hwcs # << >>
    BY <1>3
  <2> QED BY <2>1, LenProperties, EmptySeq
<1> QED BY <1>2, <1>3, <1>4, Zenon DEF PerSocketOf

(* Some contexts of a socket; with room for all of them, all. *)
LEMMA IdsAre ==
  ASSUME NEW name \in DOMAIN Topologies, NEW t, t = Topologies[name], NEW s \in Sockets(t),
         NEW per \in Nat, NEW sf \in Int
  PROVE  /\ mctop_socket_get_hwc_ids(t, s, per, sf, 0) \in Seq(Contexts(t))
         /\ per = PerSocketOf(t) /\ sf >= 0 => Len(mctop_socket_get_hwc_ids(t, s, per, sf, 0)) = per
<1> DEFINE cores == CoreHwcs(t, s)
           nc == Len(cores)
           w == t.n_hwcs_per_core
           X == Contexts(t)
           nth(ht) == [c \in DOMAIN cores |-> cores[c][ht]]
           q == CASE ~t.is_smt -> t.gs[socket(t, s)].hwcs
                  [] t.is_smt /\ sf < 0 -> nth(0 + 1)
                  [] t.is_smt /\ sf = 0 -> FlattenSeq([ht \in 1..w |-> nth(ht)])
                  [] OTHER -> FlattenSeq(cores)
<1>1. mctop_socket_get_hwc_ids(t, s, per, sf, 0) = AtMost(q, per)
  BY DEF mctop_socket_get_hwc_ids
<1>2. /\ w \in Nat \ {0} /\ t.is_smt \in BOOLEAN /\ PerSocketOf(t) \in Nat
      /\ t.gs[socket(t, s)].hwcs \in Seq(X) /\ Len(t.gs[socket(t, s)].hwcs) = PerSocketOf(t)
      /\ t.is_smt => cores \in Seq([1..w -> X]) /\ nc * w = PerSocketOf(t)
  BY SocketIs
<1> HIDE DEF cores, w, X
<1>3. q \in Seq(X) /\ (sf >= 0 => Len(q) = PerSocketOf(t))
  <2>1. CASE ~t.is_smt
    BY <1>2, <2>1
  <2>2. CASE t.is_smt
    <3>1. nc \in Nat /\ cores \in [1..nc -> [1..w -> X]] /\ DOMAIN cores = 1..nc
      BY <1>2, <2>2
    <3>2. \A ht \in 1..w : nth(ht) \in Seq(X) /\ Len(nth(ht)) = nc
      <4> TAKE ht \in 1..w
      <4>1. nth(ht) = [c \in 1..nc |-> cores[c][ht]] /\ nth(ht) \in [1..nc -> X]
        BY <3>1
      <4> QED BY <3>1, <4>1
    <3>3. CASE sf < 0
      <4>1. q = nth(1)
        BY <2>2, <3>3
      <4>2. 1 \in 1..w
        BY <1>2
      <4> HIDE DEF q, nth
      <4> QED BY <3>2, <3>3, <4>1, <4>2
    <3>4. CASE sf = 0
      <4> DEFINE qs == [ht \in 1..w |-> nth(ht)]
      <4>1. q = FlattenSeq(qs)
        BY <2>2, <3>4
      <4> HIDE DEF q, nth
      <4>2. qs \in [1..w -> Seq(X)] /\ \A i \in 1..w : Len(qs[i]) = nc
        BY <3>2
      <4> HIDE DEF qs
      <4>3. FlattenSeq(qs) \in Seq(X) /\ Len(FlattenSeq(qs)) = w * nc
        <5>1. w \in Nat /\ nc \in Nat
          BY <1>2, <3>1
        <5>2. Rows(qs, w, nc, X)
          BY <4>2, <5>1 DEF Rows
        <5> QED BY <5>2, RowsFlatten
      <4>4. w * nc = nc * w
        BY <1>2, <3>1
      <4> QED BY <1>2, <2>2, <4>1, <4>3, <4>4
    <3>5. CASE sf > 0
      <4>1. q = FlattenSeq(cores)
        BY <2>2, <3>5
      <4> HIDE DEF q, nth
      <4>2. cores \in [1..nc -> Seq(X)] /\ \A i \in 1..nc : Len(cores[i]) = w
        <5>1. ASSUME NEW f \in [1..w -> X] PROVE f \in Seq(X) /\ Len(f) = w
          BY <1>2
        <5> HIDE DEF nc
        <5>2. \A i \in 1..nc : cores[i] \in [1..w -> X]
          BY <3>1
        <5>3. \A i \in 1..nc : cores[i] \in Seq(X) /\ Len(cores[i]) = w
          BY <5>1, <5>2
        <5>4. cores = [i \in 1..nc |-> cores[i]]
          BY <3>1
        <5> QED BY <5>3, <5>4
      <4>3. FlattenSeq(cores) \in Seq(X) /\ Len(FlattenSeq(cores)) = nc * w
        <5>1. Rows(cores, nc, w, X)
          BY <1>2, <3>1, <4>2 DEF Rows
        <5> QED BY <5>1, RowsFlatten
      <4> QED BY <1>2, <2>2, <4>1, <4>3
    <3> QED BY <3>3, <3>4, <3>5
  <2> QED BY <1>2, <2>1, <2>2
<1> HIDE DEF q
<1>4. AtMost(q, per) \in Seq(X) /\ (Len(q) <= per => AtMost(q, per) = q)
  BY <1>3, AtMostIs
<1>5. per = PerSocketOf(t) /\ sf >= 0 => Len(AtMost(q, per)) = per
  BY <1>2, <1>3, <1>4
<1> QED BY <1>1, <1>4, <1>5 DEF X

(* A fold whose steps change nothing. *)
Stays(it, n, c) ==
  /\ n \in Nat /\ it[{}] = c
  /\ \A s \in SUBSET (1..n) : s # {} /\ it[s \ {Max(s)}] = c => it[s] = c

(* Such a fold ends where it starts. *)
LEMMA StaysSame ==
  ASSUME NEW n, NEW c, NEW it, Stays(it, n, c)
  PROVE  it[1..n] = c
<1>0. /\ n \in Nat /\ it[{}] = c
      /\ \A s \in SUBSET (1..n) : s # {} /\ it[s \ {Max(s)}] = c => it[s] = c
  BY DEF Stays
<1> USE <1>0
<1> DEFINE step == [p \in {c} \X (1..n) |-> c]
<1>1. Stepping(n, {c}, c, step)
  BY DEF Stepping
<1>2. ASSUME NEW s \in SUBSET (1..n), s # {}, it[s \ {Max(s)}] \in {c}
      PROVE  it[s] = step[<<it[s \ {Max(s)}], Max(s)>>]
  <2>1. Max(s) \in 1..n
    BY <1>2, GreatestIs, Zenon
  <2>2. it[s] = c
    BY <1>2
  <2>3. <<it[s \ {Max(s)}], Max(s)>> \in {c} \X (1..n)
    BY <1>2, <2>1
  <2> QED BY <2>2, <2>3
<1> HIDE DEF step
<1>3. Iterates(it, n, {c}, c, step)
  <2>1. it[{}] = c
    OBVIOUS
  <2> QED BY <1>2, <2>1, Zenon DEF Iterates
<1>4. FoldsTo(it[1..n], n, {c}, c, step)
  BY <1>1, <1>3, FoldUnrolls, Zenon
<1>5. PICK g \in [0..n -> {c}] : it[1..n] = g[n]
  BY <1>4 DEF FoldsTo
<1> QED BY <1>5

(* A socket is as high as two sockets are to be raised. *)
LEMMA RaiseSocket ==
  ASSUME NEW t, NEW c, t.socket_level \in Nat, t.gs[c].level = t.socket_level
  PROVE  Raise(t, c, t.socket_level) = c
<1> DEFINE n == t.socket_level
           seq == Loop(1, n)
           IsIt(f) == f = [s \in SUBSET (1..n) |->
                             IF s = {} THEN c
                             ELSE IF t.gs[f[s \ {Max(s)}]].level < n
                                  THEN t.gs[f[s \ {Max(s)}]].parent ELSE f[s \ {Max(s)}]]
           it == CHOOSE f : IsIt(f)
           same == [s \in SUBSET (1..n) |-> c]
<1>1. DOMAIN seq = 1..n
  BY DEF Loop
<1>2. Raise(t, c, n) = it[1..n]
  BY <1>1, Zenon DEF Raise, FoldLeft, MapThenFoldSet
<1>3. ~ (t.gs[c].level < n)
  OBVIOUS
<1>4. IsIt(same)
  <2>1. \A s \in SUBSET (1..n) : \A m : s \ {m} \in SUBSET (1..n)
    OBVIOUS
  <2> QED BY <1>3, <2>1, Zenon
<1>5. IsIt(it)
  BY <1>4, Zenon
<1> HIDE DEF it
<1>6. it[{}] = c
  BY <1>5
<1>7. ASSUME NEW s \in SUBSET (1..n), s # {}, it[s \ {Max(s)}] = c
      PROVE  it[s] = c
  BY <1>3, <1>5, <1>7
<1> HIDE DEF IsIt
<1>8. Stays(it, n, c)
  BY <1>6, <1>7 DEF Stays
<1>9. it[1..n] = c
  BY <1>8, StaysSame
<1> QED BY <1>2, <1>9

(* The climb from a socket ends where it starts. *)
LEMMA ClimbSocket ==
  ASSUME NEW t, NEW c, t.socket_level \in Nat, t.gs[c].level = t.socket_level,
         t.gs[c].type = "SOCKET"
  PROVE  UpToSocket(t, c) = <<c>>
<1> DEFINE n == t.socket_level
           seq == Loop(1, n)
           op(cs) == IF t.gs[Last(cs)].type = "SOCKET" THEN cs ELSE Append(cs, t.gs[Last(cs)].parent)
           IsIt(f) == f = [s \in SUBSET (1..n) |-> IF s = {} THEN <<c>> ELSE op(f[s \ {Max(s)}])]
           it == CHOOSE f : IsIt(f)
           same == [s \in SUBSET (1..n) |-> <<c>>]
<1>1. DOMAIN seq = 1..n
  BY DEF Loop
<1>2. UpToSocket(t, c) = it[1..n]
  BY <1>1, Zenon DEF UpToSocket, FoldLeft, MapThenFoldSet
<1>3. op(<<c>>) = <<c>>
  <2>1. Last(<<c>>) = c
    BY DEF Last
  <2> QED BY <2>1
<1> HIDE DEF op
<1>4. IsIt(same)
  <2>1. \A s \in SUBSET (1..n) : \A m : s \ {m} \in SUBSET (1..n)
    OBVIOUS
  <2> QED BY <1>3, <2>1, Zenon
<1>5. IsIt(it)
  BY <1>4, Zenon
<1> HIDE DEF it
<1>6. it[{}] = <<c>>
  BY <1>3, <1>5
<1>7. ASSUME NEW s \in SUBSET (1..n), s # {}, it[s \ {Max(s)}] = <<c>>
      PROVE  it[s] = <<c>>
  BY <1>3, <1>5, <1>7
<1> HIDE DEF IsIt
<1>8. Stays(it, n, <<c>>)
  BY <1>6, <1>7 DEF Stays
<1>9. it[1..n] = <<c>>
  BY <1>8, StaysSame
<1> QED BY <1>2, <1>9


(* The latency between two sockets: that within a socket, or of their sibling. *)
LEMMA LatencyOfSockets ==
  ASSUME NEW name \in DOMAIN Topologies, NEW t, t = Topologies[name],
         NEW s \in Sockets(t), NEW r \in Sockets(t)
  PROVE  mctop_ids_get_latency(t, socket(t, s), socket(t, r)) =
           IF s = r THEN t.latencies[t.socket_level + 1]
           ELSE mctop_get_sibling_with_sockets(t, s, r).latency
<1> DEFINE c == socket(t, s)
           d == socket(t, r)
           n == t.socket_level
           up0 == <<c>>
           up1 == <<d>>
           meet == {i \in DOMAIN up0 : up0[i] = up1[i]}
           common == t.gs[up0[Min(meet)]]
<1>1. /\ n \in Nat /\ t.gs[c].level = n /\ t.gs[d].level = n
      /\ t.gs[c].type = "SOCKET" /\ t.gs[d].type = "SOCKET"
      /\ t.gs[c].latency = t.latencies[n + 1] /\ (n = 0 => t.gs[c].latency = 0)
  <2>1. /\ t.socket_level \in Nat /\ t.gs[c].level = t.socket_level
        /\ t.gs[c].type = "SOCKET" /\ t.gs[c].latency = t.latencies[t.socket_level + 1]
        /\ t.gs[c].level = 0 => t.gs[c].latency = 0
    BY SocketIs
  <2>2. t.gs[d].level = t.socket_level /\ t.gs[d].type = "SOCKET"
    BY SocketIs
  <2> HIDE DEF c, d
  <2> QED BY <2>1, <2>2
<1> HIDE DEF c, d, n
<1>2. (IF t.gs[c].level < t.gs[d].level THEN t.gs[d].level ELSE t.gs[c].level) = n
  BY <1>1
<1>3. mctop_ids_get_latency(t, c, d) =
        IF meet = {} THEN mctop_get_sibling_with_sockets(t, Last(up0)[2], Last(up1)[2]).latency
        ELSE IF common.level = 0 THEN 0 ELSE common.latency
  <2>1. Raise(t, c, n) = c /\ Raise(t, d, n) = d
    BY <1>1, RaiseSocket DEF n
  <2>2. UpToSocket(t, c) = up0 /\ UpToSocket(t, d) = up1
    BY <1>1, ClimbSocket DEF n
  <2>3. mctop_ids_get_latency(t, c, d) =
          MeetingLatency(t, UpToSocket(t, Raise(t, c, n)), UpToSocket(t, Raise(t, d, n)))
    BY <1>2 DEF mctop_ids_get_latency
  <2>4. mctop_ids_get_latency(t, c, d) = MeetingLatency(t, up0, up1)
    BY <2>1, <2>2, <2>3
  <2> QED BY <2>4, Zenon DEF MeetingLatency
<1>4. c = <<n, s>> /\ d = <<n, r>>
  BY DEF c, d, n, socket
<1>5. CASE s = r
  <2>1. meet = {1}
    BY <1>4, <1>5
  <2>2. Min({1}) = 1
    BY LeastIs
  <2>3. common = t.gs[c]
    BY <2>1, <2>2
  <2>4. meet # {}
    BY <2>1
  <2>5. mctop_ids_get_latency(t, c, d) = IF t.gs[c].level = 0 THEN 0 ELSE t.gs[c].latency
    BY <1>3, <2>3, <2>4
  <2> QED BY <1>1, <1>5, <2>5 DEF c, d, n
<1>6. CASE s # r
  <2>1. meet = {}
    BY <1>4, <1>6
  <2>2. Last(up0)[2] = s /\ Last(up1)[2] = r
    BY <1>4 DEF Last
  <2>3. mctop_ids_get_latency(t, c, d) = mctop_get_sibling_with_sockets(t, s, r).latency
    BY <1>3, <2>1, <2>2
  <2> QED BY <1>6, <2>3 DEF c, d
<1> QED BY <1>5, <1>6

(* The socket at the other end of a sibling. *)
Other(b, s) == mctop_sibling_get_other_socket(b, s)

(* What the topologies are assumed to be, for the siblings of a socket. *)
LEMMA SiblingsIs ==
  ASSUME NEW name \in DOMAIN Topologies, NEW t, t = Topologies[name], NEW s \in Sockets(t)
  PROVE  /\ t.sib_in[s] \in Seq(ToSet(t.siblings)) /\ Len(t.sib_in[s]) = t.n_sockets - 1
         /\ {Other(t.sib_in[s][i], s) : i \in DOMAIN t.sib_in[s]} = Sockets(t) \ {s}
         /\ \A i \in DOMAIN t.sib_in[s] :
              /\ s \in {t.sib_in[s][i].left, t.sib_in[s][i].right}
              /\ t.sib_in[s][i].latency = t.sib[s][i].latency
              /\ t.latencies[t.socket_level + 1] <= t.sib_in[s][i].latency
              /\ \A j \in DOMAIN t.sib_in[s] : i < j => t.sib_in[s][i].latency <= t.sib_in[s][j].latency
<1>1. SiblingsAreAlike(t)
  BY TopologiesAssumption
<1> DEFINE q == t.sib_in[s]
<1>2. /\ q \in Seq(ToSet(t.siblings)) /\ Len(q) = t.n_sockets - 1
      /\ \A i \in DOMAIN q : s \in {q[i].left, q[i].right}
      /\ {mctop_sibling_get_other_socket(q[i], s) : i \in DOMAIN q} = Sockets(t) \ {s}
      /\ \A i \in DOMAIN q :
            /\ q[i].latency = t.sib[s][i].latency
            /\ t.latencies[t.socket_level + 1] <= q[i].latency
            /\ \A j \in DOMAIN q : i < j => q[i].latency <= q[j].latency
  BY <1>1, Zenon DEF SiblingsAreAlike
<1> HIDE DEF q
<1>3. {Other(q[i], s) : i \in DOMAIN q} = Sockets(t) \ {s}
  BY <1>2 DEF Other
<1>4. \A i \in DOMAIN q :
         /\ s \in {q[i].left, q[i].right}
         /\ q[i].latency = t.sib[s][i].latency
         /\ t.latencies[t.socket_level + 1] <= q[i].latency
         /\ \A j \in DOMAIN q : i < j => q[i].latency <= q[j].latency
  BY <1>2, Zenon
<1> QED BY <1>2, <1>3, <1>4 DEF q

(* Two sockets are as far from each other as their sibling says. *)
LEMMA SiblingLatency ==
  ASSUME NEW name \in DOMAIN Topologies, NEW t, t = Topologies[name], NEW s \in Sockets(t),
         NEW i \in DOMAIN t.sib_in[s], NEW r, r = Other(t.sib_in[s][i], s)
  PROVE  mctop_ids_get_latency(t, socket(t, s), socket(t, r)) = t.sib_in[s][i].latency
<1> DEFINE b == t.sib_in[s][i]
           q == t.siblings
           Test(c) == <<c.left, c.right>> \in {<<s, r>>, <<r, s>>}
           I == {k \in 1..Len(q) : Test(q[k])}
<1>1. /\ q \in Seq([level : Nat, latency : Nat, left : Sockets(t), right : Sockets(t)])
      /\ \A c, d \in ToSet(q) : {c.left, c.right} = {d.left, d.right} => c = d
  <2>1. SiblingsAreAlike(t)
    BY TopologiesAssumption
  <2> QED BY <2>1, Zenon DEF SiblingsAreAlike
<1>2. b \in ToSet(q) /\ s \in {b.left, b.right} /\ r \in Sockets(t) /\ r # s
  <2>1. b \in ToSet(q)
    <3>1. t.sib_in[s] \in Seq(ToSet(q))
      BY SiblingsIs
    <3> HIDE DEF q
    <3> QED BY <3>1
  <2>2. s \in {b.left, b.right} /\ {Other(t.sib_in[s][j], s) : j \in DOMAIN t.sib_in[s]} = Sockets(t) \ {s}
    BY SiblingsIs
  <2>3. r \in Sockets(t) \ {s}
    <3> HIDE DEF b
    <3> QED BY <2>2
  <2> QED BY <2>1, <2>2, <2>3
<1>3. Test(b)
  BY <1>2 DEF Other, mctop_sibling_get_other_socket
<1>4. DOMAIN q = 1..Len(q) /\ Len(q) \in Nat
  BY <1>1, LenProperties, Zenon
<1> HIDE DEF b, q
<1>5. I # {} /\ I \in SUBSET Nat
  <2>1. PICK k \in DOMAIN q : q[k] = b
    BY <1>2 DEF ToSet
  <2> QED BY <1>3, <1>4, <2>1
<1>6. Min(I) \in I
  BY <1>5, LeastIs
<1>7. mctop_get_sibling_with_sockets(t, s, r) = q[Min(I)]
  <2>1. SelectInSeq(q, LAMBDA c : <<c.left, c.right>> \in {<<s, r>>, <<r, s>>}) = Min(I)
    BY <1>5, Zenon DEF SelectInSeq
  <2> QED BY <2>1, Zenon DEF mctop_get_sibling_with_sockets, q
<1>8. q[Min(I)] = b
  <2>1. q[Min(I)] \in ToSet(q) /\ Test(q[Min(I)])
    BY <1>4, <1>6, Zenon DEF ToSet
  <2> DEFINE c == q[Min(I)]
  <2> HIDE DEF c
  <2>2. c \in ToSet(q) /\ Test(c)
    BY <2>1 DEF c
  <2>3. {c.left, c.right} = {s, r}
    BY <2>2
  <2>4. {b.left, b.right} = {s, r}
    BY <1>3
  <2> QED BY <1>1, <1>2, <2>2, <2>3, <2>4 DEF c, q
<1> QED BY <1>2, <1>7, <1>8, LatencyOfSockets DEF b

(* The sockets in the order in which they are visited. *)
Visited(t, start) ==
  [i \in 1..t.n_sockets |-> IF i = 1 THEN start ELSE Other(t.sib_in[start][i - 1], start)]

VisitOrder(t, start) ==
  <<start>> \o [i \in DOMAIN t.sib_in[start] |->
                   mctop_sibling_get_other_socket(t.sib_in[start][i], start)]

(* It is the order in which MinLatFrom visits them. *)
LEMMA VisitedIs ==
  ASSUME NEW name \in DOMAIN Topologies, NEW t, t = Topologies[name], NEW start \in Sockets(t)
  PROVE  /\ Visited(t, start) \in [1..t.n_sockets -> Sockets(t)]
         /\ Visited(t, start) = VisitOrder(t, start)
<1> DEFINE q == t.sib_in[start]
           n == t.n_sockets
           others == [i \in DOMAIN q |-> mctop_sibling_get_other_socket(q[i], start)]
<1>1. n \in Nat \ {0}
  BY SocketIs
<1>2. /\ q \in Seq(ToSet(t.siblings)) /\ Len(q) = n - 1
      /\ {Other(q[i], start) : i \in DOMAIN q} = Sockets(t) \ {start}
  BY SiblingsIs
<1> HIDE DEF q, n
<1>3. DOMAIN q = 1..(n - 1)
  BY <1>2, LenProperties
<1>4. others \in [1..(n - 1) -> Sockets(t)] /\ \A i \in 1..(n - 1) : others[i] = Other(q[i], start)
  <2>1. \A i \in 1..(n - 1) : Other(q[i], start) \in Sockets(t)
    BY <1>2, <1>3
  <2> QED BY <1>3, <2>1 DEF Other
<1> HIDE DEF others
<1>5. Visited(t, start) = [i \in 1..n |-> IF i = 1 THEN start ELSE Other(q[i - 1], start)]
  BY DEF Visited, n, q
<1>6. \A i \in 1..n : i # 1 => i - 1 \in 1..(n - 1)
  BY <1>1
<1>7. Visited(t, start) \in [1..n -> Sockets(t)]
  <2>1. \A i \in 1..n : i # 1 => Other(q[i - 1], start) \in Sockets(t)
    BY <1>4, <1>6
  <2> QED BY <1>5, <2>1
<1>8. <<start>> \o others = [i \in 1..n |-> IF i = 1 THEN start ELSE others[i - 1]]
  <2>1. others \in Seq(Sockets(t)) /\ Len(others) = n - 1 /\ <<start>> \in Seq(Sockets(t))
    BY <1>1, <1>4
  <2>2. <<start>> \o others = [i \in 1..(Len(<<start>>) + Len(others)) |->
                                 IF i <= Len(<<start>>) THEN <<start>>[i] ELSE others[i - Len(<<start>>)]]
    BY <2>1
  <2> QED BY <1>1, <2>1, <2>2
<1>9. \A i \in 1..n : (IF i = 1 THEN start ELSE others[i - 1]) = (IF i = 1 THEN start ELSE Other(q[i - 1], start))
  BY <1>4, <1>6
<1>10. Visited(t, start) = <<start>> \o others
  BY <1>5, <1>8, <1>9
<1> QED BY <1>7, <1>10 DEF n, q, others, VisitOrder

(* What MinLatFrom returns: the sockets are the first k visited. *)
MinLatIs(r, t, start, per, sf) ==
  \E k \in 1..t.n_sockets :
    /\ r.sockets = [i \in 1..k |-> Visited(t, start)[i]]
    /\ r.max_latency = Max({t.latencies[t.socket_level + 1]} \cup
                            {t.sib[start][i].latency : i \in 1..(k - 1)})
    /\ per = PerSocketOf(t) /\ sf >= 0 => (k - 1) * PerSocketOf(t) < Len(r.hwcs)

(* MinLatFrom returns that. *)
LEMMA MinLatFromIs ==
  ASSUME NEW name \in DOMAIN Topologies, NEW t, t = Topologies[name], NEW start \in Sockets(t),
         NEW wanted \in Nat \ {0}, NEW per \in Nat \ {0}, NEW sf \in Int, NEW balance
  PROVE  MinLatIs(MinLatFrom(t, start, wanted, per, sf, balance), t, start, per, sf)
<1> DEFINE r == MinLatFrom(t, start, wanted, per, sf, balance)
           ns == t.n_sockets
           n == Min({wanted, per * t.n_sockets})
           order == <<start>> \o [i \in DOMAIN t.sib_in[start] |->
                              mctop_sibling_get_other_socket(t.sib_in[start][i], start)]
           first == FillSockets(t, order, n, per, sf)
           hwcs == IF sf < 0 /\ t.is_smt
                   THEN NextContexts(t, first, n, IF balance THEN Up(n - Len(first.hwcs), Len(first.sockets))
                                                  ELSE per)
                   ELSE first.hwcs
           others == [i \in DOMAIN t.sib_in[start] |->
                        mctop_sibling_get_other_socket(t.sib_in[start][i], start)]
           bws == Min({mctop_socket_get_bw_local(t, start)} \cup
                      {mctop_socket_get_bw_to(t, others[i], start) : i \in 1..(Len(first.sockets) - 1)})
           lats == Max({t.latencies[t.socket_level + 1]} \cup
                       {t.sib[start][i].latency : i \in 1..(Len(first.sockets) - 1)})
<1>1. r = [hwcs |-> AtMost(hwcs, n), sockets |-> first.sockets, max_latency |-> lats,
           min_bandwidth |-> bws]
  BY Zenon DEF MinLatFrom
<1>2. ns \in Nat \ {0} /\ PerSocketOf(t) \in Nat \ {0}
  BY SocketIs
<1>3. n \in Nat \ {0}
  <2>1. per * ns \in Nat \ {0}
    BY <1>2
  <2>2. Min({wanted, per * ns}) \in {wanted, per * ns}
    BY <2>1, LeastIs
  <2> QED BY <2>1, <2>2
<1> HIDE DEF n, first, hwcs, others, bws, lats
<1>4. order = Visited(t, start) /\ Visited(t, start) \in [1..ns -> Sockets(t)]
  <2>1. Visited(t, start) \in [1..ns -> Sockets(t)]
    BY VisitedIs, Zenon
  <2>2. Visited(t, start) = order
    <3>1. Visited(t, start) = VisitOrder(t, start)
      BY VisitedIs, Zenon
    <3> QED BY <3>1, Zenon DEF order, VisitOrder
  <2> QED BY <2>1, <2>2
<1>5. \A s \in Sockets(t) : mctop_socket_get_hwc_ids(t, s, per, sf, 0) \in Seq(Contexts(t))
  BY IdsAre
<1> HIDE DEF bws, lats, hwcs, first, order, ns
<1>6. PICK k \in 1..ns :
        /\ first.sockets = [i \in 1..k |-> order[i]]
        /\ first.hwcs \in Seq(Contexts(t))
        /\ \A w \in Nat : Sized(t, Sockets(t), per, sf, w) =>
             /\ Len(first.hwcs) = k * w
             /\ (k - 1) * w < n
  <2>1. Fillable(t, Contexts(t), Sockets(t), ns, order, n, per, sf)
    BY <1>2, <1>3, <1>4, <1>5 DEF Fillable
  <2>2. \E k \in 1..ns : Filled(first, k, t, Contexts(t), Sockets(t), order, n, per, sf)
    BY <2>1, FillIs, Zenon DEF first
  <2> QED BY <2>2, Zenon DEF Filled
<1>7. r.hwcs = AtMost(hwcs, n) /\ r.sockets = first.sockets /\ r.max_latency = lats
  BY <1>1
<1>8. Len(first.sockets) = k
  BY <1>6
<1>9. lats = Max({t.latencies[t.socket_level + 1]} \cup
                 {t.sib[start][i].latency : i \in 1..(k - 1)})
  BY <1>8 DEF lats
<1>10. ASSUME per = PerSocketOf(t), sf >= 0
       PROVE  (k - 1) * PerSocketOf(t) < Len(AtMost(hwcs, n))
  <2>1. hwcs = first.hwcs
    BY <1>10 DEF hwcs
  <2>2. Sized(t, Sockets(t), per, sf, per)
    BY <1>10, IdsAre DEF Sized
  <2>3. Len(first.hwcs) = k * per /\ (k - 1) * per < n
    BY <1>6, <2>2
  <2> DEFINE q == first.hwcs
  <2>4. q \in Seq(Contexts(t))
    BY <1>6
  <2> HIDE DEF q
  <2>5. CASE Len(q) <= n
    <3>1. AtMost(q, n) = q
      BY <2>5 DEF AtMost
    <3>2. (k - 1) * per + per = k * per /\ (k - 1) * per \in Int
      BY <1>6
    <3> QED BY <1>10, <2>1, <2>3, <3>1, <3>2 DEF q
  <2>6. CASE ~ (Len(q) <= n)
    <3>1. AtMost(q, n) = SubSeq(q, 1, n)
      BY <2>6 DEF AtMost
    <3>2. Len(SubSeq(q, 1, n)) = n
      BY <1>3, <2>4, <2>6
    <3> QED BY <1>10, <2>1, <2>3, <3>1, <3>2 DEF q
  <2> QED BY <2>5, <2>6
<1> HIDE DEF r
<1>11. /\ r.sockets = [i \in 1..k |-> Visited(t, start)[i]]
       /\ r.max_latency = Max({t.latencies[t.socket_level + 1]} \cup
                              {t.sib[start][i].latency : i \in 1..(k - 1)})
       /\ per = PerSocketOf(t) /\ sf >= 0 => (k - 1) * PerSocketOf(t) < Len(r.hwcs)
  BY <1>4, <1>6, <1>7, <1>9, <1>10
<1> QED BY <1>11 DEF r, ns, MinLatIs

(* The first sockets of those ordered by bandwidth: none of the others surpasses one of them. *)
LEMMA BestFirst ==
  ASSUME NEW name \in DOMAIN Topologies, NEW t, t = Topologies[name], NEW k \in Nat
  PROVE  \A s \in ToSet(AtMost(ByBandwidth(t), k)) :
           \A r \in Sockets(t) \ ToSet(AtMost(ByBandwidth(t), k)) :
             ~ Exceeds(mctop_socket_get_bw_local(t, r), mctop_socket_get_bw_local(t, s))
<1> DEFINE n == t.n_sockets
           arr == [s \in Sockets(t) |-> mctop_socket_get_bw_local(t, s)]
           q == ByBandwidth(t)
           used == ToSet(AtMost(q, k))
<1>1. n \in Nat \ {0} /\ arr \in [Sockets(t) -> Nat] /\ Sockets(t) = 0..(n - 1)
  <2>1. SocketsAreAlike(t)
    BY TopologiesAssumption
  <2>2. n \in Nat \ {0}
    BY <2>1 DEF SocketsAreAlike
  <2>3. \A s \in Sockets(t) : mctop_socket_get_bw_local(t, s) \in Nat
    BY <2>1, Zenon DEF SocketsAreAlike
  <2> QED BY <2>2, <2>3 DEF Sockets
<1>2. q = mctop_sort_double_index(arr, n)
  BY Zenon DEF ByBandwidth
<1>3. \A s \in Sockets(t) : arr[s] = mctop_socket_get_bw_local(t, s)
  OBVIOUS
<1> HIDE DEF n, arr, q, used
<1>4. /\ Orders(q, n)
      /\ \A i \in 1..n : \A j \in (i + 1)..n : ~ Exceeds(arr[q[j]], arr[q[i]])
  BY <1>1, <1>2, SortIs
<1>5. /\ q \in [1..n -> Sockets(t)]
      /\ \A s \in Sockets(t) : \E i \in 1..n : q[i] = s
  BY <1>1, <1>4 DEF Orders
<1>6. \E m \in 0..n : used = {q[i] : i \in 1..m}
  <2>1. q \in Seq(Sockets(t)) /\ Len(q) = n
    <3> DEFINE V == Sockets(t)
    <3>1. q \in [1..n -> V] /\ n \in Nat
      BY <1>1, <1>5
    <3> HIDE DEF V
    <3>2. q \in Seq(V) /\ Len(q) = n
      BY <3>1
    <3> QED BY <3>2 DEF V
  <2>2. CASE n <= k
    <3>1. AtMost(q, k) = q
      BY <2>1, <2>2 DEF AtMost
    <3>2. used = {q[i] : i \in 1..n}
      BY <1>5, <3>1 DEF ToSet, used
    <3>3. n \in 0..n
      BY <1>1
    <3> QED BY <3>2, <3>3, Zenon
  <2>3. CASE ~ (n <= k)
    <3>1. AtMost(q, k) = SubSeq(q, 1, k)
      BY <2>1, <2>3 DEF AtMost
    <3>2. SubSeq(q, 1, k) = [i \in 1..k |-> q[i]]
      BY <2>1, <2>3
    <3>3. used = {q[i] : i \in 1..k}
      BY <3>1, <3>2 DEF ToSet, used
    <3> QED BY <1>1, <2>3, <3>3
  <2> QED BY <2>2, <2>3, Zenon
<1>7. PICK m \in 0..n : used = {q[i] : i \in 1..m}
  BY <1>6
<1>8. ASSUME NEW s \in used, NEW r \in Sockets(t) \ used
      PROVE  ~ Exceeds(mctop_socket_get_bw_local(t, r), mctop_socket_get_bw_local(t, s))
  <2>1. PICK i \in 1..m : s = q[i]
    BY <1>7
  <2>2. PICK j \in 1..n : r = q[j]
    BY <1>5
  <2>3. ~ (j \in 1..m)
    BY <1>7, <2>2
  <2>4. i \in 1..n /\ j \in (i + 1)..n
    BY <1>1, <2>1, <2>2, <2>3
  <2>5. ~ Exceeds(arr[r], arr[s])
    BY <1>4, <2>1, <2>2, <2>4
  <2>6. s \in Sockets(t)
    BY <1>5, <2>1, <2>4
  <2> QED BY <1>3, <2>5, <2>6
<1> QED BY <1>8 DEF used, q

(* A quotient that is rounded up is not zero. *)
LEMMA UpIs ==
  ASSUME NEW a \in Nat \ {0}, NEW b \in Nat \ {0}
  PROVE  Up(a, b) \in Nat \ {0}
<1>1. a \div b \in Nat /\ a % b \in Nat
  OBVIOUS
<1>2. CASE a \div b = 0
  <2>1. a = (b * (a \div b)) + (a % b)
    OBVIOUS
  <2>2. b * (a \div b) = 0
    BY <1>2
  <2> QED BY <1>1, <2>1, <2>2 DEF Up
<1>3. CASE a \div b # 0
  BY <1>1, <1>3 DEF Up
<1> QED BY <1>2, <1>3

(* Every socket is to give some contexts, all of them unless there is a limit. *)
LEMMA PerSocketIs ==
  ASSUME NEW name \in DOMAIN Topologies, NEW t, t = Topologies[name], NEW s \in Sockets(t),
         NEW wanted \in Nat \ {0}, NEW c \in Int, NEW sf \in Int, NEW balance
  PROVE  /\ PerSocket(t, s, wanted, c, sf, balance) \in Nat \ {0}
         /\ ~balance /\ ~(c \in 1..PerSocketOf(t)) => PerSocket(t, s, wanted, c, sf, balance) = PerSocketOf(t)
<1> DEFINE n == Len(t.gs[socket(t, s)].hwcs)
           w == t.n_hwcs_per_core
           avail == IF sf < 0 THEN n \div w ELSE n
           needed == Up(wanted, avail)
           ns == IF needed > t.n_sockets /\ sf < 0 THEN t.n_sockets ELSE needed
           per == IF balance THEN Up(wanted, ns) ELSE IF c > n \/ c <= 0 THEN n ELSE c
<1>1. PerSocket(t, s, wanted, c, sf, balance) = per
  BY Zenon DEF PerSocket
<1>2. n = PerSocketOf(t) /\ n \in Nat \ {0} /\ w \in Nat \ {0} /\ t.n_sockets \in Nat \ {0}
  BY SocketIs
<1>3. avail \in Nat \ {0}
  <2>1. n \div w \in Nat \ {0}
    <3>1. CASE t.is_smt
      <4> DEFINE m == Len(CoreHwcs(t, s))
      <4>1. m * w = n /\ m \in Nat
        <5>1. m * w = n /\ CoreHwcs(t, s) \in Seq([1..t.n_hwcs_per_core -> Contexts(t)])
          BY <1>2, <3>1, SocketIs
        <5> QED BY <5>1, LenProperties
      <4> HIDE DEF m, n, w
      <4>2. (m * w) \div w = m
        BY <1>2, <4>1
      <4>3. m # 0
        BY <1>2, <4>1
      <4> QED BY <4>1, <4>2, <4>3
    <3>2. CASE ~t.is_smt
      <4>1. SocketsAreAlike(t)
        BY TopologiesAssumption
      <4>2. w = 1
        BY <3>2, <4>1, Zenon DEF SocketsAreAlike
      <4> HIDE DEF n, w
      <4> QED BY <1>2, <4>2
    <3> QED BY <3>1, <3>2
  <2> QED BY <1>2, <2>1
<1> HIDE DEF n, w, avail
<1>4. needed \in Nat \ {0}
  BY <1>3, UpIs
<1> HIDE DEF needed
<1>5. ns \in Nat \ {0}
  BY <1>2, <1>4
<1> HIDE DEF ns
<1>6. Up(wanted, ns) \in Nat \ {0}
  BY <1>5, UpIs
<1> QED BY <1>1, <1>2, <1>6

(* Some contexts are wanted. *)
LEMMA WantedIs ==
  ASSUME NEW name \in DOMAIN Topologies, NEW t, t = Topologies[name], NEW n \in Int
  PROVE  Wanted(t, n) \in Nat \ {0}
<1>1. SocketsAreAlike(t)
  BY TopologiesAssumption
<1>2. t.n_hwcs \in Nat \ {0}
  BY <1>1 DEF SocketsAreAlike
<1> QED BY <1>2 DEF Wanted

(* The latency from one socket to another. *)
LatFrom(t, start, s) == mctop_ids_get_latency(t, socket(t, start), socket(t, s))

(* The latencies to the sockets in the order in which they are visited. *)
LEMMA VisitedLatencies ==
  ASSUME NEW name \in DOMAIN Topologies, NEW t, t = Topologies[name], NEW start \in Sockets(t)
  PROVE  /\ Visited(t, start) \in [1..t.n_sockets -> Sockets(t)] /\ Visited(t, start)[1] = start
         /\ \A r \in Sockets(t) : \E i \in 1..t.n_sockets : r = Visited(t, start)[i]
         /\ LatFrom(t, start, start) = t.latencies[t.socket_level + 1]
         /\ \A i \in 1..(t.n_sockets - 1) :
              LatFrom(t, start, Visited(t, start)[i + 1]) = t.sib[start][i].latency
         /\ \A i \in 1..t.n_sockets : \A j \in (i + 1)..t.n_sockets :
              LatFrom(t, start, Visited(t, start)[i]) <= LatFrom(t, start, Visited(t, start)[j])
<1> DEFINE n == t.n_sockets
           q == t.sib_in[start]
           V == Visited(t, start)
           base == t.latencies[t.socket_level + 1]
           lat(s) == LatFrom(t, start, s)
<1>1. n \in Nat \ {0}
  BY SocketIs
<1>2. /\ Len(q) = n - 1 /\ q \in Seq(ToSet(t.siblings))
      /\ {Other(q[i], start) : i \in DOMAIN q} = Sockets(t) \ {start}
      /\ \A i \in DOMAIN q : q[i].latency = t.sib[start][i].latency /\ base <= q[i].latency
      /\ \A i \in DOMAIN q : \A j \in DOMAIN q : i < j => q[i].latency <= q[j].latency
  BY SiblingsIs
<1>3. DOMAIN q = 1..(n - 1)
  BY <1>2, LenProperties
<1>4. V \in [1..n -> Sockets(t)]
  BY VisitedIs
<1>5. V = [i \in 1..n |-> IF i = 1 THEN start ELSE Other(q[i - 1], start)]
  BY DEF Visited
<1> HIDE DEF n, q, V
<1>6. V[1] = start
  BY <1>1, <1>5
<1>7. ASSUME NEW i \in 1..(n - 1)
      PROVE  i + 1 \in 1..n /\ (i + 1) - 1 = i /\ V[i + 1] = Other(q[i], start)
  <2>1. i + 1 \in 1..n /\ (i + 1) - 1 = i /\ i + 1 # 1
    BY <1>1
  <2> QED BY <1>5, <2>1
<1>8. \A r \in Sockets(t) : \E i \in 1..n : r = V[i]
  <2> TAKE r \in Sockets(t)
  <2>1. CASE r = start
    BY <1>1, <1>6, <2>1
  <2>2. CASE r # start
    <3>1. PICK i \in 1..(n - 1) : r = Other(q[i], start)
      BY <1>2, <1>3, <2>2
    <3> QED BY <1>7, <3>1
  <2> QED BY <2>1, <2>2
<1>9. lat(start) = base
  BY LatencyOfSockets DEF LatFrom
<1>10. ASSUME NEW i \in 1..(n - 1) PROVE lat(V[i + 1]) = q[i].latency
  <2>1. V[i + 1] = Other(q[i], start) /\ i \in DOMAIN q
    BY <1>3, <1>7
  <2> QED BY <2>1, SiblingLatency DEF LatFrom, q
<1> HIDE DEF lat, base
<1>11. \A i \in 1..(n - 1) : lat(V[i + 1]) = t.sib[start][i].latency
  BY <1>2, <1>3, <1>10
<1>12. ASSUME NEW i \in 1..n, NEW j \in (i + 1)..n
       PROVE  lat(V[i]) <= lat(V[j])
  <2>1. j - 1 \in 1..(n - 1) /\ (j - 1) + 1 = j
    BY <1>1
  <2>2. lat(V[j]) = q[j - 1].latency
    BY <1>10, <2>1
  <2>3. CASE i = 1
    BY <1>2, <1>3, <1>6, <1>9, <2>1, <2>2, <2>3
  <2>4. CASE i # 1
    <3>1. i - 1 \in 1..(n - 1) /\ (i - 1) + 1 = i /\ i - 1 < j - 1
      BY <1>1, <2>4
    <3>2. lat(V[i]) = q[i - 1].latency
      BY <1>10, <3>1
    <3> QED BY <1>2, <1>3, <2>1, <2>2, <3>1, <3>2
  <2> QED BY <2>3, <2>4
<1> QED BY <1>4, <1>6, <1>8, <1>9, <1>11, <1>12 DEF lat, V, n, base

(* What a policy for latency promises. *)
Closest(t, sockets, max_latency) ==
  LET used == ToSet(sockets)
      start == Head(sockets)
      lat(s) == mctop_ids_get_latency(t, socket(t, start), socket(t, s))
      bw(s) == mctop_socket_get_bw_local(t, s)
  IN  /\ \A s \in Sockets(t) : ~Exceeds(bw(s), bw(start))
      /\ \A s \in used, r \in Sockets(t) \ used : lat(s) <= lat(r)
      /\ max_latency = Max({lat(s) : s \in used})

(* The first sockets visited are the closest to the first of all. *)
LEMMA FirstIsClosest ==
  ASSUME NEW name \in DOMAIN Topologies, NEW t, t = Topologies[name], NEW start \in Sockets(t),
         \A s \in Sockets(t) :
           ~ Exceeds(mctop_socket_get_bw_local(t, s), mctop_socket_get_bw_local(t, start)),
         NEW k \in 1..t.n_sockets, NEW sockets, sockets = [i \in 1..k |-> Visited(t, start)[i]],
         NEW max, max = Max({t.latencies[t.socket_level + 1]} \cup
                            {t.sib[start][i].latency : i \in 1..(k - 1)})
  PROVE  Closest(t, sockets, max) /\ Len(sockets) = k
<1> DEFINE n == t.n_sockets
           V == Visited(t, start)
           base == t.latencies[t.socket_level + 1]
           lat(s) == LatFrom(t, start, s)
           used == ToSet(sockets)
           sib(i) == t.sib[start][i].latency
<1>1. n \in Nat \ {0}
  BY SocketIs
<1>2. /\ V \in [1..n -> Sockets(t)] /\ V[1] = start
      /\ \A r \in Sockets(t) : \E i \in 1..n : r = V[i]
      /\ lat(start) = base
      /\ \A i \in 1..(n - 1) : lat(V[i + 1]) = sib(i)
      /\ \A i \in 1..n : \A j \in (i + 1)..n : lat(V[i]) <= lat(V[j])
  <2>1. V \in [1..n -> Sockets(t)] /\ V[1] = start
    BY VisitedLatencies
  <2>2. \A r \in Sockets(t) : \E i \in 1..n : r = V[i]
    BY VisitedLatencies
  <2>3. lat(start) = base
    BY VisitedLatencies
  <2>4. \A i \in 1..(n - 1) : lat(V[i + 1]) = sib(i)
    BY VisitedLatencies
  <2>5. \A i \in 1..n : \A j \in (i + 1)..n : lat(V[i]) <= lat(V[j])
    BY VisitedLatencies
  <2> QED BY <2>1, <2>2, <2>3, <2>4, <2>5, Zenon
<1>3. sockets = [i \in 1..k |-> V[i]] /\ k \in 1..n /\ max = Max({base} \cup {sib(i) : i \in 1..(k - 1)})
  OBVIOUS
<1> HIDE DEF n, V, base, lat, sib
<1>4. Len(sockets) = k /\ sockets[1] = start /\ Head(sockets) = start
  <2>1. sockets \in Seq(Sockets(t)) /\ Len(sockets) = k /\ sockets[1] = start
    <3> DEFINE S == Sockets(t)
    <3>1. \A i \in 1..k : V[i] \in S
      BY <1>1, <1>2, <1>3
    <3> HIDE DEF S
    <3>2. sockets \in Seq(S) /\ Len(sockets) = k /\ sockets[1] = V[1]
      BY <1>3, <3>1
    <3> QED BY <1>2, <3>2 DEF S
  <2> QED BY <1>3, <2>1
<1>5. used = {V[i] : i \in 1..k}
  BY <1>3 DEF ToSet
<1> HIDE DEF used
<1>6. ASSUME NEW s \in used, NEW r \in Sockets(t) \ used
      PROVE  lat(s) <= lat(r)
  <2>1. PICK i \in 1..k : s = V[i]
    BY <1>5
  <2>2. PICK j \in 1..n : r = V[j]
    BY <1>2
  <2>3. ~ (j \in 1..k)
    BY <1>5, <2>2
  <2>4. i \in 1..n /\ j \in (i + 1)..n
    BY <1>1, <1>3, <2>1, <2>2, <2>3
  <2> QED BY <1>2, <2>1, <2>2, <2>4
<1>7. {base} \cup {sib(i) : i \in 1..(k - 1)} = {lat(s) : s \in used}
  <2>1. ASSUME NEW i \in 1..(k - 1)
        PROVE  sib(i) = lat(V[i + 1]) /\ V[i + 1] \in used
    <3>1. i \in 1..(n - 1) /\ i + 1 \in 1..k
      BY <1>1, <1>3
    <3> QED BY <1>2, <1>5, <3>1
  <2>2. start \in used
    <3>1. 1 \in 1..k
      BY <1>1, <1>3
    <3> QED BY <1>2, <1>5, <3>1
  <2>3. ASSUME NEW s \in used
        PROVE  lat(s) = base \/ \E i \in 1..(k - 1) : lat(s) = sib(i)
    <3>1. PICK j \in 1..k : s = V[j]
      BY <1>5
    <3>2. CASE j = 1
      BY <1>2, <3>1, <3>2
    <3>3. CASE j # 1
      <4>1. j - 1 \in 1..(k - 1) /\ (j - 1) + 1 = j
        BY <1>3, <3>3
      <4> QED BY <2>1, <3>1, <4>1
    <3> QED BY <3>2, <3>3
  <2> QED BY <1>2, <2>1, <2>2, <2>3
<1>8. max = Max({lat(s) : s \in used})
  BY <1>3, <1>7
<1>9. Closest(t, sockets, max)
  <2>1. \A s \in used : \A r \in Sockets(t) \ used : lat(s) <= lat(r)
    BY <1>6
  <2>2. \A s \in Sockets(t) :
          ~ Exceeds(mctop_socket_get_bw_local(t, s), mctop_socket_get_bw_local(t, Head(sockets)))
    BY <1>4, Zenon
  <2>3. \A s : lat(s) = mctop_ids_get_latency(t, socket(t, Head(sockets)), socket(t, s))
    BY <1>4, Zenon DEF lat, LatFrom
  <2>4. used = ToSet(sockets)
    BY DEF used
  <2> HIDE DEF lat
  <2>5. /\ \A s \in ToSet(sockets) : \A r \in Sockets(t) \ ToSet(sockets) :
             mctop_ids_get_latency(t, socket(t, Head(sockets)), socket(t, s))
               <= mctop_ids_get_latency(t, socket(t, Head(sockets)), socket(t, r))
        /\ max = Max({mctop_ids_get_latency(t, socket(t, Head(sockets)), socket(t, s)) :
                        s \in ToSet(sockets)})
    BY <1>8, <2>1, <2>3, <2>4
  <2> QED BY <2>2, <2>5, Zenon DEF Closest
<1> QED BY <1>4, <1>9

(* The policies for latency. *)
LEMMA MinLatBest ==
  ASSUME NEW name \in DOMAIN Topologies, NEW t, t = Topologies[name],
         NEW wanted \in Nat \ {0}, NEW c \in Int, NEW sf \in Int, NEW balance,
         NEW a, a = mctop_alloc_prep_min_lat(t, wanted, c, sf, balance)
  PROVE  /\ Closest(t, a.sockets, a.max_latency)
         /\ ~balance /\ ~(c \in 1..PerSocketOf(t)) /\ sf >= 0 =>
              (Len(a.sockets) - 1) * PerSocketOf(t) < Len(a.hwcs)
<1> DEFINE n == t.n_sockets
           bw == [s \in Sockets(t) |-> mctop_socket_get_bw_local(t, s)]
           start == mctop_find_double_max(bw, n)
           per == PerSocket(t, start, wanted, c, sf, balance)
<1>1. SocketsAreAlike(t)
  BY TopologiesAssumption
<1>2. n \in Nat \ {0} /\ Sockets(t) = 0..(n - 1) /\ bw \in [Sockets(t) -> Nat]
  <2>1. n \in Nat \ {0}
    BY <1>1 DEF SocketsAreAlike
  <2>2. \A s \in Sockets(t) : mctop_socket_get_bw_local(t, s) \in Nat
    BY <1>1, Zenon DEF SocketsAreAlike
  <2> QED BY <2>1, <2>2 DEF Sockets
<1>3. \A s \in Sockets(t) : bw[s] = mctop_socket_get_bw_local(t, s)
  OBVIOUS
<1>4. a = MinLatFrom(t, start, wanted, per, sf, balance)
  BY Zenon DEF mctop_alloc_prep_min_lat
<1> HIDE DEF bw, per
<1>5. start \in Sockets(t) /\ \A s \in Sockets(t) : ~ Exceeds(bw[s], bw[start])
  <2> HIDE DEF n
  <2> QED BY <1>2, MostIs
<1> HIDE DEF start, n
<1>6. \A s \in Sockets(t) : ~ Exceeds(mctop_socket_get_bw_local(t, s), mctop_socket_get_bw_local(t, start))
  BY <1>3, <1>5
<1>7. /\ per \in Nat \ {0}
      /\ ~balance /\ ~(c \in 1..PerSocketOf(t)) => per = PerSocketOf(t)
  <2>1. per \in Nat \ {0}
    BY <1>5, PerSocketIs, Zenon DEF per
  <2>2. ASSUME ~balance, ~(c \in 1..PerSocketOf(t)) PROVE per = PerSocketOf(t)
    BY <1>5, <2>2, PerSocketIs DEF per
  <2> QED BY <2>1, <2>2
<1>8. PICK k \in 1..t.n_sockets :
        /\ a.sockets = [i \in 1..k |-> Visited(t, start)[i]]
        /\ a.max_latency = Max({t.latencies[t.socket_level + 1]} \cup
                               {t.sib[start][i].latency : i \in 1..(k - 1)})
        /\ per = PerSocketOf(t) /\ sf >= 0 => (k - 1) * PerSocketOf(t) < Len(a.hwcs)
  <2>1. MinLatIs(a, t, start, per, sf)
    BY <1>4, <1>5, <1>7, MinLatFromIs, Zenon
  <2> QED BY <2>1, Zenon DEF MinLatIs
<1>9. Closest(t, a.sockets, a.max_latency) /\ Len(a.sockets) = k
  BY <1>5, <1>6, <1>8, FirstIsClosest
<1> QED BY <1>7, <1>8, <1>9

(* What a policy for bandwidth promises. *)
Widest(t, sockets) ==
  \A s \in ToSet(sockets), r \in Sockets(t) \ ToSet(sockets) :
    ~Exceeds(mctop_socket_get_bw_local(t, r), mctop_socket_get_bw_local(t, s))

(* Round robin takes the sockets from the front of those sorted by bandwidth. *)
LEMMA RoundRobinBest ==
  ASSUME NEW name \in DOMAIN Topologies, NEW t, t = Topologies[name],
         NEW wanted \in Nat \ {0}, NEW c \in Int, NEW sf
  PROVE  Widest(t, mctop_alloc_prep_bw_round_robin(t, wanted, c, sf).sockets)
<1> DEFINE k == Min({NumSockets(t, c), wanted})
<1>1. k \in Nat
  <2>1. NumSockets(t, c) \in Nat
    <3>1. SocketsAreAlike(t)
      BY TopologiesAssumption
    <3> QED BY <3>1 DEF SocketsAreAlike, NumSockets
  <2> HIDE DEF NumSockets
  <2>2. {NumSockets(t, c), wanted} \in SUBSET Nat
    BY <2>1
  <2> QED BY <2>2, LeastIs
<1>2. mctop_alloc_prep_bw_round_robin(t, wanted, c, sf).sockets = AtMost(ByBandwidth(t), k)
  BY DEF mctop_alloc_prep_bw_round_robin
<1> HIDE DEF k
<1> QED BY <1>1, <1>2, BestFirst, Zenon DEF Widest

(* So does the policy that is bound by bandwidth. *)
LEMMA BoundBest ==
  ASSUME NEW name \in DOMAIN Topologies, NEW t, t = Topologies[name],
         NEW wanted \in Nat \ {0}, NEW c \in Int
  PROVE  Widest(t, mctop_alloc_prep_bw_bound(t, wanted, c).sockets)
<1>1. NumSockets(t, c) \in Nat
  <2>1. SocketsAreAlike(t)
    BY TopologiesAssumption
  <2> QED BY <2>1 DEF SocketsAreAlike, NumSockets
<1>2. mctop_alloc_prep_bw_bound(t, wanted, c).sockets = AtMost(ByBandwidth(t), NumSockets(t, c))
  BY DEF mctop_alloc_prep_bw_bound
<1> QED BY <1>1, <1>2, BestFirst, Zenon DEF Widest

(* What BestSockets says of an allocator. *)
Best(t, a, c) ==
  /\ a.policy \in MinLat \cup MinLatBalance => Closest(t, a.sockets, a.max_latency)
  /\ ~(c \in 1..PerSocketOf(t)) /\ a.policy \in MinLat \ {"MIN_LAT_CORES"} =>
       (Len(a.sockets) - 1) * PerSocketOf(t) < a.n_hwcs
  /\ a.policy \in RoundRobin \cup {"BW_BOUND"} => Widest(t, a.sockets)

(* What a pool makes. *)
LEMMA SimpleIsBest ==
  ASSUME NEW name \in DOMAIN Topologies, NEW t, t = Topologies[name],
         NEW n \in Int, NEW c \in Int, NEW p \in Policies
  PROVE  /\ mctop_alloc_create_simple(t, n, c, p).policy = p
         /\ Best(t, mctop_alloc_create_simple(t, n, c, p), c)
<1> DEFINE w == Wanted(t, n)
           m == Placed(t, w, c, p)
           a == mctop_alloc_create_simple(t, n, c, p)
<1>1. w \in Nat \ {0}
  BY WantedIs
<1>2. /\ a.policy = p /\ a.sockets = m.sockets /\ a.max_latency = m.max_latency
      /\ p # "NONE" => a.n_hwcs = Len(m.hwcs)
  <2> HIDE DEF w, m
  <2>1. a = [policy |-> p, n_hwcs |-> IF p = "NONE" THEN w ELSE Len(m.hwcs),
             hwcs |-> m.hwcs, sockets |-> m.sockets,
             max_latency |-> m.max_latency, min_bandwidth |-> m.min_bandwidth]
    BY Zenon DEF mctop_alloc_create_simple, w, m
  <2> HIDE DEF a
  <2> QED BY <2>1
<1> HIDE DEF w, a
<1>3. CASE p \in MinLat \cup MinLatBalance
  <2> DEFINE sf == SmtFirst(p)
             balance == p \in MinLatBalance
  <2>1. m = mctop_alloc_prep_min_lat(t, w, c, sf, balance)
    <3>1. p # "NONE" /\ p # "SEQUENTIAL" /\ p \notin RoundRobin
      BY <1>3 DEF MinLat, MinLatBalance, RoundRobin
    <3> QED BY <1>3, <3>1, Zenon DEF Placed
  <2>2. sf \in Int /\ (p \in MinLat \ {"MIN_LAT_CORES"} => ~balance /\ sf >= 0)
    BY <1>3 DEF SmtFirst, MinLat, MinLatBalance
  <2>3. ~ (p \in RoundRobin \cup {"BW_BOUND"}) /\ p # "NONE"
    BY <1>3 DEF MinLat, MinLatBalance, RoundRobin
  <2> HIDE DEF sf, balance, m
  <2>4. /\ Closest(t, m.sockets, m.max_latency)
        /\ ~balance /\ ~(c \in 1..PerSocketOf(t)) /\ sf >= 0 =>
              (Len(m.sockets) - 1) * PerSocketOf(t) < Len(m.hwcs)
    BY <1>1, <2>1, <2>2, MinLatBest
  <2> QED BY <1>2, <2>2, <2>3, <2>4 DEF Best, a
<1>4. CASE p \in RoundRobin
  <2>1. /\ ~ (p \in MinLat \cup MinLatBalance) /\ p # "NONE" /\ p # "SEQUENTIAL"
        /\ ~ (p \in MinLat \ {"MIN_LAT_CORES"})
    BY <1>4 DEF MinLat, MinLatBalance, RoundRobin
  <2>2. m = mctop_alloc_prep_bw_round_robin(t, w, c, SmtFirst(p))
    BY <1>4, <2>1 DEF Placed
  <2> HIDE DEF m
  <2>3. Widest(t, m.sockets)
    BY <1>1, <2>2, RoundRobinBest
  <2> QED BY <1>2, <2>1, <2>3 DEF Best, a
<1>5. CASE p \notin MinLat \cup MinLatBalance \cup RoundRobin
  <2>1. /\ ~ (p \in MinLat \cup MinLatBalance) /\ ~ (p \in RoundRobin)
        /\ ~ (p \in MinLat \ {"MIN_LAT_CORES"})
    BY <1>5
  <2>2. CASE p = "BW_BOUND"
    <3>1. m = mctop_alloc_prep_bw_bound(t, w, c)
      BY <2>1, <2>2 DEF Placed
    <3> HIDE DEF m
    <3>2. Widest(t, m.sockets)
      BY <1>1, <3>1, BoundBest
    <3> QED BY <1>2, <2>1, <3>2 DEF Best, a
  <2>3. CASE p # "BW_BOUND"
    <3> HIDE DEF m
    <3> QED BY <1>2, <2>1, <2>3 DEF Best, a
  <2> QED BY <2>2, <2>3
<1> QED BY <1>3, <1>4, <1>5

(* What main of the merge sort makes. *)
LEMMA CreatedIsBest ==
  ASSUME NEW name \in DOMAIN Topologies, NEW t, t = Topologies[name],
         NEW n \in Int, NEW c \in Int, NEW p \in Policies
  PROVE  Best(t, mctop_alloc_create(t, n, c, p), c)
<1> DEFINE a == mctop_alloc_create_simple(t, n, c, p)
           b == mctop_alloc_create(t, n, c, p)
<1>1. Best(t, a, c)
  BY SimpleIsBest
<1>2. b = WithBarriers(t, a)
  BY Zenon DEF mctop_alloc_create
<1> HIDE DEF a, b
<1>3. /\ b.policy = a.policy /\ b.sockets = a.sockets /\ b.max_latency = a.max_latency
      /\ b.n_hwcs = a.n_hwcs
  BY <1>2 DEF WithBarriers
<1>4. Best(t, b, c)
  BY <1>1, <1>3, Zenon DEF Best
<1> QED BY <1>4 DEF b

-----------------------------------------------------------------------------
(* Sequences: the members of those that are joined, and of the first part of one. *)
LEMMA JoinedIs ==
  ASSUME NEW X, NEW p \in Seq(X), NEW q \in Seq(X)
  PROVE  /\ ToSet(p \o q) = ToSet(p) \cup ToSet(q)
         /\ IsInjective(p) /\ IsInjective(q) /\ ToSet(p) \cap ToSet(q) = {} => IsInjective(p \o q)
         /\ \A i \in 1..Len(p) : (p \o q)[i] = p[i]
         /\ \A i \in 1..Len(q) : (p \o q)[Len(p) + i] = q[i]
<1> DEFINE r == p \o q
<1>1. /\ Len(p) \in Nat /\ Len(q) \in Nat /\ DOMAIN p = 1..Len(p) /\ DOMAIN q = 1..Len(q)
      /\ DOMAIN r = 1..(Len(p) + Len(q))
      /\ \A i \in 1..(Len(p) + Len(q)) : r[i] = IF i <= Len(p) THEN p[i] ELSE q[i - Len(p)]
  OBVIOUS
<1> HIDE DEF r
<1>2. \A i \in 1..Len(p) : i \in DOMAIN r /\ r[i] = p[i]
  BY <1>1
<1>3. \A i \in 1..Len(q) : Len(p) + i \in DOMAIN r /\ r[Len(p) + i] = q[i]
  BY <1>1
<1>4. \A i \in DOMAIN r : \/ i \in 1..Len(p) /\ r[i] = p[i]
                          \/ i - Len(p) \in 1..Len(q) /\ r[i] = q[i - Len(p)]
  BY <1>1
<1>5. ToSet(r) = ToSet(p) \cup ToSet(q)
  <2>1. ToSet(p) \subseteq ToSet(r)
    BY <1>1, <1>2 DEF ToSet
  <2>2. ToSet(q) \subseteq ToSet(r)
    BY <1>1, <1>3 DEF ToSet
  <2>3. ToSet(r) \subseteq ToSet(p) \cup ToSet(q)
    BY <1>1, <1>4 DEF ToSet
  <2> QED BY <2>1, <2>2, <2>3
<1>6. ASSUME IsInjective(p), IsInjective(q), ToSet(p) \cap ToSet(q) = {},
             NEW i \in DOMAIN r, NEW j \in DOMAIN r, r[i] = r[j]
      PROVE  i = j
  <2>1. CASE i \in 1..Len(p) /\ j \in 1..Len(p)
    BY <1>1, <1>2, <1>6, <2>1 DEF IsInjective
  <2>2. CASE i - Len(p) \in 1..Len(q) /\ j - Len(p) \in 1..Len(q)
    <3>1. i \in Int /\ j \in Int /\ ~ (i <= Len(p)) /\ ~ (j <= Len(p))
      BY <1>1, <2>2
    <3>2. r[i] = q[i - Len(p)] /\ r[j] = q[j - Len(p)]
      BY <1>1, <3>1
    <3>3. i - Len(p) = j - Len(p)
      BY <1>1, <1>6, <2>2, <3>2 DEF IsInjective
    <3> QED BY <1>1, <3>1, <3>3
  <2>3. ASSUME NEW a \in DOMAIN r, NEW b \in DOMAIN r, a \in 1..Len(p), b - Len(p) \in 1..Len(q)
        PROVE  r[a] # r[b]
    <3>1. r[a] = p[a] /\ r[b] = q[b - Len(p)]
      BY <1>1, <2>3
    <3>2. r[a] \in ToSet(p) /\ r[b] \in ToSet(q)
      BY <1>1, <2>3, <3>1 DEF ToSet
    <3> QED BY <1>6, <3>2
  <2> QED BY <1>4, <1>6, <2>1, <2>2, <2>3
<1> QED BY <1>2, <1>3, <1>5, <1>6 DEF r, IsInjective

LEMMA FirstOf ==
  ASSUME NEW X, NEW q \in Seq(X), NEW n \in Nat
  PROVE  /\ AtMost(q, n) \in Seq(X) /\ ToSet(AtMost(q, n)) \subseteq ToSet(q)
         /\ IsInjective(q) => IsInjective(AtMost(q, n))
         /\ Len(AtMost(q, n)) = IF Len(q) <= n THEN Len(q) ELSE n
         /\ \A i \in 1..Len(AtMost(q, n)) : AtMost(q, n)[i] = q[i]
<1>1. Len(q) \in Nat /\ DOMAIN q = 1..Len(q)
  OBVIOUS
<1>2. CASE Len(q) <= n
  BY <1>1, <1>2 DEF AtMost
<1>3. CASE ~ (Len(q) <= n)
  <2> DEFINE r == SubSeq(q, 1, n)
  <2>1. AtMost(q, n) = r
    BY <1>3 DEF AtMost
  <2>2. r \in Seq(X) /\ Len(r) = n /\ DOMAIN r = 1..n /\ \A i \in 1..n : r[i] = q[i]
    BY <1>1, <1>3
  <2>3. 1..n \subseteq DOMAIN q
    BY <1>1, <1>3
  <2> HIDE DEF r
  <2>4. ToSet(r) \subseteq ToSet(q)
    BY <2>2, <2>3 DEF ToSet
  <2>5. IsInjective(q) => IsInjective(r)
    BY <2>2, <2>3 DEF IsInjective
  <2> QED BY <1>3, <2>1, <2>2, <2>4, <2>5
<1> QED BY <1>2, <1>3

(* A sequence has at least as many places as members, and as many if none is there twice. *)
LEMMA MembersOf ==
  ASSUME NEW X, NEW q \in Seq(X)
  PROVE  /\ IsFiniteSet(ToSet(q)) /\ Cardinality(ToSet(q)) <= Len(q)
         /\ IsInjective(q) => Cardinality(ToSet(q)) = Len(q)
<1>1. Len(q) \in Nat /\ DOMAIN q = 1..Len(q)
  OBVIOUS
<1>2. IsFiniteSet(1..Len(q)) /\ Cardinality(1..Len(q)) = Len(q)
  BY <1>1, FS_Interval
<1>3. q \in Surjection(1..Len(q), ToSet(q))
  BY <1>1 DEF Surjection, ToSet
<1>4. /\ IsFiniteSet(ToSet(q)) /\ Cardinality(ToSet(q)) <= Len(q)
      /\ Cardinality(ToSet(q)) = Len(q) <=> q \in Injection(1..Len(q), ToSet(q))
  BY <1>2, <1>3, FS_Surjection
<1>5. IsInjective(q) => q \in Injection(1..Len(q), ToSet(q))
  BY <1>1, <1>3 DEF IsInjective, Injection, Surjection
<1> QED BY <1>4, <1>5

(* Rows that are joined one after the other, to f[i] with the first i of them. *)
Joins(f, q, n, X) ==
  /\ n \in Nat /\ q \in [1..n -> Seq(X)] /\ f \in [0..n -> Seq(X)]
  /\ f[0] = << >> /\ \A i \in 1..n : f[i] = f[i - 1] \o q[i]

(* No row has a member twice, no two rows have one in common. *)
Apart(q, n) ==
  /\ \A i \in 1..n : IsInjective(q[i])
  /\ \A i, j \in 1..n : i # j => ToSet(q[i]) \cap ToSet(q[j]) = {}

MembersUpTo(q, k) == UNION {ToSet(q[i]) : i \in 1..k}

JoinsNext(f, q, n, X, k) ==
  /\ k + 1 \in 1..n /\ k + 1 \in 0..n
  /\ f[k] \in Seq(X) /\ q[k + 1] \in Seq(X) /\ f[k + 1] = f[k] \o q[k + 1]
  /\ Len(f[k + 1]) = Len(f[k]) + Len(q[k + 1])
  /\ Len(f[k]) \in Nat /\ Len(q[k + 1]) \in Nat
  /\ MembersUpTo(q, k + 1) = MembersUpTo(q, k) \cup ToSet(q[k + 1])

LEMMA JoinStep ==
  ASSUME NEW f, NEW q, NEW n, NEW X, Joins(f, q, n, X), NEW k \in 0..(n - 1)
  PROVE  JoinsNext(f, q, n, X, k)
<1>1. k + 1 \in 1..n /\ k + 1 \in 0..n /\ k \in 0..n /\ (k + 1) - 1 = k
  BY DEF Joins
<1>2. f[k] \in Seq(X) /\ q[k + 1] \in Seq(X) /\ f[k + 1] = f[k] \o q[k + 1]
  BY <1>1, Zenon DEF Joins
<1>3. /\ Len(f[k + 1]) = Len(f[k]) + Len(q[k + 1])
      /\ Len(f[k]) \in Nat /\ Len(q[k + 1]) \in Nat
  BY <1>2, Concatenated
<1>4. 1..(k + 1) = (1..k) \cup {k + 1}
  BY <1>1
<1>5. MembersUpTo(q, k + 1) = MembersUpTo(q, k) \cup ToSet(q[k + 1])
  BY <1>4, Zenon DEF MembersUpTo
<1> QED BY <1>1, <1>2, <1>3, <1>5, Zenon DEF JoinsNext

(* What is joined has the members of the rows, none of them twice if they are apart. *)
LEMMA JoinsAre ==
  ASSUME NEW f, NEW q, NEW n, NEW X, Joins(f, q, n, X), NEW m \in 0..n
  PROVE  /\ f[m] \in Seq(X) /\ ToSet(f[m]) = MembersUpTo(q, m)
         /\ Apart(q, n) => IsInjective(f[m])
<1> DEFINE S == {k \in 0..n : /\ f[k] \in Seq(X) /\ ToSet(f[k]) = MembersUpTo(q, k)
                              /\ Apart(q, n) => IsInjective(f[k])}
<1>0. n \in Nat
  BY DEF Joins
<1>1. 0 \in S
  <2>1. f[0] = << >>
    BY DEF Joins
  <2>2. << >> \in Seq(X) /\ ToSet(<< >>) = {} /\ IsInjective(<< >>)
    BY DEF ToSet, IsInjective
  <2>3. MembersUpTo(q, 0) = {}
    BY DEF MembersUpTo
  <2>4. f[0] \in Seq(X) /\ ToSet(f[0]) = MembersUpTo(q, 0) /\ IsInjective(f[0])
    BY <2>1, <2>2, <2>3, Zenon
  <2> QED BY <1>0, <2>4
<1>2. ASSUME NEW k \in 0..(n - 1), k \in S PROVE k + 1 \in S
  <2>0. JoinsNext(f, q, n, X, k)
    BY JoinStep
  <2>1. /\ k + 1 \in 1..n /\ k + 1 \in 0..n
        /\ f[k] \in Seq(X) /\ q[k + 1] \in Seq(X) /\ f[k + 1] = f[k] \o q[k + 1]
        /\ MembersUpTo(q, k + 1) = MembersUpTo(q, k) \cup ToSet(q[k + 1])
    BY <2>0, Zenon DEF JoinsNext
  <2>2. f[k + 1] \in Seq(X) /\ ToSet(f[k + 1]) = ToSet(f[k]) \cup ToSet(q[k + 1])
    BY <2>1, JoinedIs, Concatenated
  <2>3. ToSet(f[k]) = MembersUpTo(q, k)
    BY <1>2
  <2>4. ASSUME Apart(q, n) PROVE IsInjective(f[k + 1])
    <3>1. IsInjective(f[k]) /\ IsInjective(q[k + 1])
      BY <1>2, <2>1, <2>4 DEF Apart
    <3>2. ASSUME NEW i \in 1..k PROVE ToSet(q[i]) \cap ToSet(q[k + 1]) = {}
      <4>1. i \in 1..n /\ i # k + 1
        BY <1>0, <2>1
      <4> QED BY <2>1, <2>4, <4>1 DEF Apart
    <3>3. ToSet(f[k]) \cap ToSet(q[k + 1]) = {}
      BY <2>3, <3>2 DEF MembersUpTo
    <3> QED BY <2>1, <3>1, <3>3, JoinedIs
  <2> QED BY <2>1, <2>2, <2>3, <2>4
<1>3. 0..n \subseteq S
  <2> HIDE DEF S
  <2> QED BY <1>0, <1>1, <1>2, Inductive
<1> QED BY <1>3

(* Rows of equal length. *)
EvenJoins(f, q, n, X, w) == Joins(f, q, n, X) /\ w \in Nat /\ \A i \in 1..n : Len(q[i]) = w

LEMMA EvenLength ==
  ASSUME NEW f, NEW q, NEW n, NEW X, NEW w, EvenJoins(f, q, n, X, w)
  PROVE  \A j \in 0..n : Len(f[j]) = j * w
<1> DEFINE S == {k \in 0..n : Len(f[k]) = k * w}
<1>00. Joins(f, q, n, X) /\ w \in Nat /\ \A i \in 1..n : Len(q[i]) = w
  BY DEF EvenJoins
<1>0. n \in Nat
  BY <1>00 DEF Joins
<1>1. 0 \in S
  <2>1. f[0] = << >> /\ Len(<< >>) = 0 /\ 0 * w = 0
    BY <1>00 DEF Joins
  <2> QED BY <1>0, <2>1
<1>2. ASSUME NEW k \in 0..(n - 1), k \in S PROVE k + 1 \in S
  <2>0. JoinsNext(f, q, n, X, k)
    BY <1>00, JoinStep
  <2>1. k + 1 \in 1..n /\ k + 1 \in 0..n /\ Len(f[k + 1]) = Len(f[k]) + Len(q[k + 1])
    BY <2>0, Zenon DEF JoinsNext
  <2>2. Len(q[k + 1]) = w /\ Len(f[k]) = k * w
    BY <1>00, <1>2, <2>1
  <2>3. k * w + w = (k + 1) * w
    BY <1>0, <1>00
  <2> QED BY <2>1, <2>2, <2>3
<1>3. 0..n \subseteq S
  <2> HIDE DEF S
  <2> QED BY <1>0, <1>1, <1>2, Inductive
<1> QED BY <1>3

(* FlattenSeq joins. *)
LEMMA FlattenJoins ==
  ASSUME NEW X, NEW n \in Nat, NEW q \in [1..n -> Seq(X)]
  PROVE  \E f : Joins(f, q, n, X) /\ FlattenSeq(q) = f[n]
<1>1. q \in Seq(Seq(X)) /\ Len(q) = n
  OBVIOUS
<1> DEFINE A == Seq(X)
           step == [p \in A \X (1..n) |-> p[1] \o q[p[2]]]
           IsIt(f) == f = [i \in 1..n |-> IF i = 1 THEN q[i] ELSE f[i - 1] \o q[i]]
           f == CHOOSE f : IsIt(f)
<1>2. Stepping(n, A, << >>, step)
  <2>1. ASSUME NEW p \in A \X (1..n) PROVE p[1] \o q[p[2]] \in A
    <3>1. p[1] \in Seq(X) /\ q[p[2]] \in Seq(X)
      OBVIOUS
    <3> QED BY <3>1
  <2> QED BY <2>1 DEF Stepping
<1>3. PICK g \in [0..n -> A] : Unrolls(g, n, << >>, step)
  BY <1>2, Unrolled
<1>4. g[0] = << >> /\ \A i \in 1..n : g[i] = g[i - 1] \o q[i]
  <2>1. ASSUME NEW i \in 1..n PROVE g[i] = g[i - 1] \o q[i]
    <3>1. i - 1 \in 0..n
      OBVIOUS
    <3>2. <<g[i - 1], i>> \in A \X (1..n)
      BY <3>1
    <3>3. g[i] = step[<<g[i - 1], i>>]
      BY <1>3 DEF Unrolls
    <3> QED BY <3>2, <3>3
  <2> QED BY <1>3, <2>1 DEF Unrolls
<1>5. Joins(g, q, n, X)
  BY <1>3, <1>4 DEF Joins
<1>6. CASE n = 0
  <2>1. q = << >> /\ FlattenSeq(q) = q
    BY <1>1, <1>6 DEF FlattenSeq
  <2> QED BY <1>4, <1>5, <1>6, <2>1
<1>7. CASE n # 0
  <2>1. FlattenSeq(q) = f[n]
    BY <1>1, <1>7, Zenon DEF FlattenSeq
  <2> DEFINE h == [i \in 1..n |-> g[i]]
  <2>2. ASSUME NEW i \in 1..n PROVE h[i] = IF i = 1 THEN q[i] ELSE h[i - 1] \o q[i]
    <3>1. CASE i = 1
      <4>0. i - 1 = 0
        BY <3>1
      <4>1. g[i] = << >> \o q[i] /\ q[i] \in Seq(X)
        BY <1>4, <4>0, Zenon
      <4>2. << >> \o q[i] = q[i]
        BY <4>1
      <4> QED BY <3>1, <4>1, <4>2
    <3>2. CASE i # 1
      <4>1. i - 1 \in 1..n
        BY <3>2
      <4> QED BY <1>4, <3>2, <4>1
    <3> QED BY <3>1, <3>2
  <2>3. IsIt(h)
    <3> HIDE DEF h
    <3>1. h = [i \in 1..n |-> h[i]]
      BY DEF h
    <3> QED BY <2>2, <3>1
  <2>4. IsIt(f)
    BY <2>3, Zenon
  <2> HIDE DEF f, h
  <2>5. \A i \in 1..n : f[i] = IF i = 1 THEN q[i] ELSE f[i - 1] \o q[i]
    BY <2>4
  <2> DEFINE S == {k \in 0..n : k > 0 => f[k] = g[k]}
  <2>6. 0 \in S
    OBVIOUS
  <2>7. ASSUME NEW k \in 0..(n - 1), k \in S PROVE k + 1 \in S
    <3>1. k + 1 \in 1..n /\ k + 1 \in 0..n /\ (k + 1) - 1 = k
      OBVIOUS
    <3>2. g[k + 1] = g[k] \o q[k + 1]
      BY <1>4, <3>1
    <3>3. CASE k = 0
      <4>1. << >> \o q[k + 1] = q[k + 1]
        <5>1. q[k + 1] \in Seq(X)
          BY <3>1
        <5> QED BY <5>1
      <4>2. f[k + 1] = q[k + 1]
        BY <2>5, <3>1, <3>3
      <4> QED BY <1>4, <3>1, <3>2, <3>3, <4>1, <4>2
    <3>4. CASE k # 0
      <4>1. f[k] = g[k] /\ k + 1 # 1
        BY <2>7, <3>4
      <4>2. f[k + 1] = f[k] \o q[k + 1]
        BY <2>5, <3>1, <4>1, Zenon
      <4> QED BY <3>1, <3>2, <4>1, <4>2
    <3> QED BY <3>3, <3>4
  <2>8. 0..n \subseteq S
    <3> HIDE DEF S
    <3> QED BY <2>6, <2>7, Inductive
  <2>9. n \in 0..n /\ n > 0
    BY <1>7
  <2> QED BY <1>5, <2>1, <2>8, <2>9
<1> QED BY <1>6, <1>7

(* What FlattenSeq makes of rows. *)
LEMMA FlattenIs ==
  ASSUME NEW X, NEW n \in Nat, NEW q \in [1..n -> Seq(X)]
  PROVE  /\ FlattenSeq(q) \in Seq(X) /\ ToSet(FlattenSeq(q)) = MembersUpTo(q, n)
         /\ Apart(q, n) => IsInjective(FlattenSeq(q))
         /\ \A w \in Nat : (\A i \in 1..n : Len(q[i]) = w) => Len(FlattenSeq(q)) = n * w
<1>1. PICK f : Joins(f, q, n, X) /\ FlattenSeq(q) = f[n]
  BY FlattenJoins
<1>2. n \in 0..n
  OBVIOUS
<1>3. \A w \in Nat : (\A i \in 1..n : Len(q[i]) = w) => Len(f[n]) = n * w
  <2>1. ASSUME NEW w \in Nat, \A i \in 1..n : Len(q[i]) = w PROVE Len(f[n]) = n * w
    <3>1. EvenJoins(f, q, n, X, w)
      BY <1>1, <2>1, Zenon DEF EvenJoins
    <3>2. \A m \in 0..n : Len(f[m]) = m * w
      BY <3>1, EvenLength
    <3> QED BY <1>2, <3>2, Zenon
  <2> QED BY <2>1
<1>4. /\ f[n] \in Seq(X) /\ ToSet(f[n]) = MembersUpTo(q, n)
      /\ Apart(q, n) => IsInjective(f[n])
  BY <1>1, <1>2, JoinsAre, Zenon
<1> QED BY <1>1, <1>3, <1>4, Zenon

(* The sockets that are filled are the first of those to visit, at least one:   *)
(* as long as there are sockets the filling goes on until there are n contexts. *)
FilledBy(a, k, f, t, X, m, order, n, per, sf) ==
  /\ a.sockets = [i \in 1..k |-> order[i]]
  /\ Joins(f, [i \in 1..k |-> mctop_socket_get_hwc_ids(t, order[i], per, sf, 0)], k, X)
  /\ a.hwcs = f[k] /\ Len(f[k - 1]) < n /\ (k < m => Len(f[k]) >= n)

LEMMA FillJoins ==
  ASSUME NEW t, NEW X, NEW S, NEW m, NEW order, NEW n, NEW per, NEW sf,
         Fillable(t, X, S, m, order, n, per, sf)
  PROVE  \E k \in 1..m : \E f :
           FilledBy(FillSockets(t, order, n, per, sf), k, f, t, X, m, order, n, per, sf)
<1>0. /\ m \in Nat \ {0} /\ order \in [1..m -> S] /\ n \in Nat \ {0}
      /\ \A s \in S : mctop_socket_get_hwc_ids(t, s, per, sf, 0) \in Seq(X)
  BY DEF Fillable
<1> USE <1>0
<1> DEFINE A == [hwcs : Seq(X), sockets : Seq(S)]
           base == [hwcs |-> << >>, sockets |-> << >>]
           ids(s) == mctop_socket_get_hwc_ids(t, s, per, sf, 0)
           op(a, s) == IF Len(a.hwcs) >= n THEN a
                       ELSE [hwcs |-> a.hwcs \o ids(s), sockets |-> Append(a.sockets, s)]
           step == [p \in A \X (1..m) |-> op(p[1], order[p[2]])]
           IsIt(it) == it = [s \in SUBSET (1..m) |->
                               IF s = {} THEN base ELSE op(it[s \ {Max(s)}], order[Max(s)])]
           it == CHOOSE f : IsIt(f)
<1>1. Stepping(m, A, base, step)
  <2>1. base \in A
    OBVIOUS
  <2>2. ASSUME NEW a \in A, NEW i \in 1..m PROVE op(a, order[i]) \in A
    <3>1. a.hwcs \in Seq(X) /\ a.sockets \in Seq(S) /\ order[i] \in S /\ ids(order[i]) \in Seq(X)
      OBVIOUS
    <3> HIDE DEF ids
    <3>2. a.hwcs \o ids(order[i]) \in Seq(X) /\ Append(a.sockets, order[i]) \in Seq(S)
      BY <3>1
    <3> QED BY <3>2
  <2> HIDE DEF op, A
  <2>3. step \in [A \X (1..m) -> A]
    BY <2>2
  <2> QED BY <2>1, <2>3 DEF Stepping
<1>2. DOMAIN order = 1..m
  OBVIOUS
<1>3. FillSockets(t, order, n, per, sf) = it[1..m]
  BY <1>2, Zenon DEF FillSockets, FoldLeft, MapThenFoldSet, darray_add
<1> HIDE DEF op, A, base
<1>4. \E f : IsIt(f)
  <2>1. PICK f \in [SUBSET (1..m) -> A] : Folds(f, m, base, step)
    BY <1>1, FoldExists
  <2>2. ASSUME NEW s \in SUBSET (1..m), s # {}
        PROVE  f[s] = op(f[s \ {Max(s)}], order[Max(s)])
    <3>1. Max(s) \in 1..m /\ s \ {Max(s)} \in SUBSET (1..m)
      BY <2>2, GreatestIs, Zenon
    <3>2. f[s] = step[<<f[s \ {Max(s)}], Max(s)>>] /\ f[s \ {Max(s)}] \in A
      BY <2>1, <2>2, <3>1, Zenon DEF Folds
    <3> QED BY <3>1, <3>2
  <2>3. f[{}] = base
    BY <2>1 DEF Folds
  <2>4. IsIt(f)
    BY <2>1, <2>2, <2>3
  <2> QED BY <2>4
<1>5. IsIt(it)
  BY <1>4, Zenon
<1> HIDE DEF it
<1>6. it[{}] = base
  BY <1>5
<1>7. ASSUME NEW s \in SUBSET (1..m), s # {}, it[s \ {Max(s)}] \in A
      PROVE  it[s] = step[<<it[s \ {Max(s)}], Max(s)>>]
  <2>1. Max(s) \in 1..m
    BY <1>7, GreatestIs, Zenon
  <2> QED BY <1>5, <1>7, <2>1
<1> HIDE DEF IsIt, step
<1>8. PICK g \in [0..m -> A] : Unrolls(g, m, base, step) /\ it[1..m] = g[m]
  <2>1. \A s \in SUBSET (1..m) : s # {} /\ it[s \ {Max(s)}] \in A =>
             it[s] = step[<<it[s \ {Max(s)}], Max(s)>>]
    BY <1>7
  <2>2. Iterates(it, m, A, base, step)
    BY <1>6, <2>1, Zenon DEF Iterates
  <2>3. FoldsTo(it[1..m], m, A, base, step)
    BY <1>1, <2>2, FoldUnrolls, Zenon
  <2> QED BY <2>3 DEF FoldsTo
<1>9. \A k \in 1..m : g[k] = op(g[k - 1], order[k])
  <2> TAKE k \in 1..m
  <2>1. <<g[k - 1], k>> \in A \X (1..m) /\ g[k] = step[<<g[k - 1], k>>]
    <3>1. k - 1 \in 0..m
      OBVIOUS
    <3> QED BY <1>8, <3>1 DEF Unrolls
  <2> QED BY <2>1 DEF step
<1>10. \A k \in 0..m : g[k].hwcs \in Seq(X) /\ g[k].sockets \in Seq(S) /\ Len(g[k].hwcs) \in Nat
  <2> TAKE k \in 0..m
  <2>1. g[k] \in A
    BY <1>8, Zenon
  <2>2. \A a \in A : a.hwcs \in Seq(X) /\ a.sockets \in Seq(S)
    BY Zenon DEF A
  <2>3. g[k].hwcs \in Seq(X) /\ g[k].sockets \in Seq(S)
    BY <2>1, <2>2, Zenon
  <2>4. Len(g[k].hwcs) \in Nat
    BY <2>3, LenProperties
  <2> QED BY <2>3, <2>4
<1> DEFINE Adds(i) == /\ g[i].hwcs = g[i - 1].hwcs \o ids(order[i])
                      /\ Len(g[i - 1].hwcs) < n
           Fits(k, j) ==
             /\ k > 0 => j > 0
             /\ j < k => Len(g[k].hwcs) >= n
             /\ g[k].sockets = [i \in 1..j |-> order[i]]
             /\ g[k].hwcs = g[j].hwcs
             /\ \A i \in 1..j : Adds(i)
           Good == {k \in 0..m : \E j \in 0..k : Fits(k, j)}
<1>11. 0 \in Good
  <2>1. g[0] = [hwcs |-> << >>, sockets |-> << >>]
    BY <1>8 DEF Unrolls, base
  <2>2. [i \in 1..0 |-> order[i]] = << >> /\ 1..0 = {}
    OBVIOUS
  <2> HIDE DEF Adds
  <2>3. Fits(0, 0)
    BY <2>1, <2>2
  <2> HIDE DEF Fits
  <2> QED BY <2>3
<1>12. ASSUME NEW k \in 0..(m - 1), k \in Good PROVE k + 1 \in Good
  <2>1. k + 1 \in 1..m /\ k + 1 \in 0..m /\ (k + 1) - 1 = k /\ k \in 0..m
    OBVIOUS
  <2>2. PICK j \in 0..k : Fits(k, j)
    <3> HIDE DEF Fits
    <3> QED BY <1>12
  <2>3. g[k + 1] = op(g[k], order[k + 1])
    BY <1>9, <2>1
  <2>4. CASE Len(g[k].hwcs) >= n
    <3> HIDE DEF Adds
    <3>1. g[k + 1] = g[k]
      BY <2>3, <2>4 DEF op
    <3>2. j > 0
      <4>1. CASE k = 0
        <5>1. g[0] = [hwcs |-> << >>, sockets |-> << >>]
          BY <1>8 DEF Unrolls, base
        <5>2. Len(g[0].hwcs) = 0
          BY <5>1
        <5> QED BY <2>4, <4>1, <5>2
      <4> QED BY <2>2, <4>1
    <3>3. Fits(k + 1, j)
      BY <2>2, <2>4, <3>1, <3>2
    <3>4. j \in 0..(k + 1)
      OBVIOUS
    <3> HIDE DEF Fits
    <3> QED BY <2>1, <3>3, <3>4
  <2>5. CASE ~ (Len(g[k].hwcs) >= n)
    <3>1. j = k
      BY <2>2, <2>5
    <3>2. /\ g[k + 1].hwcs = g[k].hwcs \o ids(order[k + 1])
          /\ g[k + 1].sockets = Append(g[k].sockets, order[k + 1])
      <4> DEFINE h == g[k].hwcs \o ids(order[k + 1])
                 q == Append(g[k].sockets, order[k + 1])
      <4>1. g[k + 1] = [hwcs |-> h, sockets |-> q]
        <5> HIDE DEF ids
        <5> QED BY <2>3, <2>5, Zenon DEF op
      <4> HIDE DEF h, q
      <4>2. g[k + 1].hwcs = h /\ g[k + 1].sockets = q
        BY <4>1
      <4> QED BY <4>2 DEF h, q
    <3>3. order[k + 1] \in S
      BY <2>1
    <3>4. g[k + 1].sockets = [i \in 1..(k + 1) |-> order[i]]
      <4>1. g[k].sockets = [i \in 1..k |-> order[i]]
        BY <2>2, <3>1
      <4> QED BY <2>1, <3>2, <3>3, <4>1
    <3>5. Adds(k + 1)
      <4> HIDE DEF ids
      <4> QED BY <1>10, <2>1, <2>5, <3>2
    <3> HIDE DEF Adds
    <3>6. ASSUME NEW i \in 1..(k + 1) PROVE Adds(i)
      <4>1. CASE i = k + 1
        BY <3>5, <4>1
      <4>2. CASE i # k + 1
        <5>1. i \in 1..j
          BY <3>1, <4>2
        <5> QED BY <2>2, <5>1
      <4> QED BY <4>1, <4>2
    <3>7. k + 1 > 0 /\ ~ (k + 1 < k + 1) /\ k + 1 \in 0..(k + 1)
      OBVIOUS
    <3>8. Fits(k + 1, k + 1)
      BY <3>4, <3>6, <3>7
    <3> HIDE DEF Fits
    <3> QED BY <2>1, <3>7, <3>8
  <2> QED BY <2>4, <2>5
<1>13. 0..m \subseteq Good
  <2> HIDE DEF Good
  <2> QED BY <1>11, <1>12, Inductive
<1>14. PICK j \in 0..m : Fits(m, j)
  <2>1. m \in Good
    <3> HIDE DEF Good
    <3> QED BY <1>13
  <2> HIDE DEF Fits
  <2> QED BY <2>1
<1>15. j \in 1..m /\ 0..j \subseteq 0..m
  BY <1>14
<1> DEFINE f == [i \in 0..j |-> g[i].hwcs]
           q == [i \in 1..j |-> ids(order[i])]
           a == FillSockets(t, order, n, per, sf)
<1>16. a.sockets = [i \in 1..j |-> order[i]] /\ a.hwcs = f[j] /\ (j < m => Len(f[j]) >= n)
  <2> HIDE DEF Adds
  <2>1. a = g[m] /\ g[m].sockets = [i \in 1..j |-> order[i]] /\ g[m].hwcs = g[j].hwcs
        /\ (j < m => Len(g[m].hwcs) >= n)
    BY <1>3, <1>8, <1>14
  <2>2. f[j] = g[j].hwcs
    BY <1>15
  <2> QED BY <2>1, <2>2
<1>17. \A i \in 1..j : Adds(i)
  BY <1>14
<1> HIDE DEF Fits, Good
<1>18. ASSUME NEW i \in 1..j PROVE f[i] = f[i - 1] \o q[i] /\ Len(f[i - 1]) < n
  <2>1. i - 1 \in 0..j /\ i \in 0..j
    BY <1>15
  <2>2. f[i] = g[i].hwcs /\ f[i - 1] = g[i - 1].hwcs /\ q[i] = ids(order[i])
    <3> HIDE DEF ids
    <3> QED BY <2>1
  <2> QED BY <1>17, <2>2, Zenon
<1>19. Joins(f, q, j, X)
  <2>1. q \in [1..j -> Seq(X)]
    <3>1. ASSUME NEW i \in 1..j PROVE ids(order[i]) \in Seq(X)
      <4>1. order[i] \in S
        BY <1>15
      <4> QED BY <4>1
    <3> QED BY <3>1
  <2>2. f \in [0..j -> Seq(X)]
    BY <1>10, <1>15
  <2>3. f[0] = << >>
    <3>1. g[0] = [hwcs |-> << >>, sockets |-> << >>]
      BY <1>8 DEF Unrolls, base
    <3> QED BY <1>15, <3>1
  <2>4. j \in Nat /\ \A i \in 1..j : f[i] = f[i - 1] \o q[i]
    <3>1. j \in Nat
      BY <1>15
    <3> HIDE DEF f, q
    <3> QED BY <1>18, <3>1, Zenon
  <2> HIDE DEF f, q
  <2> QED BY <2>1, <2>2, <2>3, <2>4, Zenon DEF Joins
<1>20. Len(f[j - 1]) < n
  <2>1. j \in 1..j
    BY <1>15
  <2> HIDE DEF f
  <2> QED BY <1>18, <2>1
<1>21. FilledBy(a, j, f, t, X, m, order, n, per, sf)
  <2> HIDE DEF f, a
  <2> QED BY <1>16, <1>19, <1>20, Zenon DEF FilledBy
<1> QED BY <1>15, <1>21

(* AddAllUniq keeps the first of the members that are the same. *)
LEMMA AddAllUniqIs ==
  ASSUME NEW V, NEW n \in Nat, NEW elems \in [1..n -> V]
  PROVE  /\ AddAllUniq(elems) \in Seq(V) /\ IsInjective(AddAllUniq(elems))
         /\ ToSet(AddAllUniq(elems)) = ToSet(elems)
<1> DEFINE A == Seq(V)
           base == << >>
           op(a, e) == IF darray_exists(a, e) THEN a ELSE darray_add(a, e)
           step == [p \in A \X (1..n) |-> op(p[1], elems[p[2]])]
           IsIt(it) == it = [s \in SUBSET (1..n) |->
                               IF s = {} THEN base ELSE op(it[s \ {Max(s)}], elems[Max(s)])]
           it == CHOOSE f : IsIt(f)
<1>1. Stepping(n, A, base, step)
  <2>1. base \in A
    OBVIOUS
  <2>2. ASSUME NEW a \in A, NEW i \in 1..n PROVE op(a, elems[i]) \in A
    BY DEF darray_add
  <2> HIDE DEF op, A
  <2>3. step \in [A \X (1..n) -> A]
    BY <2>2
  <2> QED BY <2>1, <2>3 DEF Stepping
<1>2. DOMAIN elems = 1..n
  OBVIOUS
<1>3. AddAllUniq(elems) = it[1..n]
  BY <1>2, Zenon DEF AddAllUniq, FoldLeft, MapThenFoldSet, darray_add_uniq
<1> HIDE DEF op, A, base
<1>4. \E f : IsIt(f)
  <2>1. PICK f \in [SUBSET (1..n) -> A] : Folds(f, n, base, step)
    BY <1>1, FoldExists
  <2>2. ASSUME NEW s \in SUBSET (1..n), s # {}
        PROVE  f[s] = op(f[s \ {Max(s)}], elems[Max(s)])
    <3>1. Max(s) \in 1..n /\ s \ {Max(s)} \in SUBSET (1..n)
      BY <2>2, GreatestIs, Zenon
    <3>2. f[s] = step[<<f[s \ {Max(s)}], Max(s)>>] /\ f[s \ {Max(s)}] \in A
      BY <2>1, <2>2, <3>1, Zenon DEF Folds
    <3> QED BY <3>1, <3>2
  <2>3. f[{}] = base
    BY <2>1 DEF Folds
  <2>4. IsIt(f)
    BY <2>1, <2>2, <2>3
  <2> QED BY <2>4
<1>5. IsIt(it)
  BY <1>4, Zenon
<1> HIDE DEF it
<1>6. it[{}] = base
  BY <1>5
<1>7. ASSUME NEW s \in SUBSET (1..n), s # {}, it[s \ {Max(s)}] \in A
      PROVE  it[s] = step[<<it[s \ {Max(s)}], Max(s)>>]
  <2>1. Max(s) \in 1..n
    BY <1>7, GreatestIs, Zenon
  <2> QED BY <1>5, <1>7, <2>1
<1> HIDE DEF IsIt, step
<1>8. PICK g \in [0..n -> A] : Unrolls(g, n, base, step) /\ it[1..n] = g[n]
  <2>1. \A s \in SUBSET (1..n) : s # {} /\ it[s \ {Max(s)}] \in A =>
             it[s] = step[<<it[s \ {Max(s)}], Max(s)>>]
    BY <1>7
  <2>2. Iterates(it, n, A, base, step)
    BY <1>6, <2>1, Zenon DEF Iterates
  <2>3. FoldsTo(it[1..n], n, A, base, step)
    BY <1>1, <2>2, FoldUnrolls, Zenon
  <2> QED BY <2>3 DEF FoldsTo
<1>9. \A k \in 1..n : g[k] = op(g[k - 1], elems[k])
  <2> TAKE k \in 1..n
  <2>1. <<g[k - 1], k>> \in A \X (1..n) /\ g[k] = step[<<g[k - 1], k>>]
    <3>1. k - 1 \in 0..n
      OBVIOUS
    <3> QED BY <1>8, <3>1 DEF Unrolls
  <2> QED BY <2>1 DEF step
<1> DEFINE Members(k) == {elems[i] : i \in 1..k}
           S == {k \in 0..n : g[k] \in Seq(V) /\ IsInjective(g[k]) /\ ToSet(g[k]) = Members(k)}
<1>10. 0 \in S
  <2>1. g[0] = << >>
    BY <1>8 DEF Unrolls, base
  <2>2. << >> \in Seq(V) /\ IsInjective(<< >>) /\ ToSet(<< >>) = {} /\ Members(0) = {}
    BY DEF IsInjective, ToSet
  <2> QED BY <2>1, <2>2
<1>11. ASSUME NEW k \in 0..(n - 1), k \in S PROVE k + 1 \in S
  <2> DEFINE q == g[k]
             e == elems[k + 1]
  <2>1. k + 1 \in 1..n /\ k + 1 \in 0..n /\ (k + 1) - 1 = k
    OBVIOUS
  <2>2. g[k + 1] = op(q, e) /\ e \in V
    BY <1>9, <2>1
  <2>3. Members(k + 1) = Members(k) \cup {e}
    <3>1. 1..(k + 1) = (1..k) \cup {k + 1}
      BY <2>1
    <3> QED BY <3>1
  <2>4. q \in Seq(V) /\ IsInjective(q) /\ ToSet(q) = Members(k)
    BY <1>11
  <2> HIDE DEF q, e, Members, S
  <2>5. DOMAIN q = 1..Len(q) /\ Len(q) \in Nat
    BY <2>4
  <2>6. darray_exists(q, e) <=> e \in ToSet(q)
    BY <2>5 DEF darray_exists, Contains, ToSet
  <2>7. CASE e \in ToSet(q)
    <3>1. g[k + 1] = q
      BY <2>2, <2>6, <2>7 DEF op
    <3>2. Members(k + 1) = Members(k)
      BY <2>3, <2>4, <2>7
    <3> QED BY <2>1, <2>4, <3>1, <3>2 DEF S
  <2>8. CASE e \notin ToSet(q)
    <3>1. g[k + 1] = q \o <<e>>
      <4>1. g[k + 1] = Append(q, e)
        BY <2>2, <2>6, <2>8 DEF op, darray_add
      <4> QED BY <2>2, <2>4, <4>1
    <3>2. <<e>> \in Seq(V) /\ ToSet(<<e>>) = {e} /\ IsInjective(<<e>>)
      BY <2>2 DEF ToSet, IsInjective
    <3>3. ToSet(q) \cap ToSet(<<e>>) = {}
      BY <2>8, <3>2
    <3>4. /\ q \o <<e>> \in Seq(V) /\ ToSet(q \o <<e>>) = Members(k) \cup {e}
          /\ IsInjective(q \o <<e>>)
      <4>1. q \o <<e>> \in Seq(V)
        BY <2>4, <3>2, Concatenated
      <4>2. /\ ToSet(q \o <<e>>) = ToSet(q) \cup ToSet(<<e>>)
            /\ IsInjective(q \o <<e>>)
        <5> DEFINE u == <<e>>
        <5>1. u \in Seq(V) /\ IsInjective(u) /\ ToSet(q) \cap ToSet(u) = {}
          BY <3>2, <3>3
        <5> HIDE DEF u
        <5>2. ToSet(q \o u) = ToSet(q) \cup ToSet(u) /\ IsInjective(q \o u)
          BY <2>4, <5>1, JoinedIs
        <5> QED BY <5>2 DEF u
      <4> QED BY <2>4, <3>2, <4>1, <4>2, Zenon
    <3> QED BY <2>1, <2>3, <3>1, <3>4 DEF S
  <2> QED BY <2>7, <2>8
<1>12. 0..n \subseteq S
  <2> HIDE DEF S
  <2> QED BY <1>10, <1>11, Inductive
<1>13. n \in S
  <2> HIDE DEF S
  <2> QED BY <1>12
<1>14. Members(n) = ToSet(elems)
  BY DEF ToSet
<1> QED BY <1>3, <1>8, <1>13, <1>14

(* A pass over the sockets, that takes one context of each core. *)
Pass(t, sockets, per, hwc) ==
  FlattenSeq([i \in DOMAIN sockets |-> mctop_socket_get_hwc_ids(t, sockets[i], per, -1, hwc)])

(* With enough contexts there are no more passes. *)
LEMMA NoNextContexts ==
  ASSUME NEW t, NEW a, NEW n, NEW per, t.n_hwcs_per_core \in Nat \ {0}, Len(a.hwcs) >= n
  PROVE  NextContexts(t, a, n, per) = a.hwcs
<1> DEFINE m == t.n_hwcs_per_core - 1
           q == Loop(1, m)
           op(hwcs, hwc) == IF Len(hwcs) >= n THEN hwcs
                            ELSE hwcs \o FlattenSeq([i \in DOMAIN a.sockets |->
                                   mctop_socket_get_hwc_ids(t, a.sockets[i], per, -1, hwc)])
           IsIt(it) == it = [s \in SUBSET (1..m) |->
                               IF s = {} THEN a.hwcs ELSE op(it[s \ {Max(s)}], q[Max(s)])]
           it == CHOOSE f : IsIt(f)
<1>1. m \in Nat /\ DOMAIN q = 1..m
  BY DEF Loop
<1>2. NextContexts(t, a, n, per) = it[1..m]
  BY <1>1, Zenon DEF NextContexts, FoldLeft, MapThenFoldSet
<1> HIDE DEF m, q
<1>3. IsIt([s \in SUBSET (1..m) |-> a.hwcs])
  <2> DEFINE f == [s \in SUBSET (1..m) |-> a.hwcs]
  <2>1. ASSUME NEW s \in SUBSET (1..m) PROVE f[s] = IF s = {} THEN a.hwcs ELSE op(f[s \ {Max(s)}], q[Max(s)])
    <3>1. s \ {Max(s)} \in SUBSET (1..m)
      OBVIOUS
    <3>2. f[s] = a.hwcs /\ f[s \ {Max(s)}] = a.hwcs
      BY <3>1
    <3> HIDE DEF f
    <3>3. op(f[s \ {Max(s)}], q[Max(s)]) = a.hwcs
      BY <3>2, Zenon
    <3> QED BY <3>2, <3>3
  <2> HIDE DEF op
  <2> QED BY <2>1
<1> HIDE DEF op
<1>4. IsIt(it)
  BY <1>3, Zenon
<1> HIDE DEF it
<1>5. it[{}] = a.hwcs
  BY <1>4
<1>6. ASSUME NEW s \in SUBSET (1..m), s # {}, it[s \ {Max(s)}] = a.hwcs PROVE it[s] = a.hwcs
  <2>1. it[s] = op(it[s \ {Max(s)}], q[Max(s)])
    BY <1>4, <1>6
  <2>2. it[s] = op(a.hwcs, q[Max(s)])
    BY <1>6, <2>1, Zenon
  <2> QED BY <2>2, Zenon DEF op
<1>7. Stays(it, m, a.hwcs)
  BY <1>1, <1>5, <1>6 DEF Stays
<1> QED BY <1>2, <1>7, StaysSame

(* The rows of all passes: the contexts that the sockets were filled with, and those *)
(* of the later passes.                                                              *)
PassRows(t, a, per, k) ==
  [j \in 1..k |-> IF j = 1 THEN a.hwcs ELSE Pass(t, a.sockets, per, j - 1)]

PassedBy(r, k, f, t, a, n, per, X) ==
  /\ Joins(f, PassRows(t, a, per, k), k, X)
  /\ r = f[k] /\ (k < t.n_hwcs_per_core => Len(f[k]) >= n)

Passable(t, a, n, per, X) ==
  /\ t.n_hwcs_per_core \in Nat \ {0} /\ n \in Nat /\ a.hwcs \in Seq(X)
  /\ \A hwc \in 1..(t.n_hwcs_per_core - 1) : Pass(t, a.sockets, per, hwc) \in Seq(X)

LEMMA NextJoins ==
  ASSUME NEW t, NEW a, NEW n, NEW per, NEW X, Passable(t, a, n, per, X)
  PROVE  \E k \in 1..t.n_hwcs_per_core : \E f :
           PassedBy(NextContexts(t, a, n, per), k, f, t, a, n, per, X)
<1> DEFINE m == t.n_hwcs_per_core - 1
           q == Loop(1, m)
           A == Seq(X)
           pass(hwc) == FlattenSeq([i \in DOMAIN a.sockets |->
                          mctop_socket_get_hwc_ids(t, a.sockets[i], per, -1, hwc)])
           op(hwcs, hwc) == IF Len(hwcs) >= n THEN hwcs ELSE hwcs \o pass(hwc)
           step == [p \in A \X (1..m) |-> op(p[1], q[p[2]])]
           IsIt(it) == it = [s \in SUBSET (1..m) |->
                               IF s = {} THEN a.hwcs ELSE op(it[s \ {Max(s)}], q[Max(s)])]
           it == CHOOSE f : IsIt(f)
<1>1. /\ m \in Nat /\ DOMAIN q = 1..m /\ a.hwcs \in A /\ n \in Nat
      /\ \A i \in 1..m : q[i] = i /\ pass(i) \in A
  <2>1. m \in Nat /\ DOMAIN q = 1..m /\ a.hwcs \in A /\ n \in Nat /\ \A i \in 1..m : q[i] = i
    BY DEF Loop, Passable
  <2>2. \A i \in 1..m : pass(i) \in A
    BY Zenon DEF Passable, Pass
  <2> QED BY <2>1, <2>2
<1>2. NextContexts(t, a, n, per) = it[1..m]
  BY <1>1, Zenon DEF NextContexts, FoldLeft, MapThenFoldSet
<1>3. t.n_hwcs_per_core = m + 1 /\ \A i \in 1..m : pass(i) = Pass(t, a.sockets, per, i)
  <2>1. t.n_hwcs_per_core = m + 1
    BY DEF Passable
  <2>2. \A i \in 1..m : pass(i) = Pass(t, a.sockets, per, i)
    BY Zenon DEF Pass
  <2> QED BY <2>1, <2>2
<1> HIDE DEF m, q, pass
<1>4. Stepping(m, A, a.hwcs, step)
  <2>1. ASSUME NEW p \in A, NEW i \in 1..m PROVE op(p, q[i]) \in A
    <3>1. p \in Seq(X) /\ pass(q[i]) \in Seq(X)
      BY <1>1
    <3> QED BY <3>1, Concatenated
  <2> HIDE DEF op, A
  <2>2. step \in [A \X (1..m) -> A]
    BY <2>1
  <2> QED BY <1>1, <2>2 DEF Stepping
<1> HIDE DEF op, A
<1>5. \E f : IsIt(f)
  <2>1. PICK f \in [SUBSET (1..m) -> A] : Folds(f, m, a.hwcs, step)
    BY <1>4, FoldExists
  <2>2. ASSUME NEW s \in SUBSET (1..m), s # {}
        PROVE  f[s] = op(f[s \ {Max(s)}], q[Max(s)])
    <3>1. Max(s) \in 1..m /\ s \ {Max(s)} \in SUBSET (1..m)
      BY <1>1, <2>2, GreatestIs, Zenon
    <3>2. f[s] = step[<<f[s \ {Max(s)}], Max(s)>>] /\ f[s \ {Max(s)}] \in A
      BY <2>1, <2>2, <3>1, Zenon DEF Folds
    <3> QED BY <3>1, <3>2
  <2>3. f[{}] = a.hwcs
    BY <2>1 DEF Folds
  <2>4. IsIt(f)
    BY <2>1, <2>2, <2>3
  <2> QED BY <2>4
<1>6. IsIt(it)
  BY <1>5, Zenon
<1> HIDE DEF it
<1>7. it[{}] = a.hwcs
  BY <1>6
<1>8. ASSUME NEW s \in SUBSET (1..m), s # {}, it[s \ {Max(s)}] \in A
      PROVE  it[s] = step[<<it[s \ {Max(s)}], Max(s)>>]
  <2>1. Max(s) \in 1..m
    BY <1>1, <1>8, GreatestIs, Zenon
  <2> QED BY <1>6, <1>8, <2>1
<1> HIDE DEF IsIt, step
<1>9. PICK g \in [0..m -> A] : Unrolls(g, m, a.hwcs, step) /\ it[1..m] = g[m]
  <2>1. \A s \in SUBSET (1..m) : s # {} /\ it[s \ {Max(s)}] \in A =>
             it[s] = step[<<it[s \ {Max(s)}], Max(s)>>]
    BY <1>8
  <2>2. Iterates(it, m, A, a.hwcs, step)
    BY <1>7, <2>1, Zenon DEF Iterates
  <2>3. FoldsTo(it[1..m], m, A, a.hwcs, step)
    BY <1>4, <2>2, FoldUnrolls, Zenon
  <2> QED BY <2>3 DEF FoldsTo
<1>10. \A k \in 1..m : g[k] = IF Len(g[k - 1]) >= n THEN g[k - 1] ELSE g[k - 1] \o pass(k)
  <2> TAKE k \in 1..m
  <2>1. <<g[k - 1], k>> \in A \X (1..m) /\ g[k] = step[<<g[k - 1], k>>]
    <3>1. k - 1 \in 0..m
      BY <1>1
    <3> QED BY <1>9, <3>1 DEF Unrolls
  <2>2. g[k] = op(g[k - 1], q[k])
    BY <2>1 DEF step
  <2>3. q[k] = k
    BY <1>1
  <2> QED BY <2>2, <2>3, Zenon DEF op
<1> DEFINE Adds(i) == g[i] = g[i - 1] \o pass(i)
           Fits(k, j) == /\ j < k => Len(g[k]) >= n
                         /\ g[k] = g[j]
                         /\ \A i \in 1..j : Adds(i)
           Good == {k \in 0..m : \E j \in 0..k : Fits(k, j)}
<1>11. 0 \in Good
  <2> HIDE DEF Adds
  <2>1. Fits(0, 0)
    OBVIOUS
  <2> HIDE DEF Fits
  <2> QED BY <1>1, <2>1
<1>12. ASSUME NEW k \in 0..(m - 1), k \in Good PROVE k + 1 \in Good
  <2>1. k + 1 \in 1..m /\ k + 1 \in 0..m /\ (k + 1) - 1 = k /\ k \in 0..m
    BY <1>1
  <2>2. PICK j \in 0..k : Fits(k, j)
    <3> HIDE DEF Fits
    <3> QED BY <1>12
  <2>3. g[k + 1] = IF Len(g[k]) >= n THEN g[k] ELSE g[k] \o pass(k + 1)
    BY <1>10, <2>1, Zenon
  <2>4. CASE Len(g[k]) >= n
    <3> HIDE DEF Adds
    <3>0. g[k + 1] = g[k] /\ j \in 0..(k + 1)
      BY <2>3, <2>4
    <3>1. Fits(k + 1, j)
      BY <2>2, <2>4, <3>0
    <3> HIDE DEF Fits
    <3> QED BY <2>1, <3>0, <3>1
  <2>5. CASE ~ (Len(g[k]) >= n)
    <3>1. j = k
      BY <2>2, <2>5
    <3>2. Adds(k + 1)
      BY <2>1, <2>3, <2>5, Zenon
    <3> HIDE DEF Adds
    <3>3. ASSUME NEW i \in 1..(k + 1) PROVE Adds(i)
      <4>1. CASE i = k + 1
        BY <3>2, <4>1
      <4>2. CASE i # k + 1
        <5>1. i \in 1..j
          BY <3>1, <4>2
        <5> QED BY <2>2, <5>1
      <4> QED BY <4>1, <4>2
    <3>4. ~ (k + 1 < k + 1) /\ k + 1 \in 0..(k + 1)
      BY <2>1
    <3>5. Fits(k + 1, k + 1)
      BY <3>3, <3>4
    <3> HIDE DEF Fits
    <3> QED BY <2>1, <3>4, <3>5
  <2> QED BY <2>4, <2>5
<1>13. 0..m \subseteq Good
  <2> HIDE DEF Good
  <2> QED BY <1>1, <1>11, <1>12, Inductive
<1>14. PICK j \in 0..m : Fits(m, j)
  <2>1. m \in Good
    <3> HIDE DEF Good
    <3> QED BY <1>1, <1>13
  <2> HIDE DEF Fits
  <2> QED BY <2>1
<1> DEFINE k == j + 1
           f == [i \in 0..k |-> IF i = 0 THEN << >> ELSE g[i - 1]]
           rows == PassRows(t, a, per, k)
<1>15. k \in 1..(m + 1) /\ k \in Nat /\ k - 1 = j
  BY <1>1
<1>16. \A i \in 0..j : g[i] \in Seq(X) /\ i \in 0..m
  BY <1>1, <1>9 DEF A
<1>17. g[0] = a.hwcs /\ \A i \in 1..j : g[i] = g[i - 1] \o pass(i)
  BY <1>9, <1>14 DEF Unrolls
<1>18. rows[1] = a.hwcs /\ \A i \in 2..k : rows[i] = pass(i - 1)
  <2>1. rows[1] = a.hwcs
    BY <1>15 DEF PassRows
  <2>2. ASSUME NEW i \in 2..k PROVE rows[i] = pass(i - 1)
    <3>1. i \in 1..k /\ i # 1 /\ i - 1 \in 1..m
      BY <1>1, <1>15
    <3>2. rows[i] = Pass(t, a.sockets, per, i - 1)
      BY <3>1 DEF PassRows
    <3> QED BY <1>3, <3>1, <3>2
  <2> QED BY <2>1, <2>2
<1>19. rows \in [1..k -> Seq(X)]
  <2>1. rows = [i \in 1..k |-> rows[i]]
    BY DEF PassRows
  <2>2. ASSUME NEW i \in 1..k PROVE rows[i] \in Seq(X)
    <3>1. i = 1 \/ i \in 2..k
      BY <1>15
    <3>2. i \in 2..k => i - 1 \in 1..m
      BY <1>1, <1>15
    <3> HIDE DEF rows
    <3>3. CASE i = 1
      BY <1>1, <1>18, <3>3 DEF A
    <3>4. CASE i \in 2..k
      BY <1>1, <1>18, <3>2, <3>4 DEF A
    <3> QED BY <3>1, <3>3, <3>4
  <2> HIDE DEF rows
  <2> QED BY <2>1, <2>2
<1> HIDE DEF rows
<1>20. f \in [0..k -> Seq(X)] /\ f[0] = << >> /\ \A i \in 1..k : f[i] = g[i - 1]
  <2>1. ASSUME NEW i \in 0..k PROVE (IF i = 0 THEN << >> ELSE g[i - 1]) \in Seq(X)
    <3>1. CASE i = 0
      BY <3>1
    <3>2. CASE i # 0
      <4>1. i - 1 \in 0..j
        BY <1>15, <3>2
      <4> QED BY <1>16, <3>2, <4>1
    <3> QED BY <3>1, <3>2
  <2> QED BY <1>15, <2>1
<1> HIDE DEF f
<1>21. ASSUME NEW i \in 1..k PROVE f[i] = f[i - 1] \o rows[i]
  <2>1. CASE i = 1
    <3>1. f[i - 1] = << >> /\ rows[i] = a.hwcs /\ f[i] = a.hwcs
      <4>1. f[1] = g[1 - 1] /\ 1 - 1 = 0 /\ i - 1 = 0
        BY <1>20, <2>1
      <4> QED BY <1>17, <1>18, <1>20, <2>1, <4>1
    <3>2. << >> \o a.hwcs = a.hwcs
      <4>1. a.hwcs \in Seq(X)
        BY <1>1 DEF A
      <4> QED BY <4>1
    <3> QED BY <3>1, <3>2
  <2>2. CASE i # 1
    <3>1. i \in 2..k /\ i - 1 \in 1..j /\ i - 1 \in 1..k
      BY <1>15, <2>2
    <3>2. f[i] = g[i - 1] /\ f[i - 1] = g[(i - 1) - 1]
      BY <1>20, <3>1
    <3>3. g[i - 1] = g[(i - 1) - 1] \o pass(i - 1)
      BY <1>17, <3>1, Zenon
    <3>4. rows[i] = pass(i - 1)
      BY <1>18, <3>1, Zenon
    <3> QED BY <3>2, <3>3, <3>4
  <2> QED BY <2>1, <2>2
<1>22. Joins(f, rows, k, X)
  <2> HIDE DEF k
  <2> QED BY <1>15, <1>19, <1>20, <1>21, Zenon DEF Joins
<1>23. NextContexts(t, a, n, per) = f[k] /\ (k < t.n_hwcs_per_core => Len(f[k]) >= n)
  <2>1. k \in 1..k /\ f[k] = g[j]
    BY <1>15, <1>20
  <2>2. g[m] = g[j] /\ (j < m => Len(g[m]) >= n)
    BY <1>14
  <2>3. NextContexts(t, a, n, per) = f[k]
    BY <1>2, <1>9, <2>1, <2>2, Zenon
  <2>4. k < t.n_hwcs_per_core => j < m
    BY <1>1, <1>3, <1>15
  <2> QED BY <2>1, <2>2, <2>3, <2>4
<1>24. k \in 1..t.n_hwcs_per_core
  BY <1>3, <1>15
<1>25. PassedBy(NextContexts(t, a, n, per), k, f, t, a, n, per, X)
  <2> HIDE DEF k
  <2> QED BY <1>22, <1>23, Zenon DEF PassedBy, rows
<1> QED BY <1>24, <1>25

(* The least of two numbers. *)
LEMMA MinOf ==
  ASSUME NEW a \in Nat, NEW b \in Nat
  PROVE  Min({a, b}) = IF a <= b THEN a ELSE b
<1>1. Min({a, b}) \in {a, b} /\ \A y \in {a, b} : Min({a, b}) <= y
  BY LeastIs
<1> QED BY <1>1

(* The socket and the core of a context, the cores of a socket. *)
SocketOf(t, h) == mctop_hwcid_get_socket(t, h)
CoreOf(t, h) == mctop_hwcid_get_core(t, h)
CoresIn(t) == PerSocketOf(t) \div t.n_hwcs_per_core

(* What the topologies are assumed to be, for the numbers of their parts. *)
LEMMA NumbersOf ==
  ASSUME NEW name \in DOMAIN Topologies, NEW t, t = Topologies[name], NEW s \in Sockets(t)
  PROVE  /\ t.n_sockets \in Nat \ {0} /\ t.n_hwcs \in Nat \ {0} /\ t.n_hwcs_per_core \in Nat \ {0}
         /\ PerSocketOf(t) \in Nat \ {0} /\ t.is_smt \in BOOLEAN
         /\ t.n_hwcs = t.n_sockets * PerSocketOf(t)
         /\ CoresIn(t) \in Nat \ {0} /\ CoresIn(t) * t.n_hwcs_per_core = PerSocketOf(t)
         /\ ~t.is_smt => t.n_hwcs_per_core = 1 /\ CoresIn(t) = PerSocketOf(t)
         /\ t.is_smt => Len(CoreHwcs(t, s)) = CoresIn(t)
<1>1. SocketsAreAlike(t) /\ ContextsAreApart(t)
  BY TopologiesAssumption
<1> DEFINE w == t.n_hwcs_per_core
           n == PerSocketOf(t)
           m == Len(CoreHwcs(t, s))
<1>2. /\ t.n_sockets \in Nat \ {0} /\ t.n_hwcs \in Nat \ {0} /\ w \in Nat \ {0}
      /\ n \in Nat \ {0} /\ t.is_smt \in BOOLEAN
      /\ t.is_smt => /\ CoreHwcs(t, s) \in Seq([1..t.n_hwcs_per_core -> Contexts(t)])
                     /\ m * w = n
  BY SocketIs
<1>3. t.n_hwcs = t.n_sockets * n
  BY <1>1, Zenon DEF ContextsAreApart, PerSocketOf
<1>4. ~t.is_smt => w = 1
  BY <1>1, Zenon DEF SocketsAreAlike
<1>5. t.is_smt => m \in Nat
  BY <1>2, LenProperties
<1> HIDE DEF w, n, m
<1>6. CASE t.is_smt
  <2>1. m * w = n /\ m \in Nat
    BY <1>2, <1>5, <1>6
  <2>2. (m * w) \div w = m /\ m # 0
    BY <1>2, <2>1
  <2>3. CoresIn(t) = m
    BY <2>1, <2>2 DEF CoresIn, n, w
  <2> QED BY <1>2, <1>3, <1>6, <2>1, <2>2, <2>3 DEF n, w, m
<1>7. CASE ~t.is_smt
  <2>1. w = 1 /\ n \div 1 = n /\ n * 1 = n
    BY <1>2, <1>4, <1>7
  <2>2. CoresIn(t) = n
    BY <2>1 DEF CoresIn, n, w
  <2> QED BY <1>2, <1>3, <1>7, <2>1, <2>2 DEF n, w
<1> QED BY <1>2, <1>6, <1>7

(* The i-th context of the c-th core of a socket. *)
At(t, s, c, i) == CoreHwcs(t, s)[c][i]

(* What the topologies are assumed to be, for their contexts. *)
SocketHas(t, s) ==
  /\ t.gs[socket(t, s)].hwcs \in Seq(Contexts(t)) /\ Len(t.gs[socket(t, s)].hwcs) = PerSocketOf(t)
  /\ IsInjective(t.gs[socket(t, s)].hwcs)
  /\ \A h \in ToSet(t.gs[socket(t, s)].hwcs) : SocketOf(t, h) = s
  /\ mctop_socket_get_bw_local_one(t, s) \in Nat \ {0}

CoresHave(t, s) ==
  /\ t.n_cores[s] = CoresIn(t)
  /\ CoreHwcs(t, s) \in [1..CoresIn(t) -> [1..t.n_hwcs_per_core -> Contexts(t)]]
  /\ \A c \in 1..CoresIn(t), i \in 1..t.n_hwcs_per_core :
       At(t, s, c, i) \in Contexts(t) /\ SocketOf(t, At(t, s, c, i)) = s
  /\ \A c, d \in 1..CoresIn(t), i, j \in 1..t.n_hwcs_per_core :
       /\ At(t, s, c, i) = At(t, s, d, j) => c = d /\ i = j
       /\ CoreOf(t, At(t, s, c, i)) = CoreOf(t, At(t, s, d, j)) <=> c = d

LEMMA ContextsOfSocket ==
  ASSUME NEW name \in DOMAIN Topologies, NEW t, t = Topologies[name], NEW s \in Sockets(t)
  PROVE  SocketHas(t, s) /\ (t.is_smt => CoresHave(t, s))
<1>1. ContextsAreApart(t)
  BY TopologiesAssumption
<1> DEFINE hwcs == t.gs[socket(t, s)].hwcs
           cores == CoreHwcs(t, s)
           places == (1..t.n_cores[s]) \X (1..t.n_hwcs_per_core)
           spot(p) == cores[p[1]][p[2]]
<1>2. /\ IsInjective(hwcs)
      /\ \A i \in DOMAIN hwcs : mctop_hwcid_get_socket(t, hwcs[i]) = s
      /\ mctop_socket_get_bw_local_one(t, s) \in Nat \ {0}
      /\ t.is_smt =>
           /\ Len(cores) = t.n_cores[s]
           /\ \A p \in places : mctop_hwcid_get_socket(t, spot(p)) = s
           /\ \A p, r \in places :
               /\ spot(p) = spot(r) => p = r
               /\ mctop_hwcid_get_core(t, spot(p)) = mctop_hwcid_get_core(t, spot(r)) <=> p[1] = r[1]
  BY <1>1, Zenon DEF ContextsAreApart
<1>3. hwcs \in Seq(Contexts(t)) /\ Len(hwcs) = PerSocketOf(t)
  BY SocketIs
<1>4. SocketHas(t, s)
  <2>1. ASSUME NEW h \in ToSet(hwcs) PROVE SocketOf(t, h) = s
    <3>1. PICK i \in DOMAIN hwcs : h = hwcs[i]
      BY <2>1 DEF ToSet
    <3> QED BY <1>2, <3>1, Zenon DEF SocketOf
  <2> QED BY <1>2, <1>3, <2>1, Zenon DEF SocketHas
<1>5. ASSUME t.is_smt PROVE CoresHave(t, s)
  <2> DEFINE w == t.n_hwcs_per_core
             n == t.n_cores[s]
             X == Contexts(t)
  <2>1. cores \in Seq([1..w -> X]) /\ Len(cores) = CoresIn(t) /\ Len(cores) = n
    <3>1. cores \in Seq([1..w -> X])
      BY <1>5, SocketIs
    <3>2. Len(cores) = CoresIn(t)
      BY <1>5, NumbersOf
    <3> QED BY <1>2, <1>5, <3>1, <3>2
  <2> HIDE DEF w, X, cores
  <2>2. 1..n = 1..CoresIn(t) /\ cores \in [1..CoresIn(t) -> [1..w -> X]]
    BY <2>1
  <2>4. ASSUME NEW c \in 1..CoresIn(t), NEW i \in 1..w
        PROVE  /\ At(t, s, c, i) \in X /\ SocketOf(t, At(t, s, c, i)) = s
               /\ <<c, i>> \in places /\ At(t, s, c, i) = spot(<<c, i>>)
    <3>1. <<c, i>> \in places
      BY <2>2 DEF w
    <3>2. At(t, s, c, i) = spot(<<c, i>>)
      BY DEF At, cores
    <3>3. cores[c][i] \in X
      BY <2>2
    <3>4. spot(<<c, i>>) = cores[c][i]
      OBVIOUS
    <3> HIDE DEF places, spot
    <3>5. mctop_hwcid_get_socket(t, spot(<<c, i>>)) = s
      BY <1>2, <1>5, <3>1
    <3> QED BY <3>1, <3>2, <3>3, <3>4, <3>5 DEF SocketOf
  <2>5. ASSUME NEW c \in 1..CoresIn(t), NEW d \in 1..CoresIn(t), NEW i \in 1..w, NEW j \in 1..w
        PROVE  /\ At(t, s, c, i) = At(t, s, d, j) => c = d /\ i = j
               /\ CoreOf(t, At(t, s, c, i)) = CoreOf(t, At(t, s, d, j)) <=> c = d
    <3> DEFINE p == <<c, i>>
               r == <<d, j>>
    <3>1. p \in places /\ r \in places /\ At(t, s, c, i) = spot(p) /\ At(t, s, d, j) = spot(r)
      BY <2>4
    <3>2. /\ spot(p) = spot(r) => p = r
          /\ mctop_hwcid_get_core(t, spot(p)) = mctop_hwcid_get_core(t, spot(r)) <=> p[1] = r[1]
      <4> HIDE DEF places, spot, p, r
      <4> QED BY <1>2, <1>5, <3>1
    <3>3. p[1] = c /\ r[1] = d /\ (p = r => c = d /\ i = j)
      OBVIOUS
    <3> HIDE DEF places, spot, p, r
    <3> QED BY <3>1, <3>2, <3>3 DEF CoreOf
  <2>6. cores \in [1..CoresIn(t) -> [1..w -> X]] /\ n = CoresIn(t)
    BY <2>1, <2>2
  <2>7. \A c \in 1..CoresIn(t), i \in 1..w :
           At(t, s, c, i) \in X /\ SocketOf(t, At(t, s, c, i)) = s
    BY <2>4, Zenon
  <2>8. \A c, d \in 1..CoresIn(t), i, j \in 1..w :
           /\ At(t, s, c, i) = At(t, s, d, j) => c = d /\ i = j
           /\ CoreOf(t, At(t, s, c, i)) = CoreOf(t, At(t, s, d, j)) <=> c = d
    BY <2>5, Zenon
  <2> QED BY <2>6, <2>7, <2>8, Zenon DEF CoresHave, w, X, cores
<1> QED BY <1>4, <1>5

(* Some contexts of a socket, each once. *)
RowOf(q, t, s) ==
  /\ q \in Seq(Contexts(t)) /\ IsInjective(q)
  /\ \A h \in ToSet(q) : SocketOf(t, h) = s

\* How many contexts of a socket one pass can take.
Width(t, sf) == IF sf < 0 THEN CoresIn(t) ELSE PerSocketOf(t)

(* Contexts at two places of a socket. *)
LEMMA CoresDiffer ==
  ASSUME NEW t, NEW s, CoresHave(t, s), NEW c \in 1..CoresIn(t), NEW d \in 1..CoresIn(t),
         NEW i \in 1..t.n_hwcs_per_core, NEW j \in 1..t.n_hwcs_per_core
  PROVE  /\ At(t, s, c, i) = At(t, s, d, j) => c = d /\ i = j
         /\ CoreOf(t, At(t, s, c, i)) = CoreOf(t, At(t, s, d, j)) <=> c = d
         /\ At(t, s, c, i) \in Contexts(t) /\ SocketOf(t, At(t, s, c, i)) = s
BY DEF CoresHave

(* The first context of each core, the second, and so on. *)
LEMMA NthOfCores ==
  ASSUME NEW t, NEW s, CoresHave(t, s), CoresIn(t) \in Nat,
         NEW i \in 1..t.n_hwcs_per_core, NEW q, q = [c \in 1..CoresIn(t) |-> At(t, s, c, i)]
  PROVE  RowOf(q, t, s) /\ Len(q) = CoresIn(t) /\ \A c \in 1..CoresIn(t) : q[c] = At(t, s, c, i)
<1> DEFINE n == CoresIn(t)
           w == t.n_hwcs_per_core
           X == Contexts(t)
           spot(c) == At(t, s, c, i)
<1>1. \A c \in 1..n : spot(c) \in X /\ SocketOf(t, spot(c)) = s
  BY Zenon DEF CoresHave
<1>2. \A c, d \in 1..n : spot(c) = spot(d) => c = d
  BY CoresDiffer
<1>3. q = [c \in 1..n |-> spot(c)] /\ n \in Nat
  OBVIOUS
<1> HIDE DEF n, w, X, spot
<1>4. q \in Seq(X) /\ Len(q) = n /\ DOMAIN q = 1..n /\ \A c \in 1..n : q[c] = spot(c)
  BY <1>1, <1>3
<1>5. IsInjective(q)
  BY <1>2, <1>4 DEF IsInjective
<1>6. \A h \in ToSet(q) : SocketOf(t, h) = s
  BY <1>1, <1>4 DEF ToSet
<1> QED BY <1>4, <1>5, <1>6, Zenon DEF RowOf, n, X, spot

(* Rows of one socket without a context in common. *)
RowsOf(q, n, w, t, s) ==
  /\ n \in Nat /\ w \in Nat /\ q = [i \in 1..n |-> q[i]]
  /\ \A i \in 1..n : RowOf(q[i], t, s) /\ Len(q[i]) = w
  /\ \A i, j \in 1..n : i # j => ToSet(q[i]) \cap ToSet(q[j]) = {}

LEMMA FlattenOfSocket ==
  ASSUME NEW t, NEW s, NEW n, NEW w, NEW q, RowsOf(q, n, w, t, s)
  PROVE  RowOf(FlattenSeq(q), t, s) /\ Len(FlattenSeq(q)) = n * w
<1> DEFINE X == Contexts(t)
<1>1. q \in [1..n -> Seq(X)]
  <2>1. \A i \in 1..n : q[i] \in Seq(X)
    BY DEF RowOf, RowsOf
  <2> HIDE DEF X
  <2> QED BY <2>1 DEF RowsOf
<1>2. Apart(q, n)
  BY DEF RowOf, Apart, RowsOf
<1>0. n \in Nat /\ w \in Nat /\ \A i \in 1..n : Len(q[i]) = w
  BY DEF RowsOf
<1> HIDE DEF X
<1>3. /\ FlattenSeq(q) \in Seq(X) /\ ToSet(FlattenSeq(q)) = MembersUpTo(q, n)
      /\ IsInjective(FlattenSeq(q)) /\ Len(FlattenSeq(q)) = n * w
  BY <1>0, <1>1, <1>2, FlattenIs
<1>4. ASSUME NEW h \in MembersUpTo(q, n) PROVE SocketOf(t, h) = s
  <2>1. PICK i \in 1..n : h \in ToSet(q[i])
    BY <1>4 DEF MembersUpTo
  <2> QED BY <2>1 DEF RowOf, RowsOf
<1> QED BY <1>3, <1>4 DEF RowOf, X

(* mctop_socket_get_hwc_ids: contexts of the socket, each once, as many as there are or *)
(* as are asked for; one of each core, for a pass.                                      *)
LEMMA IdsIs ==
  ASSUME NEW name \in DOMAIN Topologies, NEW t, t = Topologies[name], NEW s \in Sockets(t),
         NEW per \in Nat, NEW sf \in Int, NEW hwc \in 0..(t.n_hwcs_per_core - 1),
         NEW q, q = mctop_socket_get_hwc_ids(t, s, per, sf, hwc)
  PROVE  /\ RowOf(q, t, s)
         /\ Len(q) = IF per <= Width(t, sf) THEN per ELSE Width(t, sf)
         /\ t.is_smt /\ sf < 0 => \A c \in 1..Len(q) : q[c] = At(t, s, c, hwc + 1)
<1> DEFINE cores == CoreHwcs(t, s)
           n == CoresIn(t)
           w == t.n_hwcs_per_core
           X == Contexts(t)
           all == t.gs[socket(t, s)].hwcs
           nth(ht) == [c \in DOMAIN cores |-> cores[c][ht]]
           p == CASE ~t.is_smt -> all
                  [] t.is_smt /\ sf < 0 -> nth(hwc + 1)
                  [] t.is_smt /\ sf = 0 -> FlattenSeq([ht \in 1..w |-> nth(ht)])
                  [] OTHER -> FlattenSeq(cores)
<1>1. q = AtMost(p, per)
  BY Zenon DEF mctop_socket_get_hwc_ids
<1>2. /\ w \in Nat \ {0} /\ n \in Nat \ {0} /\ t.is_smt \in BOOLEAN
      /\ PerSocketOf(t) \in Nat \ {0} /\ n * w = PerSocketOf(t)
      /\ ~t.is_smt => n = PerSocketOf(t)
  BY NumbersOf
<1>3. SocketHas(t, s) /\ (t.is_smt => CoresHave(t, s))
  BY ContextsOfSocket
<1>4. Width(t, sf) \in Nat
  BY <1>2 DEF Width
<1>5. ASSUME t.is_smt, NEW ht \in 1..w
      PROVE  /\ RowOf(nth(ht), t, s) /\ Len(nth(ht)) = n
             /\ nth(ht) = [c \in 1..n |-> At(t, s, c, ht)]
  <2>1. DOMAIN cores = 1..n
    BY <1>3, <1>5 DEF CoresHave
  <2>2. nth(ht) = [c \in 1..n |-> At(t, s, c, ht)]
    BY <2>1 DEF At
  <2> HIDE DEF nth
  <2>3. n \in Nat /\ CoresHave(t, s)
    BY <1>2, <1>3, <1>5
  <2> QED BY <2>2, <2>3, NthOfCores
<1>6. hwc + 1 \in 1..w
  BY <1>2
<1> HIDE DEF w, n
<1>7. RowOf(p, t, s) /\ Len(p) = Width(t, sf)
  <2>1. CASE ~t.is_smt
    <3>1. p = all
      BY <2>1
    <3> HIDE DEF p
    <3>2. RowOf(all, t, s) /\ Len(all) = PerSocketOf(t)
      BY <1>3 DEF SocketHas, RowOf
    <3> QED BY <1>2, <2>1, <3>1, <3>2 DEF Width, n
  <2>2. CASE t.is_smt /\ sf < 0
    <3>1. p = nth(hwc + 1)
      BY <2>2
    <3> HIDE DEF p, nth
    <3> QED BY <1>5, <1>6, <2>2, <3>1 DEF Width, n
  <2>3. CASE t.is_smt /\ sf = 0
    <3> DEFINE r == [ht \in 1..w |-> nth(ht)]
    <3>1. p = FlattenSeq(r)
      BY <2>3
    <3> HIDE DEF p
    <3>2. ASSUME NEW i \in 1..w
          PROVE  RowOf(r[i], t, s) /\ Len(r[i]) = n /\ r[i] = [c \in 1..n |-> At(t, s, c, i)]
      <4>1. r[i] = nth(i)
        OBVIOUS
      <4> HIDE DEF r, nth
      <4> QED BY <1>5, <2>3, <4>1
    <3>3. r = [i \in 1..w |-> r[i]]
      OBVIOUS
    <3> HIDE DEF r
    <3>4. ASSUME NEW i \in 1..w, NEW j \in 1..w, i # j PROVE ToSet(r[i]) \cap ToSet(r[j]) = {}
      <4>1. ToSet(r[i]) = {At(t, s, c, i) : c \in 1..n} /\ ToSet(r[j]) = {At(t, s, c, j) : c \in 1..n}
        <5>1. r[i] = [c \in 1..n |-> At(t, s, c, i)] /\ r[j] = [c \in 1..n |-> At(t, s, c, j)]
          BY <3>2
        <5> QED BY <5>1 DEF ToSet
      <4>2. \A c, d \in 1..n : At(t, s, c, i) # At(t, s, d, j)
        BY <1>3, <2>3, <3>4, CoresDiffer DEF n, w
      <4> QED BY <4>1, <4>2
    <3>5. RowOf(FlattenSeq(r), t, s) /\ Len(FlattenSeq(r)) = w * n
      <4>1. w \in Nat /\ n \in Nat
        BY <1>2
      <4>2. \A i \in 1..w : RowOf(r[i], t, s) /\ Len(r[i]) = n
        BY <3>2
      <4>3. \A i, j \in 1..w : i # j => ToSet(r[i]) \cap ToSet(r[j]) = {}
        BY <3>4
      <4>4. RowsOf(r, w, n, t, s)
        BY <3>3, <4>1, <4>2, <4>3 DEF RowsOf
      <4> QED BY <4>4, FlattenOfSocket
    <3>6. w * n = PerSocketOf(t)
      BY <1>2
    <3> QED BY <2>3, <3>1, <3>5, <3>6 DEF Width
  <2>4. CASE t.is_smt /\ sf > 0
    <3>1. p = FlattenSeq(cores)
      BY <2>4
    <3> HIDE DEF p, nth
    <3>2. cores \in [1..n -> [1..w -> X]]
      BY <1>3, <2>4 DEF CoresHave, n, w
    <3>3. ASSUME NEW c \in 1..n
          PROVE  RowOf(cores[c], t, s) /\ Len(cores[c]) = w
      <4> DEFINE r == cores[c]
      <4>1. r \in [1..w -> X] /\ w \in Nat
        BY <1>2, <3>2
      <4>2. \A i \in 1..w : r[i] = At(t, s, c, i)
        BY DEF At
      <4> HIDE DEF r
      <4>3. r \in Seq(X) /\ Len(r) = w /\ DOMAIN r = 1..w
        BY <4>1
      <4>4. \A i, j \in 1..w : At(t, s, c, i) = At(t, s, c, j) => i = j
        BY <1>3, <2>4, CoresDiffer DEF n, w
      <4>5. \A i \in 1..w : SocketOf(t, At(t, s, c, i)) = s
        BY <1>3, <2>4, CoresDiffer DEF n, w
      <4>6. IsInjective(r)
        BY <4>2, <4>3, <4>4 DEF IsInjective
      <4>7. \A h \in ToSet(r) : SocketOf(t, h) = s
        BY <4>2, <4>3, <4>5 DEF ToSet
      <4> QED BY <4>3, <4>6, <4>7, Zenon DEF RowOf, r, X
    <3>4. ASSUME NEW c \in 1..n, NEW d \in 1..n, c # d PROVE ToSet(cores[c]) \cap ToSet(cores[d]) = {}
      <4>1. ToSet(cores[c]) = {At(t, s, c, i) : i \in 1..w} /\ ToSet(cores[d]) = {At(t, s, d, i) : i \in 1..w}
        <5>1. DOMAIN cores[c] = 1..w /\ DOMAIN cores[d] = 1..w
          BY <3>2
        <5> QED BY <5>1 DEF ToSet, At
      <4>2. \A i, j \in 1..w : At(t, s, c, i) # At(t, s, d, j)
        BY <1>3, <2>4, <3>4, CoresDiffer DEF n, w
      <4> QED BY <4>1, <4>2
    <3>5. RowOf(FlattenSeq(cores), t, s) /\ Len(FlattenSeq(cores)) = n * w
      <4>1. w \in Nat /\ n \in Nat
        BY <1>2
      <4>2. cores = [c \in 1..n |-> cores[c]]
        BY <3>2
      <4> HIDE DEF cores
      <4>3. \A i \in 1..n : RowOf(cores[i], t, s) /\ Len(cores[i]) = w
        BY <3>3
      <4>4. \A i, j \in 1..n : i # j => ToSet(cores[i]) \cap ToSet(cores[j]) = {}
        BY <3>4
      <4>5. RowsOf(cores, n, w, t, s)
        BY <4>1, <4>2, <4>3, <4>4 DEF RowsOf
      <4> QED BY <4>5, FlattenOfSocket
    <3> QED BY <1>2, <2>4, <3>1, <3>5 DEF Width
  <2> QED BY <1>2, <2>1, <2>2, <2>3, <2>4
<1>8. t.is_smt /\ sf < 0 => p = [c \in 1..n |-> At(t, s, c, hwc + 1)]
  <2> SUFFICES ASSUME t.is_smt /\ sf < 0 PROVE p = [c \in 1..n |-> At(t, s, c, hwc + 1)]
    OBVIOUS
  <2>1. p = nth(hwc + 1)
    OBVIOUS
  <2> HIDE DEF p, nth
  <2> QED BY <1>5, <1>6, <2>1
<1> HIDE DEF p
<1>9. p \in Seq(X) /\ Len(p) \in Nat
  BY <1>7, <1>4 DEF RowOf
<1> HIDE DEF X
<1>10. /\ q \in Seq(X) /\ ToSet(q) \subseteq ToSet(p)
       /\ IsInjective(p) => IsInjective(q)
       /\ Len(q) = IF Len(p) <= per THEN Len(p) ELSE per
       /\ \A i \in 1..Len(q) : q[i] = p[i]
  BY <1>1, <1>9, FirstOf
<1>11. RowOf(q, t, s)
  BY <1>7, <1>10 DEF RowOf, X
<1>12. Len(q) = IF per <= Width(t, sf) THEN per ELSE Width(t, sf)
  BY <1>4, <1>7, <1>10
<1>13. ASSUME t.is_smt, sf < 0, NEW c \in 1..Len(q) PROVE q[c] = At(t, s, c, hwc + 1)
  <2>1. c \in 1..n
    <3>1. Len(q) <= n /\ Len(q) \in Nat
      BY <1>2, <1>4, <1>12, <1>13 DEF Width, n
    <3> QED BY <1>2, <3>1
  <2> QED BY <1>8, <1>10, <1>13, <2>1
<1> QED BY <1>11, <1>12, <1>13

(* What is joined first stays where it is. *)
Continues(q, p) == Len(p) <= Len(q) /\ \A i \in 1..Len(p) : q[i] = p[i]

LEMMA JoinsGrow ==
  ASSUME NEW f, NEW q, NEW n, NEW X, Joins(f, q, n, X), NEW j \in 0..n, NEW m \in j..n
  PROVE  Continues(f[m], f[j])
<1> DEFINE S == {k \in 0..(n - j) : Continues(f[j + k], f[j])}
<1>0. n \in Nat /\ n - j \in Nat
  BY DEF Joins
<1>1. f[j] \in Seq(X) /\ Len(f[j]) \in Nat
  BY LenProperties DEF Joins
<1>2. 0 \in S
  <2>1. j + 0 = j
    BY <1>0
  <2>2. Continues(f[j], f[j])
    BY <1>1 DEF Continues
  <2> QED BY <1>0, <2>1, <2>2
<1>3. ASSUME NEW k \in 0..((n - j) - 1), k \in S PROVE k + 1 \in S
  <2> DEFINE x == j + k
  <2>1. x \in 0..(n - 1) /\ k + 1 \in 0..(n - j) /\ j + (k + 1) = x + 1
    BY <1>0
  <2>2. Continues(f[x], f[j])
    BY <1>3
  <2> HIDE DEF x, S
  <2>3. JoinsNext(f, q, n, X, x)
    BY <2>1, JoinStep
  <2>4. /\ f[x] \in Seq(X) /\ q[x + 1] \in Seq(X) /\ f[x + 1] = f[x] \o q[x + 1]
        /\ Len(f[x + 1]) = Len(f[x]) + Len(q[x + 1]) /\ Len(f[x]) \in Nat /\ Len(q[x + 1]) \in Nat
    BY <2>3, Zenon DEF JoinsNext
  <2>5. \A i \in 1..Len(f[x]) : f[x + 1][i] = f[x][i]
    <3> DEFINE p == f[x]
               r == q[x + 1]
    <3>1. p \in Seq(X) /\ r \in Seq(X) /\ f[x + 1] = p \o r
      BY <2>4
    <3> HIDE DEF p, r
    <3>2. \A i \in 1..Len(p) : (p \o r)[i] = p[i]
      BY <3>1, JoinedIs
    <3> QED BY <3>1, <3>2 DEF p
  <2>6. Continues(f[x + 1], f[j])
    <3>1. Len(f[j]) <= Len(f[x]) /\ \A i \in 1..Len(f[j]) : f[x][i] = f[j][i]
      BY <2>2 DEF Continues
    <3>2. Len(f[j]) <= Len(f[x + 1])
      <4> DEFINE a == Len(f[j])
                 b == Len(f[x])
                 c == Len(f[x + 1])
                 d == Len(q[x + 1])
      <4>1. a \in Nat /\ b \in Nat /\ d \in Nat /\ c = b + d /\ a <= b
        BY <1>1, <2>4, <3>1
      <4> HIDE DEF a, b, c, d
      <4>2. a <= c
        BY <4>1
      <4> QED BY <4>2 DEF a, c
    <3>3. ASSUME NEW i \in 1..Len(f[j]) PROVE f[x + 1][i] = f[j][i]
      <4>1. i \in 1..Len(f[x])
        BY <1>1, <2>4, <3>1
      <4> QED BY <2>5, <3>1, <4>1
    <3> QED BY <3>2, <3>3 DEF Continues
  <2> QED BY <2>1, <2>6 DEF S
<1>4. 0..(n - j) \subseteq S
  <2> HIDE DEF S
  <2> QED BY <1>0, <1>2, <1>3, Inductive
<1>5. m - j \in 0..(n - j) /\ j + (m - j) = m
  BY <1>0
<1>6. m - j \in S
  <2> HIDE DEF S
  <2> QED BY <1>4, <1>5
<1> QED BY <1>5, <1>6

(* The c-th member of the i-th row. *)
LEMMA JoinsAt ==
  ASSUME NEW f, NEW q, NEW n, NEW X, Joins(f, q, n, X), NEW i \in 1..n, NEW m \in i..n,
         NEW c \in 1..Len(q[i])
  PROVE  Len(f[i - 1]) + c \in 1..Len(f[m]) /\ f[m][Len(f[i - 1]) + c] = q[i][c]
<1> DEFINE p == f[i - 1]
           r == q[i]
<1>0. n \in Nat /\ i - 1 \in 0..(n - 1) /\ (i - 1) + 1 = i /\ i \in 0..n
  BY DEF Joins
<1>1. JoinsNext(f, q, n, X, i - 1)
  BY <1>0, JoinStep
<1>2. /\ p \in Seq(X) /\ r \in Seq(X) /\ f[i] = p \o r /\ Len(f[i]) = Len(p) + Len(r)
      /\ Len(p) \in Nat /\ Len(r) \in Nat
  BY <1>0, <1>1, Zenon DEF JoinsNext
<1>3. Continues(f[m], f[i])
  BY <1>0, JoinsGrow
<1>4. Len(f[m]) \in Nat
  <2>1. m \in 0..n
    BY <1>0
  <2>2. f[m] \in Seq(X)
    BY <2>1 DEF Joins
  <2> QED BY <2>2, LenProperties
<1> HIDE DEF p, r
<1>5. c \in 1..Len(r)
  BY DEF r
<1>6. (p \o r)[Len(p) + c] = r[c]
  BY <1>2, <1>5, JoinedIs
<1>7. Len(p) + c \in 1..Len(f[i])
  BY <1>2, <1>5
<1>8. Len(p) + c \in 1..Len(f[m]) /\ f[m][Len(p) + c] = f[i][Len(p) + c]
  BY <1>2, <1>3, <1>4, <1>7 DEF Continues
<1> QED BY <1>2, <1>6, <1>8 DEF p, r

(* The contexts of a socket that a list has, and their cores. *)
TakenOf(t, hwcs, s) == {h \in ToSet(hwcs) : SocketOf(t, h) = s}
CoresTakenOf(t, hwcs, s) == {CoreOf(t, h) : h \in TakenOf(t, hwcs, s)}

(* Contexts, each once, of the sockets that are listed and of each of these. *)
Spread(t, hwcs, sockets) ==
  /\ hwcs \in Seq(Contexts(t)) /\ IsInjective(hwcs)
  /\ sockets \in Seq(Sockets(t)) /\ IsInjective(sockets)
  /\ ToSet(sockets) = {SocketOf(t, h) : h \in ToSet(hwcs)}

(* Rows of w contexts, one of each socket, joined; before the last there are less than n. *)
Laid(f, q, k, w, t, sockets, n) ==
  /\ k \in Nat \ {0} /\ w \in Nat \ {0} /\ n \in Nat \ {0}
  /\ sockets \in [1..k -> Sockets(t)] /\ IsInjective(sockets)
  /\ Joins(f, q, k, Contexts(t))
  /\ \A i \in 1..k : RowOf(q[i], t, sockets[i]) /\ Len(q[i]) = w
  /\ (k - 1) * w < n

LEMMA LaidIs ==
  ASSUME NEW f, NEW q, NEW k, NEW w, NEW t, NEW sockets, NEW n, Laid(f, q, k, w, t, sockets, n)
  PROVE  /\ f[k] \in Seq(Contexts(t)) /\ IsInjective(f[k]) /\ Len(f[k]) = k * w
         /\ \A h \in ToSet(f[k]) : SocketOf(t, h) \in ToSet(sockets)
         /\ \A i \in 1..k : TakenOf(t, f[k], sockets[i]) = ToSet(q[i])
         /\ \A i \in 1..k : \E x \in 1..Len(f[k]) : x <= n /\ SocketOf(t, f[k][x]) = sockets[i]
<1> DEFINE X == Contexts(t)
<1>1. /\ k \in Nat \ {0} /\ w \in Nat \ {0} /\ n \in Nat \ {0}
      /\ sockets \in [1..k -> Sockets(t)] /\ IsInjective(sockets)
      /\ Joins(f, q, k, X) /\ (k - 1) * w < n
      /\ \A i \in 1..k : RowOf(q[i], t, sockets[i]) /\ Len(q[i]) = w
  BY DEF Laid
<1> HIDE DEF X
<1>2. \A i \in 1..k : /\ IsInjective(q[i]) /\ q[i] \in Seq(X) /\ Len(q[i]) = w
                      /\ \A h \in ToSet(q[i]) : SocketOf(t, h) = sockets[i]
  BY <1>1 DEF RowOf, X
<1>3. \A i, j \in 1..k : i # j => sockets[i] # sockets[j]
  BY <1>1 DEF IsInjective
<1>4. Apart(q, k)
  <2>1. ASSUME NEW i \in 1..k, NEW j \in 1..k, i # j PROVE ToSet(q[i]) \cap ToSet(q[j]) = {}
    BY <1>2, <1>3, <2>1
  <2> QED BY <1>2, <2>1 DEF Apart
<1>5. k \in 0..k /\ k \in Nat
  BY <1>1
<1>6. f[k] \in Seq(X) /\ ToSet(f[k]) = MembersUpTo(q, k) /\ IsInjective(f[k])
  BY <1>1, <1>4, <1>5, JoinsAre
<1>7. \A j \in 0..k : Len(f[j]) = j * w
  <2>1. EvenJoins(f, q, k, X, w)
    BY <1>1 DEF EvenJoins
  <2> QED BY <2>1, EvenLength
<1>8. \A h \in ToSet(f[k]) : SocketOf(t, h) \in ToSet(sockets)
  <2> TAKE h \in ToSet(f[k])
  <2>1. PICK i \in 1..k : h \in ToSet(q[i])
    BY <1>6 DEF MembersUpTo
  <2>2. SocketOf(t, h) = sockets[i] /\ DOMAIN sockets = 1..k
    BY <1>1, <1>2, <2>1
  <2> QED BY <2>2 DEF ToSet
<1>9. ASSUME NEW i \in 1..k PROVE TakenOf(t, f[k], sockets[i]) = ToSet(q[i])
  <2>1. ASSUME NEW h \in TakenOf(t, f[k], sockets[i]) PROVE h \in ToSet(q[i])
    <3>1. h \in MembersUpTo(q, k) /\ SocketOf(t, h) = sockets[i]
      BY <1>6 DEF TakenOf
    <3>2. PICK j \in 1..k : h \in ToSet(q[j])
      BY <3>1 DEF MembersUpTo
    <3>3. sockets[i] = sockets[j]
      BY <1>2, <3>1, <3>2
    <3> QED BY <1>3, <3>2, <3>3
  <2>2. ASSUME NEW h \in ToSet(q[i]) PROVE h \in TakenOf(t, f[k], sockets[i])
    <3>1. h \in ToSet(f[k])
      BY <1>6 DEF MembersUpTo
    <3> QED BY <1>2, <3>1 DEF TakenOf
  <2> QED BY <2>1, <2>2
<1>10. ASSUME NEW i \in 1..k
       PROVE  \E x \in 1..Len(f[k]) : x <= n /\ SocketOf(t, f[k][x]) = sockets[i]
  <2> DEFINE x == Len(f[i - 1]) + 1
  <2>1. 1 \in 1..Len(q[i]) /\ k \in i..k /\ i - 1 \in 0..k
    BY <1>1, <1>2
  <2>2. x \in 1..Len(f[k]) /\ f[k][x] = q[i][1]
    BY <1>1, <2>1, JoinsAt
  <2>3. x = (i - 1) * w + 1
    BY <1>7, <2>1
  <2>4. (i - 1) * w <= (k - 1) * w
    <3>1. i - 1 <= k - 1 /\ i - 1 \in Nat /\ k - 1 \in Nat /\ w \in Nat
      BY <1>1
    <3> HIDE DEF x
    <3> QED BY <3>1
  <2>5. x <= n
    <3>1. (i - 1) * w \in Nat /\ (k - 1) * w \in Nat
      BY <1>1
    <3>2. x = (i - 1) * w + 1 /\ n \in Nat /\ (k - 1) * w < n
      BY <1>1, <2>3
    <3> DEFINE u == (i - 1) * w
               v == (k - 1) * w
    <3>3. u \in Nat /\ v \in Nat /\ u <= v /\ x = u + 1 /\ n \in Nat /\ v < n
      BY <2>4, <3>1, <3>2, Zenon
    <3> HIDE DEF u, v, x
    <3> QED BY <3>3
  <2>6. q[i][1] \in ToSet(q[i])
    <3>1. DOMAIN q[i] = 1..Len(q[i])
      BY <1>2
    <3> QED BY <2>1, <3>1 DEF ToSet
  <2>7. SocketOf(t, q[i][1]) = sockets[i]
    BY <1>2, <2>6
  <2> HIDE DEF x
  <2> QED BY <2>2, <2>5, <2>7
<1> QED BY <1>5, <1>6, <1>7, <1>8, <1>9, <1>10 DEF X

(* The first n of a list that begins with such rows. *)
LEMMA LaidFirst ==
  ASSUME NEW f, NEW q, NEW k, NEW w, NEW t, NEW sockets, NEW n, Laid(f, q, k, w, t, sockets, n),
         NEW all \in Seq(Contexts(t)), IsInjective(all), Continues(all, f[k]), Len(all) >= n,
         \A h \in ToSet(all) : SocketOf(t, h) \in ToSet(sockets)
  PROVE  Spread(t, AtMost(all, n), sockets) /\ Len(AtMost(all, n)) = n
<1> DEFINE r == AtMost(all, n)
<1>1. /\ k \in Nat \ {0} /\ n \in Nat \ {0}
      /\ sockets \in [1..k -> Sockets(t)] /\ IsInjective(sockets)
  BY DEF Laid
<1>2. Len(all) \in Nat /\ n \in Nat
  BY <1>1
<1>3. /\ r \in Seq(Contexts(t)) /\ ToSet(r) \subseteq ToSet(all) /\ IsInjective(r)
      /\ Len(r) = IF Len(all) <= n THEN Len(all) ELSE n
      /\ \A i \in 1..Len(r) : r[i] = all[i]
  BY <1>2, FirstOf
<1> HIDE DEF r
<1>4. Len(r) = n
  BY <1>2, <1>3
<1>5. ToSet(sockets) \subseteq {SocketOf(t, h) : h \in ToSet(r)}
  <2> SUFFICES ASSUME NEW i \in 1..k PROVE sockets[i] \in {SocketOf(t, h) : h \in ToSet(r)}
    BY <1>1 DEF ToSet
  <2>1. f[k] \in Seq(Contexts(t))
    BY LaidIs
  <2>2. PICK x \in 1..Len(f[k]) : x <= n /\ SocketOf(t, f[k][x]) = sockets[i]
    BY LaidIs
  <2>3. all[x] = f[k][x]
    BY <2>2 DEF Continues
  <2>4. Len(f[k]) \in Nat
    BY <2>1, LenProperties
  <2>5. x \in 1..Len(r) /\ DOMAIN r = 1..Len(r)
    BY <1>1, <1>3, <1>4, <2>2, <2>4
  <2>6. r[x] = f[k][x] /\ r[x] \in ToSet(r)
    BY <1>3, <2>3, <2>5 DEF ToSet
  <2> QED BY <2>2, <2>6
<1>6. {SocketOf(t, h) : h \in ToSet(r)} \subseteq ToSet(sockets)
  BY <1>3
<1>7. sockets \in Seq(Sockets(t))
  BY <1>1
<1> QED BY <1>1, <1>3, <1>4, <1>5, <1>6, <1>7 DEF r, Spread

(* There is a socket. *)
LEMMA SomeSocket ==
  ASSUME NEW name \in DOMAIN Topologies, NEW t, t = Topologies[name]
  PROVE  0 \in Sockets(t)
<1>1. SocketsAreAlike(t)
  BY TopologiesAssumption
<1>2. t.n_sockets \in Nat \ {0}
  BY <1>1 DEF SocketsAreAlike
<1> QED BY <1>2 DEF Sockets

(* Every socket is visited once. *)
LEMMA VisitedOnce ==
  ASSUME NEW name \in DOMAIN Topologies, NEW t, t = Topologies[name], NEW start \in Sockets(t)
  PROVE  /\ Visited(t, start) \in [1..t.n_sockets -> Sockets(t)] /\ IsInjective(Visited(t, start))
         /\ Visited(t, start) = VisitOrder(t, start)
<1> DEFINE n == t.n_sockets
           V == Visited(t, start)
           S == Sockets(t)
<1>1. n \in Nat \ {0} /\ S = 0..(n - 1)
  BY SocketIs DEF Sockets
<1>2. V \in [1..n -> S] /\ \A r \in S : \E i \in 1..n : r = V[i]
  BY VisitedLatencies
<1>3. V = VisitOrder(t, start)
  BY VisitedIs
<1> HIDE DEF n, V
<1>4. IsFiniteSet(1..n) /\ Cardinality(1..n) = n /\ Cardinality(S) = n
  <2>1. 0 \in Int /\ n - 1 \in Int /\ 1 \in Int /\ n \in Int
    BY <1>1
  <2>2. /\ IsFiniteSet(1..n) /\ Cardinality(1..n) = IF 1 > n THEN 0 ELSE (n - 1) + 1
        /\ Cardinality(0..(n - 1)) = IF 0 > n - 1 THEN 0 ELSE ((n - 1) - 0) + 1
    BY <2>1, FS_Interval
  <2> QED BY <1>1, <2>2
<1> HIDE DEF S
<1>5. V \in Surjection(1..n, S)
  BY <1>2 DEF Surjection
<1>6. V \in Injection(1..n, S)
  BY <1>4, <1>5, FS_Surjection
<1>7. IsInjective(V)
  BY <1>6 DEF Injection, IsInjective
<1> QED BY <1>2, <1>3, <1>7 DEF n, V, S

\* How many contexts a socket gives to one pass.
RowSize(t, per, sf) == IF per <= Width(t, sf) THEN per ELSE Width(t, sf)

(* The sockets that are filled, and the rows of contexts they give. *)
FirstLaid(a, f, q, k, t, n, per, sf) ==
  /\ Laid(f, q, k, RowSize(t, per, sf), t, a.sockets, n)
  /\ a.hwcs = f[k] /\ (k < t.n_sockets => Len(f[k]) >= n)
  /\ t.is_smt /\ sf < 0 =>
       \A i \in 1..k : \A c \in 1..RowSize(t, per, sf) : q[i][c] = At(t, a.sockets[i], c, 1)

LEMMA FirstRows ==
  ASSUME NEW name \in DOMAIN Topologies, NEW t, t = Topologies[name], NEW start \in Sockets(t),
         NEW n \in Nat \ {0}, NEW per \in Nat \ {0}, NEW sf \in Int,
         NEW a, a = FillSockets(t, VisitOrder(t, start), n, per, sf)
  PROVE  \E k \in 1..t.n_sockets : \E f : \E q : FirstLaid(a, f, q, k, t, n, per, sf)
<1> DEFINE m == t.n_sockets
           V == Visited(t, start)
           S == Sockets(t)
           X == Contexts(t)
           w == RowSize(t, per, sf)
           ids(s) == mctop_socket_get_hwc_ids(t, s, per, sf, 0)
<1>1. m \in Nat \ {0} /\ t.n_hwcs_per_core \in Nat \ {0}
  BY NumbersOf
<1>2. V \in [1..m -> S] /\ IsInjective(V) /\ V = VisitOrder(t, start)
  BY VisitedOnce
<1>3. w \in Nat \ {0}
  BY NumbersOf DEF RowSize, Width
<1> HIDE DEF w
<1>4. ASSUME NEW s \in S
      PROVE  /\ RowOf(ids(s), t, s) /\ Len(ids(s)) = w
             /\ t.is_smt /\ sf < 0 => \A c \in 1..w : ids(s)[c] = At(t, s, c, 1)
  <2> DEFINE q == ids(s)
  <2>1. 0 \in 0..(t.n_hwcs_per_core - 1) /\ 0 + 1 = 1
    BY <1>1
  <2>2. q = mctop_socket_get_hwc_ids(t, s, per, sf, 0)
    OBVIOUS
  <2> HIDE DEF q
  <2>3. /\ RowOf(q, t, s)
        /\ Len(q) = IF per <= Width(t, sf) THEN per ELSE Width(t, sf)
        /\ t.is_smt /\ sf < 0 => \A c \in 1..Len(q) : q[c] = At(t, s, c, 0 + 1)
    BY <2>1, <2>2, IdsIs
  <2> QED BY <2>1, <2>3 DEF q, w, RowSize
<1>5. \A s \in S : ids(s) \in Seq(X)
  BY <1>4 DEF RowOf
<1> HIDE DEF m, V
<1>6. Fillable(t, X, S, m, V, n, per, sf)
  BY <1>1, <1>2, <1>5 DEF Fillable
<1>7. PICK k \in 1..m : \E f : FilledBy(a, k, f, t, X, m, V, n, per, sf)
  <2>1. a = FillSockets(t, V, n, per, sf)
    BY <1>2
  <2> HIDE DEF X, S
  <2>2. \E k \in 1..m : \E f :
          FilledBy(FillSockets(t, V, n, per, sf), k, f, t, X, m, V, n, per, sf)
    BY <1>6, FillJoins, Zenon
  <2> QED BY <2>1, <2>2
<1>8. PICK f : FilledBy(a, k, f, t, X, m, V, n, per, sf)
  BY <1>7
<1> DEFINE q == [i \in 1..k |-> ids(V[i])]
<1>9. /\ a.sockets = [i \in 1..k |-> V[i]] /\ Joins(f, q, k, X)
      /\ a.hwcs = f[k] /\ Len(f[k - 1]) < n /\ (k < m => Len(f[k]) >= n)
  BY <1>8, Zenon DEF FilledBy
<1>10. k \in Nat \ {0} /\ k \in Nat /\ k - 1 \in 0..k
  BY <1>1
<1>11. \A i \in 1..k : i \in 1..m /\ V[i] \in S /\ q[i] = ids(V[i]) /\ a.sockets[i] = V[i]
  BY <1>1, <1>2, <1>9
<1> HIDE DEF q
<1>12. \A i \in 1..k : /\ RowOf(q[i], t, a.sockets[i]) /\ Len(q[i]) = w
                       /\ t.is_smt /\ sf < 0 => \A c \in 1..w : q[i][c] = At(t, a.sockets[i], c, 1)
  <2> TAKE i \in 1..k
  <2>1. V[i] \in S /\ q[i] = ids(V[i]) /\ a.sockets[i] = V[i]
    BY <1>11
  <2> HIDE DEF S
  <2> DEFINE s == V[i]
  <2> HIDE DEF s, ids
  <2>2. s \in S
    BY <2>1 DEF s
  <2>3. /\ RowOf(ids(s), t, s) /\ Len(ids(s)) = w
        /\ t.is_smt /\ sf < 0 => \A c \in 1..w : ids(s)[c] = At(t, s, c, 1)
    BY <1>4, <2>2
  <2> QED BY <2>1, <2>3 DEF s
<1>13. a.sockets \in [1..k -> S] /\ IsInjective(a.sockets)
  <2>1. DOMAIN V = 1..m
    BY <1>2
  <2> QED BY <1>2, <1>9, <1>11, <2>1 DEF IsInjective
<1>14. (k - 1) * w < n
  <2>1. w \in Nat /\ \A i \in 1..k : Len(q[i]) = w
    BY <1>3, <1>12
  <2>2. Joins(f, q, k, X)
    BY <1>9
  <2> HIDE DEF X
  <2>3. EvenJoins(f, q, k, X, w)
    BY <2>1, <2>2, Zenon DEF EvenJoins
  <2>5. \A j \in 0..k : Len(f[j]) = j * w
    BY <2>3, EvenLength
  <2>4. Len(f[k - 1]) = (k - 1) * w
    BY <1>10, <2>5
  <2> QED BY <1>9, <2>4
<1>15. Laid(f, q, k, w, t, a.sockets, n)
  BY <1>3, <1>9, <1>10, <1>12, <1>13, <1>14 DEF Laid
<1>16. FirstLaid(a, f, q, k, t, n, per, sf)
  BY <1>9, <1>12, <1>15 DEF FirstLaid, w, m
<1> QED BY <1>16 DEF m

(* The contexts of a socket among the first of the rows: no more than a row has. *)
LEMMA TakenFew ==
  ASSUME NEW f, NEW q, NEW k, NEW w, NEW t, NEW sockets, NEW n, Laid(f, q, k, w, t, sockets, n),
         NEW r, ToSet(r) \subseteq ToSet(f[k]), NEW s
  PROVE  /\ IsFiniteSet(TakenOf(t, r, s)) /\ Cardinality(TakenOf(t, r, s)) <= w
         /\ \/ TakenOf(t, r, s) = {}
            \/ \E i \in 1..k : s = sockets[i] /\ TakenOf(t, r, s) \subseteq ToSet(q[i])
<1> DEFINE T == TakenOf(t, r, s)
<1>0. w \in Nat /\ \A i \in 1..k : q[i] \in Seq(Contexts(t)) /\ Len(q[i]) = w
  BY DEF Laid, RowOf
<1>1. CASE T = {}
  <2>1. IsFiniteSet(T) /\ Cardinality(T) = 0
    BY <1>1, FS_EmptySet
  <2> QED BY <1>0, <1>1, <2>1
<1>2. CASE T # {}
  <2>1. PICK h : h \in ToSet(f[k]) /\ SocketOf(t, h) = s
    BY <1>2 DEF TakenOf
  <2>2. s \in ToSet(sockets)
    BY <2>1, LaidIs
  <2>3. PICK i \in 1..k : s = sockets[i]
    <3>1. DOMAIN sockets = 1..k
      BY DEF Laid
    <3> QED BY <2>2, <3>1 DEF ToSet
  <2>4. T \subseteq TakenOf(t, f[k], s)
    BY DEF TakenOf
  <2>5. TakenOf(t, f[k], s) = ToSet(q[i])
    BY <2>3, LaidIs
  <2> DEFINE p == q[i]
  <2>6. p \in Seq(Contexts(t)) /\ Len(p) = w
    BY <1>0
  <2> HIDE DEF T, p
  <2>7. IsFiniteSet(ToSet(p)) /\ Cardinality(ToSet(p)) <= w
    BY <2>6, MembersOf
  <2>8. T \in SUBSET ToSet(p)
    BY <2>4, <2>5 DEF p
  <2>9. IsFiniteSet(T) /\ Cardinality(T) <= Cardinality(ToSet(p))
    BY <2>7, <2>8, FS_Subset
  <2>10. Cardinality(T) <= w
    <3>1. Cardinality(T) \in Nat /\ Cardinality(ToSet(p)) \in Nat
      BY <2>7, <2>9, FS_CardinalityType
    <3> QED BY <1>0, <2>7, <2>9, <3>1
  <2> QED BY <2>3, <2>8, <2>9, <2>10 DEF T, p
<1> QED BY <1>1, <1>2

(* Contexts of different cores are as many as these. *)
LEMMA OneEach ==
  ASSUME NEW t, NEW T, IsFiniteSet(T), \A g, h \in T : CoreOf(t, g) = CoreOf(t, h) => g = h
  PROVE  Cardinality({CoreOf(t, h) : h \in T}) = Cardinality(T)
<1> DEFINE f == [h \in T |-> CoreOf(t, h)]
           C == {CoreOf(t, h) : h \in T}
<1>1. f \in Surjection(T, C) /\ f \in Injection(T, C)
  <2>1. f \in [T -> C] /\ \A h \in T : f[h] = CoreOf(t, h)
    OBVIOUS
  <2>2. \A c \in C : \E h \in T : c = CoreOf(t, h)
    OBVIOUS
  <2> HIDE DEF f, C
  <2>3. \A c \in C : \E h \in T : f[h] = c
    BY <2>1, <2>2
  <2>4. \A g, h \in T : f[g] = f[h] => g = h
    BY <2>1
  <2> QED BY <2>1, <2>3, <2>4, Zenon DEF Surjection, Injection, IsInjective
<1> HIDE DEF f, C
<1>2. Cardinality(C) = Cardinality(T)
  BY <1>1, FS_Surjection
<1> QED BY <1>2 DEF C

(* If a pass takes one context of each core, no two of the rows are of one core. *)
LEMMA TakenApart ==
  ASSUME NEW name \in DOMAIN Topologies, NEW t, t = Topologies[name],
         NEW a, NEW f, NEW q, NEW k, NEW n, NEW per \in Nat \ {0}, NEW sf \in Int, sf < 0,
         FirstLaid(a, f, q, k, t, n, per, sf),
         NEW r, ToSet(r) \subseteq ToSet(f[k]), NEW s \in Sockets(t)
  PROVE  Cardinality(CoresTakenOf(t, r, s)) = Cardinality(TakenOf(t, r, s))
<1> DEFINE w == RowSize(t, per, sf)
           T == TakenOf(t, r, s)
<1>1. /\ Laid(f, q, k, w, t, a.sockets, n)
      /\ t.is_smt => \A i \in 1..k : \A c \in 1..w : q[i][c] = At(t, a.sockets[i], c, 1)
  BY DEF FirstLaid
<1>2. /\ CoresIn(t) \in Nat \ {0} /\ t.n_hwcs_per_core \in Nat \ {0} /\ t.is_smt \in BOOLEAN
  BY NumbersOf
<1>3. w \in Nat /\ w <= CoresIn(t)
  BY <1>2 DEF RowSize, Width
<1> HIDE DEF w
<1>4. /\ IsFiniteSet(T)
      /\ \/ T = {}
         \/ \E i \in 1..k : s = a.sockets[i] /\ T \subseteq ToSet(q[i])
  BY <1>1, TakenFew
<1>5. ASSUME NEW g \in T, NEW h \in T, CoreOf(t, g) = CoreOf(t, h) PROVE g = h
  <2>1. CASE t.is_smt
    <3>1. PICK i \in 1..k : s = a.sockets[i] /\ T \subseteq ToSet(q[i])
      BY <1>4
    <3>2. DOMAIN q[i] = 1..w /\ \A c \in 1..w : q[i][c] = At(t, s, c, 1)
      <4>1. q[i] \in Seq(Contexts(t)) /\ Len(q[i]) = w
        BY <1>1 DEF Laid, RowOf
      <4>2. DOMAIN q[i] = 1..w
        BY <4>1
      <4> QED BY <1>1, <2>1, <3>1, <4>2
    <3>3. PICK c \in 1..w : g = At(t, s, c, 1)
      BY <3>1, <3>2 DEF ToSet
    <3>4. PICK d \in 1..w : h = At(t, s, d, 1)
      BY <3>1, <3>2 DEF ToSet
    <3>5. c \in 1..CoresIn(t) /\ d \in 1..CoresIn(t) /\ 1 \in 1..t.n_hwcs_per_core
      BY <1>2, <1>3
    <3>6. CoresHave(t, s)
      BY <2>1, ContextsOfSocket
    <3>7. CoreOf(t, At(t, s, c, 1)) = CoreOf(t, At(t, s, d, 1)) <=> c = d
      BY <3>5, <3>6, CoresDiffer
    <3> QED BY <1>5, <3>3, <3>4, <3>7
  <2>2. CASE ~t.is_smt
    <3>1. f[k] \in Seq(Contexts(t))
      BY <1>1, LaidIs
    <3>2. g \in Contexts(t) /\ h \in Contexts(t)
      <4>1. g \in ToSet(f[k]) /\ h \in ToSet(f[k])
        BY DEF TakenOf
      <4> DEFINE p == f[k]
                 X == Contexts(t)
      <4>2. p \in Seq(X)
        BY <3>1
      <4> HIDE DEF p, X
      <4>3. ToSet(p) \subseteq X
        BY <4>2 DEF ToSet
      <4> QED BY <4>1, <4>3 DEF p, X
    <3>3. t.gs[ctx(g)].type = "CORE" /\ t.gs[ctx(h)].type = "CORE"
      BY <2>2, <3>2, TopologiesAssumption DEF ContextsAreApart
    <3>4. ctx(g) = ctx(h)
      BY <1>5, <3>3 DEF CoreOf, mctop_hwcid_get_core
    <3> QED BY <3>4 DEF ctx
  <2> QED BY <1>2, <2>1, <2>2
<1> HIDE DEF T
<1>6. Cardinality({CoreOf(t, h) : h \in T}) = Cardinality(T)
  BY <1>4, <1>5, OneEach
<1> QED BY <1>6 DEF T, CoresTakenOf

(* Contexts with one number in their cores, each once, of some sockets. *)
OfPass(p, t, S, hwc) ==
  /\ p \in Seq(Contexts(t)) /\ IsInjective(p)
  /\ \A h \in ToSet(p) : \E s \in S : \E c \in 1..CoresIn(t) : h = At(t, s, c, hwc + 1)

(* That is what a pass takes. *)
LEMMA PassIs ==
  ASSUME NEW name \in DOMAIN Topologies, NEW t, t = Topologies[name], t.is_smt,
         NEW k \in Nat, NEW sockets \in [1..k -> Sockets(t)], IsInjective(sockets),
         NEW per \in Nat, NEW hwc \in 0..(t.n_hwcs_per_core - 1)
  PROVE  /\ OfPass(Pass(t, sockets, per, hwc), t, ToSet(sockets), hwc)
         /\ Len(Pass(t, sockets, per, hwc)) = k * RowSize(t, per, -1)
<1> DEFINE X == Contexts(t)
           w == RowSize(t, per, -1)
           ids(s) == mctop_socket_get_hwc_ids(t, s, per, -1, hwc)
           q == [i \in DOMAIN sockets |-> ids(sockets[i])]
           p == FlattenSeq(q)
<1>1. Pass(t, sockets, per, hwc) = p
  BY Zenon DEF Pass
<1>2. 0 \in Sockets(t)
  BY SomeSocket
<1>3. CoresIn(t) \in Nat \ {0}
  BY <1>2, NumbersOf
<1>4. w \in Nat /\ w <= CoresIn(t)
  BY <1>3 DEF RowSize, Width
<1> HIDE DEF w
<1>5. ASSUME NEW s \in Sockets(t)
      PROVE  /\ RowOf(ids(s), t, s) /\ Len(ids(s)) = w
             /\ \A c \in 1..w : ids(s)[c] = At(t, s, c, hwc + 1)
  <2> DEFINE r == ids(s)
  <2>1. r = mctop_socket_get_hwc_ids(t, s, per, -1, hwc) /\ -1 \in Int /\ -1 < 0
    OBVIOUS
  <2> HIDE DEF r
  <2>2. /\ RowOf(r, t, s)
        /\ Len(r) = IF per <= Width(t, -1) THEN per ELSE Width(t, -1)
        /\ t.is_smt /\ -1 < 0 => \A c \in 1..Len(r) : r[c] = At(t, s, c, hwc + 1)
    BY <2>1, IdsIs
  <2> QED BY <2>1, <2>2 DEF r, w, RowSize
<1>6. DOMAIN sockets = 1..k /\ \A i \in 1..k : sockets[i] \in Sockets(t) /\ q[i] = ids(sockets[i])
  OBVIOUS
<1>7. q = [i \in 1..k |-> q[i]]
  OBVIOUS
<1> HIDE DEF q, ids
<1>8. \A i \in 1..k : /\ q[i] \in Seq(X) /\ IsInjective(q[i]) /\ Len(q[i]) = w
                      /\ \A h \in ToSet(q[i]) : SocketOf(t, h) = sockets[i]
                      /\ \A c \in 1..w : q[i][c] = At(t, sockets[i], c, hwc + 1)
  <2> TAKE i \in 1..k
  <2> DEFINE s == sockets[i]
  <2>1. s \in Sockets(t) /\ q[i] = ids(s)
    BY <1>6
  <2> HIDE DEF s
  <2>2. /\ RowOf(ids(s), t, s) /\ Len(ids(s)) = w
        /\ \A c \in 1..w : ids(s)[c] = At(t, s, c, hwc + 1)
    BY <1>5, <2>1
  <2> QED BY <2>1, <2>2 DEF s, RowOf
<1> HIDE DEF X
<1>9. q \in [1..k -> Seq(X)]
  BY <1>7, <1>8
<1>10. Apart(q, k)
  <2>1. ASSUME NEW i \in 1..k, NEW j \in 1..k, i # j PROVE ToSet(q[i]) \cap ToSet(q[j]) = {}
    <3>1. sockets[i] # sockets[j]
      BY <1>6, <2>1 DEF IsInjective
    <3> QED BY <1>8, <3>1
  <2> QED BY <1>8, <2>1 DEF Apart
<1>11. /\ p \in Seq(X) /\ ToSet(p) = MembersUpTo(q, k) /\ IsInjective(p) /\ Len(p) = k * w
  <2>1. \A i \in 1..k : Len(q[i]) = w
    BY <1>8
  <2> QED BY <1>4, <1>9, <1>10, <2>1, FlattenIs
<1>12. ASSUME NEW h \in ToSet(p)
       PROVE  \E s \in ToSet(sockets) : \E c \in 1..CoresIn(t) : h = At(t, s, c, hwc + 1)
  <2>1. PICK i \in 1..k : h \in ToSet(q[i])
    BY <1>11 DEF MembersUpTo
  <2>2. DOMAIN q[i] = 1..w
    BY <1>8
  <2>3. PICK c \in 1..w : h = At(t, sockets[i], c, hwc + 1)
    BY <1>8, <2>1, <2>2 DEF ToSet
  <2>4. c \in 1..CoresIn(t) /\ sockets[i] \in ToSet(sockets)
    BY <1>3, <1>4, <1>6 DEF ToSet
  <2> QED BY <2>3, <2>4
<1> HIDE DEF p
<1>13. OfPass(p, t, ToSet(sockets), hwc)
  BY <1>11, <1>12 DEF OfPass, X
<1> QED BY <1>1, <1>11, <1>13 DEF w

(* Two passes have no context in common. *)
LEMMA PassesApart ==
  ASSUME NEW name \in DOMAIN Topologies, NEW t, t = Topologies[name], t.is_smt,
         NEW S \in SUBSET Sockets(t), NEW p, NEW q,
         NEW i \in 0..(t.n_hwcs_per_core - 1), NEW j \in 0..(t.n_hwcs_per_core - 1), i # j,
         OfPass(p, t, S, i), OfPass(q, t, S, j)
  PROVE  ToSet(p) \cap ToSet(q) = {}
<1> SUFFICES ASSUME NEW h \in ToSet(p), h \in ToSet(q) PROVE FALSE
  OBVIOUS
<1>1. PICK s \in S : \E c \in 1..CoresIn(t) : h = At(t, s, c, i + 1)
  BY DEF OfPass
<1>2. PICK c \in 1..CoresIn(t) : h = At(t, s, c, i + 1)
  BY <1>1
<1>3. PICK r \in S : \E d \in 1..CoresIn(t) : h = At(t, r, d, j + 1)
  BY DEF OfPass
<1>4. PICK d \in 1..CoresIn(t) : h = At(t, r, d, j + 1)
  BY <1>3
<1>5. CoresHave(t, s) /\ CoresHave(t, r)
  BY ContextsOfSocket
<1>6. i + 1 \in 1..t.n_hwcs_per_core /\ j + 1 \in 1..t.n_hwcs_per_core /\ i + 1 # j + 1
  BY NumbersOf
<1>7. SocketOf(t, h) = s /\ SocketOf(t, h) = r
  <2>1. SocketOf(t, At(t, s, c, i + 1)) = s
    BY <1>5, <1>6, CoresDiffer
  <2>2. SocketOf(t, At(t, r, d, j + 1)) = r
    BY <1>5, <1>6, CoresDiffer
  <2> QED BY <1>2, <1>4, <2>1, <2>2
<1>8. At(t, s, c, i + 1) = At(t, s, d, j + 1)
  BY <1>2, <1>4, <1>7
<1>9. i + 1 = j + 1
  BY <1>5, <1>6, <1>8, CoresDiffer
<1> QED BY <1>6, <1>9

(* What the policies for latency promise: n contexts, no more of a socket than the *)
(* limit if it is heeded; a second context of a core only when all cores are used. *)
LatSound(t, hwcs, sockets, n, per, sf) ==
  /\ Spread(t, hwcs, sockets) /\ Len(hwcs) = n
  /\ (sf >= 0 \/ per <= CoresIn(t)) =>
       \A s \in Sockets(t) : Cardinality(TakenOf(t, hwcs, s)) <= per
  /\ sf < 0 =>
       \/ \A s \in Sockets(t) : Cardinality(CoresTakenOf(t, hwcs, s)) = Cardinality(TakenOf(t, hwcs, s))
       \/ \A s \in ToSet(sockets) : Cardinality(CoresTakenOf(t, hwcs, s)) = CoresIn(t)

(* If the sockets were filled with enough. *)
LEMMA OnePassSound ==
  ASSUME NEW name \in DOMAIN Topologies, NEW t, t = Topologies[name],
         NEW a, NEW f, NEW q, NEW k, NEW n, NEW per \in Nat \ {0}, NEW sf \in Int,
         FirstLaid(a, f, q, k, t, n, per, sf), Len(f[k]) >= n
  PROVE  LatSound(t, AtMost(f[k], n), a.sockets, n, per, sf)
<1> DEFINE w == RowSize(t, per, sf)
           r == AtMost(f[k], n)
<1>1. Laid(f, q, k, w, t, a.sockets, n) /\ n \in Nat
  BY DEF FirstLaid, Laid
<1>2. w \in Nat /\ w <= per
  <2>1. 0 \in Sockets(t)
    BY SomeSocket
  <2>2. CoresIn(t) \in Nat \ {0} /\ PerSocketOf(t) \in Nat \ {0}
    BY <2>1, NumbersOf
  <2> QED BY <2>2 DEF RowSize, Width
<1> HIDE DEF w
<1>3. /\ f[k] \in Seq(Contexts(t)) /\ IsInjective(f[k])
      /\ \A h \in ToSet(f[k]) : SocketOf(t, h) \in ToSet(a.sockets)
  BY <1>1, LaidIs
<1>4. Continues(f[k], f[k])
  <2>1. Len(f[k]) \in Nat
    BY <1>3, LenProperties
  <2> QED BY <2>1 DEF Continues
<1>5. Spread(t, r, a.sockets) /\ Len(r) = n
  BY <1>1, <1>3, <1>4, LaidFirst
<1>6. ToSet(r) \subseteq ToSet(f[k])
  BY <1>1, <1>3, FirstOf
<1> HIDE DEF r
<1>7. ASSUME NEW s \in Sockets(t) PROVE Cardinality(TakenOf(t, r, s)) <= per
  <2>1. IsFiniteSet(TakenOf(t, r, s)) /\ Cardinality(TakenOf(t, r, s)) <= w
    BY <1>1, <1>6, TakenFew
  <2>2. Cardinality(TakenOf(t, r, s)) \in Nat
    BY <2>1, FS_CardinalityType
  <2> QED BY <1>2, <2>1, <2>2
<1>8. ASSUME sf < 0, NEW s \in Sockets(t)
      PROVE  Cardinality(CoresTakenOf(t, r, s)) = Cardinality(TakenOf(t, r, s))
  BY <1>6, <1>8, TakenApart
<1>9. LatSound(t, r, a.sockets, n, per, sf)
  BY <1>5, <1>7, <1>8 DEF LatSound
<1> QED BY <1>9 DEF r

(* If a list of contexts has the first of every core. *)
LEMMA AllCores ==
  ASSUME NEW name \in DOMAIN Topologies, NEW t, t = Topologies[name], t.is_smt,
         NEW s \in Sockets(t), NEW r,
         \A h \in TakenOf(t, r, s) : \E c \in 1..CoresIn(t) : \E i \in 1..t.n_hwcs_per_core :
            h = At(t, s, c, i),
         \A c \in 1..CoresIn(t) : At(t, s, c, 1) \in TakenOf(t, r, s)
  PROVE  Cardinality(CoresTakenOf(t, r, s)) = CoresIn(t)
<1> DEFINE n == CoresIn(t)
           C == CoresTakenOf(t, r, s)
           core(c) == CoreOf(t, At(t, s, c, 1))
           f == [c \in 1..n |-> core(c)]
<1>1. n \in Nat \ {0} /\ 1 \in 1..t.n_hwcs_per_core
  BY NumbersOf
<1>2. CoresHave(t, s)
  BY ContextsOfSocket
<1>3. \A c \in 1..n : core(c) \in C
  BY DEF CoresTakenOf
<1>4. ASSUME NEW x \in C PROVE \E c \in 1..n : x = core(c)
  <2>1. PICK h \in TakenOf(t, r, s) : x = CoreOf(t, h)
    BY <1>4 DEF CoresTakenOf
  <2>2. PICK c \in 1..n : \E i \in 1..t.n_hwcs_per_core : h = At(t, s, c, i)
    OBVIOUS
  <2>3. PICK i \in 1..t.n_hwcs_per_core : h = At(t, s, c, i)
    BY <2>2
  <2>4. CoreOf(t, At(t, s, c, i)) = CoreOf(t, At(t, s, c, 1)) <=> c = c
    BY <1>1, <1>2, CoresDiffer
  <2> QED BY <2>1, <2>3, <2>4
<1>5. ASSUME NEW c \in 1..n, NEW d \in 1..n, core(c) = core(d) PROVE c = d
  <2>1. CoreOf(t, At(t, s, c, 1)) = CoreOf(t, At(t, s, d, 1)) <=> c = d
    BY <1>1, <1>2, CoresDiffer
  <2> QED BY <1>5, <2>1
<1> HIDE DEF C, core, n
<1>6. f \in Surjection(1..n, C) /\ f \in Injection(1..n, C)
  <2>1. f \in [1..n -> C] /\ \A c \in 1..n : f[c] = core(c)
    BY <1>3
  <2> HIDE DEF f
  <2>2. \A x \in C : \E c \in 1..n : f[c] = x
    BY <1>4, <2>1
  <2>3. \A c, d \in 1..n : f[c] = f[d] => c = d
    BY <1>5, <2>1
  <2> QED BY <2>1, <2>2, <2>3, Zenon DEF Surjection, Injection, IsInjective
<1> HIDE DEF f
<1>7. IsFiniteSet(1..n) /\ Cardinality(1..n) = n
  <2>1. 1 \in Int /\ n \in Int /\ n >= 1
    BY <1>1
  <2>2. IsFiniteSet(1..n) /\ Cardinality(1..n) = IF 1 > n THEN 0 ELSE (n - 1) + 1
    BY <2>1, FS_Interval
  <2> QED BY <2>1, <2>2
<1>8. Cardinality(C) = n
  BY <1>6, <1>7, FS_Surjection
<1> QED BY <1>8 DEF C, n

(* The contexts the sockets were filled with, one of each core, are a pass as well. *)
LEMMA FirstIsPass ==
  ASSUME NEW name \in DOMAIN Topologies, NEW t, t = Topologies[name], t.is_smt,
         NEW a, NEW f, NEW q, NEW k \in 1..t.n_sockets, NEW n, NEW per \in Nat \ {0},
         NEW sf \in Int, sf < 0, FirstLaid(a, f, q, k, t, n, per, sf), Len(f[k]) < n,
         CoresIn(t) < per
  PROVE  /\ k = t.n_sockets /\ Len(f[k]) = t.n_sockets * CoresIn(t)
         /\ OfPass(f[k], t, ToSet(a.sockets), 0)
         /\ \A s \in ToSet(a.sockets) : \A c \in 1..CoresIn(t) : At(t, s, c, 1) \in ToSet(f[k])
<1> DEFINE w == RowSize(t, per, sf)
           C == CoresIn(t)
           S == ToSet(a.sockets)
<1>1. 0 \in Sockets(t)
  BY SomeSocket
<1>2. C \in Nat \ {0} /\ t.n_sockets \in Nat \ {0}
  BY <1>1, NumbersOf
<1>3. w = C
  BY <1>2 DEF RowSize, Width
<1> HIDE DEF w, C
<1>4. /\ Laid(f, q, k, w, t, a.sockets, n) /\ (k < t.n_sockets => Len(f[k]) >= n)
      /\ \A i \in 1..k : \A c \in 1..w : q[i][c] = At(t, a.sockets[i], c, 1)
  BY Zenon DEF FirstLaid, w
<1>5. /\ f[k] \in Seq(Contexts(t)) /\ IsInjective(f[k]) /\ Len(f[k]) = k * w
      /\ \A h \in ToSet(f[k]) : SocketOf(t, h) \in S
      /\ \A i \in 1..k : TakenOf(t, f[k], a.sockets[i]) = ToSet(q[i])
  BY <1>4, LaidIs
<1>6. k = t.n_sockets
  <2>1. Len(f[k]) \in Nat /\ n \in Nat
    BY <1>4, <1>5, LenProperties DEF Laid
  <2> QED BY <1>2, <1>4, <2>1
<1>7. \A i \in 1..k : DOMAIN q[i] = 1..w
  BY <1>4 DEF Laid, RowOf
<1>8. DOMAIN a.sockets = 1..k
  BY <1>4 DEF Laid
<1>9. ASSUME NEW h \in ToSet(f[k])
      PROVE  \E s \in S : \E c \in 1..C : h = At(t, s, c, 0 + 1)
  <2>1. PICK i \in 1..k : SocketOf(t, h) = a.sockets[i]
    BY <1>5, <1>8 DEF ToSet
  <2>2. h \in TakenOf(t, f[k], a.sockets[i])
    BY <2>1 DEF TakenOf
  <2>3. h \in ToSet(q[i])
    BY <1>5, <2>2
  <2>31. PICK c \in 1..w : h = q[i][c]
    BY <1>7, <2>3 DEF ToSet
  <2>4. h = At(t, a.sockets[i], c, 1)
    BY <1>4, <2>31
  <2>5. a.sockets[i] \in S /\ c \in 1..C
    BY <1>3, <1>8 DEF ToSet
  <2> QED BY <2>4, <2>5
<1>10. ASSUME NEW s \in S, NEW c \in 1..C PROVE At(t, s, c, 1) \in ToSet(f[k])
  <2>1. PICK i \in 1..k : s = a.sockets[i]
    BY <1>8 DEF ToSet
  <2>2. c \in DOMAIN q[i] /\ q[i][c] = At(t, s, c, 1)
    BY <1>3, <1>4, <1>7, <2>1
  <2>3. At(t, s, c, 1) \in ToSet(q[i])
    BY <2>2 DEF ToSet
  <2>4. ToSet(q[i]) \subseteq ToSet(f[k])
    BY <1>5 DEF TakenOf
  <2> QED BY <2>3, <2>4
<1>11. OfPass(f[k], t, S, 0)
  BY <1>5, <1>9 DEF OfPass, C
<1> QED BY <1>3, <1>5, <1>6, <1>10, <1>11 DEF C

\* What is known of the passes: rows of w contexts but the first, which has one of every core.
PassesAre(rows, m, t, S, w) ==
  /\ m \in 1..t.n_hwcs_per_core
  /\ \A j \in 1..m : OfPass(rows[j], t, S, j - 1)
  /\ \A j \in 2..m : Len(rows[j]) = t.n_sockets * w

LEMMA RowsArePasses ==
  ASSUME NEW name \in DOMAIN Topologies, NEW t, t = Topologies[name], t.is_smt,
         NEW a, a.sockets \in [1..t.n_sockets -> Sockets(t)], IsInjective(a.sockets),
         OfPass(a.hwcs, t, ToSet(a.sockets), 0), NEW more \in Nat
  PROVE  /\ \A m \in 1..t.n_hwcs_per_core :
              PassesAre(PassRows(t, a, more, m), m, t, ToSet(a.sockets), RowSize(t, more, -1))
         /\ \A n \in Nat : Passable(t, a, n, more, Contexts(t))
<1> DEFINE S == ToSet(a.sockets)
           w == RowSize(t, more, -1)
<1>1. t.n_sockets \in Nat \ {0} /\ t.n_hwcs_per_core \in Nat \ {0}
  <2>1. SocketsAreAlike(t)
    BY TopologiesAssumption
  <2> QED BY <2>1 DEF SocketsAreAlike
<1>2. ASSUME NEW hwc \in 0..(t.n_hwcs_per_core - 1)
      PROVE  /\ OfPass(Pass(t, a.sockets, more, hwc), t, S, hwc)
             /\ Len(Pass(t, a.sockets, more, hwc)) = t.n_sockets * w
  <2>1. /\ t.n_sockets \in Nat /\ a.sockets \in [1..t.n_sockets -> Sockets(t)]
        /\ IsInjective(a.sockets) /\ more \in Nat
    BY <1>1
  <2> QED BY <2>1, PassIs, Zenon DEF S, w
<1> HIDE DEF S, w
<1>3. ASSUME NEW m \in 1..t.n_hwcs_per_core PROVE PassesAre(PassRows(t, a, more, m), m, t, S, w)
  <2> DEFINE rows == PassRows(t, a, more, m)
  <2>1. rows[1] = a.hwcs /\ 1 - 1 = 0
    BY <1>1 DEF PassRows
  <2>2. \A j \in 2..m : j \in 1..m /\ j # 1 /\ j - 1 \in 0..(t.n_hwcs_per_core - 1)
    BY <1>1
  <2>3. \A j \in 2..m : rows[j] = Pass(t, a.sockets, more, j - 1)
    BY <2>2 DEF PassRows
  <2> HIDE DEF rows
  <2>4. \A j \in 2..m : OfPass(rows[j], t, S, j - 1) /\ Len(rows[j]) = t.n_sockets * w
    BY <1>2, <2>2, <2>3
  <2>5. \A j \in 1..m : j = 1 \/ j \in 2..m
    BY <1>1
  <2>6. OfPass(rows[1], t, S, 1 - 1)
    BY <2>1 DEF S
  <2>7. \A j \in 1..m : OfPass(rows[j], t, S, j - 1)
    BY <2>4, <2>5, <2>6
  <2> QED BY <2>4, <2>7 DEF PassesAre, rows
<1>4. ASSUME NEW n \in Nat PROVE Passable(t, a, n, more, Contexts(t))
  <2>1. \A hwc \in 1..(t.n_hwcs_per_core - 1) : hwc \in 0..(t.n_hwcs_per_core - 1)
    BY <1>1
  <2>2. \A hwc \in 1..(t.n_hwcs_per_core - 1) : Pass(t, a.sockets, more, hwc) \in Seq(Contexts(t))
    BY <1>2, <2>1 DEF OfPass
  <2>3. a.hwcs \in Seq(Contexts(t))
    BY DEF OfPass
  <2> QED BY <1>1, <2>2, <2>3 DEF Passable
<1> QED BY <1>3, <1>4 DEF S, w

(* All passes together take every context of the sockets. *)
LEMMA TotalIs ==
  ASSUME NEW c \in Nat, NEW h \in Nat, NEW s \in Nat
  PROVE  h * (s * c) = s * (c * h)
OBVIOUS

\* What the passes have joined.
PassesJoin(g, rows, m, t, S, w, X) == Joins(g, rows, m, X) /\ PassesAre(rows, m, t, S, w)

\* Contexts, each once, of some sockets; first those of one pass.
AllPasses(p, first, t, S) ==
  /\ p \in Seq(Contexts(t)) /\ IsInjective(p) /\ Continues(p, first)
  /\ \A h \in ToSet(p) : \E s \in S : \E c \in 1..CoresIn(t) :
       \E i \in 1..t.n_hwcs_per_core : h = At(t, s, c, i)

LEMMA PassesJoined ==
  ASSUME NEW name \in DOMAIN Topologies, NEW t, t = Topologies[name], t.is_smt,
         NEW S \in SUBSET Sockets(t), NEW g, NEW rows, NEW m, NEW w,
         PassesJoin(g, rows, m, t, S, w, Contexts(t))
  PROVE  AllPasses(g[m], rows[1], t, S)
<1> DEFINE X == Contexts(t)
           H == t.n_hwcs_per_core
<1>1. /\ m \in 1..H /\ Joins(g, rows, m, X)
      /\ \A j \in 1..m : OfPass(rows[j], t, S, j - 1)
  BY DEF PassesJoin, PassesAre
<1>2. H \in Nat \ {0}
  BY SomeSocket, NumbersOf
<1>3. m \in 0..m /\ 1 \in 0..m /\ m \in 1..m /\ \A j \in 1..m : j - 1 \in 0..(H - 1) /\ (j - 1) + 1 = j /\ j \in 1..H
  BY <1>1, <1>2
<1>4. Apart(rows, m)
  <2>1. ASSUME NEW i \in 1..m, NEW j \in 1..m, i # j
        PROVE  ToSet(rows[i]) \cap ToSet(rows[j]) = {}
    <3>1. i - 1 \in 0..(H - 1) /\ j - 1 \in 0..(H - 1) /\ i - 1 # j - 1
      BY <1>3, <2>1
    <3>2. OfPass(rows[i], t, S, i - 1) /\ OfPass(rows[j], t, S, j - 1)
      BY <1>1
    <3> QED BY <3>1, <3>2, PassesApart
  <2>2. \A i \in 1..m : IsInjective(rows[i])
    BY <1>1 DEF OfPass
  <2> QED BY <2>1, <2>2 DEF Apart
<1> HIDE DEF X, H
<1>5. g[m] \in Seq(X) /\ ToSet(g[m]) = MembersUpTo(rows, m) /\ IsInjective(g[m])
  BY <1>1, <1>3, <1>4, JoinsAre
<1>6. Continues(g[m], rows[1])
  <2>1. m \in 1..m /\ 1 \in 1..m /\ 1 - 1 = 0
    BY <1>2, <1>3
  <2>2. Continues(g[m], g[1])
    BY <1>1, <1>3, <2>1, JoinsGrow
  <2>3. g[1] = g[0] \o rows[1] /\ g[0] = << >> /\ rows[1] \in Seq(X)
    BY <1>1, <2>1, Zenon DEF Joins
  <2> DEFINE r == rows[1]
  <2>4. r \in Seq(X) /\ g[1] = << >> \o r
    BY <2>3
  <2> HIDE DEF r
  <2>5. g[1] = r
    BY <2>4
  <2> QED BY <2>2, <2>5 DEF r
<1>7. ASSUME NEW h \in ToSet(g[m])
      PROVE  \E s \in S : \E c \in 1..CoresIn(t) : \E i \in 1..H : h = At(t, s, c, i)
  <2>1. PICK j \in 1..m : h \in ToSet(rows[j])
    BY <1>5, <1>7 DEF MembersUpTo
  <2>2. \E s \in S : \E c \in 1..CoresIn(t) : h = At(t, s, c, (j - 1) + 1)
    BY <1>1, <2>1 DEF OfPass
  <2>3. (j - 1) + 1 = j /\ j \in 1..H
    BY <1>3
  <2> QED BY <2>2, <2>3
<1> QED BY <1>5, <1>6, <1>7, Zenon DEF X, H, AllPasses

(* After the last pass there are enough: the passes take all contexts, *)
(* or the first of the later ones what was missing.                    *)
LEMMA PassesSuffice ==
  ASSUME NEW name \in DOMAIN Topologies, NEW t, t = Topologies[name], t.is_smt,
         NEW S, NEW g, NEW rows, NEW n \in Nat, n <= t.n_hwcs, NEW more \in Nat,
         PassesJoin(g, rows, t.n_hwcs_per_core, t, S, RowSize(t, more, -1), Contexts(t)),
         NEW len, len = t.n_sockets * CoresIn(t), Len(rows[1]) = len, len < n,
         more >= CoresIn(t) \/ t.n_sockets * more >= n - len
  PROVE  Len(g[t.n_hwcs_per_core]) >= n
<1> DEFINE H == t.n_hwcs_per_core
           C == CoresIn(t)
           ns == t.n_sockets
           w == RowSize(t, more, -1)
           X == Contexts(t)
<1>1. /\ H \in Nat \ {0} /\ C \in Nat \ {0} /\ ns \in Nat \ {0} /\ t.n_hwcs \in Nat
      /\ C * H = PerSocketOf(t) /\ t.n_hwcs = ns * PerSocketOf(t)
  BY SomeSocket, NumbersOf
<1>2. /\ w = IF more <= C THEN more ELSE C
  BY <1>1 DEF RowSize, Width
<1>3. /\ Joins(g, rows, H, X) /\ \A j \in 2..H : Len(rows[j]) = ns * w
  BY DEF PassesJoin, PassesAre
<1> HIDE DEF H, C, ns, w, X
<1>4. t.n_hwcs = H * (ns * C)
  BY <1>1, TotalIs
<1>5. len \in Nat /\ len = ns * C /\ Len(rows[1]) = len
  BY <1>1 DEF ns, C
<1>6. CASE more >= C
  <2>1. w = C
    BY <1>1, <1>2, <1>6
  <2>2. \A j \in 1..H : j = 1 \/ j \in 2..H
    BY <1>1
  <2>3. \A j \in 1..H : Len(rows[j]) = len
    BY <1>3, <1>5, <2>1, <2>2
  <2>4. EvenJoins(g, rows, H, X, len)
    BY <1>3, <1>5, <2>3 DEF EvenJoins
  <2>5. H \in 0..H
    BY <1>1
  <2>6. Len(g[H]) = H * len
    BY <2>4, <2>5, EvenLength
  <2> QED BY <1>1, <1>4, <1>5, <2>6 DEF H
<1>7. CASE ~(more >= C)
  <2>1. w = more /\ ns * more >= n - len
    BY <1>1, <1>2, <1>7 DEF C, ns
  <2>2. H # 1
    <3>1. H = 1 => t.n_hwcs = len
      BY <1>4, <1>5
    <3> QED BY <1>1, <1>5, <3>1
  <2>3. 2 \in 0..H /\ 2 \in 2..H /\ H \in 2..H /\ 0 \in 0..(H - 1) /\ 1 \in 0..(H - 1)
    BY <1>1, <2>2
  <2>4. JoinsNext(g, rows, H, X, 0) /\ JoinsNext(g, rows, H, X, 1)
    BY <1>3, <2>3, JoinStep
  <2>5. /\ Len(g[0 + 1]) = Len(g[0]) + Len(rows[0 + 1])
        /\ Len(g[1 + 1]) = Len(g[1]) + Len(rows[1 + 1])
    BY <2>4, Zenon DEF JoinsNext
  <2>6. Len(g[0]) = 0
    <3>1. g[0] = << >>
      BY <1>3 DEF Joins
    <3> QED BY <3>1
  <2>7. Len(g[2]) = len + ns * w
    <3>1. Len(rows[2]) = ns * w
      BY <1>3, <2>3
    <3>2. 0 + 1 = 1 /\ 1 + 1 = 2
      OBVIOUS
    <3>3. Len(g[1]) = Len(g[0]) + Len(rows[1]) /\ Len(g[2]) = Len(g[1]) + Len(rows[2])
      BY <2>5, <3>2
    <3> QED BY <1>5, <2>6, <3>1, <3>3
  <2>8. Continues(g[H], g[2])
    BY <1>3, <2>3, JoinsGrow
  <2>9. Len(g[2]) <= Len(g[H])
    BY <2>8 DEF Continues
  <2>10. Len(g[H]) \in Nat
    <3>1. H \in 0..H /\ g \in [0..H -> Seq(X)]
      BY <1>1, <1>3 DEF Joins
    <3>2. g[H] \in Seq(X)
      BY <3>1
    <3> QED BY <3>2, LenProperties
  <2>11. len + ns * more >= n
    <3>1. ns * more \in Nat
      BY <1>1
    <3> QED BY <1>5, <2>1, <3>1
  <2>12. Len(g[2]) >= n
    BY <2>1, <2>7, <2>11
  <2>13. Len(g[2]) \in Nat
    <3>1. ns * w \in Nat
      BY <1>1, <2>1
    <3> QED BY <1>5, <2>7, <3>1
  <2>14. Len(g[H]) >= n
    BY <2>9, <2>10, <2>12, <2>13
  <2> QED BY <2>14 DEF H
<1> QED BY <1>6, <1>7

\* The sockets were filled with too few: one context of every core.
FilledShort(a, f, q, k, t, n, per, sf) ==
  /\ t.is_smt /\ sf < 0 /\ k \in 1..t.n_sockets /\ per \in Nat \ {0} /\ sf \in Int
  /\ FirstLaid(a, f, q, k, t, n, per, sf) /\ Len(f[k]) < n /\ CoresIn(t) < per
  /\ n \in Nat /\ n <= t.n_hwcs

(* If the passes go on. *)
LEMMA MorePassesSound ==
  ASSUME NEW name \in DOMAIN Topologies, NEW t, t = Topologies[name],
         NEW a, NEW f, NEW q, NEW k, NEW n, NEW per, NEW sf,
         FilledShort(a, f, q, k, t, n, per, sf), NEW more \in Nat,
         more >= CoresIn(t) \/ t.n_sockets * more >= n - Len(f[k])
  PROVE  LatSound(t, AtMost(NextContexts(t, a, n, more), n), a.sockets, n, per, sf)
<1> DEFINE X == Contexts(t)
           H == t.n_hwcs_per_core
           ns == t.n_sockets
           S == ToSet(a.sockets)
           w == RowSize(t, more, -1)
           all == NextContexts(t, a, n, more)
           r == AtMost(all, n)
<1>1. /\ t.is_smt /\ sf < 0 /\ k \in 1..ns /\ per \in Nat \ {0} /\ sf \in Int
      /\ FirstLaid(a, f, q, k, t, n, per, sf) /\ Len(f[k]) < n /\ CoresIn(t) < per
      /\ n \in Nat /\ n <= t.n_hwcs
  BY DEF FilledShort
<1>2. H \in Nat \ {0} /\ ns \in Nat \ {0} /\ CoresIn(t) \in Nat \ {0}
  BY SomeSocket, NumbersOf
<1>3. /\ k = ns /\ Len(f[k]) = ns * CoresIn(t)
      /\ OfPass(f[k], t, S, 0)
      /\ \A s \in S : \A c \in 1..CoresIn(t) : At(t, s, c, 1) \in ToSet(f[k])
  BY <1>1, FirstIsPass
<1>4. Laid(f, q, k, RowSize(t, per, sf), t, a.sockets, n) /\ a.hwcs = f[k]
  BY <1>1 DEF FirstLaid
<1>5. a.sockets \in [1..ns -> Sockets(t)] /\ IsInjective(a.sockets)
  BY <1>3, <1>4 DEF Laid
<1>6. S \in SUBSET Sockets(t)
  BY <1>5 DEF ToSet
<1> HIDE DEF X, H, ns, S, w
<1>7. /\ \A m \in 1..H : PassesAre(PassRows(t, a, more, m), m, t, S, w)
      /\ Passable(t, a, n, more, X)
  BY <1>1, <1>3, <1>4, <1>5, RowsArePasses DEF ns, S, H, w, X
<1>8. PICK m \in 1..H : \E g : PassedBy(all, m, g, t, a, n, more, X)
  BY <1>7, NextJoins, Zenon DEF H
<1>9. PICK g : PassedBy(all, m, g, t, a, n, more, X)
  BY <1>8
<1> DEFINE rows == PassRows(t, a, more, m)
<1>10. /\ Joins(g, rows, m, X) /\ all = g[m] /\ (m < H => Len(g[m]) >= n)
  BY <1>9, Zenon DEF PassedBy, H
<1>11. rows[1] = f[k]
  BY <1>2, <1>4 DEF PassRows
<1> HIDE DEF rows, all
<1>12. PassesJoin(g, rows, m, t, S, w, X)
  BY <1>7, <1>10 DEF PassesJoin, rows
<1>13. /\ all \in Seq(X) /\ IsInjective(all) /\ Continues(all, f[k])
       /\ \A h \in ToSet(all) : \E s \in S : \E c \in 1..CoresIn(t) :
            \E i \in 1..H : h = At(t, s, c, i)
  <2>1. PassesJoin(g, rows, m, t, S, w, Contexts(t))
    BY <1>12 DEF X
  <2>2. AllPasses(g[m], rows[1], t, S)
    BY <1>1, <1>6, <2>1, PassesJoined
  <2>3. AllPasses(all, f[k], t, S)
    BY <1>10, <1>11, <2>2
  <2> QED BY <2>3, Zenon DEF X, H, AllPasses
<1>14. Len(all) \in Nat /\ Len(f[k]) \in Nat
  BY <1>3, <1>13, LenProperties DEF OfPass
<1>15. Len(all) >= n
  <2>1. CASE m < H
    BY <1>10, <2>1
  <2>2. CASE ~(m < H)
    <3>1. m = H
      BY <1>2, <2>2
    <3>2. PassesJoin(g, rows, H, t, S, w, X)
      BY <1>12, <3>1
    <3> DEFINE len == Len(f[k])
    <3>3. /\ len = t.n_sockets * CoresIn(t) /\ Len(rows[1]) = len /\ len < n
          /\ more >= CoresIn(t) \/ t.n_sockets * more >= n - len
      BY <1>1, <1>3, <1>11 DEF ns
    <3> HIDE DEF len
    <3>4. Len(g[H]) >= n
      BY <1>1, <3>2, <3>3, PassesSuffice DEF w, X, H
    <3> QED BY <1>10, <3>1, <3>4
  <2> QED BY <2>1, <2>2
<1>16. \A s \in S : CoresHave(t, s)
  BY <1>1, <1>6, ContextsOfSocket
<1>17. ASSUME NEW s \in S, NEW c \in 1..CoresIn(t), NEW i \in 1..H
       PROVE  SocketOf(t, At(t, s, c, i)) = s
  BY <1>16, CoresDiffer DEF H
<1>18. \A h \in ToSet(all) : SocketOf(t, h) \in S
  BY <1>13, <1>17
<1>19. Spread(t, r, a.sockets) /\ Len(r) = n
  BY <1>4, <1>13, <1>15, <1>18, LaidFirst DEF X, S
<1>20. /\ ToSet(r) \subseteq ToSet(all) /\ r \in Seq(X)
       /\ \A i \in 1..Len(r) : r[i] = all[i]
  BY <1>1, <1>13, FirstOf
<1> HIDE DEF r
<1>21. ASSUME NEW s \in S PROVE Cardinality(CoresTakenOf(t, r, s)) = CoresIn(t)
  <2>1. ASSUME NEW h \in TakenOf(t, r, s)
        PROVE  \E c \in 1..CoresIn(t) : \E i \in 1..H : h = At(t, s, c, i)
    <3>1. h \in ToSet(all) /\ SocketOf(t, h) = s
      BY <1>20 DEF TakenOf
    <3>2. PICK z \in S : \E c \in 1..CoresIn(t) : \E i \in 1..H : h = At(t, z, c, i)
      BY <1>13, <3>1
    <3>3. PICK c \in 1..CoresIn(t) : \E i \in 1..H : h = At(t, z, c, i)
      BY <3>2
    <3>4. PICK i \in 1..H : h = At(t, z, c, i)
      BY <3>3
    <3>5. z = s
      BY <1>17, <3>1, <3>4
    <3> QED BY <3>4, <3>5
  <2>2. ASSUME NEW c \in 1..CoresIn(t) PROVE At(t, s, c, 1) \in TakenOf(t, r, s)
    <3> DEFINE h == At(t, s, c, 1)
    <3>1. h \in ToSet(f[k])
      BY <1>3 DEF S
    <3>2. DOMAIN f[k] = 1..Len(f[k]) /\ DOMAIN r = 1..Len(r)
      <4>1. f[k] \in Seq(Contexts(t))
        BY <1>3 DEF OfPass
      <4> DEFINE p == f[k]
                 Y == Contexts(t)
      <4>2. p \in Seq(Y)
        BY <4>1
      <4> HIDE DEF p, Y
      <4>3. DOMAIN p = 1..Len(p)
        BY <4>2
      <4>4. DOMAIN r = 1..Len(r)
        BY <1>20
      <4> QED BY <4>3, <4>4 DEF p
    <3>3. PICK x \in 1..Len(f[k]) : h = f[k][x]
      BY <3>1, <3>2 DEF ToSet
    <3>4. x \in 1..Len(r) /\ all[x] = h
      BY <1>1, <1>13, <1>14, <1>19, <3>3 DEF Continues
    <3>5. r[x] = h /\ x \in DOMAIN r
      BY <1>20, <3>2, <3>4
    <3>6. SocketOf(t, h) = s
      <4>1. 1 \in 1..H
        BY <1>2
      <4> QED BY <1>17, <4>1
    <3> HIDE DEF h
    <3>7. h \in TakenOf(t, r, s)
      BY <3>5, <3>6 DEF ToSet, TakenOf
    <3> QED BY <3>7 DEF h
  <2>3. s \in Sockets(t)
    BY <1>6
  <2> QED BY <1>1, <2>1, <2>2, <2>3, AllCores DEF H
<1>22. LatSound(t, r, a.sockets, n, per, sf)
  <2>1. ~(sf >= 0 \/ per <= CoresIn(t))
    BY <1>1, <1>2
  <2> QED BY <1>19, <1>21, <2>1 DEF LatSound, S
<1> QED BY <1>22 DEF r, all

(* A quotient that is rounded up: enough, and no more than enough. *)
LEMMA UpCovers ==
  ASSUME NEW a \in Nat, NEW b \in Nat \ {0}
  PROVE  /\ Up(a, b) \in Nat /\ b * Up(a, b) >= a
         /\ \A m \in Nat : a <= b * m => Up(a, b) <= m
<1> DEFINE d == a \div b
           r == a % b
<1>1. d \in Nat /\ r \in Nat /\ r < b /\ a = b * d + r
  OBVIOUS
<1>2. Up(a, b) = d + (IF r > 0 THEN 1 ELSE 0)
  BY DEF Up
<1> HIDE DEF d, r
<1>3. b * (d + 1) = b * d + b /\ b * d \in Nat
  BY <1>1
<1>4. b * Up(a, b) >= a
  <2>1. CASE r > 0
    BY <1>1, <1>2, <1>3, <2>1
  <2>2. CASE ~(r > 0)
    <3>1. Up(a, b) = d /\ r = 0
      BY <1>1, <1>2, <2>2
    <3> QED BY <1>1, <3>1
  <2> QED BY <2>1, <2>2
<1>5. ASSUME NEW m \in Nat, a <= b * m PROVE Up(a, b) <= m
  <2>1. b * m \in Nat
    OBVIOUS
  <2>2. d <= m
    <3> SUFFICES ASSUME m + 1 <= d PROVE FALSE
      BY <1>1
    <3>1. b * (m + 1) <= b * d
      BY <1>1
    <3>2. b * (m + 1) = b * m + b
      OBVIOUS
    <3> QED BY <1>1, <1>3, <1>5, <2>1, <3>1, <3>2
  <2>3. r > 0 => d # m
    BY <1>1, <1>5, <2>1
  <2> QED BY <1>1, <1>2, <2>2, <2>3
<1>6. Up(a, b) \in Nat
  BY <1>1, <1>2
<1> QED BY <1>4, <1>5, <1>6

(* What the sockets are to give: never more than they have; together what is wanted, *)
(* if it is shared evenly; else the limit, if it is one.                             *)
LEMMA PerSocketFits ==
  ASSUME NEW name \in DOMAIN Topologies, NEW t, t = Topologies[name], NEW s \in Sockets(t),
         NEW wanted \in Nat \ {0}, wanted <= t.n_hwcs, NEW c \in Int, NEW sf \in Int, NEW balance,
         NEW per, per = PerSocket(t, s, wanted, c, sf, balance)
  PROVE  /\ per \in Nat \ {0} /\ per <= PerSocketOf(t)
         /\ balance => wanted <= per * t.n_sockets
         /\ ~balance => per = IF c \in 1..PerSocketOf(t) THEN c ELSE PerSocketOf(t)
<1> DEFINE n == Len(t.gs[socket(t, s)].hwcs)
           W == PerSocketOf(t)
           w == t.n_hwcs_per_core
           m == t.n_sockets
           avail == IF sf < 0 THEN n \div w ELSE n
           needed == Up(wanted, avail)
           ns == IF needed > m /\ sf < 0 THEN m ELSE needed
<1>1. per = IF balance THEN Up(wanted, ns) ELSE IF c > n \/ c <= 0 THEN n ELSE c
  BY Zenon DEF PerSocket
<1>2. n = W
  BY SocketIs
<1>3. /\ W \in Nat \ {0} /\ m \in Nat \ {0} /\ w \in Nat \ {0} /\ t.n_hwcs = m * W
      /\ n \div w = CoresIn(t) /\ CoresIn(t) \in Nat \ {0} /\ CoresIn(t) * w = W
  BY <1>2, NumbersOf DEF CoresIn
<1>4. CoresIn(t) <= W
  <2> DEFINE C == CoresIn(t)
  <2>1. C \in Nat /\ w >= 1 /\ C * w = W
    BY <1>3
  <2> HIDE DEF C, w, W
  <2>2. C * 1 <= C * w
    BY <1>3, <2>1
  <2> QED BY <2>1, <2>2 DEF C
<1>5. avail \in Nat \ {0} /\ avail <= W /\ (sf >= 0 => avail = W)
  BY <1>2, <1>3, <1>4
<1>6. wanted <= m * W /\ m * W = W * m /\ m * W \in Nat
  BY <1>3
<1> HIDE DEF n, W, w, m, avail
<1>7. /\ needed \in Nat \ {0} /\ avail * needed >= wanted
      /\ \A x \in Nat : wanted <= avail * x => needed <= x
  BY <1>5, UpIs, UpCovers
<1> HIDE DEF needed
<1>8. ns \in Nat \ {0} /\ ns <= m /\ wanted <= ns * W
  <2>1. CASE needed > m /\ sf < 0
    BY <1>3, <1>6, <2>1
  <2>2. CASE ~(needed > m /\ sf < 0)
    <3>1. ns = needed
      BY <2>2
    <3>2. needed <= m
      <4>1. CASE sf < 0
        BY <1>3, <1>7, <2>2, <4>1
      <4>2. CASE sf >= 0
        BY <1>3, <1>5, <1>6, <1>7, <4>2
      <4> QED BY <4>1, <4>2
    <3>3. avail * needed <= W * needed /\ W * needed = needed * W
      BY <1>3, <1>5, <1>7
    <3>4. avail * needed \in Nat /\ W * needed \in Nat
      BY <1>3, <1>5, <1>7
    <3> QED BY <1>7, <3>1, <3>2, <3>3, <3>4
  <2> QED BY <2>1, <2>2
<1> HIDE DEF ns
<1>9. Up(wanted, ns) \in Nat \ {0} /\ ns * Up(wanted, ns) >= wanted /\ Up(wanted, ns) <= W
  BY <1>3, <1>8, UpIs, UpCovers
<1>10. wanted <= Up(wanted, ns) * m
  <2> DEFINE u == Up(wanted, ns)
  <2>1. u \in Nat /\ ns * u >= wanted
    BY <1>9
  <2> HIDE DEF u
  <2>2. ns * u <= m * u /\ m * u = u * m /\ ns * u \in Nat /\ m * u \in Nat
    BY <1>3, <1>8, <2>1
  <2>3. wanted <= u * m
    BY <2>1, <2>2
  <2> QED BY <2>3 DEF u
<1>11. CASE balance
  BY <1>1, <1>9, <1>10, <1>11 DEF m, W
<1>12. CASE ~balance
  BY <1>1, <1>2, <1>3, <1>12 DEF W
<1> QED BY <1>11, <1>12

(* MinLatFrom keeps what the policies for latency promise. *)
LEMMA MinLatFromSound ==
  ASSUME NEW name \in DOMAIN Topologies, NEW t, t = Topologies[name], NEW start \in Sockets(t),
         NEW wanted \in Nat \ {0}, wanted <= t.n_hwcs,
         NEW per \in Nat \ {0}, per <= PerSocketOf(t), NEW sf \in Int, NEW balance,
         NEW r, r = MinLatFrom(t, start, wanted, per, sf, balance)
  PROVE  LatSound(t, r.hwcs, r.sockets, Min({wanted, per * t.n_sockets}), per, sf)
<1> DEFINE ns == t.n_sockets
           n == Min({wanted, per * t.n_sockets})
           order == <<start>> \o [i \in DOMAIN t.sib_in[start] |->
                              mctop_sibling_get_other_socket(t.sib_in[start][i], start)]
           a == FillSockets(t, order, n, per, sf)
           more == IF balance THEN Up(n - Len(a.hwcs), Len(a.sockets)) ELSE per
           hwcs == IF sf < 0 /\ t.is_smt THEN NextContexts(t, a, n, more) ELSE a.hwcs
<1>1. r.hwcs = AtMost(hwcs, n) /\ r.sockets = a.sockets
  <2> DEFINE others == [i \in DOMAIN t.sib_in[start] |->
                          mctop_sibling_get_other_socket(t.sib_in[start][i], start)]
             bws == Min({mctop_socket_get_bw_local(t, start)} \cup
                      {mctop_socket_get_bw_to(t, others[i], start) : i \in 1..(Len(a.sockets) - 1)})
             lats == Max({t.latencies[t.socket_level + 1]} \cup
                       {t.sib[start][i].latency : i \in 1..(Len(a.sockets) - 1)})
  <2>1. r = [hwcs |-> AtMost(hwcs, n), sockets |-> a.sockets, max_latency |-> lats,
             min_bandwidth |-> bws]
    BY Zenon DEF MinLatFrom
  <2> HIDE DEF hwcs, n, a, bws, lats
  <2> QED BY <2>1
<1>2. /\ ns \in Nat \ {0} /\ t.n_hwcs \in Nat /\ PerSocketOf(t) \in Nat \ {0}
      /\ CoresIn(t) \in Nat \ {0} /\ t.n_hwcs_per_core \in Nat \ {0}
      /\ t.is_smt \in BOOLEAN /\ (~t.is_smt => CoresIn(t) = PerSocketOf(t))
  BY NumbersOf
<1>3. n \in Nat \ {0} /\ n <= wanted /\ n <= per * ns
  <2>1. per * ns \in Nat \ {0}
    BY <1>2
  <2>2. n = IF wanted <= per * ns THEN wanted ELSE per * ns
    BY <2>1, MinOf
  <2> QED BY <2>1, <2>2
<1>4. order = VisitOrder(t, start)
  BY Zenon DEF VisitOrder
<1> HIDE DEF n, order, ns
<1>5. PICK k \in 1..ns : \E f : \E q : FirstLaid(a, f, q, k, t, n, per, sf)
  <2>1. a = FillSockets(t, VisitOrder(t, start), n, per, sf)
    BY <1>4
  <2> HIDE DEF a
  <2> QED BY <1>3, <2>1, FirstRows DEF ns
<1>6. PICK f, q : FirstLaid(a, f, q, k, t, n, per, sf)
  BY <1>5
<1> HIDE DEF a, hwcs
<1>7. /\ Laid(f, q, k, RowSize(t, per, sf), t, a.sockets, n)
      /\ a.hwcs = f[k] /\ (k < ns => Len(f[k]) >= n)
  BY <1>6 DEF FirstLaid, ns
<1>8. f[k] \in Seq(Contexts(t)) /\ Len(f[k]) = k * RowSize(t, per, sf)
  BY <1>7, LaidIs
<1>9. Len(f[k]) \in Nat
  BY <1>8, LenProperties
<1>10. CASE Len(f[k]) >= n
  <2>1. hwcs = f[k]
    <3>1. CASE sf < 0 /\ t.is_smt
      <4>1. NextContexts(t, a, n, more) = a.hwcs
        <5>1. Len(a.hwcs) >= n
          BY <1>7, <1>10
        <5> HIDE DEF more
        <5> QED BY <1>2, <5>1, NoNextContexts
      <4> QED BY <1>7, <3>1, <4>1 DEF hwcs
    <3>2. CASE ~(sf < 0 /\ t.is_smt)
      BY <1>7, <3>2 DEF hwcs
    <3> QED BY <3>1, <3>2
  <2>2. LatSound(t, AtMost(f[k], n), a.sockets, n, per, sf)
    BY <1>6, <1>10, OnePassSound
  <2> QED BY <1>1, <2>1, <2>2 DEF n
<1>11. CASE ~(Len(f[k]) >= n)
  <2>1. k = ns
    BY <1>2, <1>7, <1>11
  <2>2. ~(per <= Width(t, sf))
    <3> SUFFICES ASSUME per <= Width(t, sf) PROVE FALSE
      OBVIOUS
    <3>1. Len(f[k]) = ns * per /\ ns * per = per * ns
      BY <1>2, <1>8, <2>1 DEF RowSize
    <3> QED BY <1>3, <1>11, <3>1
  <2>3. sf < 0 /\ t.is_smt /\ CoresIn(t) < per
    BY <1>2, <2>2 DEF Width
  <2>4. Len(f[k]) < n /\ n <= t.n_hwcs
    BY <1>2, <1>3, <1>9, <1>11
  <2>5. FilledShort(a, f, q, k, t, n, per, sf)
    BY <1>3, <1>6, <2>3, <2>4 DEF FilledShort, ns
  <2>6. more \in Nat /\ (more >= CoresIn(t) \/ t.n_sockets * more >= n - Len(f[k]))
    <3>1. CASE balance
      <4>1. Len(a.sockets) = ns
        <5>1. a.sockets \in [1..k -> Sockets(t)]
          BY <1>7 DEF Laid
        <5> QED BY <1>2, <2>1, <5>1
      <4> DEFINE x == n - Len(f[k])
      <4>2. x \in Nat /\ more = Up(x, ns)
        BY <1>3, <1>7, <1>9, <2>4, <3>1, <4>1
      <4> HIDE DEF x, more
      <4>3. Up(x, ns) \in Nat /\ ns * Up(x, ns) >= x
        BY <1>2, <4>2, UpCovers
      <4> QED BY <4>2, <4>3 DEF x, ns
    <3>2. CASE ~balance
      BY <1>2, <2>3, <3>2
    <3> QED BY <3>1, <3>2
  <2>7. hwcs = NextContexts(t, a, n, more)
    BY <2>3 DEF hwcs
  <2> HIDE DEF more
  <2>8. LatSound(t, AtMost(NextContexts(t, a, n, more), n), a.sockets, n, per, sf)
    BY <2>5, <2>6, MorePassesSound
  <2> QED BY <1>1, <2>7, <2>8 DEF n
<1> QED BY <1>10, <1>11

(* How many contexts a policy for latency is to give, and of how many of a socket. *)
LatPromise(t, a, wanted, c, sf, balance) ==
  /\ Spread(t, a.hwcs, a.sockets)
  /\ Len(a.hwcs) = IF ~balance /\ c \in 1..PerSocketOf(t) THEN Min({wanted, c * t.n_sockets}) ELSE wanted
  /\ ~balance /\ c > 0 /\ (sf < 0 => c <= CoresIn(t)) =>
       \A s \in Sockets(t) : Cardinality(TakenOf(t, a.hwcs, s)) <= c
  /\ sf < 0 =>
       \/ \A s \in Sockets(t) : Cardinality(CoresTakenOf(t, a.hwcs, s)) = Cardinality(TakenOf(t, a.hwcs, s))
       \/ \A s \in ToSet(a.sockets) : Cardinality(CoresTakenOf(t, a.hwcs, s)) = CoresIn(t)

LEMMA MinLatSound ==
  ASSUME NEW name \in DOMAIN Topologies, NEW t, t = Topologies[name],
         NEW wanted \in Nat \ {0}, wanted <= t.n_hwcs, NEW c \in Int, NEW sf \in Int, NEW balance,
         NEW a, a = mctop_alloc_prep_min_lat(t, wanted, c, sf, balance)
  PROVE  LatPromise(t, a, wanted, c, sf, balance)
<1> DEFINE ns == t.n_sockets
           W == PerSocketOf(t)
           bw == [s \in Sockets(t) |-> mctop_socket_get_bw_local(t, s)]
           start == mctop_find_double_max(bw, ns)
           per == PerSocket(t, start, wanted, c, sf, balance)
           n == Min({wanted, per * ns})
<1>1. a = MinLatFrom(t, start, wanted, per, sf, balance)
  BY Zenon DEF mctop_alloc_prep_min_lat
<1>2. start \in Sockets(t)
  <2>1. SocketsAreAlike(t)
    BY TopologiesAssumption
  <2>2. ns \in Nat \ {0} /\ Sockets(t) = 0..(ns - 1)
    BY <2>1 DEF SocketsAreAlike, Sockets
  <2>3. \A s \in Sockets(t) : mctop_socket_get_bw_local(t, s) \in Nat
    BY <2>1, Zenon DEF SocketsAreAlike
  <2>4. bw \in [Sockets(t) -> Nat]
    BY <2>3
  <2> HIDE DEF ns, bw
  <2> QED BY <2>2, <2>4, MostIs
<1>3. /\ ns \in Nat \ {0} /\ W \in Nat \ {0} /\ t.n_hwcs = ns * W
      /\ CoresIn(t) \in Nat \ {0} /\ CoresIn(t) * t.n_hwcs_per_core = W /\ t.n_hwcs_per_core \in Nat \ {0}
  BY <1>2, NumbersOf
<1> HIDE DEF start, bw, W
<1>4. /\ per \in Nat \ {0} /\ per <= W
      /\ balance => wanted <= per * ns
      /\ ~balance => per = IF c \in 1..W THEN c ELSE W
  <2> DEFINE p == per
  <2>1. p = PerSocket(t, start, wanted, c, sf, balance)
    OBVIOUS
  <2> HIDE DEF p
  <2>2. /\ p \in Nat \ {0} /\ p <= PerSocketOf(t)
        /\ balance => wanted <= p * t.n_sockets
        /\ ~balance => p = IF c \in 1..PerSocketOf(t) THEN c ELSE PerSocketOf(t)
    BY <1>2, <2>1, PerSocketFits
  <2> QED BY <2>2 DEF p, W
<1> HIDE DEF per
<1>5. LatSound(t, a.hwcs, a.sockets, n, per, sf)
  BY <1>1, <1>2, <1>4, MinLatFromSound DEF W
<1>6. n = IF ~balance /\ c \in 1..W THEN Min({wanted, c * ns}) ELSE wanted
  <2>1. per * ns \in Nat
    BY <1>3, <1>4
  <2>2. n = IF wanted <= per * ns THEN wanted ELSE per * ns
    BY <2>1, MinOf
  <2>3. CASE ~balance /\ c \in 1..W
    BY <1>4, <2>3
  <2>4. CASE ~balance /\ ~(c \in 1..W)
    <3>1. per = W /\ per * ns = ns * W
      BY <1>3, <1>4, <2>4
    <3>2. wanted <= per * ns
      BY <1>3, <3>1
    <3> HIDE DEF n
    <3> QED BY <2>2, <2>4, <3>2
  <2>5. CASE balance
    <3> HIDE DEF n
    <3> QED BY <1>4, <2>2, <2>5
  <2> QED BY <2>3, <2>4, <2>5
<1> HIDE DEF n
<1>7. ASSUME ~balance, c > 0, sf < 0 => c <= CoresIn(t), NEW s \in Sockets(t)
      PROVE  Cardinality(TakenOf(t, a.hwcs, s)) <= c
  <2>1. CoresIn(t) <= W
    <3> DEFINE C == CoresIn(t)
               w == t.n_hwcs_per_core
    <3>1. C \in Nat /\ w \in Nat /\ w >= 1 /\ C * w = W
      BY <1>3
    <3> HIDE DEF C, w
    <3>2. C * 1 <= C * w
      BY <3>1
    <3> QED BY <3>1, <3>2 DEF C
  <2>2. per <= c /\ (sf >= 0 \/ per <= CoresIn(t))
    BY <1>3, <1>4, <1>7, <2>1
  <2>3. Cardinality(TakenOf(t, a.hwcs, s)) <= per
    BY <1>5, <2>2 DEF LatSound
  <2>4. Cardinality(TakenOf(t, a.hwcs, s)) \in Nat
    <3>1. a.hwcs \in Seq(Contexts(t))
      BY <1>5 DEF LatSound, Spread
    <3> DEFINE q == a.hwcs
    <3> HIDE DEF q
    <3>2. IsFiniteSet(ToSet(q))
      BY <3>1, MembersOf DEF q
    <3>3. TakenOf(t, q, s) \in SUBSET ToSet(q)
      BY DEF TakenOf
    <3>4. IsFiniteSet(TakenOf(t, q, s))
      BY <3>2, <3>3, FS_Subset
    <3> QED BY <3>4, FS_CardinalityType DEF q
  <2> QED BY <1>4, <2>2, <2>3, <2>4
<1> QED BY <1>5, <1>6, <1>7 DEF LatPromise, LatSound, W, ns

(* Rows of contexts of different sockets, none of them empty. *)
LEMMA RowsSpread ==
  ASSUME NEW t, NEW k \in Nat, NEW sockets \in [1..k -> Sockets(t)], IsInjective(sockets),
         NEW q, q = [i \in 1..k |-> q[i]],
         \A i \in 1..k : RowOf(q[i], t, sockets[i]) /\ Len(q[i]) # 0
  PROVE  Spread(t, FlattenSeq(q), sockets)
<1> DEFINE X == Contexts(t)
           r == FlattenSeq(q)
<1>1. \A i \in 1..k : /\ q[i] \in Seq(X) /\ IsInjective(q[i])
                      /\ \A h \in ToSet(q[i]) : SocketOf(t, h) = sockets[i]
  BY DEF RowOf
<1>2. DOMAIN sockets = 1..k
  OBVIOUS
<1> HIDE DEF X
<1>3. q \in [1..k -> Seq(X)]
  BY <1>1
<1>4. Apart(q, k)
  <2>1. ASSUME NEW i \in 1..k, NEW j \in 1..k, i # j PROVE ToSet(q[i]) \cap ToSet(q[j]) = {}
    <3>1. sockets[i] # sockets[j]
      BY <1>2, <2>1 DEF IsInjective
    <3> QED BY <1>1, <3>1
  <2> QED BY <1>1, <2>1 DEF Apart
<1>5. r \in Seq(X) /\ ToSet(r) = MembersUpTo(q, k) /\ IsInjective(r)
  BY <1>3, <1>4, FlattenIs
<1> HIDE DEF r
<1>6. ASSUME NEW h \in ToSet(r) PROVE SocketOf(t, h) \in ToSet(sockets)
  <2>1. PICK i \in 1..k : h \in ToSet(q[i])
    BY <1>5 DEF MembersUpTo
  <2>2. SocketOf(t, h) = sockets[i]
    BY <1>1, <2>1
  <2> QED BY <1>2, <2>2 DEF ToSet
<1>7. ASSUME NEW s \in ToSet(sockets) PROVE \E h \in ToSet(r) : s = SocketOf(t, h)
  <2>1. PICK i \in 1..k : s = sockets[i]
    BY <1>2 DEF ToSet
  <2> DEFINE p == q[i]
  <2>2. p \in Seq(X) /\ Len(p) # 0
    BY <1>1
  <2> HIDE DEF p
  <2>3. 1 \in DOMAIN p
    <3>1. Len(p) \in Nat /\ DOMAIN p = 1..Len(p)
      BY <2>2
    <3> QED BY <2>2, <3>1
  <2>4. p[1] \in ToSet(p)
    BY <2>3 DEF ToSet
  <2>5. p[1] \in ToSet(r) /\ SocketOf(t, p[1]) = s
    BY <1>1, <1>5, <2>1, <2>4 DEF MembersUpTo, p
  <2> QED BY <2>5
<1>8. ToSet(sockets) = {SocketOf(t, h) : h \in ToSet(r)}
  BY <1>6, <1>7
<1>9. sockets \in Seq(Sockets(t))
  OBVIOUS
<1> QED BY <1>5, <1>8, <1>9 DEF Spread, r, X

(* The first sockets by bandwidth are so many, each once. *)
LEMMA WidestAre ==
  ASSUME NEW name \in DOMAIN Topologies, NEW t, t = Topologies[name],
         NEW k \in Nat, k <= t.n_sockets
  PROVE  /\ AtMost(ByBandwidth(t), k) \in [1..k -> Sockets(t)]
         /\ IsInjective(AtMost(ByBandwidth(t), k))
<1> DEFINE n == t.n_sockets
           arr == [s \in Sockets(t) |-> mctop_socket_get_bw_local(t, s)]
           q == ByBandwidth(t)
           r == AtMost(q, k)
<1>1. n \in Nat \ {0} /\ arr \in [Sockets(t) -> Nat] /\ Sockets(t) = 0..(n - 1)
  <2>1. SocketsAreAlike(t)
    BY TopologiesAssumption
  <2>2. n \in Nat \ {0}
    BY <2>1 DEF SocketsAreAlike
  <2>3. \A s \in Sockets(t) : mctop_socket_get_bw_local(t, s) \in Nat
    BY <2>1, Zenon DEF SocketsAreAlike
  <2> QED BY <2>2, <2>3 DEF Sockets
<1>2. q = mctop_sort_double_index(arr, n)
  BY Zenon DEF ByBandwidth
<1> HIDE DEF n, arr, q
<1>3. Orders(q, n)
  BY <1>1, <1>2, SortIs
<1>4. q \in [1..n -> Sockets(t)] /\ IsInjective(q)
  BY <1>1, <1>3 DEF Orders, IsInjective
<1>5. q \in Seq(Sockets(t)) /\ Len(q) = n
  BY <1>1, <1>4
<1>6. /\ r \in Seq(Sockets(t)) /\ IsInjective(r)
      /\ Len(r) = IF Len(q) <= k THEN Len(q) ELSE k
  BY <1>4, <1>5, FirstOf
<1> HIDE DEF r
<1>7. Len(r) = k
  BY <1>1, <1>5, <1>6 DEF n
<1>8. r \in [1..k -> Sockets(t)]
  BY <1>6, <1>7
<1> QED BY <1>6, <1>8 DEF r, q

(* Sequentially: the first contexts and their sockets. *)
LEMMA SequentialSound ==
  ASSUME NEW name \in DOMAIN Topologies, NEW t, t = Topologies[name],
         NEW wanted \in Nat \ {0}, wanted <= t.n_hwcs,
         NEW a, a = mctop_alloc_prep_sequential(t, wanted)
  PROVE  Spread(t, a.hwcs, a.sockets) /\ Len(a.hwcs) = wanted
<1> DEFINE elems == [h \in 1..wanted |-> mctop_hwcid_get_socket(t, h - 1)]
           q == Loop(0, wanted - 1)
<1>1. a.hwcs = q /\ a.sockets = AddAllUniq(elems)
  <2> DEFINE sockets == AddAllUniq(elems)
             lats == mctop_alloc_fix_max_lat(t, sockets)
             bws == Min({mctop_socket_get_bw_local(t, s) : s \in ToSet(sockets)})
  <2>1. a = [hwcs |-> q, sockets |-> sockets, max_latency |-> lats, min_bandwidth |-> bws]
    BY Zenon DEF mctop_alloc_prep_sequential
  <2> HIDE DEF q, sockets, lats, bws
  <2> QED BY <2>1 DEF sockets
<1>2. q = [i \in 1..wanted |-> i - 1]
  BY DEF Loop
<1> HIDE DEF q
<1>3. \A i \in 1..wanted : i - 1 \in Contexts(t)
  <2>1. t.n_hwcs \in Nat
    BY SomeSocket, NumbersOf
  <2> QED BY <2>1 DEF Contexts
<1>4. q \in Seq(Contexts(t)) /\ Len(q) = wanted /\ DOMAIN q = 1..wanted
  BY <1>2, <1>3
<1>5. IsInjective(q)
  BY <1>2, <1>4 DEF IsInjective
<1>6. \A h \in Contexts(t) : SocketOf(t, h) \in Sockets(t)
  BY TopologiesAssumption DEF ContextsAreApart, SocketOf
<1>7. elems \in [1..wanted -> Sockets(t)] /\ \A i \in 1..wanted : elems[i] = SocketOf(t, q[i])
  BY <1>2, <1>3, <1>6 DEF SocketOf
<1> HIDE DEF elems
<1>8. /\ a.sockets \in Seq(Sockets(t)) /\ IsInjective(a.sockets)
      /\ ToSet(a.sockets) = ToSet(elems)
  <2> DEFINE u == AddAllUniq(elems)
  <2>1. u \in Seq(Sockets(t)) /\ IsInjective(u) /\ ToSet(u) = ToSet(elems)
    <3>1. wanted \in Nat /\ elems \in [1..wanted -> Sockets(t)]
      BY <1>7
    <3> QED BY <3>1, AddAllUniqIs, Zenon
  <2>2. a.sockets = u
    BY <1>1
  <2> HIDE DEF u
  <2> QED BY <2>1, <2>2
<1>9. ToSet(elems) = {SocketOf(t, h) : h \in ToSet(q)}
  <2>1. DOMAIN elems = 1..wanted
    BY <1>7
  <2> QED BY <1>4, <1>7, <2>1 DEF ToSet
<1> QED BY <1>1, <1>4, <1>5, <1>8, <1>9 DEF Spread

(* Bound by bandwidth: of each socket what saturates its node, and some more. *)
LEMMA BoundSound ==
  ASSUME NEW name \in DOMAIN Topologies, NEW t, t = Topologies[name],
         NEW wanted \in Nat \ {0}, NEW c \in Int,
         NEW a, a = mctop_alloc_prep_bw_bound(t, wanted, c)
  PROVE  Spread(t, a.hwcs, a.sockets)
<1> DEFINE sockets == AtMost(ByBandwidth(t), NumSockets(t, c))
           saturate(s) == (2 * mctop_socket_get_bw_local(t, s) + mctop_socket_get_bw_local_one(t, s))
                             \div (2 * mctop_socket_get_bw_local_one(t, s))
           n(s) == Min({wanted + saturate(s), Len(t.gs[socket(t, s)].hwcs)})
           ids(s) == mctop_socket_get_hwc_ids(t, s, n(s), 0, 0)
           q == [i \in DOMAIN sockets |-> ids(sockets[i])]
           k == NumSockets(t, c)
<1>1. a.hwcs = FlattenSeq(q) /\ a.sockets = sockets
  <2> DEFINE lats == mctop_alloc_fix_max_lat(t, sockets)
             bws == mctop_socket_get_bw_local(t, Last(sockets))
  <2>1. a = [hwcs |-> FlattenSeq(q), sockets |-> sockets, max_latency |-> lats, min_bandwidth |-> bws]
    BY Zenon DEF mctop_alloc_prep_bw_bound
  <2> HIDE DEF q, sockets, lats, bws
  <2> QED BY <2>1
<1>2. k \in Nat /\ k <= t.n_sockets
  <2>1. t.n_sockets \in Nat \ {0}
    BY SomeSocket, NumbersOf
  <2> QED BY <2>1 DEF NumSockets
<1> HIDE DEF k
<1>3. sockets \in [1..k -> Sockets(t)] /\ IsInjective(sockets)
  <2> DEFINE r == AtMost(ByBandwidth(t), k)
  <2>1. r \in [1..k -> Sockets(t)] /\ IsInjective(r)
    BY <1>2, WidestAre
  <2> QED BY <2>1 DEF k
<1> HIDE DEF sockets
<1>4. ASSUME NEW s \in Sockets(t) PROVE n(s) \in Nat \ {0}
  <2> DEFINE b == mctop_socket_get_bw_local(t, s)
             b1 == mctop_socket_get_bw_local_one(t, s)
             x == wanted + saturate(s)
             y == Len(t.gs[socket(t, s)].hwcs)
  <2>1. b \in Nat /\ y \in Nat \ {0}
    BY SocketIs
  <2>2. b1 \in Nat \ {0}
    BY ContextsOfSocket DEF SocketHas
  <2>3. saturate(s) \in Nat
    <3>1. saturate(s) = (2 * b + b1) \div (2 * b1)
      OBVIOUS
    <3> HIDE DEF b, b1, saturate
    <3>2. 2 * b + b1 \in Nat /\ 2 * b1 \in Nat \ {0}
      BY <2>1, <2>2
    <3> DEFINE u == 2 * b + b1
               v == 2 * b1
    <3> HIDE DEF u, v
    <3>3. u \in Nat /\ v \in Nat \ {0} /\ saturate(s) = u \div v
      BY <3>1, <3>2 DEF u, v
    <3> QED BY <3>3
  <2> HIDE DEF saturate
  <2>4. x \in Nat \ {0}
    BY <2>3
  <2>5. n(s) = Min({x, y})
    OBVIOUS
  <2> HIDE DEF x, y, n
  <2>6. Min({x, y}) = IF x <= y THEN x ELSE y
    BY <2>1, <2>4, MinOf
  <2> QED BY <2>1, <2>4, <2>5, <2>6
<1> HIDE DEF n
<1>5. ASSUME NEW s \in Sockets(t) PROVE RowOf(ids(s), t, s) /\ Len(ids(s)) # 0
  <2> DEFINE r == ids(s)
             m == n(s)
  <2>1. r = mctop_socket_get_hwc_ids(t, s, m, 0, 0) /\ m \in Nat \ {0}
    BY <1>4
  <2>2. t.n_hwcs_per_core \in Nat \ {0} /\ PerSocketOf(t) \in Nat \ {0}
    BY NumbersOf
  <2>3. 0 \in 0..(t.n_hwcs_per_core - 1) /\ 0 \in Int
    BY <2>2
  <2> HIDE DEF r, m
  <2>4. RowOf(r, t, s) /\ Len(r) = IF m <= Width(t, 0) THEN m ELSE Width(t, 0)
    BY <2>1, <2>3, IdsIs
  <2>5. Len(r) # 0
    BY <2>1, <2>2, <2>4 DEF Width
  <2> QED BY <2>4, <2>5 DEF r
<1>6. DOMAIN sockets = 1..k /\ \A i \in 1..k : sockets[i] \in Sockets(t) /\ q[i] = ids(sockets[i])
  BY <1>3
<1>7. q = [i \in 1..k |-> q[i]]
  BY <1>3
<1> HIDE DEF q, ids
<1>8. \A i \in 1..k : RowOf(q[i], t, sockets[i]) /\ Len(q[i]) # 0
  BY <1>5, <1>6
<1>9. Spread(t, FlattenSeq(q), sockets)
  BY <1>2, <1>3, <1>7, <1>8, RowsSpread
<1> QED BY <1>1, <1>9

(* Division. *)
LEMMA DivIs ==
  ASSUME NEW a \in Nat, NEW b \in Nat \ {0}
  PROVE  /\ a \div b \in Nat /\ a % b \in 0..(b - 1) /\ a = b * (a \div b) + (a % b)
         /\ \A m \in Nat : a < b * m => a \div b < m
<1> DEFINE d == a \div b
           r == a % b
<1>1. d \in Nat /\ r \in 0..(b - 1) /\ a = b * d + r
  OBVIOUS
<1> HIDE DEF d, r
<1>2. ASSUME NEW m \in Nat, a < b * m PROVE d < m
  <2> SUFFICES ASSUME m <= d PROVE FALSE
    BY <1>1
  <2>1. b * m <= b * d /\ b * m \in Nat /\ b * d \in Nat
    BY <1>1
  <2> QED BY <1>1, <1>2, <2>1
<1> QED BY <1>1, <1>2 DEF d, r

(* mctop_socket_get_nth_hwc_id: the contexts of a socket, one after the other. *)
NthOf(t, s, sf, n) == mctop_socket_get_nth_hwc_id(t, s, n, sf)

LEMMA NthIs ==
  ASSUME NEW name \in DOMAIN Topologies, NEW t, t = Topologies[name], NEW s \in Sockets(t),
         NEW sf \in Int
  PROVE  /\ \A n \in 0..(PerSocketOf(t) - 1) : NthOf(t, s, sf, n) \in Contexts(t) /\ SocketOf(t, NthOf(t, s, sf, n)) = s
         /\ \A n, m \in 0..(PerSocketOf(t) - 1) : NthOf(t, s, sf, n) = NthOf(t, s, sf, m) => n = m
<1> DEFINE W == PerSocketOf(t)
           H == t.n_hwcs_per_core
           C == CoresIn(t)
           spot(n) == NthOf(t, s, sf, n)
<1>1. /\ W \in Nat \ {0} /\ H \in Nat \ {0} /\ C \in Nat \ {0} /\ C * H = W /\ t.is_smt \in BOOLEAN
  BY NumbersOf
<1>2. SocketHas(t, s) /\ (t.is_smt => CoresHave(t, s))
  BY ContextsOfSocket
<1>3. CASE ~t.is_smt
  <2> DEFINE q == t.gs[socket(t, s)].hwcs
  <2>1. /\ q \in Seq(Contexts(t)) /\ Len(q) = W /\ IsInjective(q)
        /\ \A h \in ToSet(q) : SocketOf(t, h) = s
    BY <1>2 DEF SocketHas
  <2>2. \A n \in 0..(W - 1) : spot(n) = q[n + 1]
    BY <1>3 DEF NthOf, mctop_socket_get_nth_hwc_id, mctop_socket_get_nth_hwc
  <2> HIDE DEF q, spot
  <2>3. \A n \in 0..(W - 1) : n + 1 \in 1..W
    BY <1>1
  <2>4. DOMAIN q = 1..W
    BY <2>1
  <2>5. \A i \in 1..W : q[i] \in Contexts(t) /\ q[i] \in ToSet(q)
    BY <2>1, <2>4 DEF ToSet
  <2>6. \A n \in 0..(W - 1) : spot(n) \in Contexts(t) /\ SocketOf(t, spot(n)) = s
    BY <2>1, <2>2, <2>3, <2>5
  <2>7. ASSUME NEW n \in 0..(W - 1), NEW m \in 0..(W - 1), spot(n) = spot(m) PROVE n = m
    <3>1. n + 1 = m + 1
      BY <2>1, <2>2, <2>3, <2>4, <2>7 DEF IsInjective
    <3> QED BY <1>1, <3>1
  <2> QED BY <2>6, <2>7 DEF spot, W
<1>4. CASE t.is_smt
  <2> DEFINE core(n) == IF sf > 0 THEN n \div H ELSE n % C
             hwc(n) == IF sf > 0 THEN n % H ELSE n \div C
  <2>1. \A n \in 0..(W - 1) :
          /\ core(n) \in Nat /\ hwc(n) \in Nat /\ core(n) + 1 \in 1..C /\ hwc(n) + 1 \in 1..H
          /\ n = IF sf > 0 THEN H * core(n) + hwc(n) ELSE C * hwc(n) + core(n)
    <3> TAKE n \in 0..(W - 1)
    <3> HIDE DEF W, H, C
    <3>0. n \in Nat /\ n < C * H /\ n < H * C
      BY <1>1
    <3>1. n \div H \in Nat /\ n % H \in 0..(H - 1) /\ n = H * (n \div H) + (n % H) /\ n \div H < C
      BY <1>1, <3>0, DivIs
    <3>2. n \div C \in Nat /\ n % C \in 0..(C - 1) /\ n = C * (n \div C) + (n % C) /\ n \div C < H
      BY <1>1, <3>0, DivIs
    <3> DEFINE d == n \div H
               e == n % H
               u == n \div C
               v == n % C
    <3> HIDE DEF d, e, u, v
    <3>3. d \in Nat /\ e \in 0..(H - 1) /\ n = H * d + e /\ d < C
      BY <3>1 DEF d, e
    <3>4. u \in Nat /\ v \in 0..(C - 1) /\ n = C * u + v /\ u < H
      BY <3>2 DEF u, v
    <3>5. core(n) = (IF sf > 0 THEN d ELSE v) /\ hwc(n) = (IF sf > 0 THEN e ELSE u)
      BY DEF d, e, u, v
    <3> HIDE DEF core, hwc
    <3> QED BY <1>1, <3>3, <3>4, <3>5
  <2>2. \A n \in 0..(W - 1) : spot(n) = At(t, s, core(n) + 1, hwc(n) + 1)
    <3> DEFINE p == ListFrom(t, mctop_socket_get_first_gs_core(t, s))
               cores == AtMost(p, t.n_cores[s])
    <3>1. p \in Seq(DOMAIN t.gs) /\ t.n_cores[s] = C
      <4>1. ContextsAreApart(t)
        BY TopologiesAssumption
      <4> QED BY <1>2, <1>4, <4>1, Zenon DEF ContextsAreApart, CoresHave
    <3>2. CoreHwcs(t, s) = [c \in DOMAIN cores |-> t.gs[cores[c]].hwcs]
      BY Zenon DEF CoreHwcs
    <3>3. DOMAIN CoreHwcs(t, s) = 1..C
      BY <1>2, <1>4 DEF CoresHave
    <3>4. DOMAIN CoreHwcs(t, s) = DOMAIN cores
      BY <3>2
    <3> HIDE DEF p, cores, C
    <3>5. \A c \in 1..C : cores[c] = p[c]
      <4>1. C \in Nat /\ cores = AtMost(p, C)
        BY <1>1, <3>1 DEF cores
      <4>2. cores \in Seq(DOMAIN t.gs) /\ \A i \in 1..Len(cores) : cores[i] = p[i]
        BY <3>1, <4>1, FirstOf
      <4>3. DOMAIN cores = 1..Len(cores)
        BY <4>2
      <4> QED BY <3>3, <3>4, <4>2, <4>3
    <3>6. \A c \in 1..C : CoreHwcs(t, s)[c] = t.gs[p[c]].hwcs
      BY <3>2, <3>3, <3>4, <3>5
    <3> TAKE n \in 0..(W - 1)
    <3>7. spot(n) = t.gs[p[core(n) + 1]].hwcs[hwc(n) + 1]
      BY <1>4, <3>1, Zenon DEF NthOf, mctop_socket_get_nth_hwc_id, mctop_socket_get_nth_gs_core, p, C
    <3> HIDE DEF core, hwc
    <3>8. core(n) + 1 \in 1..C
      BY <2>1
    <3> QED BY <3>6, <3>7, <3>8 DEF At
  <2> HIDE DEF core, hwc, spot
  <2>3. \A n \in 0..(W - 1) : spot(n) \in Contexts(t) /\ SocketOf(t, spot(n)) = s
    <3> TAKE n \in 0..(W - 1)
    <3> DEFINE c == core(n) + 1
               i == hwc(n) + 1
    <3>1. c \in 1..C /\ i \in 1..H /\ spot(n) = At(t, s, c, i)
      BY <2>1, <2>2
    <3> HIDE DEF c, i
    <3> QED BY <1>2, <1>4, <3>1, CoresDiffer
  <2>4. ASSUME NEW n \in 0..(W - 1), NEW m \in 0..(W - 1), spot(n) = spot(m) PROVE n = m
    <3> DEFINE c == core(n) + 1
               i == hwc(n) + 1
               d == core(m) + 1
               j == hwc(m) + 1
    <3>1. /\ c \in 1..C /\ i \in 1..H /\ spot(n) = At(t, s, c, i)
          /\ d \in 1..C /\ j \in 1..H /\ spot(m) = At(t, s, d, j)
      BY <2>1, <2>2
    <3> HIDE DEF c, i, d, j
    <3>2. c = d /\ i = j
      <4>1. At(t, s, c, i) = At(t, s, d, j)
        BY <2>4, <3>1
      <4> QED BY <1>2, <1>4, <3>1, <4>1, CoresDiffer
    <3>3. core(n) \in Int /\ core(m) \in Int /\ hwc(n) \in Int /\ hwc(m) \in Int
      BY <2>1
    <3>4. core(n) = core(m) /\ hwc(n) = hwc(m)
      BY <3>2, <3>3 DEF c, i, d, j
    <3> QED BY <2>1, <3>4
  <2> QED BY <2>3, <2>4 DEF spot, W
<1> QED BY <1>1, <1>3, <1>4

(* Round robin: the next context of each socket in turn. *)
LEMMA RoundRobinSound ==
  ASSUME NEW name \in DOMAIN Topologies, NEW t, t = Topologies[name],
         NEW wanted \in Nat \ {0}, NEW c \in Int, NEW sf \in Int,
         wanted * t.n_sockets <= NumSockets(t, c) * t.n_hwcs,
         NEW a, a = mctop_alloc_prep_bw_round_robin(t, wanted, c, sf)
  PROVE  Spread(t, a.hwcs, a.sockets) /\ Len(a.hwcs) = wanted
<1> DEFINE m == NumSockets(t, c)
           k == Min({m, wanted})
           sockets == AtMost(ByBandwidth(t), k)
           turn(i) == ((i - 1) % k) + 1
           nth(i) == (i - 1) \div k
           q == [i \in 1..wanted |-> NthOf(t, sockets[turn(i)], sf, nth(i))]
           ns == t.n_sockets
           W == PerSocketOf(t)
<1>1. a.hwcs = q /\ a.sockets = sockets
  <2> DEFINE lats == mctop_alloc_fix_max_lat(t, sockets)
             bws == mctop_socket_get_bw_local(t, Last(sockets))
  <2>1. a = [hwcs |-> q, sockets |-> sockets, max_latency |-> lats, min_bandwidth |-> bws]
    BY Zenon DEF mctop_alloc_prep_bw_round_robin, NthOf
  <2> HIDE DEF q, sockets, lats, bws
  <2> QED BY <2>1
<1>2. ns \in Nat \ {0} /\ W \in Nat \ {0} /\ t.n_hwcs = ns * W
  BY SomeSocket, NumbersOf
<1>3. m \in Nat \ {0} /\ m <= ns
  BY <1>2 DEF NumSockets
<1>4. wanted <= m * W
  <2>1. wanted * ns <= m * (ns * W)
    BY <1>2
  <2> HIDE DEF m, ns, W
  <2>2. m * (ns * W) = (m * W) * ns /\ m * W \in Nat
    BY <1>2, <1>3
  <2> DEFINE v == m * W
  <2> HIDE DEF v
  <2>3. wanted * ns <= v * ns /\ v \in Nat
    BY <2>1, <2>2 DEF v
  <2>4. ASSUME v < wanted PROVE FALSE
    <3>1. v + 1 <= wanted
      BY <2>3, <2>4
    <3>2. (v + 1) * ns <= wanted * ns
      BY <1>2, <2>3, <3>1
    <3>3. (v + 1) * ns = v * ns + ns /\ v * ns \in Nat /\ wanted * ns \in Nat
      BY <1>2, <2>3
    <3> QED BY <1>2, <2>3, <3>2, <3>3
  <2> QED BY <2>3, <2>4 DEF v
<1>5. k \in Nat \ {0} /\ k <= ns /\ k <= wanted /\ wanted <= k * W
  <2> HIDE DEF m, W, ns
  <2>1. k = IF m <= wanted THEN m ELSE wanted
    BY <1>3, MinOf
  <2>2. wanted <= wanted * W
    BY <1>2
  <2> HIDE DEF k
  <2> QED BY <1>2, <1>3, <1>4, <2>1, <2>2
<1> HIDE DEF m, k
<1>6. sockets \in [1..k -> Sockets(t)] /\ IsInjective(sockets)
  BY <1>5, WidestAre
<1> HIDE DEF sockets
<1>7. ASSUME NEW i \in 1..wanted
      PROVE  turn(i) \in 1..k /\ nth(i) \in 0..(W - 1) /\ i - 1 = k * nth(i) + (turn(i) - 1)
  <2> HIDE DEF ns, W
  <2> DEFINE j == i - 1
             d == j \div k
             r == j % k
  <2>1. j \in Nat /\ j < k * W
    BY <1>2, <1>5
  <2> HIDE DEF j
  <2>2. d \in Nat /\ r \in 0..(k - 1) /\ j = k * d + r /\ d < W
    BY <1>2, <1>5, <2>1, DivIs
  <2> HIDE DEF d, r
  <2>3. turn(i) = r + 1 /\ nth(i) = d
    BY DEF d, r, j
  <2> HIDE DEF turn, nth
  <2>4. turn(i) \in 1..k /\ nth(i) \in 0..(W - 1) /\ j = k * nth(i) + (turn(i) - 1)
    BY <1>2, <1>5, <2>2, <2>3
  <2> QED BY <2>4 DEF j
<1>8. ASSUME NEW i \in 1..k PROVE i \in 1..wanted /\ turn(i) = i
  <2> DEFINE j == i - 1
             d == j \div k
             r == j % k
  <2>1. j \in Nat /\ j < k * 1
    BY <1>5
  <2>2. d \in Nat /\ r \in 0..(k - 1) /\ j = k * d + r /\ d < 1
    <3> HIDE DEF j
    <3> QED BY <1>5, <2>1, DivIs
  <2>3. turn(i) = r + 1
    OBVIOUS
  <2> HIDE DEF d, r, turn
  <2> HIDE DEF j
  <2>4. d = 0
    BY <2>2
  <2>5. j = r /\ r \in Int
    <3>1. k * 0 = 0
      BY <1>5
    <3> QED BY <1>5, <2>2, <2>4, <3>1
  <2>6. turn(i) = i
    BY <2>3, <2>5 DEF j
  <2> QED BY <1>5, <2>6
<1> HIDE DEF turn, nth, W, ns
<1>9. ASSUME NEW i \in 1..wanted
      PROVE  q[i] \in Contexts(t) /\ SocketOf(t, q[i]) = sockets[turn(i)]
  <2> DEFINE s == sockets[turn(i)]
             n == nth(i)
  <2>1. s \in Sockets(t) /\ n \in 0..(W - 1)
    BY <1>6, <1>7
  <2>2. q[i] = NthOf(t, s, sf, n)
    OBVIOUS
  <2> HIDE DEF s, n, q
  <2>3. NthOf(t, s, sf, n) \in Contexts(t) /\ SocketOf(t, NthOf(t, s, sf, n)) = s
    BY <2>1, NthIs DEF W
  <2> QED BY <2>2, <2>3 DEF s
<1>10. \A i \in 1..wanted : q[i] = NthOf(t, sockets[turn(i)], sf, nth(i))
  OBVIOUS
<1>11. q \in Seq(Contexts(t)) /\ Len(q) = wanted /\ DOMAIN q = 1..wanted
  <2>1. q = [i \in 1..wanted |-> q[i]]
    OBVIOUS
  <2> HIDE DEF q
  <2>2. q \in [1..wanted -> Contexts(t)]
    BY <1>9, <2>1
  <2> QED BY <2>2
<1> HIDE DEF q
<1>12. ASSUME NEW i \in 1..wanted, NEW j \in 1..wanted, q[i] = q[j] PROVE i = j
  <2>1. sockets[turn(i)] = sockets[turn(j)]
    BY <1>9, <1>12
  <2>2. turn(i) \in 1..k /\ turn(j) \in 1..k /\ DOMAIN sockets = 1..k
    BY <1>6, <1>7
  <2>3. turn(i) = turn(j)
    BY <1>6, <2>1, <2>2 DEF IsInjective
  <2> DEFINE s == sockets[turn(i)]
             n == nth(i)
             p == nth(j)
  <2>4. s \in Sockets(t) /\ n \in 0..(W - 1) /\ p \in 0..(W - 1)
    BY <1>6, <1>7
  <2>5. NthOf(t, s, sf, n) = NthOf(t, s, sf, p)
    BY <1>10, <1>12, <2>3
  <2> HIDE DEF s, n, p
  <2>6. n = p
    BY <2>4, <2>5, NthIs DEF W
  <2>7. i - 1 = j - 1
    BY <1>7, <2>3, <2>6 DEF n, p
  <2> QED BY <2>7
<1>13. IsInjective(q)
  BY <1>11, <1>12 DEF IsInjective
<1>14. ASSUME NEW h \in ToSet(q) PROVE SocketOf(t, h) \in ToSet(sockets)
  <2>1. PICK i \in 1..wanted : h = q[i]
    BY <1>11 DEF ToSet
  <2>2. SocketOf(t, h) = sockets[turn(i)] /\ turn(i) \in DOMAIN sockets
    BY <1>6, <1>7, <1>9, <2>1
  <2> QED BY <2>2 DEF ToSet
<1>15. ASSUME NEW s \in ToSet(sockets) PROVE \E h \in ToSet(q) : s = SocketOf(t, h)
  <2>1. PICK i \in 1..k : s = sockets[i]
    BY <1>6 DEF ToSet
  <2>2. i \in 1..wanted /\ SocketOf(t, q[i]) = s
    BY <1>8, <1>9, <2>1
  <2>3. q[i] \in ToSet(q)
    BY <1>11, <2>2 DEF ToSet
  <2> QED BY <2>2, <2>3
<1>16. ToSet(sockets) = {SocketOf(t, h) : h \in ToSet(q)}
  BY <1>14, <1>15
<1>17. sockets \in Seq(Sockets(t))
  BY <1>5, <1>6
<1> QED BY <1>1, <1>6, <1>11, <1>13, <1>16, <1>17 DEF Spread

(* What PlacementIsSound says of an allocator that was made for w contexts. *)
Promise(t, p, w, c) ==
  IF p \in MinLat /\ c \in 1..PerSocketOf(t) THEN Min({w, c * t.n_sockets}) ELSE w

WellPlaced(t, a, w, c) ==
  /\ Spread(t, a.hwcs, a.sockets)
  /\ a.policy # "BW_BOUND" => Len(a.hwcs) = Promise(t, a.policy, w, c)
  /\ a.policy \in MinLat /\ c > 0 /\ (a.policy = "MIN_LAT_CORES" => c <= CoresIn(t)) =>
       \A s \in Sockets(t) : Cardinality(TakenOf(t, a.hwcs, s)) <= c
  /\ a.policy \in {"MIN_LAT_CORES", "MIN_LAT_CORES_BALANCE"} =>
       \/ \A s \in Sockets(t) : Cardinality(CoresTakenOf(t, a.hwcs, s)) = Cardinality(TakenOf(t, a.hwcs, s))
       \/ \A s \in ToSet(a.sockets) : Cardinality(CoresTakenOf(t, a.hwcs, s)) = CoresIn(t)

(* What a pool makes. *)
LEMMA SimpleIsSound ==
  ASSUME NEW name \in DOMAIN Topologies, NEW t, t = Topologies[name],
         NEW n \in Int, NEW c \in Int, NEW p \in Policies \ {"NONE"}, ~RunsOut(t, <<n, c, p>>)
  PROVE  WellPlaced(t, mctop_alloc_create_simple(t, n, c, p), Wanted(t, n), c)
<1> DEFINE w == Wanted(t, n)
           m == Placed(t, w, c, p)
           a == mctop_alloc_create_simple(t, n, c, p)
<1>1. w \in Nat \ {0} /\ w <= t.n_hwcs
  <2>1. t.n_hwcs \in Nat \ {0}
    BY SomeSocket, NumbersOf
  <2> QED BY <2>1 DEF Wanted
<1>2. a.policy = p /\ a.hwcs = m.hwcs /\ a.sockets = m.sockets
  <2> HIDE DEF w, m
  <2>1. a = [policy |-> p, n_hwcs |-> IF p = "NONE" THEN w ELSE Len(m.hwcs),
             hwcs |-> m.hwcs, sockets |-> m.sockets,
             max_latency |-> m.max_latency, min_bandwidth |-> m.min_bandwidth]
    BY Zenon DEF mctop_alloc_create_simple, w, m
  <2> HIDE DEF a
  <2> QED BY <2>1
<1>3. p \in RoundRobin => w * t.n_sockets <= NumSockets(t, c) * t.n_hwcs
  <2>1. p \in RoundRobin => ~ (w * t.n_sockets > NumSockets(t, c) * t.n_hwcs)
    BY DEF RunsOut
  <2>2. t.n_sockets \in Nat \ {0} /\ t.n_hwcs \in Nat \ {0}
    BY SomeSocket, NumbersOf
  <2> DEFINE u == w * t.n_sockets
             v == NumSockets(t, c) * t.n_hwcs
  <2>3. u \in Int /\ v \in Int
    <3>1. NumSockets(t, c) \in Int
      BY <2>2 DEF NumSockets
    <3> HIDE DEF w
    <3> QED BY <1>1, <2>2, <3>1
  <2> HIDE DEF u, v
  <2>4. p \in RoundRobin => ~ (u > v)
    BY <2>1 DEF u, v
  <2>5. p \in RoundRobin => u <= v
    BY <2>3, <2>4
  <2> QED BY <2>5 DEF u, v
<1> HIDE DEF w, a
<1>4. CASE p \in MinLat \cup MinLatBalance
  <2> DEFINE sf == SmtFirst(p)
             balance == p \in MinLatBalance
  <2>1. m = mctop_alloc_prep_min_lat(t, w, c, sf, balance)
    <3>1. p # "NONE" /\ p # "SEQUENTIAL" /\ p \notin RoundRobin
      BY <1>4 DEF MinLat, MinLatBalance, RoundRobin
    <3> QED BY <1>4, <3>1, Zenon DEF Placed
  <2>2. /\ sf \in Int /\ p # "BW_BOUND"
        /\ p \in MinLat <=> ~balance
        /\ p \in MinLat => (p = "MIN_LAT_CORES" <=> sf < 0)
        /\ p \in {"MIN_LAT_CORES", "MIN_LAT_CORES_BALANCE"} <=> sf < 0
    BY <1>4 DEF SmtFirst, MinLat, MinLatBalance
  <2> HIDE DEF sf, balance, m
  <2>3. LatPromise(t, m, w, c, sf, balance)
    BY <1>1, <2>1, <2>2, MinLatSound
  <2>4. Promise(t, p, w, c) = IF ~balance /\ c \in 1..PerSocketOf(t) THEN Min({w, c * t.n_sockets}) ELSE w
    BY <2>2, Zenon DEF Promise
  <2>5. Len(m.hwcs) = Promise(t, p, w, c)
    BY <2>3, <2>4, Zenon DEF LatPromise
  <2>6. p \in MinLat /\ c > 0 /\ (p = "MIN_LAT_CORES" => c <= CoresIn(t)) =>
          \A s \in Sockets(t) : Cardinality(TakenOf(t, m.hwcs, s)) <= c
    BY <2>2, <2>3, Zenon DEF LatPromise
  <2>7. p \in {"MIN_LAT_CORES", "MIN_LAT_CORES_BALANCE"} =>
          \/ \A s \in Sockets(t) : Cardinality(CoresTakenOf(t, m.hwcs, s)) = Cardinality(TakenOf(t, m.hwcs, s))
          \/ \A s \in ToSet(m.sockets) : Cardinality(CoresTakenOf(t, m.hwcs, s)) = CoresIn(t)
    BY <2>2, <2>3, Zenon DEF LatPromise
  <2>8. Spread(t, m.hwcs, m.sockets)
    BY <2>3, Zenon DEF LatPromise
  <2>9. WellPlaced(t, a, w, c)
    BY <1>2, <2>5, <2>6, <2>7, <2>8, Zenon DEF WellPlaced
  <2> QED BY <2>9 DEF w, a
<1>5. ASSUME p \notin MinLat \cup MinLatBalance, Spread(t, m.hwcs, m.sockets),
             p # "BW_BOUND" => Len(m.hwcs) = w
      PROVE  WellPlaced(t, mctop_alloc_create_simple(t, n, c, p), Wanted(t, n), c)
  <2>1. p \notin MinLat /\ p \notin {"MIN_LAT_CORES", "MIN_LAT_CORES_BALANCE"}
    BY <1>5 DEF MinLat, MinLatBalance
  <2> HIDE DEF m
  <2>2. Promise(t, p, w, c) = w
    BY <2>1, Zenon DEF Promise
  <2>3. WellPlaced(t, a, w, c)
    BY <1>2, <1>5, <2>1, <2>2, Zenon DEF WellPlaced
  <2> QED BY <2>3 DEF w, a
<1>6. CASE p \in RoundRobin
  <2>1. p \notin MinLat \cup MinLatBalance /\ p # "SEQUENTIAL"
    BY <1>6 DEF MinLat, MinLatBalance, RoundRobin
  <2>2. m = mctop_alloc_prep_bw_round_robin(t, w, c, SmtFirst(p))
    BY <1>6, <2>1 DEF Placed
  <2>3. SmtFirst(p) \in Int
    BY <1>6 DEF SmtFirst
  <2> HIDE DEF m
  <2>4. Spread(t, m.hwcs, m.sockets) /\ Len(m.hwcs) = w
    BY <1>1, <1>3, <1>6, <2>2, <2>3, RoundRobinSound
  <2> QED BY <1>5, <2>1, <2>4 DEF m
<1>7. CASE p = "SEQUENTIAL"
  <2>1. p \notin MinLat \cup MinLatBalance
    BY <1>7 DEF MinLat, MinLatBalance
  <2>2. m = mctop_alloc_prep_sequential(t, w)
    <3>1. Placed(t, w, c, "SEQUENTIAL") = mctop_alloc_prep_sequential(t, w)
      <4>1. "SEQUENTIAL" # "NONE" /\ "SEQUENTIAL" \notin MinLat \cup MinLatBalance \cup RoundRobin
        BY DEF MinLat, MinLatBalance, RoundRobin
      <4> QED BY <4>1, Zenon DEF Placed
    <3> QED BY <1>7, <3>1
  <2> HIDE DEF m
  <2>3. Spread(t, m.hwcs, m.sockets) /\ Len(m.hwcs) = w
    BY <1>1, <2>2, SequentialSound
  <2> QED BY <1>5, <2>1, <2>3 DEF m
<1>8. CASE p = "BW_BOUND"
  <2>1. p \notin MinLat \cup MinLatBalance /\ p \notin RoundRobin
    BY <1>8 DEF MinLat, MinLatBalance, RoundRobin
  <2>2. m = mctop_alloc_prep_bw_bound(t, w, c)
    BY <1>8, <2>1 DEF Placed
  <2> HIDE DEF m
  <2>3. Spread(t, m.hwcs, m.sockets)
    BY <1>1, <2>2, BoundSound
  <2> QED BY <1>5, <1>8, <2>1, <2>3 DEF m
<1> QED BY <1>4, <1>6, <1>7, <1>8 DEF Policies

(* What main of the merge sort makes. *)
LEMMA CreatedIsSound ==
  ASSUME NEW name \in DOMAIN Topologies, NEW t, t = Topologies[name],
         NEW n \in Int, NEW c \in Int, NEW p \in Policies \ {"NONE"}, ~RunsOut(t, <<n, c, p>>)
  PROVE  WellPlaced(t, mctop_alloc_create(t, n, c, p), Wanted(t, n), c)
<1> DEFINE a == mctop_alloc_create_simple(t, n, c, p)
           b == mctop_alloc_create(t, n, c, p)
           w == Wanted(t, n)
<1>1. WellPlaced(t, a, w, c)
  BY SimpleIsSound
<1>2. b = WithBarriers(t, a)
  BY Zenon DEF mctop_alloc_create
<1> HIDE DEF a, b, w
<1>3. b.policy = a.policy /\ b.sockets = a.sockets /\ b.hwcs = a.hwcs
  BY <1>2 DEF WithBarriers
<1>4. WellPlaced(t, b, w, c)
  BY <1>1, <1>3, Zenon DEF WellPlaced
<1> QED BY <1>4 DEF b, w

-----------------------------------------------------------------------------
(* An allocator of a pool, or of the merge sort, is best and well placed when  *)
(* it is made and stays as it was made; the current allocator of a pool is one *)
(* of its table.                                                               *)
Serves(t, a, n, c) ==
  Best(t, a, c) /\ (a.policy # "NONE" => WellPlaced(t, a, Wanted(t, n), c))

EntryServes(t, e) == Serves(t, e.alloc, e.n_hwcs, e.n_config)

EntriesServe(pool) ==
  \A p \in Policies : \A i \in 1..Len(pool.allocs[p]) : EntryServes(pool.topo, pool.allocs[p][i])

CurrentIsEntry(pool) ==
  /\ pool.current_alloc[1] \in Policies
  /\ pool.current_alloc[2] \in 1..Len(pool.allocs[pool.current_alloc[1]])

PlacementIInv ==
  /\ client # None => Serves(Topologies[client.topo], alloc, client.n_hwcs, client.n_config)
  /\ ap # None => EntriesServe(ap)
  /\ asked # << >> => ap # None /\ CurrentIsEntry(ap)

(* A pool is a record, and None is not. *)
LEMMA PoolIsThere ==
  ASSUME NEW P \in Pools
  PROVE  P # None
<1>1. "topo" \in DOMAIN P
  BY DEF Pools
<1>2. DOMAIN None = {}
  BY DEF None
<1> QED BY <1>1, <1>2

(* What is made for a call is what its arguments ask for. *)
LEMMA EntryIsServed ==
  ASSUME NEW t \in Topos, NEW g \in Calls, ~RunsOut(t, g)
  PROVE  EntryServes(t, mctop_alloc_args_create(t, g))
<1> DEFINE n == g[1]
           c == g[2]
           p == g[3]
           a == mctop_alloc_create_simple(t, n, c, p)
           e == mctop_alloc_args_create(t, g)
<1>1. PICK name \in DOMAIN Topologies : t = Topologies[name]
  BY PoolAssumption DEF Topos
<1>2. n \in Int /\ c \in Int /\ p \in Policies
  BY DEF Calls
<1>3. ~RunsOut(t, <<n, c, p>>)
  BY DEF RunsOut
<1>4. e.alloc = a /\ e.n_hwcs = n /\ e.n_config = c
  BY DEF mctop_alloc_args_create
<1> HIDE DEF n, c, p, e
<1>5. a.policy = p /\ Best(t, a, c)
  BY <1>1, <1>2, SimpleIsBest
<1>6. p # "NONE" => WellPlaced(t, a, Wanted(t, n), c)
  BY <1>1, <1>2, <1>3, SimpleIsSound
<1> HIDE DEF a
<1>7. Serves(t, a, n, c)
  BY <1>5, <1>6, Zenon DEF Serves
<1>8. EntryServes(t, e)
  BY <1>4, <1>7, Zenon DEF EntryServes
<1> QED BY <1>8 DEF e

(* One call of mctop_alloc_pool_set_alloc. *)
LEMMA SetAllocServes ==
  ASSUME PoolTypeOK, \A p \in Policies : TableOK(ap.allocs[p]), EntriesServe(ap),
         NEW g \in Calls, ~RunsOut(ap.topo, g), ap' = WithAlloc(ap, g)
  PROVE  ap' # None /\ EntriesServe(ap') /\ CurrentIsEntry(ap')
<1> DEFINE p == g[3]
           q == ap.allocs[p]
           i == Found(q, g)
           max == MCTOP_ALLOC_POOL_MAX_N
           e == mctop_alloc_args_create(ap.topo, g)
<1>1. /\ p \in Policies /\ q \in Seq(Made) /\ Len(q) \in Nat
      /\ ap \in Pools /\ ap.topo \in Topos /\ TableOK(q)
  BY LenProperties DEF PoolTypeOK, Pools, Calls
<1>2. i \in Nat /\ (i > 0 => i \in 1..Len(q))
  BY <1>1, FoundIs
<1>3. max \in Nat \ {0} /\ Len(q) <= max
  BY <1>1, PoolAssumption DEF TableOK
<1>4. ASSUME NEW k \in 1..Len(q), ap' = [ap EXCEPT !.current_alloc = <<p, k>>]
      PROVE  ap' # None /\ EntriesServe(ap') /\ CurrentIsEntry(ap')
  <2>1. <<p, k>> \in Policies \X Nat
    BY <1>1
  <2>2. ap' \in Pools /\ ap'.topo = ap.topo /\ ap'.allocs = ap.allocs /\ ap'.current_alloc = <<p, k>>
    BY <1>1, <1>4, <2>1, PoolWithCurrent
  <2>3. EntriesServe(ap')
    BY <2>2, Zenon DEF EntriesServe
  <2>4. CurrentIsEntry(ap')
    BY <1>1, <2>2 DEF CurrentIsEntry
  <2> QED BY <2>2, <2>3, <2>4, PoolIsThere
<1>5. CASE i > 0
  <2>1. ap' = [ap EXCEPT !.current_alloc = <<p, i>>]
    <3>1. i # 0
      BY <1>5
    <3> QED BY <1>5, <3>1, Zenon DEF WithAlloc
  <2> QED BY <1>2, <1>4, <1>5, <2>1
<1>6. CASE i = 0 /\ Len(q) < max
  <2> DEFINE r == Append(q, e)
             c == <<p, Len(q) + 1>>
             F == [ap.allocs EXCEPT ![p] = r]
  <2>1. ap' = [ap EXCEPT !.allocs[p] = r, !.current_alloc = c]
    <3>1. ~ (i > 0)
      BY <1>6
    <3> QED BY <1>6, <3>1, Zenon DEF WithAlloc
  <2>2. e \in Made /\ EntryServes(ap.topo, e)
    BY <1>1, CreateIs, EntryIsServed
  <2>3. /\ r \in Seq(Made) /\ Len(r) = Len(q) + 1 /\ r[Len(q) + 1] = e
        /\ \A j \in 1..Len(q) : r[j] = q[j]
    BY <1>1, <2>2, AppendProperties, LenProperties
  <2>4. c \in Policies \X Nat /\ c[1] = p /\ c[2] = Len(q) + 1
    BY <1>1
  <2>5. ap.allocs \in [Policies -> Seq(Made)]
    BY <1>1 DEF Pools
  <2> HIDE DEF r, c, p
  <2>6. F[p] = r /\ \A o \in Policies : o # p => F[o] = ap.allocs[o]
    BY <1>1, <2>5
  <2>7. ap' = [ap EXCEPT !.allocs = F, !.current_alloc = c] /\ F \in [Policies -> Seq(Made)]
    BY <1>1, <2>1, <2>3, <2>5
  <2> HIDE DEF F, q, i, e
  <2>8. ap' \in Pools /\ ap'.topo = ap.topo /\ ap'.allocs = F /\ ap'.current_alloc = c
    BY <1>1, <2>4, <2>7 DEF Pools
  <2>9. EntriesServe(ap')
    <3> SUFFICES ASSUME NEW o \in Policies, NEW j \in 1..Len(F[o])
                 PROVE  EntryServes(ap.topo, F[o][j])
      BY <2>8 DEF EntriesServe
    <3>1. CASE o # p
      BY <2>6, <3>1 DEF EntriesServe
    <3>2. CASE o = p
      <4>1. j \in 1..Len(q) \/ j = Len(q) + 1
        BY <1>1, <2>3, <2>6, <3>2
      <4>2. CASE j \in 1..Len(q)
        <5>1. F[o][j] = q[j]
          BY <2>3, <2>6, <3>2, <4>2
        <5> QED BY <1>1, <4>2, <5>1 DEF EntriesServe, q
      <4>3. CASE j = Len(q) + 1
        BY <2>2, <2>3, <2>6, <3>2, <4>3
      <4> QED BY <4>1, <4>2, <4>3
    <3> QED BY <3>1, <3>2
  <2>10. CurrentIsEntry(ap')
    BY <1>1, <2>3, <2>4, <2>6, <2>8 DEF CurrentIsEntry
  <2> QED BY <2>8, <2>9, <2>10, PoolIsThere
<1>7. CASE i = 0 /\ Len(q) = max
  <2>1. ap' = [ap EXCEPT !.current_alloc = <<p, Len(q)>>]
    <3>1. ~ (i > 0) /\ ~ (Len(q) < max)
      BY <1>3, <1>7
    <3> QED BY <3>1, Zenon DEF WithAlloc
  <2>2. Len(q) \in 1..Len(q)
    BY <1>1, <1>3, <1>7
  <2> QED BY <1>4, <2>1, <2>2
<1> QED BY <1>1, <1>2, <1>3, <1>5, <1>6, <1>7

(* An empty pool, one with an allocator of every policy, and the merge sort. *)
LEMMA InitServes ==
  ASSUME Init
  PROVE  PlacementIInv
<1>1. CASE PoolInit /\ TreeIdle
  <2>1. client = None
    BY <1>1 DEF TreeIdle
  <2>2. PICK t \in Topos :
          \/ ap = mctop_alloc_pool_create_empty(t) /\ asked = << >>
          \/ \E g \in Args : /\ \A p \in Policies : ~RunsOut(t, Actual(<<g[1], g[2], p>>))
                             /\ ap = mctop_alloc_pool_create(t, g) /\ asked = <<Actual(g)>>
    BY <1>1 DEF PoolInit, Topos
  <2>3. CASE ap = mctop_alloc_pool_create_empty(t) /\ asked = << >>
    <3>1. \A p \in Policies : ap.allocs[p] = << >>
      BY <2>3 DEF mctop_alloc_pool_create_empty
    <3>2. EntriesServe(ap)
      BY <3>1 DEF EntriesServe
    <3> QED BY <2>1, <2>3, <3>2 DEF PlacementIInv
  <2>4. ASSUME NEW g \in Args, \A p \in Policies : ~RunsOut(t, Actual(<<g[1], g[2], p>>)),
               ap = mctop_alloc_pool_create(t, g)
        PROVE  PlacementIInv
    <3> DEFINE each(p) == Actual(<<g[1], g[2], p>>)
               q(p) == <<mctop_alloc_args_create(t, each(p))>>
    <3>1. g[1] \in Int /\ g[2] \in Int /\ g[3] \in Policies
      BY PoolAssumption
    <3>2. \A p \in Policies : each(p) \in Calls /\ ~RunsOut(t, each(p))
      BY <2>4, <3>1, ActualIs
    <3>3. ap = [topo |-> t, allocs |-> [p \in Policies |-> q(p)], current_alloc |-> <<g[3], 1>>]
      BY <2>4 DEF mctop_alloc_pool_create
    <3> HIDE DEF each
    <3>4. \A p \in Policies : Len(q(p)) = 1 /\ q(p)[1] = mctop_alloc_args_create(t, each(p))
      OBVIOUS
    <3> HIDE DEF q
    <3>5. /\ ap.topo = t /\ \A p \in Policies : ap.allocs[p] = q(p)
          /\ ap.current_alloc[1] = g[3] /\ ap.current_alloc[2] = 1 /\ ap # None
      BY <3>3 DEF None
    <3>6. EntriesServe(ap)
      BY <3>2, <3>4, <3>5, EntryIsServed DEF EntriesServe
    <3>7. CurrentIsEntry(ap)
      BY <3>1, <3>4, <3>5 DEF CurrentIsEntry
    <3> QED BY <2>1, <3>5, <3>6, <3>7 DEF PlacementIInv
  <2> QED BY <2>2, <2>3, <2>4
<1>2. CASE PoolIdle /\ TreeInit
  <2>1. PICK c \in Clients :
          client = c /\ alloc = mctop_alloc_create(Topologies[c.topo], c.n_hwcs, c.n_config, c.policy)
    BY <1>2 DEF TreeInit
  <2> DEFINE t == Topologies[c.topo]
             n == c.n_hwcs
             k == c.n_config
  <2>2. /\ c.topo \in DOMAIN Topologies /\ c.policy \in Policies \ {"NONE"} /\ n \in Int /\ k \in Int
        /\ ~RunsOut(t, <<n, k, c.policy>>)
    BY ClientsAssumption
  <2>3. Serves(t, alloc, n, k)
    <3> HIDE DEF n, k
    <3>1. Best(t, alloc, k)
      BY <2>1, <2>2, CreatedIsBest DEF n, k
    <3>2. WellPlaced(t, alloc, Wanted(t, n), k)
      BY <2>1, <2>2, CreatedIsSound DEF n, k
    <3> QED BY <3>1, <3>2, Zenon DEF Serves
  <2> QED BY <1>2, <2>1, <2>3 DEF PlacementIInv, PoolIdle
<1> QED BY <1>1, <1>2 DEF Init

(* A step of the merge sort leaves the allocator as it was made. *)
LEMMA NextServes ==
  ASSUME PoolIInv, PlacementIInv, [Next]_vars
  PROVE  PlacementIInv'
<1>1. CASE ap # None /\ PoolNext /\ UNCHANGED treeVars
  <2>1. PoolTypeOK /\ (\A p \in Policies : TableOK(ap.allocs[p]))
    BY <1>1 DEF PoolIInv, PoolIdle
  <2>2. PICK g \in Args : mctop_alloc_pool_set_alloc(g[1], g[2], g[3])
    BY <1>1 DEF PoolNext
  <2> DEFINE b == Actual(<<g[1], g[2], g[3]>>)
  <2>3. b \in Calls
    <3>1. g[1] \in Int /\ g[2] \in Int /\ g[3] \in Policies
      BY PoolAssumption
    <3> QED BY <3>1, ActualIs
  <2>4. ap' = WithAlloc(ap, b) /\ ~RunsOut(ap.topo, b)
    BY <2>2 DEF mctop_alloc_pool_set_alloc
  <2> HIDE DEF b
  <2>5. EntriesServe(ap)
    BY <1>1 DEF PlacementIInv
  <2>6. ap' # None /\ EntriesServe(ap') /\ CurrentIsEntry(ap')
    BY <2>1, <2>3, <2>4, <2>5, SetAllocServes
  <2>7. client' = client /\ alloc' = alloc
    BY <1>1 DEF treeVars
  <2> QED BY <2>6, <2>7 DEF PlacementIInv
<1>2. CASE UNCHANGED poolVars /\ ((client # None /\ TreeNext) \/ UNCHANGED treeVars)
  <2>1. client' = client /\ alloc' = alloc
    BY <1>2 DEF treeVars, TreeNext, TreeStep, Enter, Merge, Swap, WaitAll
  <2>2. ap' = ap /\ asked' = asked
    BY <1>2 DEF poolVars
  <2> QED BY <2>1, <2>2 DEF PlacementIInv
<1> QED BY <1>1, <1>2 DEF Next, vars

(* The inductive invariant of the placement: every allocator that there is was *)
(* made by a policy, is the best for its arguments and is placed as they ask.  *)
THEOREM PlacementInvariant == Spec => []PlacementIInv
<1>1. Init => PlacementIInv
  BY InitServes
<1>2. PoolIInv /\ PlacementIInv /\ [Next]_vars => PlacementIInv'
  BY NextServes
<1> QED BY <1>1, <1>2, PoolInvariant, PTL DEF Spec

(* An allocator that is new is one of those. *)
LEMMA NewServes ==
  ASSUME PlacementIInv, NEW e \in New
  PROVE  Serves(e.topo, e.a, e.n_hwcs, e.n_config)
<1>1. CASE client # None /\ Fresh
  <2>1. New = {[topo |-> Topologies[client.topo], n_hwcs |-> client.n_hwcs,
                n_config |-> client.n_config, a |-> alloc]}
    BY <1>1 DEF New
  <2> QED BY <1>1, <2>1 DEF PlacementIInv
<1>2. CASE client = None /\ asked # << >>
  <2>1. New = {[topo |-> ap.topo, n_hwcs |-> Current.n_hwcs, n_config |-> Current.n_config,
                a |-> Current.alloc]}
    BY <1>2 DEF New
  <2>2. EntriesServe(ap) /\ CurrentIsEntry(ap)
    BY <1>2 DEF PlacementIInv
  <2>3. EntryServes(ap.topo, Current)
    BY <2>2, Zenon DEF EntriesServe, CurrentIsEntry, Current
  <2> QED BY <2>1, <2>3 DEF EntryServes
<1>3. CASE ~ (client # None /\ Fresh) /\ ~ (client = None /\ asked # << >>)
  <2>1. New = {}
    BY <1>3 DEF New
  <2> QED BY <2>1
<1> QED BY <1>1, <1>2, <1>3

(* The policies for latency take the socket with the most bandwidth and those  *)
(* closest to it, no more than are needed, and tell the largest latency to it; *)
(* those for bandwidth take sockets that no other surpasses (mctop_alloc.c,    *)
(* mctop_alloc_prep_min_lat, _bw_round_robin and _bw_bound): for every         *)
(* topology whose sockets and siblings are alike.                              *)
THEOREM PoliciesTakeBest == Spec => []BestSockets
<1>1. PlacementIInv => BestSockets
  <2> SUFFICES ASSUME PlacementIInv, NEW e \in New
               PROVE  Best(e.topo, e.a, e.n_config)
    BY Zenon DEF BestSockets, Best, Closest, Widest
  <2> QED BY NewServes, Zenon DEF Serves
<1> QED BY <1>1, PlacementInvariant, PTL

(* An allocator hands out as many contexts as its arguments promise, each      *)
(* once, of the sockets it lists and of each of them; no socket gives more     *)
(* than the limit; and a policy that takes cores first takes a second context  *)
(* of a core only when every core of its sockets is in use (mctop_alloc.c, the *)
(* mctop_alloc_prep functions): for every topology whose sockets are alike and *)
(* whose contexts are in one socket and one core each.                         *)
THEOREM PlacementsAreSound == Spec => []PlacementIsSound
<1>1. PlacementIInv => PlacementIsSound
  <2> SUFFICES ASSUME PlacementIInv PROVE PlacementIsSound
    OBVIOUS
  <2> SUFFICES ASSUME NEW e \in New, e.a.policy # "NONE"
      PROVE  LET t == e.topo
                 n_cores == PerSocketOf(t) \div t.n_hwcs_per_core
             IN  /\ IsInjective(e.a.hwcs)
                 /\ ToSet(e.a.hwcs) \subseteq Contexts(t)
                 /\ e.a.policy # "BW_BOUND" => Len(e.a.hwcs) = Promised(e)
                 /\ IsInjective(e.a.sockets)
                 /\ ToSet(e.a.sockets) = {s \in Sockets(t) : Taken(e, s) # {}}
                 /\ e.a.policy \in MinLat /\ e.n_config > 0
                      /\ (e.a.policy = "MIN_LAT_CORES" => e.n_config <= n_cores) =>
                         \A s \in Sockets(t) : Cardinality(Taken(e, s)) <= e.n_config
                 /\ e.a.policy \in {"MIN_LAT_CORES", "MIN_LAT_CORES_BALANCE"}
                      /\ (\E s \in Sockets(t) : Cardinality(CoresTaken(e, s)) < Cardinality(Taken(e, s)))
                      /\ ~(e.n_config \in 1..n_cores) =>
                         \A s \in ToSet(e.a.sockets) : Cardinality(CoresTaken(e, s)) = n_cores
    BY Zenon DEF PlacementIsSound
  <2> DEFINE t == e.topo
             a == e.a
             w == Wanted(t, e.n_hwcs)
             c == e.n_config
  <2>1. WellPlaced(t, a, w, c)
    BY NewServes, Zenon DEF Serves
  <2>2. /\ \A s : Taken(e, s) = TakenOf(t, a.hwcs, s)
        /\ \A s : CoresTaken(e, s) = CoresTakenOf(t, a.hwcs, s)
    BY Zenon DEF Taken, CoresTaken, TakenOf, CoresTakenOf, SocketOf, CoreOf
  <2>3. Promised(e) = Promise(t, a.policy, w, c)
    BY Zenon DEF Promised, Promise
  <2> HIDE DEF t, a, w, c
  <2>4. Spread(t, a.hwcs, a.sockets)
    BY <2>1, Zenon DEF WellPlaced
  <2>5. ToSet(a.hwcs) \subseteq Contexts(t) /\ IsInjective(a.hwcs) /\ IsInjective(a.sockets)
    BY <2>4 DEF Spread, ToSet
  <2>6. ToSet(a.sockets) = {s \in Sockets(t) : TakenOf(t, a.hwcs, s) # {}}
    <3>1. ToSet(a.sockets) = {SocketOf(t, h) : h \in ToSet(a.hwcs)} /\ a.sockets \in Seq(Sockets(t))
      BY <2>4, Zenon DEF Spread
    <3>2. ToSet(a.sockets) \subseteq Sockets(t)
      BY <3>1 DEF ToSet
    <3> QED BY <3>1, <3>2 DEF TakenOf
  <2>7. (\E s \in Sockets(t) : Cardinality(CoresTakenOf(t, a.hwcs, s)) < Cardinality(TakenOf(t, a.hwcs, s))) =>
          ~ \A s \in Sockets(t) : Cardinality(CoresTakenOf(t, a.hwcs, s)) = Cardinality(TakenOf(t, a.hwcs, s))
    <3> SUFFICES ASSUME NEW s \in Sockets(t),
                        Cardinality(CoresTakenOf(t, a.hwcs, s)) < Cardinality(TakenOf(t, a.hwcs, s)),
                        Cardinality(CoresTakenOf(t, a.hwcs, s)) = Cardinality(TakenOf(t, a.hwcs, s))
                 PROVE  FALSE
      BY Zenon
    <3>1. TakenOf(t, a.hwcs, s) \subseteq ToSet(a.hwcs) /\ IsFiniteSet(ToSet(a.hwcs))
      BY <2>4, MembersOf DEF TakenOf, Spread
    <3>2. Cardinality(TakenOf(t, a.hwcs, s)) \in Nat
      BY <3>1, FS_Subset, FS_CardinalityType
    <3> QED BY <3>2
  <2>8. a.policy \in {"MIN_LAT_CORES", "MIN_LAT_CORES_BALANCE"} =>
          \/ \A s \in Sockets(t) : Cardinality(CoresTakenOf(t, a.hwcs, s)) = Cardinality(TakenOf(t, a.hwcs, s))
          \/ \A s \in ToSet(a.sockets) : Cardinality(CoresTakenOf(t, a.hwcs, s)) = CoresIn(t)
    BY <2>1, Zenon DEF WellPlaced
  <2>9. a.policy # "BW_BOUND" => Len(a.hwcs) = Promised(e)
    BY <2>1, <2>3, Zenon DEF WellPlaced
  <2>10. a.policy \in MinLat /\ c > 0 /\ (a.policy = "MIN_LAT_CORES" => c <= CoresIn(t)) =>
           \A s \in Sockets(t) : Cardinality(TakenOf(t, a.hwcs, s)) <= c
    BY <2>1, Zenon DEF WellPlaced
  <2> QED BY <2>2, <2>5, <2>6, <2>7, <2>8, <2>9, <2>10, Zenon DEF t, a, c, CoresIn
<1> QED BY <1>1, PlacementInvariant, PTL
=============================================================================
