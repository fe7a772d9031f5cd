--------------------------- MODULE AllocPin_proofs ---------------------------
(***************************************************************************)
(* Proofs about pinning threads to allocators (mctop_alloc.c), for any     *)
(* number of threads, allocators and slots, and any use of the allocators  *)
(* that AllocPin allows.                                                   *)
(*                                                                         *)
(* The three ways to take a slot are exclusive for three reasons: the      *)
(* compare-and-swap on a slot that nobody holds; the counter, as long as   *)
(* nobody releases (CountsUp); the seats, which differ by themselves       *)
(* (SeatsKept).  That one does not spoil another rests on the calls a      *)
(* thread can be in (Phases).                                              *)
(***************************************************************************)
EXTENDS AllocPin, FiniteSetTheorems, TLAPS

(* Where a thread can be in each function, whether it is pinned there and   *)
(* how the allocator it goes to is used.                                    *)
Phases ==
  \A t \in Threads :
    /\ op[t] = "none" <=> pc[t] = "idle"
    /\ pc[t] # "idle" => ca[t] \in Allocs
    /\ pc[t] \in {"drop", "clear"} => is_pinned[t]
    /\ pc[t] \notin {"idle", "drop", "clear"} => ~ is_pinned[t] /\ ca[t] = alloc[t]
    /\ op[t] = "pin" => pc[t] \in {"take", "settle"} /\ Use[ca[t]] = "count"
    /\ op[t] = "search" =>
         /\ pc[t] \in {"test", "scan", "cas", "count", "settle", "drop", "clear"}
         /\ Use[ca[t]] = "search"
    /\ op[t] = "pin_on" =>
         /\ pc[t] \in {"mark", "count", "settle", "drop", "clear"}
         /\ Use[ca[t]] = "seat"
    /\ op[t] = "unpin" => pc[t] \in {"drop", "clear"} /\ ca[t] = alloc[t]

(* A thread that names its slot has that one. *)
SeatsKept ==
  \A t \in Threads :
    /\ op[t] = "pin_on" /\ pc[t] \in {"count", "settle"} => i[t] = Seat[t]
    /\ is_pinned[t] /\ Use[alloc[t]] = "seat" => id[t] = Seat[t]

(* An allocator whose slots are taken by the counter: no more users than    *)
(* slots; pins and releases alternate; while threads pin, every slot that   *)
(* was handed out is below the counter.                                     *)
CountsUp ==
  \A a \in Allocs : Use[a] = "count" =>
    /\ Cardinality(Users(a)) <= n_hwcs[a]
    /\ emptying[a] => \A t \in Threads : op[t] = "pin" => alloc[t] # a
    /\ ~ emptying[a] => \A t \in Threads : alloc[t] = a =>
         /\ pc[t] \notin {"drop", "clear"}
         /\ is_pinned[t] => id[t] < n_hwcs_used[a]
         /\ pc[t] = "settle" => i[t] < n_hwcs_used[a]

(* The counter counts. *)
CounterIsSize == \A a \in Allocs : n_hwcs_used[a] = Cardinality(Counted(a))

IInv ==
  /\ TypeOK
  /\ Phases
  /\ SeatsKept
  /\ CountsUp
  /\ SlotsExclusive
  /\ UsedMeansHeld
  /\ CounterIsSize
-----------------------------------------------------------------------------
(* A thread changes its own thread-local storage and its own variables. *)
LEMMA OthersKeep ==
  ASSUME TypeOK, NEW t \in Threads, Call(t) \/ Step(t)
  PROVE  \A u \in Threads \ {t} :
           /\ alloc'[u] = alloc[u] /\ is_pinned'[u] = is_pinned[u] /\ id'[u] = id[u]
           /\ pc'[u] = pc[u] /\ op'[u] = op[u] /\ ca'[u] = ca[u] /\ i'[u] = i[u]
<1> USE DEF Goto, Enter, Leave, info, TypeOK
<1>1. CASE Call(t)
  BY <1>1 DEF Call, CallPin, CallPinPlus, CallPinSimple, CallPinOn, CallPoolPin,
     CallPoolPinOn, CallUnpin, Pin, PinPlus, PinSimple, PinOn, PoolPin, PoolPinOn,
     PoolEnter, Unpin
<1>2. CASE Take(t) \/ Count(t) \/ Drop(t)
  BY <1>2 DEF Take, Count, Drop
<1>3. CASE Test(t) \/ Scan(t) \/ Cas(t)
  BY <1>3 DEF Test, Scan, Cas, Advance
<1>4. CASE Mark(t) \/ Settle(t)
  BY <1>4 DEF Mark, Settle
<1>5. CASE Clear(t)
  BY <1>5 DEF Clear, AfterRelease
<1> QED
  BY <1>1, <1>2, <1>3, <1>4, <1>5 DEF Step

(* What a call does to the thread that makes it, whichever function it is: *)
(* a pinned thread goes to its release, another one to what takes a slot.   *)
Entered(t) ==
  /\ pc[t] = "idle" /\ op[t] = "none"
  /\ UNCHANGED <<slots, current_alloc, is_pinned, id, i>>
  /\ ca'[t] \in Allocs /\ alloc'[t] \in Allocs
  /\ is_pinned[t] =>
       /\ pc'[t] = "drop" /\ alloc'[t] = alloc[t]
       /\ op'[t] \in {"search", "pin_on", "unpin"}
       /\ op'[t] = "unpin" => ca'[t] = alloc[t]
  /\ ~ is_pinned[t] =>
       /\ alloc'[t] = ca'[t]
       /\ \/ pc'[t] = "take" /\ op'[t] = "pin"
          \/ pc'[t] = "test" /\ op'[t] = "search"
          \/ pc'[t] = "mark" /\ op'[t] = "pin_on"
  /\ op'[t] = "pin"    => Use[ca'[t]] = "count"
  /\ op'[t] = "search" => Use[ca'[t]] = "search"
  /\ op'[t] = "pin_on" => Use[ca'[t]] = "seat"

(* A call moves an idle thread to its first step and touches no slot.        *)
LEMMA CallEnters ==
  ASSUME TypeOK, Phases, NEW t \in Threads, Call(t)
  PROVE  Entered(t)
<1> USE AllocPinAssumption DEF Goto, Enter, info, TypeOK
<1>1. pc[t] = "idle" /\ op[t] = "none" /\ Pool \subseteq Allocs
  BY DEF Call, CallPin, CallPinPlus, CallPinSimple, CallPinOn, CallPoolPin,
     CallPoolPinOn, CallUnpin, Pin, PinPlus, PinSimple, PinOn, PoolPin, PoolPinOn,
     PoolEnter, Unpin, Phases
<1>2. ASSUME NEW a \in Allocs, CallPin(t, a) PROVE Entered(t)
  BY <1>1, <1>2 DEF CallPin, Pin, Entered
<1>3. ASSUME NEW a \in Allocs, CallPinPlus(t, a) PROVE Entered(t)
  <2>1. CASE is_pinned[t]
    BY <1>1, <1>3, <2>1 DEF CallPinPlus, PinPlus, Entered
  <2>2. CASE ~ is_pinned[t]
    BY <1>1, <1>3, <2>2 DEF CallPinPlus, PinPlus, Entered
  <2> QED
    BY <2>1, <2>2
<1>4. ASSUME NEW a \in Allocs, CallPinSimple(t, a) \/ CallPinOn(t, a) PROVE Entered(t)
  BY <1>1, <1>4 DEF CallPinSimple, CallPinOn, PinSimple, PinOn, Entered
<1>5. CASE CallPoolPin(t)
  BY <1>1, <1>5 DEF CallPoolPin, PoolPin, PoolEnter, Entered
<1>6. CASE CallPoolPinOn(t)
  BY <1>1, <1>6 DEF CallPoolPinOn, PoolPinOn, PoolEnter, Entered
<1>7. CASE CallUnpin(t)
  BY <1>1, <1>7 DEF CallUnpin, Unpin, Entered
<1> QED
  BY <1>2, <1>3, <1>4, <1>5, <1>6, <1>7 DEF Call
-----------------------------------------------------------------------------
(* Users and counted threads, and the slots of an allocator, are finite sets. *)
LEMMA Sizes ==
  ASSUME TypeOK, NEW a \in Allocs
  PROVE  /\ IsFiniteSet(Users(a)) /\ Cardinality(Users(a)) \in Nat
         /\ IsFiniteSet(Counted(a)) /\ Cardinality(Counted(a)) \in Nat
         /\ Counted(a) \subseteq Users(a)
         /\ Cardinality(Counted(a)) <= Cardinality(Threads)
         /\ Cardinality(Threads) \in Nat
         /\ IsFiniteSet(Slots(a)) /\ Cardinality(Slots(a)) = n_hwcs[a]
<1>1. IsFiniteSet(Threads) /\ n_hwcs[a] \in Nat \ {0}
  BY AllocPinAssumption
<1>2. Users(a) \subseteq Threads /\ Counted(a) \subseteq Threads
  BY DEF Users, Counted
<1>3. Counted(a) \subseteq Users(a)
  BY DEF Users, Counted
<1>4. IsFiniteSet(Slots(a)) /\ Cardinality(Slots(a)) = n_hwcs[a]
  <2>1. 0 \in Int /\ n_hwcs[a] - 1 \in Int /\ ~ (0 > n_hwcs[a] - 1)
        /\ n_hwcs[a] - 1 - 0 + 1 = n_hwcs[a]
    BY <1>1
  <2> QED
    BY <2>1, FS_Interval DEF Slots
<1> QED
  BY <1>1, <1>2, <1>3, <1>4, FS_Subset, FS_CardinalityType

(* The counter, when a thread takes the slot of its number, is a slot. *)
LEMMA TakesASlot ==
  ASSUME IInv, NEW t \in Threads, pc[t] = "take"
  PROVE  /\ alloc[t] \in Allocs /\ Use[alloc[t]] = "count" /\ ~ emptying[alloc[t]]
         /\ n_hwcs_used[alloc[t]] \in Slots(alloc[t])
         /\ op[t] = "pin" /\ ~ is_pinned[t]
<1> DEFINE a == alloc[t]
<1>1. op[t] = "pin" /\ ~ is_pinned[t] /\ a \in Allocs /\ Use[a] = "count"
  <2>1. op[t] \in Ops /\ ca[t] = a /\ ca[t] \in Allocs /\ ~ is_pinned[t] /\ op[t] # "none"
    BY DEF IInv, TypeOK, Phases
  <2> QED
    BY <2>1 DEF IInv, Phases, Ops
<1>2. ~ emptying[a] /\ Cardinality(Users(a)) <= n_hwcs[a]
  BY <1>1 DEF IInv, CountsUp
<1>3. t \in Users(a) /\ t \notin Counted(a)
  BY <1>1 DEF Users, Counted
<1>4. Cardinality(Counted(a)) + 1 <= Cardinality(Users(a))
  <2>1. /\ IsFiniteSet(Users(a)) /\ IsFiniteSet(Counted(a))
        /\ Counted(a) \cup {t} \in SUBSET Users(a)
    BY <1>1, <1>3, Sizes DEF IInv
  <2>2. Cardinality(Counted(a) \cup {t}) = Cardinality(Counted(a)) + 1
    BY <1>3, <2>1, FS_AddElement
  <2> QED
    BY <2>1, <2>2, FS_Subset
<1>5. n_hwcs_used[a] = Cardinality(Counted(a)) /\ Cardinality(Counted(a)) \in Nat
  BY <1>1, Sizes DEF IInv, CounterIsSize
<1>6. n_hwcs[a] \in Nat /\ Cardinality(Users(a)) \in Nat
  BY <1>1, Sizes, AllocPinAssumption DEF IInv
<1> QED
  BY <1>1, <1>2, <1>4, <1>5, <1>6 DEF Slots
-----------------------------------------------------------------------------
(* Types.  Every index into hwcs_used is a slot of the allocator. *)
Typed ==
  /\ DOMAIN hwcs_used = Allocs
  /\ \A a \in Allocs : hwcs_used[a] \in [Slots(a) -> {0, 1}]
  /\ n_hwcs_used \in [Allocs -> 0..UIntRange - 1]
  /\ current_alloc \in Pool
  /\ alloc \in [Threads -> Allocs \cup {NULL}]
  /\ is_pinned \in [Threads -> BOOLEAN]
  /\ id \in [Threads -> Nat \cup {-1}]
  /\ pc \in [Threads -> Pcs]
  /\ op \in [Threads -> Ops]
  /\ ca \in [Threads -> Allocs \cup {NULL}]
  /\ i \in [Threads -> Nat]
  /\ emptying \in [Allocs -> BOOLEAN]

InBounds(t) ==
  /\ pc[t] # "idle" \/ is_pinned[t] => alloc[t] \in Allocs
  /\ pc[t] \in {"scan", "cas", "count", "settle"} => i[t] \in Slots(alloc[t])
  /\ is_pinned[t] => id[t] \in Slots(alloc[t])

(* TypeOK, split for the steps that need one part.                           *)
LEMMA TypeParts ==
  /\ TypeOK <=> Typed /\ \A t \in Threads : InBounds(t)
  /\ TypeOK' <=> Typed' /\ \A t \in Threads : InBounds(t)'
BY DEF TypeOK, Typed, InBounds

(* The slots of an allocator are the indices of its marks.                   *)
LEMMA SlotsTyped ==
  ASSUME DOMAIN hwcs_used = Allocs,
         \A a \in Allocs : hwcs_used[a] \in [Slots(a) -> {0, 1}],
         NEW b, NEW s, NEW v \in {0, 1},
         hwcs_used' = hwcs_used \/ hwcs_used' = [hwcs_used EXCEPT ![b][s] = v]
  PROVE  /\ DOMAIN hwcs_used' = Allocs
         /\ \A a \in Allocs : hwcs_used'[a] \in [Slots(a) -> {0, 1}]
OBVIOUS

(* A step of one thread keeps the types of what it writes.                   *)
LEMMA TypedStep ==
  ASSUME IInv, NEW t \in Threads, Call(t) \/ Step(t)
  PROVE  Typed'
<1> USE AllocPinAssumption DEF Goto, Leave, info, slots
<1>0. Typed /\ InBounds(t) /\ Phases
  BY TypeParts DEF IInv
<1>a. \A a \in Allocs : n_hwcs[a] \in Nat \ {0}
  OBVIOUS
<1>b. /\ \A n \in 0..UIntRange - 1 : Incremented(n) \in 0..UIntRange - 1
      /\ \A n \in 0..UIntRange - 1 : Decremented(n) \in 0..UIntRange - 1
  BY DEF Incremented, Decremented
<1>1. CASE Call(t)
  <2>1. UNCHANGED <<hwcs_used, n_hwcs_used, current_alloc, is_pinned, id, i>>
    BY <1>0, <1>1, CallEnters, TypeParts DEF Entered, IInv
  <2>2. /\ pc' \in [Threads -> Pcs] /\ op' \in [Threads -> Ops]
        /\ ca' \in [Threads -> Allocs \cup {NULL}]
    <3>1. ASSUME NEW f \in Ops, NEW q \in Pcs, NEW a \in Allocs, Enter(t, f, a, q)
          PROVE  <2>2!:
      BY <1>0, <3>1 DEF Enter, Typed
    <3>2. /\ {"search", "pin", "pin_on", "unpin"} \subseteq Ops
          /\ {"drop", "test", "take", "mark"} \subseteq Pcs
      BY DEF Ops, Pcs
    <3>3. current_alloc \in Allocs /\ (is_pinned[t] => alloc[t] \in Allocs)
      BY <1>0 DEF Typed, InBounds
    <3>4. ASSUME NEW a \in Allocs, CallPin(t, a) \/ CallPinSimple(t, a) \/ CallPinOn(t, a)
          PROVE  <2>2!:
      BY <3>1, <3>2, <3>4 DEF CallPin, CallPinSimple, CallPinOn, Pin, PinSimple, PinOn
    <3>5. ASSUME NEW a \in Allocs, CallPinPlus(t, a)
          PROVE  <2>2!:
      <4>1. (IF is_pinned[t] THEN "drop" ELSE "test") \in Pcs
        BY <3>2
      <4> QED
        BY <3>1, <3>2, <3>5, <4>1 DEF CallPinPlus, PinPlus
    <3>6. CASE CallPoolPin(t) \/ CallPoolPinOn(t)
      BY <3>1, <3>2, <3>3, <3>6 DEF CallPoolPin, CallPoolPinOn, PoolPin, PoolPinOn, PoolEnter
    <3>7. CASE CallUnpin(t)
      BY <3>1, <3>2, <3>3, <3>7 DEF CallUnpin, Unpin
    <3> QED
      BY <1>1, <3>4, <3>5, <3>6, <3>7 DEF Call
  <2>3. alloc' \in [Threads -> Allocs \cup {NULL}] /\ emptying' \in [Allocs -> BOOLEAN]
    <3>1. CASE \E a \in Allocs : CallPin(t, a) \/ CallPinPlus(t, a) \/ CallPinSimple(t, a)
                                 \/ CallPinOn(t, a)
      BY <1>0, <3>1 DEF CallPin, CallPinPlus, CallPinSimple, CallPinOn, Pin, PinPlus,
         PinSimple, PinOn, Typed
    <3>2. CASE CallPoolPin(t) \/ CallPoolPinOn(t) \/ CallUnpin(t)
      BY <1>0, <3>2 DEF CallPoolPin, CallPoolPinOn, CallUnpin, PoolPin, PoolPinOn,
         PoolEnter, Unpin, Typed
    <3> QED
      BY <1>1, <3>1, <3>2 DEF Call
  <2> QED
    BY <1>0, <2>1, <2>2, <2>3 DEF Typed
<1>2. CASE Take(t)
  <2>1. n_hwcs_used[alloc[t]] \in Nat /\ alloc[t] \in Allocs
    BY <1>2, TakesASlot DEF Take, Slots
  <2>2. /\ pc' \in [Threads -> Pcs] /\ i' \in [Threads -> Nat]
        /\ n_hwcs_used' \in [Allocs -> 0..UIntRange - 1]
    BY <1>0, <1>b, <1>2, <2>1 DEF Take, Pcs, Typed
  <2> QED
    BY <1>0, <1>2, <2>2 DEF Take, Typed
<1>3. CASE Test(t)
  <2>1. UNCHANGED <<hwcs_used, n_hwcs_used, current_alloc, alloc, is_pinned, id, emptying>>
    BY <1>3 DEF Test
  <2>2. /\ pc' \in [Threads -> Pcs] /\ i' \in [Threads -> Nat] /\ op' \in [Threads -> Ops]
        /\ ca' \in [Threads -> Allocs \cup {NULL}]
    <3>1. CASE Goto(t, "test", "scan") /\ i' = [i EXCEPT ![t] = 0] /\ UNCHANGED <<op, ca>>
      BY <1>0, <3>1 DEF Typed, Pcs
    <3>2. CASE Leave(t, "test")
      BY <1>0, <3>2 DEF Typed, Pcs, Ops
    <3> QED
      BY <1>3, <3>1, <3>2 DEF Test
  <2> QED
    BY <1>0, <2>1, <2>2 DEF Typed
<1>4. CASE Scan(t)
  <2>1. UNCHANGED <<hwcs_used, n_hwcs_used, current_alloc, alloc, is_pinned, id, op, ca, emptying>>
    BY <1>4 DEF Scan
  <2>2. pc' \in [Threads -> Pcs] /\ i' \in [Threads -> Nat]
    BY <1>0, <1>4 DEF Scan, Advance, Pcs, Typed
  <2> QED
    BY <1>0, <2>1, <2>2 DEF Typed
<1>5. CASE Cas(t)
  <2>1. hwcs_used' = hwcs_used \/ hwcs_used' = [hwcs_used EXCEPT ![alloc[t]][i[t]] = 1]
    BY <1>5 DEF Cas
  <2>2. pc' \in [Threads -> Pcs] /\ i' \in [Threads -> Nat]
    BY <1>0, <1>5 DEF Cas, Advance, Pcs, Typed
  <2>3. UNCHANGED <<n_hwcs_used, current_alloc, alloc, is_pinned, id, op, ca, emptying>>
    BY <1>5 DEF Cas
  <2> QED
    BY <1>0, <2>1, <2>2, <2>3, SlotsTyped DEF Typed
<1>6. CASE Count(t)
  <2>1. alloc[t] \in Allocs
    BY <1>0, <1>6 DEF Count, InBounds
  <2> QED
    BY <1>0, <1>b, <1>6, <2>1 DEF Count, Pcs, Typed
<1>7. CASE Mark(t)
  <2>1. /\ pc' \in [Threads -> Pcs] /\ i' \in [Threads -> Nat] /\ op' \in [Threads -> Ops]
        /\ ca' \in [Threads -> Allocs \cup {NULL}]
    <3>1. CASE Leave(t, "mark")
      BY <1>0, <3>1 DEF Typed, Pcs, Ops
    <3>2. CASE Goto(t, "mark", "count") /\ i' = [i EXCEPT ![t] = Seat[t]] /\ UNCHANGED <<op, ca>>
      BY <1>0, <3>2 DEF Typed, Pcs
    <3> QED
      BY <1>7, <3>1, <3>2 DEF Mark
  <2>2. hwcs_used' = hwcs_used \/ hwcs_used' = [hwcs_used EXCEPT ![alloc[t]][Seat[t]] = 1]
    BY <1>7 DEF Mark
  <2>3. UNCHANGED <<n_hwcs_used, current_alloc, alloc, is_pinned, id, emptying>>
    BY <1>7 DEF Mark
  <2> QED
    BY <1>0, <2>1, <2>2, <2>3, SlotsTyped DEF Typed
<1>8. CASE Settle(t)
  <2>1. /\ pc' \in [Threads -> Pcs] /\ i' \in [Threads -> Nat] /\ op' \in [Threads -> Ops]
        /\ ca' \in [Threads -> Allocs \cup {NULL}]
        /\ is_pinned' \in [Threads -> BOOLEAN] /\ id' \in [Threads -> Nat \cup {-1}]
    BY <1>0, <1>8 DEF Settle, Pcs, Ops, Typed
  <2>2. hwcs_used' = hwcs_used \/ hwcs_used' = [hwcs_used EXCEPT ![alloc[t]][i[t]] = 1]
    BY <1>8 DEF Settle
  <2>3. UNCHANGED <<n_hwcs_used, current_alloc, alloc, emptying>>
    BY <1>8 DEF Settle
  <2> QED
    BY <1>0, <2>1, <2>2, <2>3, SlotsTyped DEF Typed
<1>9. CASE Drop(t)
  <2>1. alloc[t] \in Allocs
    BY <1>0, <1>9 DEF Drop, InBounds
  <2> QED
    BY <1>0, <1>b, <1>9, <2>1 DEF Drop, Pcs, Typed
<1>10. CASE Clear(t)
  <2>1. ca[t] \in Allocs /\ alloc[t] \in Allocs
    BY <1>0, <1>10 DEF Clear, Phases, InBounds
  <2>2. /\ pc' \in [Threads -> Pcs] /\ i' \in [Threads -> Nat] /\ op' \in [Threads -> Ops]
        /\ ca' \in [Threads -> Allocs \cup {NULL}]
    <3>1. CASE Leave(t, "clear")
      BY <1>0, <3>1 DEF Typed, Pcs, Ops
    <3>2. CASE (Goto(t, "clear", "test") \/ Goto(t, "clear", "mark")) /\ UNCHANGED <<op, ca, i>>
      BY <1>0, <3>2 DEF Typed, Pcs
    <3> QED
      BY <1>10, <3>1, <3>2 DEF Clear, AfterRelease
  <2>3. /\ is_pinned' \in [Threads -> BOOLEAN] /\ alloc' \in [Threads -> Allocs \cup {NULL}]
        /\ emptying' \in [Allocs -> BOOLEAN]
    BY <1>0, <1>10, <2>1 DEF Clear, Typed
  <2>4. hwcs_used' = hwcs_used \/ hwcs_used' = [hwcs_used EXCEPT ![alloc[t]][id[t]] = 0]
    BY <1>10 DEF Clear
  <2>5. UNCHANGED <<n_hwcs_used, current_alloc, id>>
    BY <1>10 DEF Clear
  <2> QED
    BY <1>0, <2>2, <2>3, <2>4, <2>5, SlotsTyped DEF Typed
<1> QED
  BY <1>1, <1>2, <1>3, <1>4, <1>5, <1>6, <1>7, <1>8, <1>9, <1>10 DEF Step

(* A step keeps counters and indices inside their bounds.                    *)
LEMMA BoundsStep ==
  ASSUME IInv, NEW t \in Threads, Call(t) \/ Step(t)
  PROVE  InBounds(t)'
<1> USE DEF Goto, Leave, info
<1>0. TypeOK /\ Typed /\ InBounds(t) /\ Phases
  BY TypeParts DEF IInv
<1>a. \A a \in Allocs : n_hwcs[a] \in Nat \ {0}
  BY AllocPinAssumption
<1>b. pc[t] # "idle" => alloc[t] \in Allocs /\ n_hwcs[alloc[t]] \in Nat \ {0}
  BY <1>0, <1>a DEF InBounds
<1>1. CASE Call(t)
  <2>1. Entered(t)
    BY <1>0, <1>1, CallEnters
  <2>2. /\ alloc'[t] \in Allocs /\ is_pinned'[t] = is_pinned[t] /\ id'[t] = id[t]
        /\ is_pinned[t] => alloc'[t] = alloc[t]
        /\ pc'[t] \in {"drop", "take", "test", "mark"}
    BY <2>1 DEF Entered
  <2> QED
    BY <1>0, <2>2 DEF InBounds, Slots
<1>2. CASE Take(t)
  <2>1. /\ pc'[t] = "settle" /\ i'[t] = n_hwcs_used[alloc[t]]
        /\ UNCHANGED <<alloc, is_pinned, id>>
    BY <1>0, <1>2 DEF Take, Typed
  <2>2. n_hwcs_used[alloc[t]] \in Slots(alloc[t]) /\ alloc[t] \in Allocs
    BY <1>2, TakesASlot DEF Take
  <2> QED
    BY <1>0, <2>1, <2>2 DEF InBounds, Slots
<1>3. CASE Test(t)
  <2>1. /\ UNCHANGED <<alloc, is_pinned, id>> /\ pc[t] = "test"
        /\ \/ pc'[t] = "idle"
           \/ pc'[t] = "scan" /\ i'[t] = 0
    BY <1>0, <1>3 DEF Test, Typed
  <2> QED
    BY <1>0, <1>b, <2>1 DEF InBounds, Slots
<1>4. CASE Scan(t) \/ Cas(t)
  <2>1. /\ UNCHANGED <<alloc, is_pinned, id>> /\ pc[t] \in {"scan", "cas"}
        /\ \/ pc'[t] \in {"cas", "count"} /\ i'[t] = i[t]
           \/ pc'[t] = "scan" /\ i'[t] = i[t] + 1 /\ i[t] + 1 < n_hwcs[alloc[t]]
           \/ pc'[t] = "test"
    BY <1>0, <1>4 DEF Scan, Cas, Advance, Typed
  <2> QED
    BY <1>0, <1>b, <2>1 DEF InBounds, Slots
<1>5. CASE Count(t) \/ Drop(t)
  <2>1. /\ UNCHANGED <<alloc, is_pinned, id, i>>
        /\ \/ pc[t] = "count" /\ pc'[t] = "settle"
           \/ pc[t] = "drop" /\ pc'[t] = "clear"
    BY <1>0, <1>5 DEF Count, Drop, Typed
  <2> QED
    BY <1>0, <2>1 DEF InBounds, Slots
<1>6. CASE Mark(t)
  <2>1. /\ UNCHANGED <<alloc, is_pinned, id>> /\ pc[t] = "mark"
        /\ \/ pc'[t] = "idle"
           \/ pc'[t] = "count" /\ i'[t] = Seat[t] /\ Seat[t] < n_hwcs[alloc[t]]
    BY <1>0, <1>6 DEF Mark, Typed
  <2>2. Seat[t] \in Nat
    BY AllocPinAssumption
  <2> QED
    BY <1>0, <1>b, <2>1, <2>2 DEF InBounds, Slots
<1>7. CASE Settle(t)
  <2>1. /\ pc[t] = "settle" /\ pc'[t] = "idle" /\ id'[t] = i[t] /\ alloc' = alloc
    BY <1>0, <1>7 DEF Settle, Typed
  <2> QED
    BY <1>0, <2>1 DEF InBounds, Slots
<1>8. CASE Clear(t)
  <2>1. /\ pc[t] = "clear" /\ pc'[t] \in {"idle", "test", "mark"}
        /\ is_pinned'[t] = FALSE /\ alloc'[t] = ca[t]
    BY <1>0, <1>8 DEF Clear, AfterRelease, Typed
  <2> QED
    BY <1>0, <2>1 DEF InBounds, Phases
<1> QED
  BY <1>1, <1>2, <1>3, <1>4, <1>5, <1>6, <1>7, <1>8 DEF Step

(* Every step keeps TypeOK.                                                  *)
LEMMA TypeStep ==
  ASSUME IInv, NEW t \in Threads, Call(t) \/ Step(t)
  PROVE  TypeOK'
<1>1. \A u \in Threads : InBounds(u)
  BY TypeParts DEF IInv
<1>2. ASSUME NEW u \in Threads \ {t} PROVE InBounds(u)'
  BY <1>1, OthersKeep DEF IInv, InBounds, Slots
<1> QED
  BY <1>2, TypedStep, BoundsStep, TypeParts
-----------------------------------------------------------------------------
(* Where the threads are. *)
LEMMA PhasesStep ==
  ASSUME IInv, NEW t \in Threads, Call(t) \/ Step(t)
  PROVE  Phases' /\ SeatsKept'
<1> USE DEF Goto, Leave, info
<1>0. TypeOK /\ Typed /\ InBounds(t) /\ Phases /\ SeatsKept
  BY TypeParts DEF IInv
<1> DEFINE
  Phase ==
    /\ op[t] = "none" <=> pc[t] = "idle"
    /\ pc[t] # "idle" => ca[t] \in Allocs
    /\ pc[t] \in {"drop", "clear"} => is_pinned[t]
    /\ pc[t] \notin {"idle", "drop", "clear"} => ~ is_pinned[t] /\ ca[t] = alloc[t]
    /\ op[t] = "pin" => pc[t] \in {"take", "settle"} /\ Use[ca[t]] = "count"
    /\ op[t] = "search" =>
         /\ pc[t] \in {"test", "scan", "cas", "count", "settle", "drop", "clear"}
         /\ Use[ca[t]] = "search"
    /\ op[t] = "pin_on" =>
         /\ pc[t] \in {"mark", "count", "settle", "drop", "clear"}
         /\ Use[ca[t]] = "seat"
    /\ op[t] = "unpin" => pc[t] \in {"drop", "clear"} /\ ca[t] = alloc[t]
    /\ op[t] = "pin_on" /\ pc[t] \in {"count", "settle"} => i[t] = Seat[t]
    /\ is_pinned[t] /\ Use[alloc[t]] = "seat" => id[t] = Seat[t]
<1>a. Phase /\ op[t] \in Ops
  BY <1>0 DEF Phases, SeatsKept, Typed
<1>b. op[t] \in {"none", "pin", "search", "pin_on", "unpin"}
  BY <1>a DEF Ops
<1>c. Phase' => Phases' /\ SeatsKept'
  BY <1>0, OthersKeep DEF Phases, SeatsKept
<1>1. CASE Call(t)
  <2>1. Entered(t)
    BY <1>0, <1>1, CallEnters
  <2>2. is_pinned'[t] = is_pinned[t] /\ id'[t] = id[t]
    BY <2>1 DEF Entered
  <2>3. Phase'
    BY <1>a, <2>1, <2>2 DEF Entered
  <2> QED
    BY <1>c, <2>3
<1>2. CASE Take(t) \/ Count(t) \/ Drop(t)
  <2>1. /\ UNCHANGED <<alloc, is_pinned, id, op, ca>>
        /\ \/ pc[t] = "take" /\ pc'[t] = "settle"
           \/ pc[t] = "count" /\ pc'[t] = "settle" /\ i' = i
           \/ pc[t] = "drop" /\ pc'[t] = "clear" /\ i' = i
    BY <1>0, <1>2 DEF Take, Count, Drop, Typed
  <2>2. Phase'
    BY <1>a, <1>b, <2>1
  <2> QED
    BY <1>c, <2>2
<1>3. CASE Test(t)
  <2>1. /\ UNCHANGED <<alloc, is_pinned, id>> /\ pc[t] = "test"
        /\ \/ pc'[t] = "idle" /\ op'[t] = "none"
           \/ pc'[t] = "scan" /\ UNCHANGED <<op, ca>>
    BY <1>0, <1>3 DEF Test, Typed
  <2>2. Phase'
    BY <1>a, <1>b, <2>1
  <2> QED
    BY <1>c, <2>2
<1>4. CASE Scan(t) \/ Cas(t)
  <2>1. /\ UNCHANGED <<alloc, is_pinned, id, op, ca>> /\ pc[t] \in {"scan", "cas"}
        /\ pc'[t] \in {"scan", "cas", "count", "test"}
    BY <1>0, <1>4 DEF Scan, Cas, Advance, Typed
  <2>2. Phase'
    BY <1>a, <1>b, <2>1
  <2> QED
    BY <1>c, <2>2
<1>5. CASE Mark(t)
  <2>1. /\ UNCHANGED <<alloc, is_pinned, id>> /\ pc[t] = "mark"
        /\ \/ pc'[t] = "idle" /\ op'[t] = "none"
           \/ pc'[t] = "count" /\ i'[t] = Seat[t] /\ UNCHANGED <<op, ca>>
    BY <1>0, <1>5 DEF Mark, Typed
  <2>2. Phase'
    BY <1>a, <1>b, <2>1
  <2> QED
    BY <1>c, <2>2
<1>6. CASE Settle(t)
  <2>1. /\ pc[t] = "settle" /\ pc'[t] = "idle" /\ op'[t] = "none"
        /\ is_pinned'[t] = TRUE /\ id'[t] = i[t] /\ alloc' = alloc
    BY <1>0, <1>6 DEF Settle, Typed
  <2>2. Use[alloc[t]] = "seat" => op[t] = "pin_on"
    BY <1>a, <1>b, <2>1
  <2>3. Phase'
    BY <1>a, <1>b, <2>1, <2>2
  <2> QED
    BY <1>c, <2>3
<1>7. CASE Clear(t)
  <2>1. /\ pc[t] = "clear" /\ is_pinned'[t] = FALSE /\ alloc'[t] = ca[t]
        /\ \/ pc'[t] = "idle" /\ op'[t] = "none"
           \/ pc'[t] = "test" /\ op[t] = "search" /\ UNCHANGED <<op, ca, i>>
           \/ pc'[t] = "mark" /\ op[t] = "pin_on" /\ UNCHANGED <<op, ca, i>>
    BY <1>0, <1>7 DEF Clear, AfterRelease, Typed
  <2>2. Phase'
    BY <1>a, <1>b, <2>1
  <2> QED
    BY <1>c, <2>2
<1> QED
  BY <1>1, <1>2, <1>3, <1>4, <1>5, <1>6, <1>7 DEF Step
-----------------------------------------------------------------------------
(* Who has which slot, and which of these the slot's mark stands for: a     *)
(* thread that took the number of the counter has not marked it yet.        *)
Marks(t, a, s) == Holds(t, a, s) /\ ~ (pc[t] = "settle" /\ op[t] = "pin")

(* Nobody but t gains or loses a slot, a place in the counter, an allocator. *)
LEMMA OthersHold ==
  ASSUME TypeOK, NEW t \in Threads, Call(t) \/ Step(t)
  PROVE  \A u \in Threads \ {t}, a \in Allocs :
           /\ \A s : (Holds(u, a, s)' <=> Holds(u, a, s)) /\ (Marks(u, a, s)' <=> Marks(u, a, s))
           /\ u \in Counted(a)' <=> u \in Counted(a)
           /\ u \in Users(a)' <=> u \in Users(a)
BY OthersKeep DEF Holds, Marks, Counted, Users

(* A call, a test and a look at a slot take and release nothing. *)
LEMMA QuietStep ==
  ASSUME IInv, NEW t \in Threads, Call(t) \/ Test(t) \/ Scan(t)
  PROVE  /\ UNCHANGED slots
         /\ \A a \in Allocs : /\ \A s : Holds(t, a, s)' <=> Holds(t, a, s)
                              /\ \A s : Marks(t, a, s)' <=> Marks(t, a, s)
                              /\ t \in Counted(a)' <=> t \in Counted(a)
<1> USE DEF Goto, Leave, info, slots
<1>0. TypeOK /\ Typed /\ Phases
  BY TypeParts DEF IInv
<1>1. CASE Call(t)
  <2>1. Entered(t)
    BY <1>0, <1>1, CallEnters
  <2>2. /\ UNCHANGED <<hwcs_used, n_hwcs_used>>
        /\ is_pinned'[t] = is_pinned[t] /\ id'[t] = id[t]
        /\ is_pinned[t] => alloc'[t] = alloc[t]
        /\ pc[t] = "idle" /\ pc'[t] \in {"drop", "take", "test", "mark"}
    BY <2>1 DEF Entered
  <2> QED
    BY <2>2 DEF Holds, Marks, Counted
<1>2. CASE Test(t) \/ Scan(t)
  <2>1. /\ UNCHANGED <<hwcs_used, n_hwcs_used, alloc, is_pinned, id>>
        /\ pc[t] \in {"test", "scan"} /\ pc'[t] \in {"idle", "test", "scan", "cas"}
    BY <1>0, <1>2 DEF Test, Scan, Advance, Typed
  <2>2. ~ is_pinned[t]
    BY <1>0, <2>1 DEF Phases
  <2> QED
    BY <2>1, <2>2 DEF Holds, Marks, Counted
<1> QED
  BY <1>1, <1>2

(* What a thread holds in an allocator with seats is its seat. *)
LEMMA HoldsOwnSeat ==
  ASSUME IInv, NEW u \in Threads, NEW a \in Allocs, NEW s, Use[a] = "seat", Holds(u, a, s)
  PROVE  s = Seat[u]
<1>1. /\ alloc[u] = a /\ (is_pinned[u] => id[u] = Seat[u])
      /\ \/ is_pinned[u] /\ id[u] = s
         \/ pc[u] \in {"count", "settle"} /\ i[u] = s
  BY DEF IInv, SeatsKept, Holds
<1>2. CASE pc[u] \in {"count", "settle"}
  <2>1. ca[u] = a /\ op[u] \in Ops /\ op[u] # "none" /\ ~ is_pinned[u]
    BY <1>1, <1>2 DEF IInv, TypeOK, Phases
  <2>2. op[u] = "pin_on"
    BY <2>1, <1>2 DEF IInv, Phases, Ops
  <2> QED
    BY <1>1, <1>2, <2>1, <2>2 DEF IInv, SeatsKept
<1> QED
  BY <1>1, <1>2

(* What a thread holds in an allocator with a counter, while nobody         *)
(* releases, is below the counter.                                          *)
LEMMA HoldsBelow ==
  ASSUME IInv, NEW u \in Threads, NEW a \in Allocs, NEW s, Use[a] = "count",
         ~ emptying[a], Holds(u, a, s)
  PROVE  s < n_hwcs_used[a]
<1>1. /\ alloc[u] = a
      /\ \/ is_pinned[u] /\ id[u] = s
         \/ pc[u] \in {"count", "settle"} /\ i[u] = s
  BY DEF Holds
<1>2. pc[u] # "count"
  <2>1. ASSUME pc[u] = "count" PROVE FALSE
    <3>1. ca[u] = a /\ op[u] \in Ops /\ op[u] # "none"
      BY <1>1, <2>1 DEF IInv, TypeOK, Phases
    <3> QED
      BY <2>1, <3>1 DEF IInv, Phases, Ops
  <2> QED
    BY <2>1
<1> QED
  BY <1>1, <1>2 DEF IInv, CountsUp

(* In an allocator that is searched nobody holds a slot that is not marked. *)
LEMMA HoldsMarked ==
  ASSUME IInv, NEW u \in Threads, NEW a \in Allocs, NEW s, Use[a] # "count", Holds(u, a, s)
  PROVE  Marks(u, a, s)
<1>1. alloc[u] = a
  BY DEF Holds
<1>2. pc[u] = "settle" => op[u] # "pin"
  BY <1>1 DEF IInv, Phases
<1> QED
  BY <1>2 DEF Marks
-----------------------------------------------------------------------------
(* Slots.  A step that takes slot s of allocator b keeps the slots          *)
(* exclusive if nobody has s; one that takes nothing keeps them anyway.     *)
LEMMA ExclusiveStep ==
  ASSUME IInv, NEW t \in Threads, Call(t) \/ Step(t)
  PROVE  SlotsExclusive'
<1> USE DEF Goto, Leave, info
<1>0. TypeOK /\ Typed /\ InBounds(t) /\ Phases /\ SlotsExclusive
  BY TypeParts DEF IInv
<1>a. \A u \in Threads \ {t}, a \in Allocs : \A s : Holds(u, a, s)' <=> Holds(u, a, s)
  BY <1>0, OthersHold
<1>b. ASSUME \A a \in Allocs : \A s : Holds(t, a, s)' => Holds(t, a, s)
      PROVE  SlotsExclusive'
  BY <1>0, <1>a, <1>b DEF SlotsExclusive, Slots
<1>c. ASSUME NEW b, NEW r,
             \A a \in Allocs : \A s : Holds(t, a, s)' => a = b /\ s = r,
             \A u \in Threads \ {t} : ~ Holds(u, b, r)
      PROVE  SlotsExclusive'
  BY <1>0, <1>a, <1>c DEF SlotsExclusive, Slots
<1>1. CASE Call(t) \/ Test(t) \/ Scan(t)
  BY <1>b, <1>1, QuietStep
<1>2. CASE Take(t)
  <2>1. /\ pc[t] = "take" /\ alloc' = alloc /\ is_pinned' = is_pinned
        /\ i'[t] = n_hwcs_used[alloc[t]]
    BY <1>0, <1>2 DEF Take, Typed
  <2>2. /\ alloc[t] \in Allocs /\ Use[alloc[t]] = "count" /\ ~ emptying[alloc[t]]
        /\ n_hwcs_used[alloc[t]] \in Slots(alloc[t]) /\ ~ is_pinned[t]
    BY <2>1, TakesASlot
  <2>3. \A u \in Threads \ {t} : ~ Holds(u, alloc[t], n_hwcs_used[alloc[t]])
    <3> SUFFICES ASSUME NEW u \in Threads, Holds(u, alloc[t], n_hwcs_used[alloc[t]])
                 PROVE  FALSE
      OBVIOUS
    <3>1. n_hwcs_used[alloc[t]] < n_hwcs_used[alloc[t]]
      BY <2>2, HoldsBelow
    <3>2. n_hwcs_used[alloc[t]] \in Nat
      BY <1>0, <2>2 DEF Typed
    <3> QED
      BY <3>1, <3>2
  <2>4. \A a \in Allocs : \A s :
          Holds(t, a, s)' => a = alloc[t] /\ s = n_hwcs_used[alloc[t]]
    BY <2>1, <2>2 DEF Holds
  <2> QED
    BY <1>c, <2>3, <2>4
<1>3. CASE Cas(t)
  <2>1. /\ pc[t] = "cas" /\ alloc' = alloc /\ is_pinned' = is_pinned
        /\ \/ hwcs_used[alloc[t]][i[t]] = 0 /\ i' = i
           \/ pc'[t] \in {"scan", "test"}
    BY <1>0, <1>3 DEF Cas, Advance, Typed
  <2>2. /\ alloc[t] \in Allocs /\ Use[alloc[t]] = "search" /\ i[t] \in Slots(alloc[t])
        /\ ~ is_pinned[t]
    <3>1. op[t] \in Ops /\ op[t] # "none" /\ ca[t] = alloc[t] /\ ~ is_pinned[t]
      BY <1>0, <2>1 DEF Typed, Phases
    <3>2. op[t] = "search"
      BY <1>0, <2>1, <3>1 DEF Phases, Ops
    <3> QED
      BY <1>0, <2>1, <3>1, <3>2 DEF Phases, InBounds
  <2>3. CASE pc'[t] \in {"scan", "test"}
    BY <1>b, <2>1, <2>2, <2>3 DEF Holds
  <2>4. CASE hwcs_used[alloc[t]][i[t]] = 0 /\ i' = i
    <3>1. \A u \in Threads : ~ Holds(u, alloc[t], i[t])
      <4> SUFFICES ASSUME NEW u \in Threads, Holds(u, alloc[t], i[t]) PROVE FALSE
        OBVIOUS
      <4>1. Marks(u, alloc[t], i[t])
        BY <2>2, HoldsMarked
      <4> QED
        BY <2>2, <2>4, <4>1 DEF IInv, UsedMeansHeld, Marks
    <3>2. \A a \in Allocs : \A s : Holds(t, a, s)' => a = alloc[t] /\ s = i[t]
      BY <2>1, <2>2, <2>4 DEF Holds
    <3> QED
      BY <1>c, <3>1, <3>2
  <2> QED
    BY <2>1, <2>3, <2>4
<1>4. CASE Mark(t)
  <2>1. /\ pc[t] = "mark" /\ alloc' = alloc /\ is_pinned' = is_pinned
        /\ \/ pc'[t] = "idle"
           \/ pc'[t] = "count" /\ i'[t] = Seat[t]
    BY <1>0, <1>4 DEF Mark, Typed
  <2>2. /\ alloc[t] \in Allocs /\ Use[alloc[t]] = "seat" /\ ~ is_pinned[t]
    <3>1. op[t] \in Ops /\ op[t] # "none" /\ ca[t] = alloc[t] /\ ~ is_pinned[t]
      BY <1>0, <2>1 DEF Typed, Phases
    <3>2. op[t] = "pin_on"
      BY <1>0, <2>1, <3>1 DEF Phases, Ops
    <3> QED
      BY <1>0, <2>1, <3>1, <3>2 DEF Phases, InBounds
  <2>3. \A u \in Threads \ {t} : ~ Holds(u, alloc[t], Seat[t])
    BY <2>2, HoldsOwnSeat, AllocPinAssumption
  <2>4. \A a \in Allocs : \A s : Holds(t, a, s)' => a = alloc[t] /\ s = Seat[t]
    BY <2>1, <2>2 DEF Holds
  <2> QED
    BY <1>c, <2>3, <2>4
<1>5. CASE Count(t) \/ Drop(t)
  <2>1. /\ UNCHANGED <<alloc, is_pinned, id, i>>
        /\ \/ pc[t] = "count" /\ pc'[t] = "settle"
           \/ pc[t] = "drop" /\ pc'[t] = "clear"
    BY <1>0, <1>5 DEF Count, Drop, Typed
  <2> QED
    BY <1>b, <2>1 DEF Holds
<1>6. CASE Settle(t)
  <2>1. /\ pc[t] = "settle" /\ pc'[t] = "idle" /\ id'[t] = i[t] /\ alloc' = alloc
    BY <1>0, <1>6 DEF Settle, Typed
  <2> QED
    BY <1>b, <2>1 DEF Holds
<1>7. CASE Clear(t)
  <2>1. pc'[t] \in {"idle", "test", "mark"} /\ is_pinned'[t] = FALSE
    BY <1>0, <1>7 DEF Clear, AfterRelease, Typed
  <2> QED
    BY <1>b, <2>1 DEF Holds
<1> QED
  BY <1>1, <1>2, <1>3, <1>4, <1>5, <1>6, <1>7 DEF Step

(* A slot is marked when it is taken and freed by the one thread that has it. *)
LEMMA UsedStep ==
  ASSUME IInv, NEW t \in Threads, Call(t) \/ Step(t)
  PROVE  UsedMeansHeld'
<1> USE DEF Goto, Leave, info
<1>0. TypeOK /\ Typed /\ InBounds(t) /\ Phases /\ SlotsExclusive
  BY TypeParts DEF IInv
<1>a. \A u \in Threads \ {t}, a \in Allocs : \A s : Marks(u, a, s)' <=> Marks(u, a, s)
  BY <1>0, OthersHold
<1>m. /\ \A a \in Allocs : \A s \in Slots(a) :
           hwcs_used[a][s] = 1 <=> \E u \in Threads : Marks(u, a, s)
      /\ UsedMeansHeld' <=> \A a \in Allocs : \A s \in Slots(a) :
           hwcs_used'[a][s] = 1 <=> \E u \in Threads : Marks(u, a, s)'
  BY DEF IInv, UsedMeansHeld, Marks, Slots
<1>b. ASSUME hwcs_used' = hwcs_used,
             \A a \in Allocs : \A s : Marks(t, a, s)' <=> Marks(t, a, s)
      PROVE  UsedMeansHeld'
  BY <1>a, <1>b, <1>m
<1>c. ASSUME NEW b \in Allocs, NEW r \in Slots(b),
             hwcs_used' = [hwcs_used EXCEPT ![b][r] = 1],
             \A a \in Allocs : \A s :
               Marks(t, a, s)' <=> Marks(t, a, s) \/ (a = b /\ s = r)
      PROVE  UsedMeansHeld'
  <2>1. \A a \in Allocs : \A s \in Slots(a) :
          hwcs_used'[a][s] = IF a = b /\ s = r THEN 1 ELSE hwcs_used[a][s]
    BY <1>0, <1>c DEF Typed
  <2> QED
    BY <1>a, <1>c, <1>m, <2>1
<1>1. CASE Call(t) \/ Test(t) \/ Scan(t)
  BY <1>b, <1>1, QuietStep DEF slots
<1>2. CASE Take(t)
  <2>1. /\ pc[t] = "take" /\ pc'[t] = "settle" /\ hwcs_used' = hwcs_used
        /\ UNCHANGED <<alloc, is_pinned, op>>
    BY <1>0, <1>2 DEF Take, Typed
  <2>2. op[t] = "pin" /\ ~ is_pinned[t]
    BY <2>1, TakesASlot
  <2> QED
    BY <1>b, <2>1, <2>2 DEF Marks, Holds
<1>3. CASE Cas(t)
  <2>1. /\ pc[t] = "cas" /\ alloc' = alloc /\ is_pinned' = is_pinned
        /\ \/ /\ hwcs_used' = [hwcs_used EXCEPT ![alloc[t]][i[t]] = 1]
              /\ i' = i /\ pc'[t] = "count"
           \/ hwcs_used' = hwcs_used /\ pc'[t] \in {"scan", "test"}
    BY <1>0, <1>3 DEF Cas, Advance, Typed
  <2>2. alloc[t] \in Allocs /\ i[t] \in Slots(alloc[t]) /\ ~ is_pinned[t]
    BY <1>0, <2>1 DEF Phases, InBounds
  <2>3. CASE hwcs_used' = hwcs_used /\ pc'[t] \in {"scan", "test"}
    BY <1>b, <2>1, <2>2, <2>3 DEF Marks, Holds
  <2>4. CASE /\ hwcs_used' = [hwcs_used EXCEPT ![alloc[t]][i[t]] = 1]
             /\ i' = i /\ pc'[t] = "count"
    <3>1. \A a \in Allocs : \A s :
            Marks(t, a, s)' <=> Marks(t, a, s) \/ (a = alloc[t] /\ s = i[t])
      BY <2>1, <2>2, <2>4 DEF Marks, Holds
    <3> QED
      BY <1>c, <2>2, <2>4, <3>1
  <2> QED
    BY <2>1, <2>3, <2>4
<1>4. CASE Mark(t)
  <2>1. /\ pc[t] = "mark" /\ alloc' = alloc /\ is_pinned' = is_pinned
        /\ \/ /\ hwcs_used' = [hwcs_used EXCEPT ![alloc[t]][Seat[t]] = 1]
              /\ Seat[t] < n_hwcs[alloc[t]] /\ i'[t] = Seat[t] /\ pc'[t] = "count"
           \/ hwcs_used' = hwcs_used /\ pc'[t] = "idle"
    BY <1>0, <1>4 DEF Mark, Typed
  <2>2. alloc[t] \in Allocs /\ ~ is_pinned[t] /\ Seat[t] \in Nat /\ n_hwcs[alloc[t]] \in Nat
    BY <1>0, <2>1, AllocPinAssumption DEF Phases, InBounds
  <2>3. CASE hwcs_used' = hwcs_used /\ pc'[t] = "idle"
    BY <1>b, <2>1, <2>2, <2>3 DEF Marks, Holds
  <2>4. CASE /\ hwcs_used' = [hwcs_used EXCEPT ![alloc[t]][Seat[t]] = 1]
             /\ Seat[t] < n_hwcs[alloc[t]] /\ i'[t] = Seat[t] /\ pc'[t] = "count"
    <3>1. \A a \in Allocs : \A s :
            Marks(t, a, s)' <=> Marks(t, a, s) \/ (a = alloc[t] /\ s = Seat[t])
      BY <2>1, <2>2, <2>4 DEF Marks, Holds
    <3>2. Seat[t] \in Slots(alloc[t])
      BY <2>2, <2>4 DEF Slots
    <3> QED
      BY <1>c, <2>2, <2>4, <3>1, <3>2
  <2> QED
    BY <2>1, <2>3, <2>4
<1>5. CASE Count(t) \/ Drop(t)
  <2>1. /\ UNCHANGED <<hwcs_used, alloc, is_pinned, id, i, op>>
        /\ \/ pc[t] = "count" /\ pc'[t] = "settle"
           \/ pc[t] = "drop" /\ pc'[t] = "clear"
    BY <1>0, <1>5 DEF Count, Drop, Typed
  <2>2. pc[t] = "count" => op[t] # "pin"
    BY <1>0 DEF Phases
  <2> QED
    BY <1>b, <2>1, <2>2 DEF Marks, Holds
<1>6. CASE Settle(t)
  <2>1. /\ pc[t] = "settle" /\ pc'[t] = "idle" /\ id'[t] = i[t] /\ alloc' = alloc
        /\ is_pinned'[t] = TRUE
        /\ hwcs_used' = IF op[t] = "pin_on" THEN hwcs_used
                        ELSE [hwcs_used EXCEPT ![alloc[t]][i[t]] = 1]
    BY <1>0, <1>6 DEF Settle, Typed
  <2>2. alloc[t] \in Allocs /\ i[t] \in Slots(alloc[t]) /\ ~ is_pinned[t]
    BY <1>0, <2>1 DEF Phases, InBounds
  <2>3. CASE op[t] = "pin_on"
    BY <1>b, <2>1, <2>2, <2>3 DEF Marks, Holds
  <2>4. CASE op[t] # "pin_on"
    <3>1. \A a \in Allocs : \A s :
            Marks(t, a, s)' <=> Marks(t, a, s) \/ (a = alloc[t] /\ s = i[t])
      BY <2>1, <2>2 DEF Marks, Holds
    <3> QED
      BY <1>c, <2>1, <2>2, <2>4, <3>1
  <2> QED
    BY <2>3, <2>4
<1>7. CASE Clear(t)
  <2>1. /\ pc[t] = "clear" /\ pc'[t] \in {"idle", "test", "mark"} /\ is_pinned'[t] = FALSE
        /\ hwcs_used' = [hwcs_used EXCEPT ![alloc[t]][id[t]] = 0]
    BY <1>0, <1>7 DEF Clear, AfterRelease, Typed
  <2>2. alloc[t] \in Allocs /\ id[t] \in Slots(alloc[t]) /\ is_pinned[t]
    BY <1>0, <2>1 DEF Phases, InBounds
  <2>3. /\ Holds(t, alloc[t], id[t])
        /\ \A a \in Allocs : \A s : Marks(t, a, s) => a = alloc[t] /\ s = id[t]
        /\ \A a \in Allocs : \A s : ~ Marks(t, a, s)'
    BY <2>1, <2>2 DEF Marks, Holds
  <2>4. \A u \in Threads \ {t} : ~ Marks(u, alloc[t], id[t])
    BY <1>0, <2>2, <2>3 DEF SlotsExclusive, Marks
  <2>5. \A a \in Allocs : \A s \in Slots(a) :
          hwcs_used'[a][s] = IF a = alloc[t] /\ s = id[t] THEN 0 ELSE hwcs_used[a][s]
    BY <1>0, <2>1, <2>2 DEF Typed
  <2> QED
    BY <1>a, <1>m, <2>3, <2>4, <2>5
<1> QED
  BY <1>1, <1>2, <1>3, <1>4, <1>5, <1>6, <1>7 DEF Step
-----------------------------------------------------------------------------
(* The counter.  It does not wrap around: a thread that is about to count   *)
(* is not counted yet, one that is about to stop counting is.               *)
LEMMA NoWrap ==
  ASSUME IInv, NEW t \in Threads, NEW b \in Allocs
  PROVE  /\ t \notin Counted(b) =>
              /\ Incremented(n_hwcs_used[b]) = n_hwcs_used[b] + 1
              /\ Incremented(n_hwcs_used[b]) = Cardinality(Counted(b) \cup {t})
         /\ t \in Counted(b) => Decremented(n_hwcs_used[b]) = Cardinality(Counted(b) \ {t})
<1>1. /\ IsFiniteSet(Counted(b)) /\ Cardinality(Counted(b)) \in Nat
      /\ n_hwcs_used[b] = Cardinality(Counted(b))
      /\ IsFiniteSet(Threads) /\ Cardinality(Threads) \in Nat
      /\ UIntRange \in Nat /\ Cardinality(Threads) < UIntRange
      /\ Counted(b) \cup {t} \in SUBSET Threads
  BY Sizes, AllocPinAssumption DEF IInv, CounterIsSize, Counted
<1>2. CASE t \notin Counted(b)
  <2>1. /\ Cardinality(Counted(b) \cup {t}) = Cardinality(Counted(b)) + 1
        /\ Cardinality(Counted(b) \cup {t}) <= Cardinality(Threads)
    BY <1>1, <1>2, FS_AddElement, FS_Subset
  <2> QED
    BY <1>1, <1>2, <2>1 DEF Incremented
<1>3. CASE t \in Counted(b)
  <2>1. /\ Cardinality(Counted(b) \ {t}) = Cardinality(Counted(b)) - 1
        /\ Cardinality(Counted(b)) # 0
    BY <1>1, <1>3, FS_RemoveElement, FS_EmptySet
  <2> QED
    BY <1>1, <1>3, <2>1 DEF Decremented
<1> QED
  BY <1>2, <1>3

(* Every step keeps the counter the size of those it stands for.             *)
LEMMA CounterStep ==
  ASSUME IInv, NEW t \in Threads, Call(t) \/ Step(t)
  PROVE  CounterIsSize'
<1> USE DEF Goto, Leave, info
<1>0. TypeOK /\ Typed /\ InBounds(t) /\ Phases /\ CounterIsSize
  BY TypeParts DEF IInv
<1>a. \A u \in Threads \ {t}, a \in Allocs : u \in Counted(a)' <=> u \in Counted(a)
  BY <1>0, OthersHold
<1>s. \A a \in Allocs : Counted(a) \subseteq Threads /\ Counted(a)' \subseteq Threads
  BY DEF Counted
<1>b. ASSUME n_hwcs_used' = n_hwcs_used,
             \A a \in Allocs : t \in Counted(a)' <=> t \in Counted(a)
      PROVE  CounterIsSize'
  <2>1. \A a \in Allocs : Counted(a)' = Counted(a)
    BY <1>a, <1>b, <1>s
  <2> QED
    BY <1>0, <1>b, <2>1 DEF CounterIsSize
<1>c. ASSUME NEW b \in Allocs,
             n_hwcs_used' = [n_hwcs_used EXCEPT ![b] = Incremented(@)],
             t \notin Counted(b), t \in Counted(b)',
             \A a \in Allocs \ {b} : t \in Counted(a)' <=> t \in Counted(a)
      PROVE  CounterIsSize'
  <2>1. \A a \in Allocs : Counted(a)' = IF a = b THEN Counted(a) \cup {t} ELSE Counted(a)
    BY <1>a, <1>c, <1>s
  <2>2. Incremented(n_hwcs_used[b]) = Cardinality(Counted(b) \cup {t})
    BY <1>c, NoWrap
  <2> QED
    BY <1>0, <1>c, <2>1, <2>2 DEF CounterIsSize, Typed
<1>1. CASE Call(t) \/ Test(t) \/ Scan(t)
  BY <1>b, <1>1, QuietStep DEF slots
<1>2. CASE Take(t) \/ Count(t)
  <2>1. /\ pc[t] \in {"take", "count"} /\ pc'[t] = "settle"
        /\ UNCHANGED <<alloc, is_pinned>>
        /\ n_hwcs_used' = [n_hwcs_used EXCEPT ![alloc[t]] = Incremented(@)]
    BY <1>0, <1>2 DEF Take, Count, Typed
  <2>2. alloc[t] \in Allocs /\ ~ is_pinned[t]
    BY <1>0, <2>1 DEF Phases, InBounds
  <2> QED
    BY <1>c, <2>1, <2>2 DEF Counted
<1>3. CASE Cas(t) \/ Mark(t)
  <2>1. /\ pc[t] \in {"cas", "mark"} /\ pc'[t] \in {"scan", "test", "count", "idle"}
        /\ UNCHANGED <<alloc, is_pinned, n_hwcs_used>>
    BY <1>0, <1>3 DEF Cas, Mark, Advance, Typed
  <2>2. ~ is_pinned[t]
    BY <1>0, <2>1 DEF Phases
  <2> QED
    BY <1>b, <2>1, <2>2 DEF Counted
<1>4. CASE Drop(t)
  <2>1. /\ pc[t] = "drop" /\ pc'[t] = "clear"
        /\ UNCHANGED <<alloc, is_pinned>>
        /\ n_hwcs_used' = [n_hwcs_used EXCEPT ![alloc[t]] = Decremented(@)]
    BY <1>0, <1>4 DEF Drop, Typed
  <2>2. alloc[t] \in Allocs /\ is_pinned[t]
    BY <1>0, <2>1 DEF Phases, InBounds
  <2>3. t \in Counted(alloc[t]) /\ \A a \in Allocs : t \notin Counted(a)'
    BY <2>1, <2>2 DEF Counted
  <2>4. \A a \in Allocs : t \in Counted(a) => a = alloc[t]
    BY DEF Counted
  <2>5. \A a \in Allocs : Counted(a)' = IF a = alloc[t] THEN Counted(a) \ {t} ELSE Counted(a)
    BY <1>a, <1>s, <2>3, <2>4
  <2>6. Decremented(n_hwcs_used[alloc[t]]) = Cardinality(Counted(alloc[t]) \ {t})
    BY <2>2, <2>3, NoWrap
  <2> QED
    BY <1>0, <2>1, <2>2, <2>5, <2>6 DEF CounterIsSize, Typed
<1>5. CASE Settle(t)
  <2>1. /\ pc[t] = "settle" /\ pc'[t] = "idle" /\ is_pinned'[t] = TRUE
        /\ UNCHANGED <<alloc, n_hwcs_used>>
    BY <1>0, <1>5 DEF Settle, Typed
  <2> QED
    BY <1>b, <2>1 DEF Counted
<1>6. CASE Clear(t)
  <2>1. /\ pc[t] = "clear" /\ pc'[t] \in {"idle", "test", "mark"} /\ is_pinned'[t] = FALSE
        /\ n_hwcs_used' = n_hwcs_used
    BY <1>0, <1>6 DEF Clear, AfterRelease, Typed
  <2> QED
    BY <1>b, <2>1 DEF Counted
<1> QED
  BY <1>1, <1>2, <1>3, <1>4, <1>5, <1>6 DEF Step
-----------------------------------------------------------------------------
(* The counter as a number of slots.  What a call does to emptying: nobody  *)
(* starts a release while a thread pins by the counter, and nobody starts   *)
(* to pin by the counter before all threads have released.                  *)
Alternates(t) ==
  /\ \A a \in Allocs :
       \/ emptying'[a] = emptying[a]
       \/ /\ a = alloc[t] /\ emptying'[a] = TRUE
          /\ \A u \in Threads : op[u] = "pin" => alloc[u] # a
  /\ op'[t] = "pin" =>
       /\ ~ is_pinned[t] /\ emptying' = emptying /\ ~ emptying[alloc'[t]]
       /\ Cardinality(Users(alloc'[t])) < n_hwcs[alloc'[t]]
  /\ is_pinned[t] /\ Use[alloc[t]] = "count" => emptying'[alloc[t]] = TRUE

(* What a call needs of the seats and the allocator used by counter.         *)
LEMMA CallAlternates ==
  ASSUME TypeOK, Phases, NEW t \in Threads, Call(t)
  PROVE  Alternates(t)
<1> USE DEF Enter, Goto
<1>0. Typed /\ InBounds(t) /\ Entered(t)
  BY TypeParts, CallEnters
<1>1. ASSUME NEW a \in Allocs, CallPin(t, a) PROVE Alternates(t)
  BY <1>0, <1>1 DEF CallPin, Pin, Typed, Alternates
<1>2. ASSUME NEW a \in Allocs, CallPinPlus(t, a) \/ CallPinSimple(t, a) \/ CallPinOn(t, a)
      PROVE  Alternates(t)
  BY <1>0, <1>2 DEF CallPinPlus, CallPinSimple, CallPinOn, PinPlus, PinSimple, PinOn, Typed,
     Alternates
<1>3. CASE CallPoolPin(t) \/ CallPoolPinOn(t)
  BY <1>0, <1>3 DEF CallPoolPin, CallPoolPinOn, PoolPin, PoolPinOn, PoolEnter, MayRelease,
     Typed, InBounds, Alternates
<1>4. CASE CallUnpin(t)
  BY <1>0, <1>4 DEF CallUnpin, Unpin, MayRelease, Typed, InBounds, Alternates
<1> QED
  BY <1>1, <1>2, <1>3, <1>4 DEF Call

(* Only a pin by the counter adds a user to an allocator with a counter. *)
LEMMA UsersStep ==
  ASSUME IInv, NEW t \in Threads, Call(t) \/ Step(t), NEW a \in Allocs, Use[a] = "count"
  PROVE  Cardinality(Users(a))' <= n_hwcs[a]
<1> USE DEF Goto, Leave, info
<1>0. TypeOK /\ Typed /\ InBounds(t) /\ Phases /\ Cardinality(Users(a)) <= n_hwcs[a]
  BY TypeParts DEF IInv, CountsUp
<1>a. /\ \A u \in Threads \ {t} : u \in Users(a)' <=> u \in Users(a)
      /\ Users(a) \subseteq Threads /\ Users(a)' \subseteq Threads
      /\ IsFiniteSet(Users(a)) /\ Cardinality(Users(a)) \in Nat /\ n_hwcs[a] \in Nat
  BY <1>0, OthersHold, Sizes, AllocPinAssumption DEF Users
<1>b. ASSUME t \in Users(a)' => t \in Users(a) PROVE Cardinality(Users(a))' <= n_hwcs[a]
  <2>1. Users(a)' \in SUBSET Users(a)
    BY <1>a, <1>b
  <2>2. Cardinality(Users(a)') <= Cardinality(Users(a)) /\ Cardinality(Users(a)') \in Nat
    BY <1>a, <2>1, FS_Subset, FS_CardinalityType
  <2> QED
    BY <1>0, <1>a, <2>2
<1>1. CASE Call(t)
  <2>1. Entered(t) /\ Alternates(t)
    BY <1>0, <1>1, CallEnters, CallAlternates
  <2>2. CASE is_pinned[t]
    BY <1>b, <2>1, <2>2 DEF Entered, Users
  <2>3. CASE ~ is_pinned[t] /\ alloc'[t] # a
    BY <1>b, <2>3 DEF Users
  <2>4. CASE ~ is_pinned[t] /\ alloc'[t] = a
    <3>1. op'[t] = "pin"
      BY <2>1, <2>4 DEF Entered
    <3>2. Cardinality(Users(a)) < n_hwcs[a]
      BY <2>1, <2>4, <3>1 DEF Alternates
    <3>3. Users(a)' \in SUBSET (Users(a) \cup {t})
      BY <1>a
    <3>4. /\ IsFiniteSet(Users(a) \cup {t})
          /\ Cardinality(Users(a) \cup {t}) \in Nat
          /\ Cardinality(Users(a) \cup {t}) <= Cardinality(Users(a)) + 1
      <4>1. /\ IsFiniteSet(Users(a) \cup {t})
            /\ Cardinality(Users(a) \cup {t})
                 = IF t \in Users(a) THEN Cardinality(Users(a)) ELSE Cardinality(Users(a)) + 1
        BY <1>a, FS_AddElement
      <4> QED
        BY <1>a, <4>1
    <3>5. Cardinality(Users(a)') <= Cardinality(Users(a) \cup {t}) /\ Cardinality(Users(a)') \in Nat
      BY <3>3, <3>4, FS_Subset, FS_CardinalityType
    <3> QED
      BY <1>a, <3>2, <3>4, <3>5
  <2> QED
    BY <2>2, <2>3, <2>4
<1>2. CASE Clear(t)
  <2>1. /\ pc[t] = "clear" /\ is_pinned'[t] = FALSE /\ alloc'[t] = ca[t]
        /\ \/ pc'[t] = "idle"
           \/ op[t] \in {"search", "pin_on"}
    BY <1>0, <1>2 DEF Clear, AfterRelease, Typed
  <2>2. t \notin Users(a)'
    BY <1>0, <2>1 DEF Users, Phases
  <2> QED
    BY <1>b, <2>2
<1>3. CASE Step(t) /\ ~ Clear(t)
  <2>1. pc[t] # "idle" /\ alloc' = alloc
    BY <1>0, <1>3 DEF Step, Take, Test, Scan, Cas, Count, Mark, Settle, Drop
  <2> QED
    BY <1>b, <2>1 DEF Users
<1> QED
  BY <1>1, <1>2, <1>3

(* Pins by the counter and releases do not overlap. *)
LEMMA ReleasesAlternate ==
  ASSUME IInv, NEW t \in Threads, Call(t) \/ Step(t), NEW a \in Allocs, Use[a] = "count",
         emptying'[a], NEW u \in Threads, op'[u] = "pin"
  PROVE  alloc'[u] # a
<1> USE DEF Goto, Leave, info
<1>0. TypeOK /\ Typed /\ InBounds(t) /\ Phases
  BY TypeParts DEF IInv
<1>e. /\ emptying[a] => \A v \in Threads : op[v] = "pin" => alloc[v] # a
      /\ ~ emptying[a] => \A v \in Threads : alloc[v] = a => pc[v] \notin {"drop", "clear"}
  BY DEF IInv, CountsUp
<1>a. u # t => op'[u] = op[u] /\ alloc'[u] = alloc[u]
  BY <1>0, OthersKeep
<1>1. CASE Call(t)
  <2>1. Entered(t) /\ Alternates(t)
    BY <1>0, <1>1, CallEnters, CallAlternates
  <2>2. CASE u = t
    BY <2>1, <2>2 DEF Alternates
  <2>3. CASE u # t
    BY <1>a, <1>e, <2>1, <2>3 DEF Alternates
  <2> QED
    BY <2>2, <2>3
<1>2. CASE Clear(t)
  <2>1. /\ pc[t] = "clear" /\ \A b \in Allocs \ {alloc[t]} : emptying'[b] = emptying[b]
        /\ op'[t] \in {"none", op[t]}
    BY <1>0, <1>2 DEF Clear, AfterRelease, Typed
  <2>2. op'[t] # "pin"
    BY <1>0, <2>1 DEF Phases
  <2>3. emptying[a]
    BY <1>e, <2>1
  <2> QED
    BY <1>a, <1>e, <2>2, <2>3
<1>3. CASE Step(t) /\ ~ Clear(t)
  <2>1. alloc' = alloc /\ emptying' = emptying /\ (op'[t] = op[t] \/ op'[t] = "none")
    BY <1>0, <1>3 DEF Step, Take, Test, Scan, Cas, Count, Mark, Settle, Drop, Typed
  <2> QED
    BY <1>a, <1>e, <2>1
<1> QED
  BY <1>1, <1>2, <1>3

(* While threads pin by the counter, what they have is below it: the        *)
(* counter only grows, and starts again at 0 when the last user has left.   *)
LEMMA BelowStep ==
  ASSUME IInv, NEW t \in Threads, Call(t) \/ Step(t), NEW a \in Allocs, Use[a] = "count",
         ~ emptying'[a], NEW u \in Threads, alloc'[u] = a
  PROVE  /\ pc'[u] \notin {"drop", "clear"}
         /\ is_pinned'[u] => id'[u] < n_hwcs_used'[a]
         /\ pc'[u] = "settle" => i'[u] < n_hwcs_used'[a]
<1> USE DEF Goto, Leave, info
<1>0. TypeOK /\ Typed /\ InBounds(t) /\ Phases
  BY TypeParts DEF IInv
<1>e. ~ emptying[a] => \A v \in Threads : alloc[v] = a =>
        /\ pc[v] \notin {"drop", "clear"}
        /\ is_pinned[v] => id[v] < n_hwcs_used[a]
        /\ pc[v] = "settle" => i[v] < n_hwcs_used[a]
  BY DEF IInv, CountsUp
<1>a. u # t => /\ alloc'[u] = alloc[u] /\ is_pinned'[u] = is_pinned[u] /\ id'[u] = id[u]
               /\ pc'[u] = pc[u] /\ op'[u] = op[u] /\ i'[u] = i[u]
  BY <1>0, OthersKeep
<1>1. CASE Call(t)
  <2>1. Entered(t) /\ Alternates(t)
    BY <1>0, <1>1, CallEnters, CallAlternates
  <2>2. ~ emptying[a] /\ UNCHANGED <<n_hwcs_used, is_pinned, id, i>>
    BY <2>1 DEF Entered, Alternates, slots
  <2>3. CASE u # t
    BY <1>a, <1>e, <2>2, <2>3
  <2>4. CASE u = t /\ is_pinned[t]
    BY <2>1, <2>4 DEF Entered, Alternates
  <2>5. CASE u = t /\ ~ is_pinned[t]
    BY <2>1, <2>2, <2>5 DEF Entered
  <2> QED
    BY <2>3, <2>4, <2>5
<1>2. CASE Clear(t)
  <2>1. /\ pc[t] = "clear" /\ pc'[t] \in {"idle", "test", "mark"} /\ is_pinned'[t] = FALSE
        /\ n_hwcs_used' = n_hwcs_used
        /\ a # alloc[t] => emptying'[a] = emptying[a]
        /\ a = alloc[t] => Users(a) = {t}
    BY <1>0, <1>2 DEF Clear, AfterRelease, Typed
  <2>2. CASE u = t
    BY <2>1, <2>2
  <2>3. CASE u # t /\ a # alloc[t]
    BY <1>a, <1>e, <2>1, <2>3
  <2>4. CASE u # t /\ a = alloc[t]
    <3>1. u \notin Users(a)
      BY <2>1, <2>4
    <3>2. ~ is_pinned[u] /\ pc[u] = "idle"
      BY <1>a, <2>4, <3>1 DEF Users
    <3> QED
      BY <1>a, <2>4, <3>2
  <2> QED
    BY <2>2, <2>3, <2>4
<1>3. CASE Take(t) \/ Count(t)
  <2>1. /\ pc[t] \in {"take", "count"} /\ pc'[t] = "settle"
        /\ UNCHANGED <<alloc, is_pinned, id, emptying>>
        /\ n_hwcs_used' = [n_hwcs_used EXCEPT ![alloc[t]] = Incremented(@)]
        /\ pc[t] = "take" => i'[t] = n_hwcs_used[alloc[t]]
    BY <1>0, <1>3 DEF Take, Count, Typed
  <2>2. alloc[t] \in Allocs /\ ~ is_pinned[t] /\ t \notin Counted(alloc[t])
    BY <1>0, <2>1 DEF Phases, InBounds, Counted
  <2>3. /\ n_hwcs_used[a] \in Nat
        /\ n_hwcs_used'[a] = IF a = alloc[t] THEN n_hwcs_used[a] + 1 ELSE n_hwcs_used[a]
    <3>1. Incremented(n_hwcs_used[alloc[t]]) = n_hwcs_used[alloc[t]] + 1
      BY <2>2, NoWrap
    <3>2. n_hwcs_used[a] \in 0..UIntRange - 1 /\ UIntRange \in Nat
      BY <1>0, AllocPinAssumption DEF Typed
    <3> QED
      BY <1>0, <2>1, <2>2, <3>1, <3>2 DEF Typed
  <2>4. CASE u = t
    <3>1. pc[t] = "take"
      <4>1. op[t] \in Ops /\ op[t] # "none" /\ ca[t] = alloc[t]
        BY <1>0, <2>1 DEF Typed, Phases
      <4> QED
        BY <1>0, <2>1, <2>4, <4>1 DEF Phases, Ops
    <3> QED
      BY <2>1, <2>2, <2>3, <2>4, <3>1
  <2>5. CASE u # t
    <3>1. /\ pc[u] \notin {"drop", "clear"}
          /\ is_pinned[u] => id[u] < n_hwcs_used[a]
          /\ pc[u] = "settle" => i[u] < n_hwcs_used[a]
      BY <1>a, <1>e, <2>1, <2>5
    <3>2. /\ is_pinned[u] => id[u] \in Nat
          /\ i[u] \in Nat
      BY <1>0, <1>a, <2>5, TypeParts DEF Typed, InBounds, Slots
    <3> QED
      BY <1>a, <2>3, <2>5, <3>1, <3>2
  <2> QED
    BY <2>4, <2>5
<1>4. CASE Test(t) \/ Scan(t) \/ Cas(t) \/ Mark(t)
  <2>1. /\ pc[t] \in {"test", "scan", "cas", "mark"}
        /\ pc'[t] \in {"idle", "test", "scan", "cas", "count"}
        /\ UNCHANGED <<n_hwcs_used, alloc, is_pinned, id, emptying>>
    BY <1>0, <1>4 DEF Test, Scan, Cas, Mark, Advance, slots, Typed
  <2>2. ~ is_pinned[t]
    BY <1>0, <2>1 DEF Phases
  <2> QED
    BY <1>a, <1>e, <2>1, <2>2
<1>5. CASE Settle(t)
  <2>1. /\ pc[t] = "settle" /\ pc'[t] = "idle" /\ id'[t] = i[t]
        /\ UNCHANGED <<n_hwcs_used, alloc, emptying>>
    BY <1>0, <1>5 DEF Settle, Typed
  <2> QED
    BY <1>a, <1>e, <2>1
<1>6. CASE Drop(t)
  <2>1. /\ pc[t] = "drop" /\ UNCHANGED <<alloc, is_pinned, id, i, emptying>>
        /\ \A b \in Allocs \ {alloc[t]} : n_hwcs_used'[b] = n_hwcs_used[b]
    BY <1>0, <1>6 DEF Drop, Typed
  <2>2. alloc[t] # a
    BY <1>e, <2>1
  <2> QED
    BY <1>a, <1>e, <2>1, <2>2
<1> QED
  BY <1>1, <1>2, <1>3, <1>4, <1>5, <1>6 DEF Step

(* The allocator used by counter stays filled from below.                    *)
LEMMA CountsUpStep ==
  ASSUME IInv, NEW t \in Threads, Call(t) \/ Step(t)
  PROVE  CountsUp'
BY UsersStep, ReleasesAlternate, BelowStep DEF CountsUp
-----------------------------------------------------------------------------
(* The counter and the slots: every counted thread has a slot of its own,   *)
(* so the counter is at most the number of slots, and when it is that       *)
(* number the counted threads have them all.                                *)
LEMMA CountedHold ==
  ASSUME IInv, NEW a \in Allocs, NEW R \in SUBSET Slots(a),
         \A u \in Counted(a), s \in Slots(a) : Holds(u, a, s) => s \in R
  PROVE  Cardinality(Counted(a)) <= Cardinality(R)
<1> DEFINE f == [u \in Counted(a) |-> IF is_pinned[u] THEN id[u] ELSE i[u]]
<1>1. /\ IsFiniteSet(Counted(a)) /\ Cardinality(Counted(a)) \in Nat
      /\ IsFiniteSet(R) /\ Cardinality(R) \in Nat
  BY Sizes, FS_Subset, FS_CardinalityType DEF IInv
<1>2. \A u \in Counted(a) : f[u] \in Slots(a) /\ Holds(u, a, f[u])
  BY DEF IInv, TypeOK, Counted, Holds
<1>3. f \in [Counted(a) -> R]
  BY <1>2
<1>4. \A u, v \in Counted(a) : f[u] = f[v] => u = v
  BY <1>2 DEF IInv, SlotsExclusive, Counted
<1>5. ~ (Cardinality(R) < Cardinality(Counted(a)))
  <2> HIDE DEF f
  <2> QED
    BY <1>1, <1>3, <1>4, FS_PigeonHole
<1> QED
  BY <1>1, <1>5

(* The counter never exceeds the slots, so it never wraps around.            *)
LEMMA CounterFits ==
  ASSUME IInv
  PROVE  CounterAccounts
<1> SUFFICES ASSUME NEW a \in Allocs
             PROVE  /\ n_hwcs_used[a] = Cardinality(Counted(a))
                    /\ n_hwcs_used[a] <= n_hwcs[a]
  BY DEF CounterAccounts
<1>1. Cardinality(Counted(a)) <= Cardinality(Slots(a))
  BY CountedHold
<1> QED
  BY <1>1, Sizes DEF IInv, CounterIsSize

(* When the counter says full, other threads hold every slot.                *)
LEMMA FullMeansHeld ==
  ASSUME IInv, NEW a \in Allocs, n_hwcs_used[a] >= n_hwcs[a], NEW s \in Slots(a)
  PROVE  \E u \in Counted(a) : Holds(u, a, s)
<1> SUFFICES ASSUME \A u \in Counted(a) : ~ Holds(u, a, s) PROVE FALSE
  OBVIOUS
<1>1. Cardinality(Counted(a)) <= Cardinality(Slots(a) \ {s})
  BY CountedHold
<1>2. /\ IsFiniteSet(Slots(a)) /\ Cardinality(Slots(a)) = n_hwcs[a]
      /\ Cardinality(Counted(a)) \in Nat /\ n_hwcs_used[a] = Cardinality(Counted(a))
      /\ n_hwcs[a] \in Nat
  BY Sizes, AllocPinAssumption DEF IInv, CounterIsSize
<1>3. Cardinality(Slots(a) \ {s}) = n_hwcs[a] - 1
  BY <1>2, FS_RemoveElement
<1> QED
  BY <1>1, <1>2, <1>3
-----------------------------------------------------------------------------
(* The invariant holds at the start.                                         *)
LEMMA InitIsInductive == Init => IInv
<1> SUFFICES ASSUME Init PROVE IInv
  OBVIOUS
<1> USE AllocPinAssumption
<1>1. TypeOK
  <2>1. Typed
    <3>1. 0 \in 0..UIntRange - 1
      BY FS_CardinalityType
    <3> QED
      BY <3>1 DEF Init, Typed, Pcs, Ops
  <2>2. \A t \in Threads : InBounds(t)
    BY DEF Init, InBounds
  <2> QED
    BY <2>1, <2>2, TypeParts
<1>2. Phases /\ SeatsKept
  BY DEF Init, Phases, SeatsKept
<1>3. \A t \in Threads, a \in Allocs : /\ alloc[t] # a /\ ~ is_pinned[t] /\ pc[t] = "idle"
                                       /\ op[t] # "pin"
  BY DEF Init
<1>4. \A a \in Allocs : Users(a) = {} /\ Counted(a) = {}
  BY <1>3 DEF Users, Counted
<1>5. \A a \in Allocs : Cardinality(Users(a)) = 0 /\ Cardinality(Counted(a)) = 0
  BY <1>4, FS_EmptySet
<1>6. CountsUp
  BY <1>3, <1>5 DEF CountsUp
<1>7. SlotsExclusive
  BY <1>3 DEF SlotsExclusive, Holds
<1>8. UsedMeansHeld
  BY <1>3 DEF Init, UsedMeansHeld, Holds
<1>9. CounterIsSize
  BY <1>5 DEF Init, CounterIsSize
<1> QED
  BY <1>1, <1>2, <1>6, <1>7, <1>8, <1>9 DEF IInv

(* Every step keeps the invariant.                                           *)
LEMMA StepIsInductive == IInv /\ [Next]_vars => IInv'
<1> SUFFICES ASSUME IInv, [Next]_vars PROVE IInv'
  OBVIOUS
<1>1. ASSUME NEW t \in Threads, Call(t) \/ Step(t) PROVE IInv'
  BY <1>1, TypeStep, PhasesStep, CountsUpStep, ExclusiveStep, UsedStep, CounterStep DEF IInv
<1>2. CASE UNCHANGED vars \/ \E a \in Pool : PoolSetAlloc(a)
  <2>1. /\ UNCHANGED <<hwcs_used, n_hwcs_used, alloc, is_pinned, id, pc, op, ca, i, emptying>>
        /\ current_alloc' \in Pool
    BY <1>2 DEF vars, slots, info, PoolSetAlloc, IInv, TypeOK
  <2>2. \A a : Users(a)' = Users(a) /\ Counted(a)' = Counted(a)
    BY <2>1 DEF Users, Counted
  <2>3. TypeOK'
    BY <2>1, TypeParts DEF IInv, Typed, InBounds, Slots
  <2>4. Phases' /\ SeatsKept'
    BY <2>1 DEF IInv, Phases, SeatsKept
  <2>5. CountsUp' /\ CounterIsSize'
    BY <2>1, <2>2 DEF IInv, CountsUp, CounterIsSize
  <2>6. SlotsExclusive' /\ UsedMeansHeld'
    BY <2>1 DEF IInv, SlotsExclusive, UsedMeansHeld, Holds, Slots
  <2> QED
    BY <2>3, <2>4, <2>5, <2>6 DEF IInv
<1> QED
  BY <1>1, <1>2 DEF Next

(* The inductive invariant of pinning. *)
THEOREM PinInvariant == Spec => []IInv
BY InitIsInductive, StepIsInductive, PTL DEF Spec

(* Types; every index into hwcs_used is a slot of the allocator. *)
THEOREM TypeCorrect == Spec => []TypeOK
<1>1. IInv => TypeOK
  BY DEF IInv
<1> QED
  BY <1>1, PinInvariant, PTL

(* No two threads are pinned to the same slot of an allocator, for any      *)
(* interleaving of the searches, the counter and the pins to a seat.        *)
THEOREM SlotsAreExclusive == Spec => []SlotsExclusive
<1>1. IInv => SlotsExclusive
  BY DEF IInv
<1> QED
  BY <1>1, PinInvariant, PTL

(* hwcs_used marks exactly the slots that threads have. *)
THEOREM MarksAreTrue == Spec => []UsedMeansHeld
<1>1. IInv => UsedMeansHeld
  BY DEF IInv
<1> QED
  BY <1>1, PinInvariant, PTL

(* n_hwcs_used is the number of the threads that have a slot and have       *)
(* counted it; it never wraps around and never exceeds the slots.           *)
THEOREM CounterIsRight == Spec => []CounterAccounts
<1>1. IInv => CounterAccounts
  BY CounterFits
<1> QED
  BY <1>1, PinInvariant, PTL

(* A search that gives up does so when other threads have all slots.        *)
THEOREM RefusesOnlyWhenFull == Spec => RefusedOnlyWhenFull
<1>1. ASSUME IInv, Next, NEW t \in Threads, pc[t] = "test", pc'[t] = "idle"
      PROVE  \A s \in Slots(alloc[t]) : \E u \in Threads \ {t} : Holds(u, alloc[t], s)
  <2>1. TypeOK /\ Phases
    BY <1>1 DEF IInv
  <2>2. Call(t) \/ Step(t)
    <3>1. CASE \E a \in Pool : PoolSetAlloc(a)
      BY <1>1, <3>1 DEF PoolSetAlloc
    <3>2. CASE \E u \in Threads \ {t} : Call(u) \/ Step(u)
      BY <1>1, <2>1, <3>2, OthersKeep
    <3> QED
      BY <1>1, <3>1, <3>2 DEF Next
  <2>3. ~ Call(t)
    BY <1>1, <2>1, CallEnters DEF Entered
  <2>4. Test(t)
    BY <1>1, <2>2, <2>3 DEF Step, Take, Scan, Cas, Count, Mark, Settle, Drop, Clear, Goto, Leave
  <2>5. n_hwcs_used[alloc[t]] >= n_hwcs[alloc[t]]
    BY <1>1, <2>1, <2>4 DEF Test, Goto, TypeOK
  <2>6. alloc[t] \in Allocs /\ t \notin Counted(alloc[t])
    BY <1>1, <2>1 DEF TypeOK, Phases, Counted
  <2>7. \A s \in Slots(alloc[t]) : \E u \in Counted(alloc[t]) : Holds(u, alloc[t], s)
    BY <1>1, <2>5, <2>6, FullMeansHeld
  <2> QED
    BY <2>6, <2>7 DEF Counted
<1>2. IInv /\ [Next]_vars =>
        [\A t \in Threads : pc[t] = "test" /\ pc'[t] = "idle" =>
           \A s \in Slots(alloc[t]) : \E u \in Threads \ {t} : Holds(u, alloc[t], s)]_vars
  BY <1>1
<1> QED
  BY <1>2, PinInvariant, PTL DEF Spec, RefusedOnlyWhenFull
==============================================================================
