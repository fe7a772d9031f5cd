------------------------------ MODULE AllocPin ------------------------------
(***************************************************************************)
(* Pinning threads to the hardware contexts of MCTOP allocators            *)
(* (mctop_alloc.c).  An allocator a has n_hwcs[a] slots; hwcs_used marks   *)
(* the slots that are taken and n_hwcs_used counts them, and no lock keeps *)
(* the two together.  A thread keeps its allocator, whether it is pinned   *)
(* and the number of its slot in thread-local storage.                     *)
(*                                                                         *)
(* There are three ways to get a slot, and a client uses one of them on an *)
(* allocator (Use):                                                        *)
(*   search   mctop_alloc_pin_plus, _pin_simple and mctop_alloc_pool_pin   *)
(*            search a free slot and take it by compare-and-swap           *)
(*   count    mctop_alloc_pin takes the slot whose number is the counter;  *)
(*            "only if ALL threads unpin before any starts pinning again"  *)
(*            (mctop_alloc.h)                                              *)
(*   seat     mctop_alloc_pin_on and mctop_alloc_pool_pin_on take the slot *)
(*            the caller names; every thread names one of its own          *)
(* A thread moves between allocators by unpinning, and by the pool         *)
(* functions, which release the slot it has in the allocator it leaves.    *)
(*                                                                         *)
(* Where a call is made by what the header says, and where by the caution  *)
(* of this client, is said at CallPin and the operators behind it.         *)
(***************************************************************************)
EXTENDS Integers, FiniteSets

CONSTANTS
  Threads, Allocs,
  n_hwcs,     \* the number of slots of each allocator
  Use,        \* how the client takes the slots of each allocator
  Pool,       \* the allocators that mctop_alloc_pool_set_alloc installs
  Seat,       \* the slot each thread names
  UIntRange,  \* the counter is an unsigned integer below it (2^32 in the code)
  NULL

ASSUME AllocPinAssumption ==
  /\ IsFiniteSet(Threads)
  /\ n_hwcs \in [Allocs -> Nat \ {0}]
  /\ Use \in [Allocs -> {"search", "count", "seat"}]
  /\ Pool \subseteq Allocs /\ Pool # {}
  /\ \A a \in Pool : Use[a] # "count"
  /\ Seat \in [Threads -> Nat]
  /\ \A t, u \in Threads : Seat[t] = Seat[u] => t = u
  /\ UIntRange \in Nat /\ Cardinality(Threads) < UIntRange
  /\ NULL \notin Allocs

Slots(a) == 0..n_hwcs[a] - 1

VARIABLES
  hwcs_used,      \* per allocator and slot: 1 if it is taken
  n_hwcs_used,    \* per allocator: the counter
  current_alloc,  \* the pool's
  alloc, is_pinned, id,  \* the thread-local mctop_thread_info_t
  pc,             \* the next access of each thread
  op,             \* the function each thread is in: mctop_alloc_pin_plus and
                  \* mctop_alloc_pin_simple share their loop, "search"
  ca,             \* its parameter: the allocator to pin to
  i,              \* the slot it looks at
  emptying        \* of the client: a thread has started to release its slot
                  \* of the allocator since that was last without threads

info == <<alloc, is_pinned, id>>
slots == <<hwcs_used, n_hwcs_used>>
vars == <<slots, current_alloc, info, pc, op, ca, i, emptying>>

Init ==
  /\ hwcs_used = [a \in Allocs |-> [s \in Slots(a) |-> 0]]
  /\ n_hwcs_used = [a \in Allocs |-> 0]
  /\ current_alloc \in Pool
  /\ alloc = [t \in Threads |-> NULL]
  /\ is_pinned = [t \in Threads |-> FALSE]
  /\ id = [t \in Threads |-> -1]
  /\ pc = [t \in Threads |-> "idle"]
  /\ op = [t \in Threads |-> "none"]
  /\ ca = [t \in Threads |-> NULL]
  /\ i = [t \in Threads |-> 0]
  /\ emptying = [a \in Allocs |-> FALSE]

Goto(t, from, to) ==
  /\ pc[t] = from
  /\ pc' = [pc EXCEPT ![t] = to]

(* Enter function f to pin to allocator a. *)
Enter(t, f, a, to) ==
  /\ Goto(t, "idle", to)
  /\ op' = [op EXCEPT ![t] = f]
  /\ ca' = [ca EXCEPT ![t] = a]

Leave(t, from) ==
  /\ Goto(t, from, "idle")
  /\ op' = [op EXCEPT ![t] = "none"]
  /\ ca' = [ca EXCEPT ![t] = NULL]
  /\ i' = [i EXCEPT ![t] = 0]

(* The threads that have, take or release a slot of a, or wait for one. *)
Users(a) == {t \in Threads : alloc[t] = a /\ (is_pinned[t] \/ pc[t] # "idle")}

Incremented(n) == IF n = UIntRange - 1 THEN 0 ELSE n + 1
Decremented(n) == IF n = 0 THEN UIntRange - 1 ELSE n - 1

-----------------------------------------------------------------------------
(* mctop_alloc_pin *)

Pin(t, a) ==
  /\ Enter(t, "pin", a, "take")
  /\ alloc' = [alloc EXCEPT ![t] = a]
  /\ UNCHANGED <<slots, current_alloc, is_pinned, id, i, emptying>>

Take(t) ==
  /\ Goto(t, "take", "settle")
  /\ i' = [i EXCEPT ![t] = n_hwcs_used[alloc[t]]]
  /\ n_hwcs_used' = [n_hwcs_used EXCEPT ![alloc[t]] = Incremented(@)]
  /\ UNCHANGED <<hwcs_used, current_alloc, info, op, ca, emptying>>

-----------------------------------------------------------------------------
(* mctop_alloc_pin_plus sets the thread's allocator before it unpins: the     *)
(* slot number of the old allocator is released in the new one.               *)
PinPlus(t, a) ==
  /\ Enter(t, "search", a, IF is_pinned[t] THEN "drop" ELSE "test")
  /\ alloc' = [alloc EXCEPT ![t] = a]
  /\ UNCHANGED <<slots, current_alloc, is_pinned, id, i, emptying>>

(* mctop_alloc_pin_simple does not look whether the thread is pinned. *)
PinSimple(t, a) ==
  /\ Enter(t, "search", a, "test")
  /\ alloc' = [alloc EXCEPT ![t] = a]
  /\ UNCHANGED <<slots, current_alloc, is_pinned, id, i, emptying>>

(* Mutant of Test: one slot is never handed out. *)
TestOffByOne(t) ==
  /\ pc[t] = "test"
  /\ \/ /\ n_hwcs_used[alloc[t]] < n_hwcs[alloc[t]] - 1
        /\ Goto(t, "test", "scan")
        /\ i' = [i EXCEPT ![t] = 0]
        /\ UNCHANGED <<op, ca>>
     \/ /\ n_hwcs_used[alloc[t]] >= n_hwcs[alloc[t]] - 1
        /\ Leave(t, "test")
  /\ UNCHANGED <<slots, current_alloc, info, emptying>>

(* while (alloc->n_hwcs_used < alloc->n_hwcs): the thread that finds the *)
(* allocator full returns without being pinned.                          *)
Test(t) ==
  /\ pc[t] = "test"
  /\ \/ /\ n_hwcs_used[alloc[t]] < n_hwcs[alloc[t]]
        /\ Goto(t, "test", "scan")
        /\ i' = [i EXCEPT ![t] = 0]
        /\ UNCHANGED <<op, ca>>
     \/ /\ n_hwcs_used[alloc[t]] >= n_hwcs[alloc[t]]
        /\ Leave(t, "test")
  /\ UNCHANGED <<slots, current_alloc, info, emptying>>

(* The slot is taken: look at the next one, after the last one at the counter. *)
Advance(t, from) ==
  \/ /\ i[t] + 1 < n_hwcs[alloc[t]]
     /\ Goto(t, from, "scan")
     /\ i' = [i EXCEPT ![t] = @ + 1]
  \/ /\ i[t] + 1 >= n_hwcs[alloc[t]]
     /\ Goto(t, from, "test")
     /\ i' = [i EXCEPT ![t] = 0]

Scan(t) ==
  /\ pc[t] = "scan"
  /\ \/ /\ hwcs_used[alloc[t]][i[t]] = 0
        /\ Goto(t, "scan", "cas")
        /\ UNCHANGED i
     \/ /\ hwcs_used[alloc[t]][i[t]] = 1
        /\ Advance(t, "scan")
  /\ UNCHANGED <<slots, current_alloc, info, op, ca, emptying>>

(* Mutant of Cas: a plain store to the slot that was seen free. *)
CasBlind(t) ==
  /\ Goto(t, "cas", "count")
  /\ hwcs_used' = [hwcs_used EXCEPT ![alloc[t]][i[t]] = 1]
  /\ UNCHANGED <<n_hwcs_used, current_alloc, info, op, ca, i, emptying>>

Cas(t) ==
  /\ pc[t] = "cas"
  /\ \/ /\ hwcs_used[alloc[t]][i[t]] = 0
        /\ hwcs_used' = [hwcs_used EXCEPT ![alloc[t]][i[t]] = 1]
        /\ Goto(t, "cas", "count")
        /\ UNCHANGED i
     \/ /\ hwcs_used[alloc[t]][i[t]] = 1
        /\ Advance(t, "cas")
        /\ UNCHANGED hwcs_used
  /\ UNCHANGED <<n_hwcs_used, current_alloc, info, op, ca, emptying>>

Count(t) ==
  /\ Goto(t, "count", "settle")
  /\ n_hwcs_used' = [n_hwcs_used EXCEPT ![alloc[t]] = Incremented(@)]
  /\ UNCHANGED <<hwcs_used, current_alloc, info, op, ca, i, emptying>>

(* mctop_alloc_pin_prepare, and the ends of _pin_simple and _pin_on: the slot *)
(* is marked (except by _pin_on, which has done so before) and the thread is  *)
(* pinned.                                                                    *)
Settle(t) ==
  /\ Leave(t, "settle")
  /\ hwcs_used' = IF op[t] = "pin_on" THEN hwcs_used
                  ELSE [hwcs_used EXCEPT ![alloc[t]][i[t]] = 1]
  /\ is_pinned' = [is_pinned EXCEPT ![t] = TRUE]
  /\ id' = [id EXCEPT ![t] = i[t]]
  /\ UNCHANGED <<n_hwcs_used, current_alloc, alloc, emptying>>

-----------------------------------------------------------------------------
(* mctop_alloc_pin_on *)

PinOn(t, a) ==
  /\ Enter(t, "pin_on", a, "mark")
  /\ alloc' = [alloc EXCEPT ![t] = a]
  /\ UNCHANGED <<slots, current_alloc, is_pinned, id, i, emptying>>

(* A seat the allocator does not have is refused; one that is used already   *)
(* is taken all the same, with a warning.                                    *)
Mark(t) ==
  /\ pc[t] = "mark"
  /\ \/ /\ Seat[t] >= n_hwcs[alloc[t]]
        /\ Leave(t, "mark")
        /\ UNCHANGED hwcs_used
     \/ /\ Seat[t] < n_hwcs[alloc[t]]
        /\ Goto(t, "mark", "count")
        /\ hwcs_used' = [hwcs_used EXCEPT ![alloc[t]][Seat[t]] = 1]
        /\ i' = [i EXCEPT ![t] = Seat[t]]
        /\ UNCHANGED <<op, ca>>
  /\ UNCHANGED <<n_hwcs_used, current_alloc, info, emptying>>

-----------------------------------------------------------------------------
(* mctop_alloc_unpin and mctop_alloc_hwctx_release *)

(* An unpin of a thread that is not pinned changes nothing. *)
Unpin(t) ==
  /\ is_pinned[t]
  /\ Enter(t, "unpin", alloc[t], "drop")
  /\ emptying' = [emptying EXCEPT ![alloc[t]] = TRUE]
  /\ UNCHANGED <<slots, current_alloc, info, i>>

(* The counter goes down first ... *)
Drop(t) ==
  /\ Goto(t, "drop", "clear")
  /\ n_hwcs_used' = [n_hwcs_used EXCEPT ![alloc[t]] = Decremented(@)]
  /\ UNCHANGED <<hwcs_used, current_alloc, info, op, ca, i, emptying>>

(* What the function does after the release. *)
AfterRelease(t) ==
  \/ op[t] = "unpin" /\ Leave(t, "clear")
  \/ /\ op[t] = "search"
     /\ Goto(t, "clear", "test")
     /\ UNCHANGED <<op, ca, i>>
  \/ /\ op[t] = "pin_on"
     /\ Goto(t, "clear", "mark")
     /\ UNCHANGED <<op, ca, i>>

(* Mutant of Clear: the slot stays marked. *)
ClearNothing(t) ==
  /\ pc[t] = "clear"
  /\ is_pinned' = [is_pinned EXCEPT ![t] = FALSE]
  /\ alloc' = [alloc EXCEPT ![t] = ca[t]]
  /\ emptying' = [emptying EXCEPT ![alloc[t]] = Users(alloc[t]) # {t}]
  /\ AfterRelease(t)
  /\ UNCHANGED <<slots, current_alloc, id>>

(* ... then the slot becomes free, and a pool function enters the new        *)
(* allocator.  The thread's id keeps its value.                              *)
Clear(t) ==
  /\ pc[t] = "clear"
  /\ hwcs_used' = [hwcs_used EXCEPT ![alloc[t]][id[t]] = 0]
  /\ is_pinned' = [is_pinned EXCEPT ![t] = FALSE]
  /\ alloc' = [alloc EXCEPT ![t] = ca[t]]
  /\ emptying' = [emptying EXCEPT ![alloc[t]] = Users(alloc[t]) # {t}]
  /\ AfterRelease(t)
  /\ UNCHANGED <<n_hwcs_used, current_alloc, id>>

-----------------------------------------------------------------------------
(* The pool *)

(* mctop_alloc_pool_set_alloc, the store to current_alloc *)
PoolSetAlloc(a) ==
  /\ current_alloc' = a
  /\ UNCHANGED <<slots, info, pc, op, ca, i, emptying>>

(* Mutant of PoolEnter: the slot in the allocator the thread leaves is not *)
(* released.                                                               *)
PoolEnterKeeping(t, f, start) ==
  /\ current_alloc # alloc[t] \/ ~ is_pinned[t]
  /\ Enter(t, f, current_alloc, start)
  /\ alloc' = [alloc EXCEPT ![t] = current_alloc]
  /\ is_pinned' = [is_pinned EXCEPT ![t] = FALSE]
  /\ UNCHANGED <<slots, current_alloc, id, i, emptying>>

(* mctop_alloc_pool_pin and _pool_pin_on: nothing to do for a thread that is *)
(* pinned to the current allocator; another one releases what it has.        *)
PoolEnter(t, f, start) ==
  /\ \/ /\ is_pinned[t] /\ current_alloc # alloc[t]
        /\ Enter(t, f, current_alloc, "drop")
        /\ emptying' = [emptying EXCEPT ![alloc[t]] = TRUE]
        /\ UNCHANGED alloc
     \/ /\ ~ is_pinned[t]
        /\ Enter(t, f, current_alloc, start)
        /\ alloc' = [alloc EXCEPT ![t] = current_alloc]
        /\ UNCHANGED emptying
  /\ UNCHANGED <<slots, current_alloc, is_pinned, id, i>>

PoolPin(t)   == PoolEnter(t, "search", "test")
PoolPinOn(t) == PoolEnter(t, "pin_on", "mark")

-----------------------------------------------------------------------------
(* What clients call, and when. *)

(* "Only if ALL threads unpin before any starts pinning again" is what       *)
(* emptying is for.  That no more threads pin than there are slots is said   *)
(* nowhere and tested nowhere: mctop_alloc_pin takes the counter as a slot   *)
(* without a bound.  This client keeps to it.                                *)
CallPin(t, a) ==
  /\ Use[a] = "count" /\ ~ is_pinned[t]
  /\ ~ emptying[a] /\ Cardinality(Users(a)) < n_hwcs[a]
  /\ Pin(t, a)

(* A pinned thread calls it again for the allocator it is pinned to. *)
CallPinPlus(t, a) ==
  /\ Use[a] = "search"
  /\ is_pinned[t] => alloc[t] = a
  /\ PinPlus(t, a)

(* Only for a thread that is not pinned: the function does not release what  *)
(* the thread has.  The header asks for no such thing, it calls the function *)
(* "pin plus without stats"; MCAllocRepin has clients that take it at that.  *)
CallPinSimple(t, a) == Use[a] = "search" /\ ~ is_pinned[t] /\ PinSimple(t, a)
CallPinOn(t, a)     == Use[a] = "seat" /\ ~ is_pinned[t] /\ PinOn(t, a)

(* Nobody unpins while another thread pins by the counter. *)
MayRelease(t) ==
  \A u \in Threads : is_pinned[t] /\ op[u] = "pin" => alloc[u] # alloc[t]

CallUnpin(t) == MayRelease(t) /\ Unpin(t)

CallPoolPin(t) ==
  Use[current_alloc] = "search" /\ MayRelease(t) /\ PoolPin(t)

CallPoolPinOn(t) ==
  Use[current_alloc] = "seat" /\ MayRelease(t) /\ PoolPinOn(t)

Call(t) ==
  \/ \E a \in Allocs : \/ CallPin(t, a) \/ CallPinPlus(t, a)
                       \/ CallPinSimple(t, a) \/ CallPinOn(t, a)
  \/ CallPoolPin(t) \/ CallPoolPinOn(t) \/ CallUnpin(t)

Step(t) ==
  \/ Take(t) \/ Test(t) \/ Scan(t) \/ Cas(t) \/ Count(t) \/ Mark(t)
  \/ Settle(t) \/ Drop(t) \/ Clear(t)

Next ==
  \/ \E t \in Threads : Call(t) \/ Step(t)
  \/ \E a \in Pool : PoolSetAlloc(a)

Spec == Init /\ [][Next]_vars

-----------------------------------------------------------------------------
Pcs == {"idle", "take", "test", "scan", "cas", "count", "settle", "mark",
        "drop", "clear"}
Ops == {"none", "pin", "search", "pin_on", "unpin"}

(* Types, and the bounds of every index into hwcs_used. *)
TypeOK ==
  /\ DOMAIN hwcs_used = Allocs
  /\ \A a \in Allocs : hwcs_used[a] \in [Slots(a) -> {0, 1}]
  /\ n_hwcs_used \in [Allocs -> 0..UIntRange - 1]
  /\ current_alloc \in Pool
  /\ alloc \in [Threads -> Allocs \cup {NULL}]
  /\ is_pinned \in [Threads -> BOOLEAN]
  /\ id \in [Threads -> Nat \cup {-1}]
  /\ pc \in [Threads -> Pcs]
  /\ op \in [Threads -> Ops]
  /\ ca \in [Threads -> Allocs \cup {NULL}]
  /\ i \in [Threads -> Nat]
  /\ emptying \in [Allocs -> BOOLEAN]
  /\ \A t \in Threads :
       /\ pc[t] # "idle" \/ is_pinned[t] => alloc[t] \in Allocs
       /\ pc[t] \in {"scan", "cas", "count", "settle"}
            => i[t] \in Slots(alloc[t])
       /\ is_pinned[t] => id[t] \in Slots(alloc[t])

(* Thread t has slot s of allocator a: it is pinned to it and has not yet    *)
(* cleared it, or it has taken it and is about to be pinned.                 *)
Holds(t, a, s) ==
  /\ alloc[t] = a
  /\ \/ is_pinned[t] /\ id[t] = s
     \/ pc[t] \in {"count", "settle"} /\ i[t] = s

(* No two threads have the same slot of an allocator: they run on different  *)
(* hardware contexts and mctop_alloc_thread_id gives them different ids,     *)
(* whatever searches, repins, unpins and changes of the current allocator    *)
(* happen between the test of a slot and its compare-and-swap, and between   *)
(* the changes of the counter and of the slot.                               *)
SlotsExclusive ==
  \A t, u \in Threads, a \in Allocs : \A s \in Slots(a) :
    Holds(t, a, s) /\ Holds(u, a, s) => t = u

(* A slot is marked exactly while a thread has it: no slot is lost when      *)
(* threads move between allocators, and none is free while it is in use.     *)
UsedMeansHeld ==
  \A a \in Allocs : \A s \in Slots(a) :
    hwcs_used[a][s] = 1
      <=> \E t \in Threads :
            Holds(t, a, s) /\ ~ (pc[t] = "settle" /\ op[t] = "pin")

(* The threads the counter of a stands for. *)
Counted(a) == {t \in Threads :
  /\ alloc[t] = a
  /\ \/ is_pinned[t] /\ pc[t] # "clear"
     \/ pc[t] = "settle"}

(* The counter is the number of slots taken, less those whose thread is      *)
(* between its slot and its counter update: it never goes below zero (where  *)
(* it would wrap around) nor above the number of slots.                      *)
CounterAccounts ==
  \A a \in Allocs :
    /\ n_hwcs_used[a] = Cardinality(Counted(a))
    /\ n_hwcs_used[a] <= n_hwcs[a]

(* A search gives up only when other threads have all slots of the           *)
(* allocator: a thread that releases a slot lets the counter go down before  *)
(* the slot is free, and one that takes a slot counts it afterwards, so a    *)
(* counter that says full is never ahead of the slots.                       *)
RefusedOnlyWhenFull ==
  [][\A t \in Threads :
       pc[t] = "test" /\ pc'[t] = "idle"
         => \A s \in Slots(alloc[t]) :
              \E u \in Threads \ {t} : Holds(u, alloc[t], s)]_vars

(* mctop_alloc_thread_id *)
mctop_alloc_thread_id(t) == id[t]

(* mctop_alloc.h promises "thread id (NOT hw context id). -1 if thread is    *)
(* not pinned."  The function returns the id that the last pin has left.     *)
UnpinnedHasNoId ==
  \A t \in Threads :
    pc[t] = "idle" /\ ~ is_pinned[t] => mctop_alloc_thread_id(t) = -1
=============================================================================
