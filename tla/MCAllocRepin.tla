---------------------------- MODULE MCAllocRepin ----------------------------
(***************************************************************************)
(* A client of AllocPin that repins: mctop_alloc_pin_plus, or              *)
(* mctop_alloc_pin_simple, for whatever allocator, also by a thread that   *)
(* is pinned.                                                              *)
(***************************************************************************)
EXTENDS AllocPin

MCn_hwcs == [a \in Allocs |-> 2]
MCUse == [a \in Allocs |-> "search"]
MCSeat == CHOOSE f \in [Threads -> 0..Cardinality(Threads) - 1] :
            \A t, u \in Threads : f[t] = f[u] => t = u

NextRepin ==
  \E t \in Threads : (\E a \in Allocs : PinPlus(t, a) \/ PinSimple(t, a))
                      \/ Unpin(t) \/ Step(t)

SpecRepin == Init /\ [][NextRepin]_vars

(* mctop_alloc.h says of mctop_alloc_pin_plus "mctop_alloc_pin + repin       *)
(* possible", and of mctop_alloc_pin_simple "pin plus without stats": once   *)
(* no thread is inside a call, only the slots that threads are pinned to are *)
(* taken.                                                                    *)
RepinFreesOldSlot ==
  (\A t \in Threads : pc[t] = "idle")
    => \A a \in Allocs : \A s \in Slots(a) :
         hwcs_used[a][s] = 1 => \E t \in Threads : Holds(t, a, s)
=============================================================================
