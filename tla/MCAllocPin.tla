----------------------------- MODULE MCAllocPin -----------------------------
(***************************************************************************)
(* Three threads and three allocators, one for each way to take a slot; a  *)
(* pool holds the first two.                                               *)
(***************************************************************************)
EXTENDS AllocPin

CONSTANTS A, B, C, t1, t2, t3

MCn_hwcs == [a \in Allocs |-> 2]
MCUse == [a \in Allocs |-> CASE a = A -> "search" [] a = B -> "seat"
                             [] OTHER -> "count"]
MCSeat == [t \in Threads |-> CASE t = t1 -> 0 [] t = t2 -> 1 [] OTHER -> 2]
=============================================================================
