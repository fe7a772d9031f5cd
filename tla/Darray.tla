-------------------------------- MODULE Darray --------------------------------
(***************************************************************************)
(* The growing arrays of src/src/darray.c, as operators on sequences.  An  *)
(* array doubles when it is full, so its capacity is left out: what the    *)
(* topology, the policies and the node tree see of an array is the         *)
(* sequence of its elements.  Indices of the code start at 0, sequences at *)
(* 1.                                                                      *)
(***************************************************************************)
EXTENDS Integers, Sequences, FiniteSets, SequencesExt

darray_exists(da, elem) == Contains(da, elem)

darray_add(da, elem) == Append(da, elem)

darray_add_uniq(da, elem) ==
    IF darray_exists(da, elem) THEN da ELSE darray_add(da, elem)

\* All elements of a sequence added with darray_add_uniq to an empty array.
AddAllUniq(elems) == FoldLeft(darray_add_uniq, << >>, elems)

\* The first occurrence only, the elements behind it move one place down.
darray_remove(da, elem) == RemoveFirst(da, elem)

darray_remove_all(da, from) == FoldLeft(darray_remove, da, from)

\* The index of the code (from 0) at which an element first occurs.
darray_exists_pos(da, elem) == SelectInSeq(da, LAMBDA e : e = elem) - 1

\* The sequence n, n+1, ..., m that a counting loop goes through.
Loop(n, m) == [i \in 1..(m - n + 1) |-> n + i - 1]

\* darray_sort of an array that was filled with darray_add_uniq from a set of numbers.
darray_sort(elems) ==
    [i \in 1..Cardinality(elems) |->
        CHOOSE e \in elems : Cardinality({d \in elems : d < e}) = i - 1]
===============================================================================
