----------------------------- MODULE MCHeapList -----------------------------
(***************************************************************************)
(* HeapList with a boot heap, the heap of a startup stack and two regions. *)
(***************************************************************************)
EXTENDS HeapList, TLC

Booted == <<"dram", "stack">>

Symmetry == Permutations(Tasks) \cup Permutations(Regions)
=============================================================================
