----------------------------- MODULE MCHeapTrace -----------------------------
(***************************************************************************)
(* HeapTrace with interchangeable tasks and addresses, and two arrays.     *)
(* What is left behind in the array from count on is never read: the       *)
(* states that differ in it only are one for TLC.                          *)
(***************************************************************************)
EXTENDS HeapTrace, TLC

\* The arrays are named by their lengths
TwoLengths == [b \in Buffers \cup {Null} |->
                  IF b = "two" THEN 2 ELSE IF b = "one" THEN 1 ELSE 0]

Symmetry == Permutations(Tasks) \cup Permutations(Addresses)

InUse == <<settings, [i \in DOMAIN log |-> IF i < count THEN log[i] ELSE Empty],
           count, total_allocations, has_overflowed, slot, mux, task_state, blocks,
           gap, refused>>
=============================================================================
