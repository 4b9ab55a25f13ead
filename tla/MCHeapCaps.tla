----------------------------- MODULE MCHeapCaps -----------------------------
(***************************************************************************)
(* HeapCaps on small lists of heaps.  The capabilities are those of the    *)
(* memory types DRAM, D/IRAM and IRAM, at two priorities.                  *)
(***************************************************************************)
EXTENDS HeapCaps

Dram1 == <<{"8bit", "default"}, {"internal", "32bit"}>>
DramIram == <<{}, {"8bit", "default", "internal", "32bit", "exec"}>>
Iram == <<{"exec", "32bit", "internal"}, {}>>

(* The heap of a startup stack in DRAM, a D/IRAM heap, and a region that can  *)
(* be a block of the latter.                                                  *)
Nesting ==
    [stack |-> [start |-> 8, end |-> 10, caps |-> Dram1],
     diram |-> [start |-> 1, end |-> 5, caps |-> DramIram],
     inner |-> [start |-> 2, end |-> 4, caps |-> Iram]]

NestingList == <<"stack", "diram">>

(* Data memory, or else memory for code; capabilities no memory has, or else  *)
(* any internal memory.                                                       *)
TwoAttempts == {<<{"8bit", "internal"}, {"exec"}>>, <<{"exec", "8bit"}, {"internal"}>>}

(* A DRAM heap, and memory that two tasks may want to add. *)
Adding ==
    [dram |-> [start |-> 1, end |-> 5, caps |-> Dram1],
     more |-> [start |-> 8, end |-> 10, caps |-> Dram1]]

AddingList == <<"dram">>

Internal == {<<{"8bit", "internal"}, {"internal"}>>}
=============================================================================
