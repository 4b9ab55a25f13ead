----------------------------- MODULE MCBlockMap -----------------------------
(***************************************************************************)
(* BlockMap for TLC: one size can have blocks enough to fill a group of    *)
(* its list, the others have one.                                          *)
(***************************************************************************)
EXTENDS BlockMap

MCOffsets == [s \in Sizes |-> IF s = 4 THEN 1..4 ELSE {1}]
=============================================================================
