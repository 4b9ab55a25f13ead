----------------------------- MODULE LeastNumber -----------------------------
(***************************************************************************)
(* The least-number principle for sets, from the library's well-founded    *)
(* relations: what a CHOOSE of a first or a last element rests on.         *)
(***************************************************************************)
EXTENDS Integers, WellFoundedInduction, TLAPS

Below == {pair \in Nat \X Nat : pair[1] < pair[2]}

\* Natural numbers have a least one among them
LEMMA Least ==
    ASSUME NEW S \in SUBSET Nat, S # {}
    PROVE  \E x \in S : \A y \in S : x <= y
  <1>1. OpToRel(<, Nat) = Below
    BY Zenon DEF OpToRel, Below
  <1>2. IsWellFoundedOn(Below, Nat)
    BY <1>1, NatLessThanWellFounded, Zenon
  <1>3. PICK x \in S : \A y \in S : ~(<<y, x>> \in Below)
    BY <1>2, WFMin, Zenon
  <1>4. \A y \in S : ~(y < x)
    BY <1>3 DEF Below
  <1> QED
    BY <1>4

=============================================================================
