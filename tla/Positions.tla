------------------------------ MODULE Positions ------------------------------
(***************************************************************************)
(* Sets of positions, counted off in their order.                          *)
(***************************************************************************)
EXTENDS Naturals, FiniteSets

(* The n-th of a set of positions.                                         *)
Nth(n, positions) ==
  CHOOSE i \in positions : Cardinality({j \in positions : j <= i}) = n

(* A set of positions, in the order of the document.                       *)
Ascending(positions) == [n \in 1..Cardinality(positions) |-> Nth(n, positions)]
=============================================================================
