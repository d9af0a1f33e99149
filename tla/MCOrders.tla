------------------------------ MODULE MCOrders ------------------------------
(* Instances of Orders for TLC.                                            *)
EXTENDS Orders, TLC

CONSTANTS v1, v2

\* Two baskets: all the units of v1, or one unit of each variant.
MCBaskets ==
  {[v \in Variant |-> IF v = v1 THEN 2 ELSE 0], [v \in Variant |-> 1]}

\* Two units of v1 on the shelf and none of v2, which may be backordered.
MCStock == [v \in Variant |-> IF v = v1 THEN 2 ELSE 0]

Symmetry == Permutations(Order)
=============================================================================
