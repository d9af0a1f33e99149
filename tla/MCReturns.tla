----------------------------- MODULE MCReturns -----------------------------
(* Instances of Returns for TLC.                                           *)
EXTENDS Returns, TLC

\* Two units of each variant, all there are.
MCBaskets == {[v \in Variant |-> 2]}

MCStock == [v \in Variant |-> 2]

Symmetry == Permutations(Staff)
=============================================================================
