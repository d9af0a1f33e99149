---------------------------- MODULE MCShipments ----------------------------
(* Instances of Shipments for TLC.                                         *)
EXTENDS Shipments, TLC

\* Two units of each variant, all there are.
MCBaskets == {[v \in Variant |-> 2]}

MCStock == [v \in Variant |-> 2]

Symmetry == Permutations(Handler) \cup Permutations(Packer)
=============================================================================
