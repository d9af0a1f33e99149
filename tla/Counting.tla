------------------------------ MODULE Counting ------------------------------
(***************************************************************************)
(* Sums of quantities, as the number of things they count: the units of a  *)
(* set of lines are pairs of a line and a number up to its quantity.  The  *)
(* properties of the stock figures are stated with it.                     *)
(***************************************************************************)
EXTENDS Integers, FiniteSets

UnitsOn(quantity, S) == UNION {{x} \X (1 .. quantity[x]) : x \in S}

\* The sum of quantity[x] over S.
TotalOver(quantity, S) == Cardinality(UnitsOn(quantity, S))
=============================================================================
