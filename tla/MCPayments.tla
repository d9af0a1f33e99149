----------------------------- MODULE MCPayments -----------------------------
(* Instances of Payments for TLC.                                          *)
EXTENDS Payments, TLC

\* One unit of each variant.
MCBaskets == {[v \in Variant |-> 1]}

MCStock == [v \in Variant |-> 1]

\* The first payment has events with ids of their own, one of which tells of no
\* charge; a decline and the charge of the second share a row.
MCEvents == {<<1, "captured", "id">>, <<1, "other", "id">>,
             <<2, "captured", "reference">>, <<2, "failed", "reference">>}

\* For the refuted statements.
MCOwnIds == Payment \X {"captured", "failed"} \X {"id"}

Symmetry == Permutations(Worker)
=============================================================================
