----------------------------- MODULE MCCheckout -----------------------------
(* Instances of Checkout for TLC.                                          *)
EXTENDS Checkout, TLC

CONSTANTS p1, p2, p3, c1, c2, v1, v2

\* The first customer submits one cart twice, the second another cart.
MCCartOf == (p1 :> c1) @@ (p2 :> c1) @@ (p3 :> c2)

\* Both carts want both variants.
MCInitialCart == [c \in Cart |-> [v \in Variant |-> 1]]

\* Two units of v1; of v2 the last one, which may be backordered.
MCStock == (v1 :> 2) @@ (v2 :> 1)
=============================================================================
