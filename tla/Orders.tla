------------------------------- MODULE Orders -------------------------------
(***************************************************************************)
(* The life of an order, as src/apps/orders/services.py drives it, with    *)
(* the stock it holds and the coupon use it burns.                         *)
(*                                                                         *)
(* Every handler here runs in one transaction that first locks the order   *)
(* row (select_for_update) and then each inventory row it changes, so a    *)
(* handler is one action.  place_order is the exception: it reads before   *)
(* it locks.  Module Checkout models its steps and shows that they         *)
(* implement the single step PlaceOrder takes here.                        *)
(*                                                                         *)
(* Handlers of the same order interleave freely: the customer, the staff   *)
(* desk, the parcels and the payment gateway all act on it, and none of    *)
(* them knows what the others have done until it holds the lock.           *)
(*                                                                         *)
(* Left out: money, addresses, the item statuses and the invoice.  Time is *)
(* abstract: a cancellation inside the window may happen whenever the      *)
(* status allows it.  What is said here is said of the service layer;      *)
(* module OrderDesk adds the edit form of the admin, which writes any      *)
(* status past these functions, and the status history.                    *)
(***************************************************************************)
EXTENDS StockRow, Counting

CONSTANTS
  Order,             \* the orders that may be placed
  Variant,           \* the product variants
  Baskets,           \* the line quantities an order may have
  Stock,             \* quantity_available of each variant at the start
  AllowBackorder,    \* the variants with allow_backorder set
  UsageLimit,        \* usage_limit of the coupon
  MaxRestores        \* bound: cancellations of an order after its sale

ASSUME OrderAssumption == IsFiniteSet(Order)
ASSUME BasketAssumption == Baskets \subseteq [Variant -> Nat]
ASSUME StockAssumption == Stock \in [Variant -> Nat]
ASSUME BackorderAssumption == AllowBackorder \subseteq Variant
ASSUME LimitAssumption == UsageLimit \in Nat /\ MaxRestores \in Nat

VARIABLES
  status,            \* Order.status, "none" before the order is placed
  payment_status,    \* Order.payment_status
  payment_method,    \* Order.payment_method: "cod", or "online" for the others
  basket,            \* the quantity of each variant on the order's lines
  stock_committed,   \* Order.stock_committed
  inventory,         \* the inventory rows
  usages,            \* the orders with a CouponUsage row
  used_count,        \* Coupon.used_count
  confirming,        \* COD orders whose request has yet to call confirm_cod
  attempted,         \* orders with a Payment row at the gateway
  commits,           \* history: sales made of the order's reservation
  restores           \* history: sales undone by cancelling the order

orderVars == <<status, payment_status, payment_method, basket>>
stockVars == <<inventory, stock_committed, commits, restores>>
couponVars == <<usages, used_count>>
requestVars == <<confirming, attempted>>
vars == <<orderVars, stockVars, couponVars, requestVars>>

-----------------------------------------------------------------------------
(* Order.Status, Order.PaymentStatus and Order.TRANSITIONS.                *)

Status ==
  {"pending", "confirmed", "processing", "shipped", "out_for_delivery",
   "delivered", "cancelled", "return_requested", "returned",
   "refund_initiated", "refunded"}

PaymentStatus ==
  {"pending", "paid", "failed", "refund_pending", "refunded",
   "partially_refunded"}

TRANSITIONS ==
  [s \in Status |->
     CASE s = "pending"          -> {"confirmed", "cancelled"}
       [] s = "confirmed"        -> {"processing", "cancelled"}
       [] s = "processing"       -> {"shipped", "cancelled"}
       [] s = "shipped"          -> {"out_for_delivery", "delivered",
                                     "return_requested"}
       [] s = "out_for_delivery" -> {"delivered", "return_requested"}
       [] s = "delivered"        -> {"return_requested"}
       [] s = "return_requested" -> {"returned", "delivered"}
       [] s = "returned"         -> {"refund_initiated"}
       [] s = "refund_initiated" -> {"refunded"}
       [] s = "cancelled"        -> {"refund_initiated"}
       [] s = "refunded"         -> {}]

Placed(o) == status[o] # "none"

TypeOK ==
  /\ status \in [Order -> Status \cup {"none"}]
  /\ payment_status \in [Order -> PaymentStatus]
  /\ payment_method \in [Order -> {"cod", "online"}]
  /\ basket \in [Order -> [Variant -> Nat]]
  /\ stock_committed \in [Order -> BOOLEAN]
  /\ inventory \in [Variant -> Row]
  /\ usages \subseteq Order
  /\ used_count \in Nat
  /\ confirming \subseteq Order
  /\ attempted \subseteq Order
  /\ commits \in [Order -> Nat]
  /\ restores \in [Order -> Nat]

Init ==
  /\ status = [o \in Order |-> "none"]
  /\ payment_status = [o \in Order |-> "pending"]
  /\ payment_method = [o \in Order |-> "cod"]
  /\ basket = [o \in Order |-> [v \in Variant |-> 0]]
  /\ stock_committed = [o \in Order |-> FALSE]
  /\ inventory = [v \in Variant |-> FullShelf(Stock[v])]
  /\ usages = {}
  /\ used_count = 0
  /\ confirming = {}
  /\ attempted = {}
  /\ commits = [o \in Order |-> 0]
  /\ restores = [o \in Order |-> 0]

-----------------------------------------------------------------------------
(* Stock and coupon effects shared by the handlers.                        *)

ReserveStock(lines) ==
  inventory' = [v \in Variant |-> Reserve(inventory[v], lines[v])]

ReleaseStock(o) ==
  inventory' = [v \in Variant |-> Release(inventory[v], basket[o][v])]

\* Mutant: the sale is made again by every path that confirms the order.
CommitStockAgain(o) ==
  /\ stock_committed' = [stock_committed EXCEPT ![o] = TRUE]
  /\ inventory' = [v \in Variant |-> Commit(inventory[v], basket[o][v])]
  /\ commits' = [commits EXCEPT ![o] = @ + 1]

\* _commit_stock: turn the reservation into a sale, unless that was done.
CommitStock(o) ==
  /\ stock_committed' = [stock_committed EXCEPT ![o] = TRUE]
  /\ IF stock_committed[o]
     THEN UNCHANGED <<inventory, commits>>
     ELSE /\ inventory' =
               [v \in Variant |-> Commit(inventory[v], basket[o][v])]
          /\ commits' = [commits EXCEPT ![o] = @ + 1]

\* coupon_services.redeem, reached only with the limit not yet used up.
Redeem(o) ==
  /\ used_count < UsageLimit
  /\ usages' = usages \cup {o}
  /\ used_count' = used_count + 1

\* Mutant: a cancellation gives a use back whether or not the order used one.
RevokeAlways(o) ==
  /\ usages' = usages \ {o}
  /\ used_count' = Monus(used_count, 1)

\* coupon_services.revoke: one use back for each usage row of the order.
Revoke(o) ==
  /\ usages' = usages \ {o}
  /\ used_count' = IF o \in usages THEN Monus(used_count, 1) ELSE used_count

-----------------------------------------------------------------------------
(* Placement and payment.                                                  *)

\* place_order.  A COD request goes on to call confirm_cod.
PlaceOrder(o, lines, method, withCoupon) ==
  /\ ~Placed(o)
  /\ \E v \in Variant : lines[v] > 0
  /\ \A v \in Variant :
       CanReserve(inventory[v], lines[v], v \in AllowBackorder)
  /\ ReserveStock(lines)
  /\ IF withCoupon THEN Redeem(o) ELSE UNCHANGED couponVars
  /\ status' = [status EXCEPT ![o] = "pending"]
  /\ payment_method' = [payment_method EXCEPT ![o] = method]
  /\ basket' = [basket EXCEPT ![o] = lines]
  /\ confirming' = IF method = "cod" THEN confirming \cup {o} ELSE confirming
  /\ UNCHANGED <<payment_status, stock_committed, commits, restores,
                 attempted>>

\* confirm_cod, the second transaction of a COD checkout.
ConfirmCod(o) ==
  /\ o \in confirming
  /\ confirming' = confirming \ {o}
  /\ IF status[o] = "pending"
     THEN /\ CommitStock(o)
          /\ status' = [status EXCEPT ![o] = "confirmed"]
     ELSE UNCHANGED <<status, inventory, stock_committed, commits>>
  /\ UNCHANGED <<payment_status, payment_method, basket, restores,
                 couponVars, attempted>>

\* The worker dies between place_order and confirm_cod.
LoseCodRequest(o) ==
  /\ o \in confirming
  /\ confirming' = confirming \ {o}
  /\ UNCHANGED <<orderVars, stockVars, couponVars, attempted>>

\* start_payment: a gateway order and a Payment row for an order still open.
StartPayment(o) ==
  /\ Placed(o)
  /\ payment_status[o] # "paid"
  /\ status[o] \notin {"cancelled", "refunded"}
  /\ attempted' = attempted \cup {o}
  /\ UNCHANGED <<orderVars, stockVars, couponVars, confirming>>

\* Mutant: every answer of the gateway confirms the order.
MarkPaidAgain(o) ==
  /\ o \in attempted
  /\ CommitStock(o)
  /\ payment_status' = [payment_status EXCEPT ![o] = "paid"]
  /\ status' = [status EXCEPT ![o] = "confirmed"]
  /\ UNCHANGED <<payment_method, basket, restores, couponVars, confirming,
                 attempted>>

\* mark_paid, called by verify_payment and by the success webhook.
MarkPaid(o) ==
  /\ o \in attempted
  /\ IF payment_status[o] = "paid"
     THEN UNCHANGED <<status, payment_status, inventory, stock_committed,
                      commits>>
     ELSE /\ CommitStock(o)
          /\ payment_status' = [payment_status EXCEPT ![o] = "paid"]
          /\ status' = [status EXCEPT ![o] = "confirmed"]
  /\ UNCHANGED <<payment_method, basket, restores, couponVars, confirming,
                 attempted>>

\* Mutant: a late failure is applied to an order that is already paid.
MarkPaymentFailedAnyway(o) ==
  /\ Placed(o)
  /\ ReleaseStock(o)
  /\ payment_status' = [payment_status EXCEPT ![o] = "failed"]
  /\ UNCHANGED <<status, payment_method, basket, stock_committed, commits,
                 restores, couponVars, confirming, attempted>>

\* mark_payment_failed, called by cancel_payment (which asks for no Payment
\* row), by a failed verification and by the failure webhook.
MarkPaymentFailed(o) ==
  /\ Placed(o)
  /\ IF payment_status[o] = "paid"
     THEN UNCHANGED <<payment_status, inventory>>
     ELSE /\ ReleaseStock(o)
          /\ payment_status' = [payment_status EXCEPT ![o] = "failed"]
  /\ UNCHANGED <<status, payment_method, basket, stock_committed, commits,
                 restores, couponVars, confirming, attempted>>

-----------------------------------------------------------------------------
(* Fulfilment and cancellation.                                            *)

\* Mutant: the staff desk confirms an order without selling its units.
TransitionOnlyWritesStatus(o, new) ==
  /\ Placed(o)
  /\ new \in TRANSITIONS[status[o]]
  /\ status' = [status EXCEPT ![o] = new]
  /\ UNCHANGED <<payment_status, payment_method, basket, stockVars,
                 couponVars, requestVars>>

\* transition_order to "confirmed" sells the reservation; to "delivered" it
\* settles a COD order; to any other status it only writes the status.
TransitionOrder(o, new) ==
  /\ Placed(o)
  /\ new \in TRANSITIONS[status[o]]
  /\ status' = [status EXCEPT ![o] = new]
  /\ IF new = "confirmed"
     THEN CommitStock(o)
     ELSE UNCHANGED <<inventory, stock_committed, commits>>
  /\ payment_status' =
       IF new = "delivered" /\ payment_method[o] = "cod"
       THEN [payment_status EXCEPT ![o] = "paid"]
       ELSE payment_status
  /\ UNCHANGED <<payment_method, basket, restores, couponVars, requestVars>>

\* Mutant: the sale is undone and still taken for standing.
CancelKeepsCommitted(o, staff_override) ==
  /\ Placed(o)
  /\ staff_override \/ status[o] \in {"pending", "confirmed", "processing"}
  /\ status[o] \notin {"cancelled", "returned", "refunded"}
  /\ stock_committed[o]
  /\ restores[o] < MaxRestores
  /\ inventory' = [v \in Variant |-> Restore(inventory[v], basket[o][v])]
  /\ restores' = [restores EXCEPT ![o] = @ + 1]
  /\ status' = [status EXCEPT ![o] = "cancelled"]
  /\ UNCHANGED <<payment_status, payment_method, basket, stock_committed,
                 commits, couponVars, requestVars>>

\* cancel_order.  The customer may cancel before shipping; staff may cancel
\* whatever is not closed.
CancelOrder(o, staff_override) ==
  /\ Placed(o)
  /\ staff_override \/ status[o] \in {"pending", "confirmed", "processing"}
  /\ status[o] \notin {"cancelled", "returned", "refunded"}
  /\ stock_committed[o] => restores[o] < MaxRestores
  /\ IF stock_committed[o]
     THEN /\ inventory' =
               [v \in Variant |-> Restore(inventory[v], basket[o][v])]
          /\ restores' = [restores EXCEPT ![o] = @ + 1]
     ELSE /\ ReleaseStock(o)
          /\ UNCHANGED restores
  /\ Revoke(o)
  /\ status' = [status EXCEPT ![o] = "cancelled"]
  /\ stock_committed' = [stock_committed EXCEPT ![o] = FALSE]
  /\ payment_status' =
       IF payment_status[o] = "paid"
       THEN [payment_status EXCEPT ![o] = "refund_pending"]
       ELSE payment_status
  /\ UNCHANGED <<payment_method, basket, commits, requestVars>>

-----------------------------------------------------------------------------

Next ==
  \E o \in Order :
    \/ \E lines \in Baskets, method \in {"cod", "online"},
          withCoupon \in BOOLEAN : PlaceOrder(o, lines, method, withCoupon)
    \/ ConfirmCod(o)
    \/ LoseCodRequest(o)
    \/ StartPayment(o)
    \/ MarkPaid(o)
    \/ MarkPaymentFailed(o)
    \/ \E new \in Status : TransitionOrder(o, new)
    \/ \E staff_override \in BOOLEAN : CancelOrder(o, staff_override)

Spec == Init /\ [][Next]_vars

-----------------------------------------------------------------------------
(* Properties.                                                             *)

\* Units of v on the lines of the orders in S.
UnitsOf(v, S) == TotalOver([o \in Order |-> basket[o][v]], S)

\* Statuses an order can have only once its units were sold.
Fulfilling ==
  {"confirmed", "processing", "shipped", "out_for_delivery", "delivered",
   "return_requested", "returned"}

\* An order's reservation becomes a sale at most once for every time the
\* sale was undone, whichever of the webhook, the browser callback, the COD
\* request and the staff desk confirm it (_commit_stock, "exactly once"),
\* and stock_committed tells whether the sale stands.
CommittedExactlyOnce ==
  \A o \in Order :
    commits[o] = restores[o] + (IF stock_committed[o] THEN 1 ELSE 0)

\* The sold figure of a variant is what the orders with a standing sale
\* bought: late payments, repeated failures and cancellations in any order
\* never count a unit twice and never forget one.
SoldMatchesOrders ==
  \A v \in Variant :
    inventory[v].sold = UnitsOf(v, {o \in Order : stock_committed[o]})

\* Reservations never exceed what is on the shelf, unless the variant may be
\* backordered: reserve() checks it under the lock, and no sale, release or
\* cancellation undoes it, even when it takes another order's reservation.
ReservedWithinShelf ==
  \A v \in Variant \ AllowBackorder :
    inventory[v].reserved <= inventory[v].available

\* Every reserved unit belongs to an order that has not bought its units
\* yet: a sale, or a cancellation after it, leaves no reservation behind.
NoPhantomReservation ==
  \A v \in Variant :
    inventory[v].reserved
      <= UnitsOf(v, {o \in Order : Placed(o) /\ commits[o] = 0})

\* No order is confirmed, shipped, delivered or returned without its units
\* counted as sold, whatever the path that took it there.
FulfilmentOnlyAfterSale ==
  \A o \in Order : status[o] \in Fulfilling => stock_committed[o]

\* The coupon counter is the number of usage rows, within the limit, however
\* placements and cancellations interleave: redeem and revoke move the two
\* together.
CouponCountMatchesUsages ==
  used_count = Cardinality(usages) /\ used_count <= UsageLimit

\* A payment that was taken is never forgotten: a paid order stays paid until
\* a cancellation owes the customer a refund.
PaidOnlyLeavesToRefund ==
  [][\A o \in Order :
       payment_status[o] = "paid"
         => payment_status'[o] \in {"paid", "refund_pending"}]_vars

\* Of the handlers of a sale, those of this module, a staff transition keeps
\* to TRANSITIONS (orders/models.py:111), and what goes past it settles the
\* order: a payment is taken, once, and confirms the order from wherever it
\* is, even closed or on its way; a cancellation leaves no standing sale and
\* no coupon use behind; a second answer of the gateway moves nothing.  The
\* desk of returns (module Returns) and the edit form (module OrderDesk)
\* write statuses past the table as well, and record_refund would.
PastTablePaidOrUndone ==
  [][\A o \in Order :
       Placed(o) /\ status'[o] \notin {status[o]} \cup TRANSITIONS[status[o]]
         => \/ /\ status'[o] = "confirmed"
               /\ payment_status[o] # "paid" /\ payment_status'[o] = "paid"
            \/ /\ status'[o] = "cancelled"
               /\ ~stock_committed'[o] /\ o \notin usages']_vars

\* inventory/services.py: the row lock "is what stops two shoppers from
\* buying the same last unit".
NoLastUnitSoldTwice ==
  \A v \in Variant \ AllowBackorder : inventory[v].sold <= Stock[v]
=============================================================================
