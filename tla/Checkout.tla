------------------------------ MODULE Checkout ------------------------------
(***************************************************************************)
(* place_order (src/apps/orders/services.py) at the grain of its locks.    *)
(*                                                                         *)
(* Module Orders takes a placement as one step.  Here it is what the code  *)
(* does: read the cart and the stock without a lock, check the coupon      *)
(* without a lock, then take the inventory rows one by one and the coupon  *)
(* row last, and write everything when the transaction commits.  Requests  *)
(* run side by side, two of them may submit the same cart, carts change    *)
(* under them, and a transaction may wait for another, be chosen as the    *)
(* victim of a deadlock or lose its worker.  Implements, below, says that  *)
(* every such run looks like a run of Orders.                              *)
(*                                                                         *)
(* The database is PostgreSQL under READ COMMITTED: a statement sees what  *)
(* is committed when it starts, a row lock lasts until the transaction     *)
(* ends, and what a transaction writes is seen when it commits.  So the    *)
(* variables hold committed data, and a request's own writes are the       *)
(* reservations of the rows it has locked.                                 *)
(*                                                                         *)
(* A request is also the name of the order it may place.  Each cart        *)
(* belongs to one customer.  The lines of a cart come in the order of      *)
(* their creation, which nothing relates between carts: a request may lock *)
(* its rows in any order.                                                  *)
(***************************************************************************)
EXTENDS StockRow, Counting

CONSTANTS
  Request,        \* the checkout requests
  Cart,           \* the carts, one for each customer
  Variant,        \* the product variants
  CartOf,         \* the cart each request submits
  InitialCart,    \* what is in each cart at the start
  CouponCarts,    \* the carts that have the coupon attached at the start
  Stock,          \* quantity_available of each variant at the start
  AllowBackorder, \* the variants with allow_backorder set
  MaxPerItem,     \* MAX_CART_QUANTITY_PER_ITEM
  UsageLimit,     \* usage_limit of the coupon
  UsageLimitPerUser,
  NoRequest,      \* the holder of a free row
  NoVariant       \* the row a request that waits for none is waiting for

ASSUME RequestAssumption == IsFiniteSet(Request) /\ NoRequest \notin Request
ASSUME VariantAssumption == NoVariant \notin Variant
ASSUME CartOfAssumption == CartOf \in [Request -> Cart]
ASSUME InitialCartAssumption ==
  InitialCart \in [Cart -> [Variant -> 0 .. MaxPerItem]]
ASSUME CouponCartsAssumption == CouponCarts \subseteq Cart
ASSUME ShelfAssumption == Stock \in [Variant -> Nat]
ASSUME BackordersAssumption == AllowBackorder \subseteq Variant
\* The code reads a coupon limit of zero as no limit when it validates.
ASSUME LimitsAssumption ==
  /\ MaxPerItem \in Nat
  /\ UsageLimit \in Nat \ {0}
  /\ UsageLimitPerUser \in Nat \ {0}

VARIABLES
  pc,             \* how far each request has come
  items,          \* the lines the request read
  withCoupon,     \* the requests whose cart had the coupon when they read it
  todo,           \* the lines whose row the request has yet to lock
  want,           \* the row the request is asking for
  lock,           \* the request that holds each inventory row
  couponLock,     \* the request that holds the coupon row
  cart,           \* the lines of each cart
  coupon,         \* the carts with the coupon attached
  inventory,      \* the inventory rows
  usages,         \* the orders with a CouponUsage row
  used_count,     \* Coupon.used_count
  released        \* orders whose payment failed and gave their units back

requestVars == <<pc, items, withCoupon, todo, want>>
lockVars == <<lock, couponLock>>
cartVars == <<cart, coupon>>
couponVars == <<usages, used_count>>
vars == <<requestVars, lockVars, cartVars, couponVars, inventory, released>>

-----------------------------------------------------------------------------
(* Requests.                                                               *)

\* "refused" ended with an OrderError, which the views show to the customer;
\* "failed" with an exception they do not catch; "aborted" was rolled back by
\* the database or with its worker.
InFlight == {"quoting", "locking"}
Ended == {"placed", "refused", "failed", "aborted"}

Lines == [Variant -> 0 .. MaxPerItem]

NoLines == [v \in Variant |-> 0]

Chosen(lines) == {v \in Variant : lines[v] > 0}

\* The requests of a cart's customer, and of p's.
RequestsOf(c) == {q \in Request : CartOf[q] = c}

Mine(p) == RequestsOf(CartOf[p])

TypeOK ==
  /\ pc \in [Request -> {"idle"} \cup InFlight \cup Ended]
  /\ items \in [Request -> Lines]
  /\ withCoupon \subseteq Request
  /\ todo \in [Request -> SUBSET Variant]
  /\ want \in [Request -> Variant \cup {NoVariant}]
  /\ lock \in [Variant -> Request \cup {NoRequest}]
  /\ couponLock \in Request \cup {NoRequest}
  /\ cart \in [Cart -> Lines]
  /\ coupon \subseteq Cart
  /\ inventory \in [Variant -> Row]
  /\ usages \subseteq Request
  /\ used_count \in Nat
  /\ released \subseteq Request

Init ==
  /\ pc = [p \in Request |-> "idle"]
  /\ items = [p \in Request |-> NoLines]
  /\ withCoupon = {}
  /\ todo = [p \in Request |-> {}]
  /\ want = [p \in Request |-> NoVariant]
  /\ lock = [v \in Variant |-> NoRequest]
  /\ couponLock = NoRequest
  /\ cart = InitialCart
  /\ coupon = CouponCarts
  /\ inventory = [v \in Variant |-> FullShelf(Stock[v])]
  /\ usages = {}
  /\ used_count = 0
  /\ released = {}

-----------------------------------------------------------------------------
(* How a transaction ends.                                                 *)

\* Mutant: the coupon row stays locked by a request that is over.
UnlockRowsOnly(p) ==
  /\ lock' = [v \in Variant |-> IF lock[v] = p THEN NoRequest ELSE lock[v]]
  /\ UNCHANGED couponLock

Unlock(p) ==
  /\ lock' = [v \in Variant |-> IF lock[v] = p THEN NoRequest ELSE lock[v]]
  /\ couponLock' = IF couponLock = p THEN NoRequest ELSE couponLock

\* Every effect of the request is undone; only its outcome remains.
Rollback(p, outcome) ==
  /\ Unlock(p)
  /\ pc' = [pc EXCEPT ![p] = outcome]
  /\ items' = [items EXCEPT ![p] = NoLines]
  /\ withCoupon' = withCoupon \ {p}
  /\ todo' = [todo EXCEPT ![p] = {}]
  /\ want' = [want EXCEPT ![p] = NoVariant]
  /\ UNCHANGED <<cartVars, couponVars, inventory, released>>

-----------------------------------------------------------------------------
(* The steps of a request.                                                 *)

\* live_items and check_availability, one query: the lines with the stock as
\* committed now, nothing locked.  Backorders do not help here.
ReadCart(p) ==
  /\ pc[p] = "idle"
  /\ LET lines == cart[CartOf[p]]
     IN  IF /\ Chosen(lines) # {}
            /\ \A v \in Variant : lines[v] <= Sellable(inventory[v])
         THEN /\ pc' = [pc EXCEPT ![p] = "quoting"]
              /\ items' = [items EXCEPT ![p] = lines]
              /\ withCoupon' = IF CartOf[p] \in coupon
                               THEN withCoupon \cup {p}
                               ELSE withCoupon
              /\ UNCHANGED <<todo, want, lockVars, cartVars, couponVars,
                             inventory, released>>
         ELSE Rollback(p, "refused")

\* check_validity, under no lock: the limit of the coupon and the limit of
\* the customer.
CouponValid(c) ==
  /\ used_count < UsageLimit
  /\ Cardinality(usages \cap RequestsOf(c)) < UsageLimitPerUser

\* The coupon is checked, then the address, the delivery option and the tax.
Quote(p) ==
  /\ pc[p] = "quoting"
  /\ p \in withCoupon => CouponValid(CartOf[p])
  /\ pc' = [pc EXCEPT ![p] = "locking"]
  /\ todo' = [todo EXCEPT ![p] = Chosen(items[p])]
  /\ UNCHANGED <<items, withCoupon, want, lockVars, cartVars, couponVars,
                 inventory, released>>

\* The coupon is no longer valid, or nothing delivers to the address.
RefuseQuote(p) ==
  /\ pc[p] = "quoting"
  /\ Rollback(p, "refused")

\* The next line asks for its inventory row.
AskRow(p, v) ==
  /\ pc[p] = "locking"
  /\ want[p] = NoVariant
  /\ v \in todo[p]
  /\ want' = [want EXCEPT ![p] = v]
  /\ UNCHANGED <<pc, items, withCoupon, todo, lockVars, cartVars, couponVars,
                 inventory, released>>

\* Mutant: the stock read with the cart is trusted once the row is locked.
TakeRowUnchecked(p, v) ==
  /\ want[p] = v
  /\ lock[v] = NoRequest
  /\ lock' = [lock EXCEPT ![v] = p]
  /\ todo' = [todo EXCEPT ![p] = @ \ {v}]
  /\ want' = [want EXCEPT ![p] = NoVariant]
  /\ UNCHANGED <<pc, items, withCoupon, couponLock, cartVars, couponVars,
                 inventory, released>>

\* reserve: the row is free, so it is locked and checked.  InsufficientStock
\* is no OrderError.
TakeRow(p, v) ==
  /\ want[p] = v
  /\ lock[v] = NoRequest
  /\ IF CanReserve(inventory[v], items[p][v], v \in AllowBackorder)
     THEN /\ lock' = [lock EXCEPT ![v] = p]
          /\ todo' = [todo EXCEPT ![p] = @ \ {v}]
          /\ want' = [want EXCEPT ![p] = NoVariant]
          /\ UNCHANGED <<pc, items, withCoupon, couponLock, cartVars,
                         couponVars, inventory, released>>
     ELSE Rollback(p, "failed")

AllReserved(p) == pc[p] = "locking" /\ todo[p] = {} /\ want[p] = NoVariant

\* Mutant: the coupon found valid at the quote is redeemed unchecked.
RedeemUnchecked(p) ==
  /\ AllReserved(p)
  /\ p \in withCoupon
  /\ couponLock = NoRequest
  /\ couponLock' = p
  /\ UNCHANGED <<requestVars, lock, cartVars, couponVars, inventory, released>>

\* Mutant: a request waits until the coupon has a use left.
RedeemWaits(p) ==
  /\ used_count < UsageLimit
  /\ RedeemUnchecked(p)

\* coupon_services.redeem: only the limit of the coupon is checked under its
\* lock, and CouponError is no OrderError either.
RedeemCoupon(p) ==
  /\ AllReserved(p)
  /\ p \in withCoupon
  /\ couponLock = NoRequest
  /\ IF used_count < UsageLimit
     THEN /\ couponLock' = p
          /\ UNCHANGED <<requestVars, lock, cartVars, couponVars, inventory,
                         released>>
     ELSE Rollback(p, "failed")

\* The cart is emptied of whatever is in it now, and the transaction commits:
\* the reservations, the usage row and the order become visible at once.
CommitOrder(p) ==
  /\ AllReserved(p)
  /\ p \in withCoupon => couponLock = p
  /\ inventory' =
       [v \in Variant |-> Reserve(inventory[v], items[p][v])]
  /\ IF p \in withCoupon
     THEN /\ usages' = usages \cup {p}
          /\ used_count' = used_count + 1
          /\ coupon' = coupon \ {CartOf[p]}
     ELSE UNCHANGED <<usages, used_count, coupon>>
  /\ cart' = [cart EXCEPT ![CartOf[p]] = NoLines]
  /\ pc' = [pc EXCEPT ![p] = "placed"]
  /\ Unlock(p)
  /\ UNCHANGED <<items, withCoupon, todo, want, released>>

-----------------------------------------------------------------------------
(* What ends a transaction from outside.                                   *)

Waiting(p) == want[p] # NoVariant /\ lock[want[p]] \notin {NoRequest, p}

\* p is on a cycle of transactions that wait for one another.
Deadlocked(p) ==
  \E S \in SUBSET Request :
    /\ p \in S
    /\ \A q \in S : Waiting(q)
    /\ {lock[want[q]] : q \in S} = S

\* The database rolls back one transaction of the cycle.
DeadlockVictim(p) ==
  /\ Deadlocked(p)
  /\ Rollback(p, "aborted")

\* The worker dies, or the connection does, before the commit.
Abort(p) ==
  /\ pc[p] \in InFlight
  /\ Rollback(p, "aborted")

-----------------------------------------------------------------------------
(* What goes on around the requests.                                       *)

\* Mutant: the quantity of a line is held to the stock only.
AddToCartUncapped(c, v) ==
  /\ cart[c][v] < Sellable(inventory[v])
  /\ cart' = [cart EXCEPT ![c][v] = @ + 1]
  /\ UNCHANGED <<requestVars, lockVars, coupon, couponVars, inventory,
                 released>>

\* add_to_cart in another tab: one more unit, if the shop can sell it.
AddToCart(c, v) ==
  /\ cart[c][v] < MaxPerItem
  /\ cart[c][v] < Sellable(inventory[v])
  /\ cart' = [cart EXCEPT ![c][v] = @ + 1]
  /\ UNCHANGED <<requestVars, lockVars, coupon, couponVars, inventory,
                 released>>

\* apply_to_cart and remove_from_cart in another tab.
ApplyCoupon(c) ==
  /\ Chosen(cart[c]) # {}
  /\ CouponValid(c)
  /\ coupon' = coupon \cup {c}
  /\ UNCHANGED <<requestVars, lockVars, cart, couponVars, inventory, released>>

RemoveCoupon(c) ==
  /\ coupon' = coupon \ {c}
  /\ UNCHANGED <<requestVars, lockVars, cart, couponVars, inventory, released>>

\* mark_payment_failed gives a placed order's units back.  It waits for the
\* rows it changes.  Once for each order: module Orders has the repetitions.
ReleaseOrder(p) ==
  /\ pc[p] = "placed"
  /\ p \notin released
  /\ \A v \in Chosen(items[p]) : lock[v] = NoRequest
  /\ inventory' =
       [v \in Variant |-> Release(inventory[v], items[p][v])]
  /\ released' = released \cup {p}
  /\ UNCHANGED <<requestVars, lockVars, cartVars, couponVars>>

-----------------------------------------------------------------------------

Step(p) ==
  \/ ReadCart(p)
  \/ Quote(p)
  \/ RefuseQuote(p)
  \/ \E v \in Variant : AskRow(p, v) \/ TakeRow(p, v)
  \/ RedeemCoupon(p)
  \/ CommitOrder(p)

Next ==
  \/ \E p \in Request :
       Step(p) \/ DeadlockVictim(p) \/ Abort(p) \/ ReleaseOrder(p)
  \/ \E c \in Cart :
       \/ \E v \in Variant : AddToCart(c, v)
       \/ ApplyCoupon(c)
       \/ RemoveCoupon(c)

\* A request that has started keeps running, and the database finds
\* deadlocks.  Nothing obliges a customer to start a request.
Fairness ==
  \A p \in Request :
    /\ WF_vars(pc[p] # "idle" /\ Step(p))
    /\ WF_vars(DeadlockVictim(p))

Spec == Init /\ [][Next]_vars

FairSpec == Spec /\ Fairness

-----------------------------------------------------------------------------
(* Properties.                                                             *)

PlacedOrders == {p \in Request : pc[p] = "placed"}

\* The orders module Orders would show: the lines of a request are the lines
\* of an order once it has committed.
O == INSTANCE Orders WITH
       Order <- Request,
       Baskets <- Lines,
       MaxRestores <- 1,
       status <- [p \in Request |->
                    IF pc[p] = "placed" THEN "pending" ELSE "none"],
       payment_status <- [p \in Request |->
                    IF p \in released THEN "failed" ELSE "pending"],
       payment_method <- [p \in Request |->
                    IF pc[p] = "placed" THEN "online" ELSE "cod"],
       basket <- [p \in Request |->
                    IF pc[p] = "placed" THEN items[p] ELSE NoLines],
       stock_committed <- [p \in Request |-> FALSE],
       confirming <- {},
       attempted <- {},
       commits <- [p \in Request |-> 0],
       restores <- [p \in Request |-> 0]

\* place_order takes effect in one step: what is checked under the row locks
\* still holds when the transaction commits, and a transaction that ends any
\* other way leaves nothing behind.
Implements == O!Spec

\* Every reserved unit is on a line of a placed order that has not given its
\* units back, and every such unit is reserved, whatever was rolled back
\* halfway through its lines.
ReservationsMatchOrders ==
  \A v \in Variant :
    inventory[v].reserved =
      TotalOver([p \in Request |-> items[p][v]], PlacedOrders \ released)

\* With the units promised by transactions still running, the shelf is not
\* oversold: two checkouts that both read the last unit as free cannot both
\* hold its row.
HoldsFitShelf ==
  \A v \in Variant \ AllowBackorder :
    inventory[v].reserved + (IF lock[v] = NoRequest
                             THEN 0 ELSE items[lock[v]][v])
      <= inventory[v].available

\* A request that is over holds no lock, so nobody waits for it.
EndedHoldNothing ==
  \A p \in Request :
    pc[p] \in Ended => couponLock # p /\ \A v \in Variant : lock[v] # p

\* Every checkout that has started ends, placed or refused, although requests
\* lock the same rows in opposite orders.
EveryRequestEnds ==
  \A p \in Request : pc[p] \in InFlight ~> pc[p] \in Ended

\* orders/tests/test_orders.py: "per user usage limit is enforced at
\* placement".
PerUserLimitEnforced ==
  \A p \in Request :
    Cardinality(usages \cap Mine(p)) <= UsageLimitPerUser
=============================================================================
