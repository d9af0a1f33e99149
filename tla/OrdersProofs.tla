---------------------------- MODULE OrdersProofs ----------------------------
(* Proofs about Orders: what every interleaving of its handlers keeps, for *)
(* any number of orders and variants, any stock and any coupon limit.      *)
EXTENDS Orders, CountingProofs

-----------------------------------------------------------------------------
(* The stock arithmetic.                                                   *)

\* Each stock function maps an inventory row to an inventory row.
LEMMA RowFunctions ==
  ASSUME NEW row \in Row, NEW n \in Nat
  PROVE  /\ Reserve(row, n) \in Row
         /\ Release(row, n) \in Row
         /\ Commit(row, n) \in Row
         /\ Restore(row, n) \in Row
<1>1. Reserve(row, n) \in Row
  BY DEF Row, Reserve
<1>2. Release(row, n) \in Row
  BY DEF Row, Release, Monus
<1>3. Commit(row, n) \in Row
  <2>1. /\ Monus(row.reserved, n) \in Nat
        /\ Monus(row.available, n) \in Nat
        /\ row.sold + n \in Nat
    BY DEF Row, Monus
  <2>2. [row EXCEPT !.reserved = Monus(@, n), !.available = Monus(@, n),
                    !.sold = @ + n] \in Row
    BY <2>1 DEF Row
  <2>. QED
    BY <2>2 DEF Commit
<1>4. Restore(row, n) \in Row
  <2>1. /\ row.available + n \in Nat
        /\ Monus(row.sold, n) \in Nat
    BY DEF Row, Monus
  <2>. QED
    BY <2>1 DEF Restore, Row
<1>. QED
  BY <1>1, <1>2, <1>3, <1>4

\* A row whose reservations fit its shelf: reserved <= available.
WithinShelf(row) == row.reserved <= row.available

\* reserve() may break the bound only for a variant that can be backordered.
LEMMA ReserveWithinShelf ==
  ASSUME NEW row \in Row, NEW n \in Nat, WithinShelf(row),
         CanReserve(row, n, FALSE)
  PROVE  WithinShelf(Reserve(row, n))
BY DEF Row, WithinShelf, CanReserve, Sellable, Reserve, Monus

\* No release, sale or cancellation breaks the bound, however many units it
\* takes and whosever they are.
LEMMA OthersWithinShelf ==
  ASSUME NEW row \in Row, NEW n \in Nat, WithinShelf(row)
  PROVE  /\ WithinShelf(Release(row, n))
         /\ WithinShelf(Commit(row, n))
         /\ WithinShelf(Restore(row, n))
BY DEF Row, WithinShelf, Release, Commit, Restore, Monus

-----------------------------------------------------------------------------
(* Type correctness.                                                       *)

\* The inventory table a handler leaves is a table of rows.
LEMMA InventoryType ==
  ASSUME TypeOK, NEW lines \in [Variant -> Nat]
  PROVE  /\ [v \in Variant |-> Reserve(inventory[v], lines[v])]
              \in [Variant -> Row]
         /\ [v \in Variant |-> Release(inventory[v], lines[v])]
              \in [Variant -> Row]
         /\ [v \in Variant |-> Commit(inventory[v], lines[v])]
              \in [Variant -> Row]
         /\ [v \in Variant |-> Restore(inventory[v], lines[v])]
              \in [Variant -> Row]
<1>. \A v \in Variant : inventory[v] \in Row /\ lines[v] \in Nat
  BY DEF TypeOK
<1>. QED
  BY RowFunctions

\* _commit_stock keeps the types of the three variables it writes.
LEMMA CommitStockType ==
  ASSUME TypeOK, NEW o \in Order, CommitStock(o)
  PROVE  /\ stock_committed' \in [Order -> BOOLEAN]
         /\ inventory' \in [Variant -> Row]
         /\ commits' \in [Order -> Nat]
<1>1. stock_committed' \in [Order -> BOOLEAN]
  BY DEF CommitStock, TypeOK
<1>2. basket[o] \in [Variant -> Nat]
  BY DEF TypeOK
<1>3. CASE stock_committed[o]
  BY <1>1, <1>3 DEF CommitStock, TypeOK
<1>4. CASE ~stock_committed[o]
  <2>1. inventory' \in [Variant -> Row]
    BY <1>2, <1>4, InventoryType DEF CommitStock
  <2>2. commits' \in [Order -> Nat]
    BY <1>4 DEF CommitStock, TypeOK
  <2>. QED
    BY <1>1, <2>1, <2>2
<1>. QED
  BY <1>3, <1>4

LEMMA InitTypeOK == Init => TypeOK
BY StockAssumption DEF Init, TypeOK, Status, PaymentStatus, Row, FullShelf

\* Every handler keeps the types.
LEMMA TypeOKStep == TypeOK /\ [Next]_vars => TypeOK'
<1>. SUFFICES ASSUME TypeOK, [Next]_vars PROVE TypeOK'
  OBVIOUS
<1>1. ASSUME NEW o \in Order, NEW lines \in Baskets,
             NEW method \in {"cod", "online"}, NEW withCoupon \in BOOLEAN,
             PlaceOrder(o, lines, method, withCoupon)
      PROVE  TypeOK'
  <2>1. lines \in [Variant -> Nat]
    BY BasketAssumption
  <2>2. inventory' \in [Variant -> Row]
    BY <1>1, <2>1, InventoryType DEF PlaceOrder, ReserveStock
  <2>3. usages' \subseteq Order /\ used_count' \in Nat
    BY <1>1 DEF PlaceOrder, Redeem, TypeOK, couponVars
  <2>4. status' \in [Order -> Status \cup {"none"}]
    BY <1>1 DEF PlaceOrder, TypeOK, Status
  <2>. QED
    BY <1>1, <2>1, <2>2, <2>3, <2>4 DEF PlaceOrder, TypeOK
<1>2. ASSUME NEW o \in Order, ConfirmCod(o)
      PROVE  TypeOK'
  <2>1. CASE status[o] = "pending"
    <3>1. status' \in [Order -> Status \cup {"none"}]
      BY <1>2, <2>1 DEF ConfirmCod, TypeOK, Status
    <3>. QED
      BY <1>2, <2>1, <3>1, CommitStockType DEF ConfirmCod, TypeOK, couponVars
  <2>2. CASE status[o] # "pending"
    BY <1>2, <2>2 DEF ConfirmCod, TypeOK, couponVars
  <2>. QED
    BY <2>1, <2>2
<1>3. ASSUME NEW o \in Order, LoseCodRequest(o)
      PROVE  TypeOK'
  BY <1>3 DEF LoseCodRequest, TypeOK, orderVars, stockVars, couponVars
<1>4. ASSUME NEW o \in Order, StartPayment(o)
      PROVE  TypeOK'
  BY <1>4 DEF StartPayment, TypeOK, orderVars, stockVars, couponVars
<1>5. ASSUME NEW o \in Order, MarkPaid(o)
      PROVE  TypeOK'
  <2>1. CASE payment_status[o] = "paid"
    BY <1>5, <2>1 DEF MarkPaid, TypeOK, couponVars
  <2>2. CASE payment_status[o] # "paid"
    <3>1. /\ status' \in [Order -> Status \cup {"none"}]
          /\ payment_status' \in [Order -> PaymentStatus]
      BY <1>5, <2>2 DEF MarkPaid, TypeOK, Status, PaymentStatus
    <3>. QED
      BY <1>5, <2>2, <3>1, CommitStockType
      DEF MarkPaid, TypeOK, couponVars
  <2>. QED
    BY <2>1, <2>2
<1>6. ASSUME NEW o \in Order, MarkPaymentFailed(o)
      PROVE  TypeOK'
  <2>1. payment_status' \in [Order -> PaymentStatus]
    BY <1>6 DEF MarkPaymentFailed, TypeOK, PaymentStatus
  <2>2. inventory' \in [Variant -> Row]
    <3>1. basket[o] \in [Variant -> Nat]
      BY DEF TypeOK
    <3>. QED
      BY <1>6, <3>1, InventoryType DEF MarkPaymentFailed, ReleaseStock, TypeOK
  <2>. QED
    BY <1>6, <2>1, <2>2 DEF MarkPaymentFailed, TypeOK, couponVars
<1>7. ASSUME NEW o \in Order, NEW new \in Status, TransitionOrder(o, new)
      PROVE  TypeOK'
  <2>1. status' \in [Order -> Status \cup {"none"}]
    BY <1>7 DEF TransitionOrder, TypeOK
  <2>2. payment_status' \in [Order -> PaymentStatus]
    BY <1>7 DEF TransitionOrder, TypeOK, PaymentStatus
  <2>3. /\ stock_committed' \in [Order -> BOOLEAN]
        /\ inventory' \in [Variant -> Row]
        /\ commits' \in [Order -> Nat]
    BY <1>7, CommitStockType DEF TransitionOrder, TypeOK
  <2>. QED
    BY <1>7, <2>1, <2>2, <2>3
    DEF TransitionOrder, TypeOK, couponVars, requestVars
<1>8. ASSUME NEW o \in Order, NEW staff_override \in BOOLEAN,
             CancelOrder(o, staff_override)
      PROVE  TypeOK'
  <2>1. inventory' \in [Variant -> Row] /\ restores' \in [Order -> Nat]
    <3>1. basket[o] \in [Variant -> Nat]
      BY DEF TypeOK
    <3>2. CASE stock_committed[o]
      BY <1>8, <3>1, <3>2, InventoryType DEF CancelOrder, TypeOK
    <3>3. CASE ~stock_committed[o]
      BY <1>8, <3>1, <3>3, InventoryType DEF CancelOrder, ReleaseStock, TypeOK
    <3>. QED
      BY <3>2, <3>3
  <2>2. usages' \subseteq Order /\ used_count' \in Nat
    BY <1>8 DEF CancelOrder, Revoke, Monus, TypeOK
  <2>3. /\ status' \in [Order -> Status \cup {"none"}]
        /\ payment_status' \in [Order -> PaymentStatus]
        /\ stock_committed' \in [Order -> BOOLEAN]
    BY <1>8 DEF CancelOrder, TypeOK, Status, PaymentStatus
  <2>. QED
    BY <1>8, <2>1, <2>2, <2>3 DEF CancelOrder, TypeOK, requestVars
<1>9. CASE UNCHANGED vars
  BY <1>9 DEF vars, orderVars, stockVars, couponVars, requestVars, TypeOK
<1>. QED
  BY <1>1, <1>2, <1>3, <1>4, <1>5, <1>6, <1>7, <1>8, <1>9 DEF Next

\* Every variable keeps its type along every interleaving of the handlers;
\* in particular no inventory figure ever goes below zero.
THEOREM TypeCorrect == Spec => []TypeOK
BY InitTypeOK, TypeOKStep, PTL DEF Spec

-----------------------------------------------------------------------------
(* A reservation becomes a sale exactly once.                              *)

\* Every handler that confirms an order goes through _commit_stock, and
\* cancel_order alone undoes a sale.
LEMMA CommitStockOnce ==
  ASSUME TypeOK, CommittedExactlyOnce, NEW o \in Order, CommitStock(o),
         UNCHANGED restores
  PROVE  CommittedExactlyOnce'
<1>1. CASE stock_committed[o]
  BY <1>1 DEF TypeOK, CommittedExactlyOnce, CommitStock
<1>2. CASE ~stock_committed[o]
  BY <1>2 DEF TypeOK, CommittedExactlyOnce, CommitStock
<1>. QED
  BY <1>1, <1>2

LEMMA CommittedExactlyOnceStep ==
  TypeOK /\ CommittedExactlyOnce /\ [Next]_vars => CommittedExactlyOnce'
<1>. SUFFICES ASSUME TypeOK, CommittedExactlyOnce, [Next]_vars
              PROVE  CommittedExactlyOnce'
  OBVIOUS
<1>1. ASSUME UNCHANGED <<stock_committed, commits, restores>>
      PROVE  CommittedExactlyOnce'
  BY <1>1 DEF CommittedExactlyOnce
<1>2. ASSUME NEW o \in Order, ConfirmCod(o)
      PROVE  CommittedExactlyOnce'
  BY <1>1, <1>2, CommitStockOnce DEF ConfirmCod
<1>3. ASSUME NEW o \in Order, MarkPaid(o)
      PROVE  CommittedExactlyOnce'
  BY <1>1, <1>3, CommitStockOnce DEF MarkPaid
<1>4. ASSUME NEW o \in Order, NEW new \in Status, TransitionOrder(o, new)
      PROVE  CommittedExactlyOnce'
  BY <1>1, <1>4, CommitStockOnce DEF TransitionOrder
<1>5. ASSUME NEW o \in Order, NEW staff_override \in BOOLEAN,
             CancelOrder(o, staff_override)
      PROVE  CommittedExactlyOnce'
  <2>1. CASE stock_committed[o]
    BY <1>5, <2>1 DEF CancelOrder, TypeOK, CommittedExactlyOnce
  <2>2. CASE ~stock_committed[o]
    BY <1>5, <2>2 DEF CancelOrder, TypeOK, CommittedExactlyOnce
  <2>. QED
    BY <2>1, <2>2
<1>6. ASSUME NEW o \in Order,
             \/ \E lines \in Baskets, method \in {"cod", "online"},
                   withCoupon \in BOOLEAN :
                     PlaceOrder(o, lines, method, withCoupon)
             \/ LoseCodRequest(o)
             \/ StartPayment(o)
             \/ MarkPaymentFailed(o)
      PROVE  CommittedExactlyOnce'
  BY <1>1, <1>6
  DEF PlaceOrder, LoseCodRequest, StartPayment, MarkPaymentFailed, stockVars
<1>7. CASE UNCHANGED vars
  BY <1>1, <1>7 DEF vars, stockVars
<1>. QED
  BY <1>2, <1>3, <1>4, <1>5, <1>6, <1>7 DEF Next

\* However the webhook, the browser callback, the COD request, the staff desk
\* and cancellations interleave, _commit_stock sells an order's units once
\* for each time they were reserved or restored.
THEOREM SalesMadeOnce == Spec => []CommittedExactlyOnce
<1>1. Init => CommittedExactlyOnce
  BY DEF Init, CommittedExactlyOnce
<1>. QED
  BY <1>1, TypeCorrect, CommittedExactlyOnceStep, PTL DEF Spec

-----------------------------------------------------------------------------
(* Reservations fit the shelf.                                             *)

\* Releasing, selling or restoring any quantity of every variant keeps the
\* bound.
LEMMA TableWithinShelf ==
  ASSUME TypeOK, ReservedWithinShelf, NEW lines \in [Variant -> Nat],
         \/ inventory' = [v \in Variant |-> Release(inventory[v], lines[v])]
         \/ inventory' = [v \in Variant |-> Commit(inventory[v], lines[v])]
         \/ inventory' = [v \in Variant |-> Restore(inventory[v], lines[v])]
  PROVE  ReservedWithinShelf'
<1>. SUFFICES ASSUME NEW v \in Variant \ AllowBackorder
              PROVE  WithinShelf(inventory'[v])
  BY DEF ReservedWithinShelf, WithinShelf
<1>1. inventory[v] \in Row /\ lines[v] \in Nat /\ WithinShelf(inventory[v])
  BY DEF TypeOK, ReservedWithinShelf, WithinShelf
<1>2. \/ inventory'[v] = Release(inventory[v], lines[v])
      \/ inventory'[v] = Commit(inventory[v], lines[v])
      \/ inventory'[v] = Restore(inventory[v], lines[v])
  OBVIOUS
<1>. QED
  BY <1>1, <1>2, OthersWithinShelf

LEMMA ReservedWithinShelfStep ==
  TypeOK /\ ReservedWithinShelf /\ [Next]_vars => ReservedWithinShelf'
<1>. SUFFICES ASSUME TypeOK, ReservedWithinShelf, [Next]_vars
              PROVE  ReservedWithinShelf'
  OBVIOUS
<1>1. ASSUME UNCHANGED inventory
      PROVE  ReservedWithinShelf'
  BY <1>1 DEF ReservedWithinShelf
<1>2. \A o \in Order : basket[o] \in [Variant -> Nat]
  BY DEF TypeOK
<1>3. ASSUME NEW o \in Order, CommitStock(o)
      PROVE  ReservedWithinShelf'
  BY <1>1, <1>2, <1>3, TableWithinShelf DEF CommitStock
<1>4. ASSUME NEW o \in Order, NEW lines \in Baskets,
             NEW method \in {"cod", "online"}, NEW withCoupon \in BOOLEAN,
             PlaceOrder(o, lines, method, withCoupon)
      PROVE  ReservedWithinShelf'
  <2>. SUFFICES ASSUME NEW v \in Variant \ AllowBackorder
                PROVE  WithinShelf(inventory'[v])
    BY DEF ReservedWithinShelf, WithinShelf
  <2>1. inventory[v] \in Row /\ lines[v] \in Nat /\ WithinShelf(inventory[v])
    BY BasketAssumption DEF TypeOK, ReservedWithinShelf, WithinShelf
  <2>2. CanReserve(inventory[v], lines[v], FALSE)
    BY <1>4 DEF PlaceOrder, CanReserve
  <2>3. inventory'[v] = Reserve(inventory[v], lines[v])
    BY <1>4 DEF PlaceOrder, ReserveStock
  <2>. QED
    BY <2>1, <2>2, <2>3, ReserveWithinShelf
<1>5. ASSUME NEW o \in Order, ConfirmCod(o)
      PROVE  ReservedWithinShelf'
  BY <1>1, <1>3, <1>5 DEF ConfirmCod
<1>6. ASSUME NEW o \in Order, MarkPaid(o)
      PROVE  ReservedWithinShelf'
  BY <1>1, <1>3, <1>6 DEF MarkPaid
<1>7. ASSUME NEW o \in Order, MarkPaymentFailed(o)
      PROVE  ReservedWithinShelf'
  BY <1>1, <1>2, <1>7, TableWithinShelf DEF MarkPaymentFailed, ReleaseStock
<1>8. ASSUME NEW o \in Order, NEW new \in Status, TransitionOrder(o, new)
      PROVE  ReservedWithinShelf'
  BY <1>1, <1>3, <1>8 DEF TransitionOrder
<1>9. ASSUME NEW o \in Order, NEW staff_override \in BOOLEAN,
             CancelOrder(o, staff_override)
      PROVE  ReservedWithinShelf'
  BY <1>2, <1>9, TableWithinShelf DEF CancelOrder, ReleaseStock
<1>10. ASSUME NEW o \in Order, LoseCodRequest(o) \/ StartPayment(o)
       PROVE  ReservedWithinShelf'
  BY <1>1, <1>10 DEF LoseCodRequest, StartPayment, stockVars
<1>11. CASE UNCHANGED vars
  BY <1>1, <1>11 DEF vars, stockVars
<1>. QED
  BY <1>4, <1>5, <1>6, <1>7, <1>8, <1>9, <1>10, <1>11 DEF Next

\* Without backorders the reserved figure never passes the shelf, although
\* repeated failures may release units that other orders reserved: each
\* decrement that takes units off the shelf takes as many reservations.
THEOREM ReservationsFitShelf == Spec => []ReservedWithinShelf
<1>1. Init => ReservedWithinShelf
  BY StockAssumption DEF Init, ReservedWithinShelf, FullShelf
<1>. QED
  BY <1>1, TypeCorrect, ReservedWithinShelfStep, PTL DEF Spec

-----------------------------------------------------------------------------
(* No fulfilment without a sale.                                           *)

LEMMA FulfilmentOnlyAfterSaleStep ==
  TypeOK /\ FulfilmentOnlyAfterSale /\ [Next]_vars => FulfilmentOnlyAfterSale'
<1>. SUFFICES ASSUME TypeOK, FulfilmentOnlyAfterSale, [Next]_vars
              PROVE  FulfilmentOnlyAfterSale'
  OBVIOUS
<1>1. ASSUME UNCHANGED <<status, stock_committed>>
      PROVE  FulfilmentOnlyAfterSale'
  BY <1>1 DEF FulfilmentOnlyAfterSale
<1>2. ASSUME NEW o \in Order, CommitStock(o),
             status' = [status EXCEPT ![o] = "confirmed"]
      PROVE  FulfilmentOnlyAfterSale'
  BY <1>2 DEF CommitStock, FulfilmentOnlyAfterSale, TypeOK
<1>3. ASSUME NEW o \in Order, NEW lines \in Baskets,
             NEW method \in {"cod", "online"}, NEW withCoupon \in BOOLEAN,
             PlaceOrder(o, lines, method, withCoupon)
      PROVE  FulfilmentOnlyAfterSale'
  BY <1>3 DEF PlaceOrder, FulfilmentOnlyAfterSale, Fulfilling, TypeOK
<1>4. ASSUME NEW o \in Order, ConfirmCod(o)
      PROVE  FulfilmentOnlyAfterSale'
  BY <1>1, <1>2, <1>4 DEF ConfirmCod
<1>5. ASSUME NEW o \in Order, MarkPaid(o)
      PROVE  FulfilmentOnlyAfterSale'
  BY <1>1, <1>2, <1>5 DEF MarkPaid
<1>6. ASSUME NEW o \in Order, NEW new \in Status, TransitionOrder(o, new)
      PROVE  FulfilmentOnlyAfterSale'
  <2>1. CASE new = "confirmed"
    BY <1>2, <1>6, <2>1 DEF TransitionOrder
  <2>2. CASE new # "confirmed"
    \* Every other status in Fulfilling follows another one of them.
    <3>1. new \in Fulfilling => status[o] \in Fulfilling
      BY <1>6, <2>2 DEF TransitionOrder, Placed, TRANSITIONS, Fulfilling,
                        Status, TypeOK
    <3>2. /\ stock_committed' = stock_committed
          /\ status' = [status EXCEPT ![o] = new]
      BY <1>6, <2>2 DEF TransitionOrder
    <3>. QED
      BY <3>1, <3>2 DEF FulfilmentOnlyAfterSale, TypeOK
  <2>. QED
    BY <2>1, <2>2
<1>7. ASSUME NEW o \in Order, NEW staff_override \in BOOLEAN,
             CancelOrder(o, staff_override)
      PROVE  FulfilmentOnlyAfterSale'
  BY <1>7 DEF CancelOrder, FulfilmentOnlyAfterSale, Fulfilling, TypeOK
<1>8. ASSUME NEW o \in Order,
             LoseCodRequest(o) \/ StartPayment(o) \/ MarkPaymentFailed(o)
      PROVE  FulfilmentOnlyAfterSale'
  BY <1>1, <1>8
  DEF LoseCodRequest, StartPayment, MarkPaymentFailed, orderVars, stockVars
<1>9. CASE UNCHANGED vars
  BY <1>1, <1>9 DEF vars, orderVars, stockVars
<1>. QED
  BY <1>3, <1>4, <1>5, <1>6, <1>7, <1>8, <1>9 DEF Next

\* Nothing is shipped that was not sold: every path into fulfilment, of the
\* customer, the gateway or the staff desk, first takes the units off the
\* shelf, and only cancel_order, which leaves fulfilment, undoes that.
THEOREM FulfilledOrdersWereSold == Spec => []FulfilmentOnlyAfterSale
<1>1. Init => FulfilmentOnlyAfterSale
  BY DEF Init, FulfilmentOnlyAfterSale, Fulfilling
<1>. QED
  BY <1>1, TypeCorrect, FulfilmentOnlyAfterSaleStep, PTL DEF Spec

-----------------------------------------------------------------------------
(* The coupon counter.                                                     *)

\* The strengthening the counter needs: only a placed order has a usage row,
\* so the row redeem adds is a new one.
CouponInv ==
  /\ CouponCountMatchesUsages
  /\ \A o \in usages : Placed(o)

LEMMA CouponInvStep == TypeOK /\ CouponInv /\ [Next]_vars => CouponInv'
<1>. SUFFICES ASSUME TypeOK, CouponInv, [Next]_vars
              PROVE  CouponInv'
  OBVIOUS
<1>1. IsFiniteSet(usages)
  BY OrderAssumption, FS_Subset DEF TypeOK
<1>2. ASSUME UNCHANGED couponVars, \A o \in Order : Placed(o) => Placed(o)'
      PROVE  CouponInv'
  BY <1>2 DEF CouponInv, CouponCountMatchesUsages, couponVars, TypeOK
<1>3. ASSUME NEW o \in Order, NEW lines \in Baskets,
             NEW method \in {"cod", "online"}, NEW withCoupon \in BOOLEAN,
             PlaceOrder(o, lines, method, withCoupon)
      PROVE  CouponInv'
  <2>1. \A p \in Order : Placed(p) \/ p = o => Placed(p)'
    BY <1>3 DEF PlaceOrder, Placed, TypeOK
  <2>2. CASE withCoupon
    <3>1. o \notin usages
      BY <1>3 DEF PlaceOrder, CouponInv
    <3>2. Cardinality(usages \cup {o}) = Cardinality(usages) + 1
      BY <1>1, <3>1, FS_AddElement
    <3>3. /\ used_count < UsageLimit
          /\ usages' = usages \cup {o}
          /\ used_count' = used_count + 1
      BY <1>3, <2>2 DEF PlaceOrder, Redeem
    <3>4. CouponCountMatchesUsages'
      BY <3>2, <3>3, LimitAssumption
      DEF CouponInv, CouponCountMatchesUsages, TypeOK
    <3>. QED
      BY <2>1, <3>3, <3>4 DEF CouponInv, TypeOK
  <2>3. CASE ~withCoupon
    BY <1>2, <1>3, <2>1, <2>3 DEF PlaceOrder
  <2>. QED
    BY <2>2, <2>3
<1>4. ASSUME NEW o \in Order, NEW staff_override \in BOOLEAN,
             CancelOrder(o, staff_override)
      PROVE  CouponInv'
  <2>1. \A p \in Order : Placed(p) => Placed(p)'
    BY <1>4 DEF CancelOrder, Placed, TypeOK
  <2>2. Revoke(o)
    BY <1>4 DEF CancelOrder
  <2>3. CASE o \in usages
    <3>1. Cardinality(usages \ {o}) = Cardinality(usages) - 1
      BY <1>1, <2>3, FS_RemoveElement
    <3>2. Cardinality(usages \ {o}) \in Nat
      BY <1>1, FS_RemoveElement, FS_CardinalityType
    <3>3. CouponCountMatchesUsages'
      BY <2>2, <2>3, <3>1, <3>2, LimitAssumption
      DEF Revoke, Monus, CouponInv, CouponCountMatchesUsages, TypeOK
    <3>. QED
      BY <2>1, <2>2, <3>3 DEF Revoke, CouponInv, TypeOK
  <2>4. CASE o \notin usages
    <3>1. usages' = usages /\ used_count' = used_count
      BY <2>2, <2>4 DEF Revoke
    <3>. QED
      BY <1>2, <2>1, <3>1 DEF couponVars
  <2>. QED
    BY <2>3, <2>4
<1>5. ASSUME NEW o \in Order, ConfirmCod(o) \/ MarkPaid(o)
      PROVE  CouponInv'
  <2>1. \A p \in Order : Placed(p) => Placed(p)'
    BY <1>5 DEF ConfirmCod, MarkPaid, Placed, TypeOK
  <2>. QED
    BY <1>2, <1>5, <2>1 DEF ConfirmCod, MarkPaid
<1>6. ASSUME NEW o \in Order, NEW new \in Status, TransitionOrder(o, new)
      PROVE  CouponInv'
  <2>1. \A p \in Order : Placed(p) => Placed(p)'
    BY <1>6 DEF TransitionOrder, Placed, TypeOK, Status
  <2>. QED
    BY <1>2, <1>6, <2>1 DEF TransitionOrder
<1>7. ASSUME NEW o \in Order,
             LoseCodRequest(o) \/ StartPayment(o) \/ MarkPaymentFailed(o)
      PROVE  CouponInv'
  BY <1>2, <1>7
  DEF LoseCodRequest, StartPayment, MarkPaymentFailed, orderVars, Placed
<1>8. CASE UNCHANGED vars
  BY <1>2, <1>8 DEF vars, orderVars, Placed
<1>. QED
  BY <1>3, <1>4, <1>5, <1>6, <1>7, <1>8 DEF Next

\* redeem and revoke keep Coupon.used_count equal to the number of usage
\* rows, and so within the limit, for any number of orders.
THEOREM CouponNeverOverspent == Spec => []CouponCountMatchesUsages
<1>1. Init => CouponInv
  BY LimitAssumption, FS_EmptySet
  DEF Init, CouponInv, CouponCountMatchesUsages
<1>2. CouponInv => CouponCountMatchesUsages
  BY DEF CouponInv
<1>. QED
  BY <1>1, <1>2, TypeCorrect, CouponInvStep, PTL DEF Spec

-----------------------------------------------------------------------------
(* Payments that were taken.                                               *)

\* No handler takes an order out of "paid" except cancel_order, which owes
\* the refund: mark_payment_failed looks at the payment status under the
\* lock, so a late or repeated failure never overwrites a payment.
THEOREM PaidStaysPaid == Spec => PaidOnlyLeavesToRefund
<1>1. ASSUME TypeOK, [Next]_vars, NEW o \in Order, payment_status[o] = "paid"
      PROVE  payment_status'[o] \in {"paid", "refund_pending"}
  <2>1. CASE UNCHANGED vars
    BY <1>1, <2>1 DEF vars, orderVars
  <2>2. ASSUME NEW p \in Order, NEW staff_override \in BOOLEAN,
               CancelOrder(p, staff_override)
        PROVE  payment_status'[o] \in {"paid", "refund_pending"}
    BY <1>1, <2>2 DEF CancelOrder, TypeOK
  <2>3. ASSUME NEW p \in Order, MarkPaid(p) \/ MarkPaymentFailed(p)
        PROVE  payment_status'[o] \in {"paid", "refund_pending"}
    BY <1>1, <2>3 DEF MarkPaid, MarkPaymentFailed, TypeOK
  <2>4. ASSUME NEW p \in Order, NEW new \in Status, TransitionOrder(p, new)
        PROVE  payment_status'[o] \in {"paid", "refund_pending"}
    BY <1>1, <2>4 DEF TransitionOrder, TypeOK
  <2>5. ASSUME NEW p \in Order,
               \/ \E lines \in Baskets, method \in {"cod", "online"},
                     withCoupon \in BOOLEAN :
                       PlaceOrder(p, lines, method, withCoupon)
               \/ ConfirmCod(p)
               \/ LoseCodRequest(p)
               \/ StartPayment(p)
        PROVE  payment_status'[o] \in {"paid", "refund_pending"}
    BY <1>1, <2>5
    DEF PlaceOrder, ConfirmCod, LoseCodRequest, StartPayment, orderVars
  <2>. QED
    BY <1>1, <2>1, <2>2, <2>3, <2>4, <2>5 DEF Next
<1>2. TypeOK /\ [Next]_vars
        => [\A o \in Order :
              payment_status[o] = "paid"
                => payment_status'[o] \in {"paid", "refund_pending"}]_vars
  BY <1>1
<1>. QED
  BY <1>2, TypeCorrect, PTL DEF Spec, PaidOnlyLeavesToRefund

-----------------------------------------------------------------------------
(* Steps outside the table of transitions.                                 *)

\* What a step may do to one order's status.
TableOrException(o) ==
  Placed(o) /\ status'[o] \notin {status[o]} \cup TRANSITIONS[status[o]]
    => \/ /\ status'[o] = "confirmed"
          /\ payment_status[o] # "paid" /\ payment_status'[o] = "paid"
       \/ /\ status'[o] = "cancelled"
          /\ ~stock_committed'[o] /\ o \notin usages'

LEMMA TableStep ==
  ASSUME TypeOK, [Next]_vars, NEW o \in Order
  PROVE  TableOrException(o)
<1>1. ASSUME status'[o] = status[o]
      PROVE  TableOrException(o)
  BY <1>1 DEF TableOrException
<1>2. CASE UNCHANGED vars
  BY <1>1, <1>2 DEF vars, orderVars
<1>3. ASSUME NEW p \in Order, NEW lines \in Baskets,
             NEW method \in {"cod", "online"}, NEW withCoupon \in BOOLEAN,
             PlaceOrder(p, lines, method, withCoupon)
      PROVE  TableOrException(o)
  <2>1. CASE p = o
    BY <1>3, <2>1 DEF PlaceOrder, TableOrException
  <2>2. CASE p # o
    BY <1>1, <1>3, <2>2 DEF PlaceOrder, TypeOK
  <2>. QED
    BY <2>1, <2>2
<1>4. ASSUME NEW p \in Order, ConfirmCod(p)
      PROVE  TableOrException(o)
  <2>1. CASE p = o /\ status[o] = "pending"
    <3>1. status'[o] = "confirmed"
      BY <1>4, <2>1 DEF ConfirmCod, TypeOK
    <3>2. "confirmed" \in TRANSITIONS[status[o]]
      BY <2>1 DEF TRANSITIONS, Status
    <3>. QED
      BY <3>1, <3>2 DEF TableOrException
  <2>2. CASE ~(p = o /\ status[o] = "pending")
    BY <1>1, <1>4, <2>2 DEF ConfirmCod, TypeOK
  <2>. QED
    BY <2>1, <2>2
<1>5. ASSUME NEW p \in Order, MarkPaid(p)
      PROVE  TableOrException(o)
  <2>1. CASE p = o /\ payment_status[o] # "paid"
    <3>1. status'[o] = "confirmed" /\ payment_status'[o] = "paid"
      BY <1>5, <2>1 DEF MarkPaid, TypeOK
    <3>. QED
      BY <2>1, <3>1 DEF TableOrException
  <2>2. CASE ~(p = o /\ payment_status[o] # "paid")
    BY <1>1, <1>5, <2>2 DEF MarkPaid, TypeOK
  <2>. QED
    BY <2>1, <2>2
<1>6. ASSUME NEW p \in Order, NEW new \in Status, TransitionOrder(p, new)
      PROVE  TableOrException(o)
  <2>1. CASE p = o
    BY <1>6, <2>1 DEF TransitionOrder, TypeOK, TableOrException
  <2>2. CASE p # o
    BY <1>1, <1>6, <2>2 DEF TransitionOrder, TypeOK
  <2>. QED
    BY <2>1, <2>2
<1>7. ASSUME NEW p \in Order, NEW staff_override \in BOOLEAN,
             CancelOrder(p, staff_override)
      PROVE  TableOrException(o)
  <2>1. CASE p = o
    <3>1. /\ status'[o] = "cancelled"
          /\ ~stock_committed'[o]
      BY <1>7, <2>1 DEF CancelOrder, TypeOK
    <3>2. o \notin usages'
      BY <1>7, <2>1 DEF CancelOrder, Revoke
    <3>. QED
      BY <3>1, <3>2 DEF TableOrException
  <2>2. CASE p # o
    BY <1>1, <1>7, <2>2 DEF CancelOrder, TypeOK
  <2>. QED
    BY <2>1, <2>2
<1>8. ASSUME NEW p \in Order,
             LoseCodRequest(p) \/ StartPayment(p) \/ MarkPaymentFailed(p)
      PROVE  TableOrException(o)
  BY <1>1, <1>8
  DEF LoseCodRequest, StartPayment, MarkPaymentFailed, orderVars
<1>. QED
  BY <1>2, <1>3, <1>4, <1>5, <1>6, <1>7, <1>8 DEF Next

\* Of the steps of this specification, a payment not taken before, which
\* confirms an order wherever it is, and a cancellation, which undoes the sale
\* and gives the coupon back, are the ones that move an order past
\* Order.TRANSITIONS.  Returns and the edit form are not steps of it.
THEOREM SaleHandlersKeepTable == Spec => PastTablePaidOrUndone
<1>1. TypeOK /\ [Next]_vars
        => [\A o \in Order :
              Placed(o)
                /\ status'[o] \notin {status[o]} \cup TRANSITIONS[status[o]]
                => \/ /\ status'[o] = "confirmed"
                      /\ payment_status[o] # "paid" /\ payment_status'[o] = "paid"
                   \/ /\ status'[o] = "cancelled"
                      /\ ~stock_committed'[o] /\ o \notin usages']_vars
  BY TableStep DEF TableOrException
<1>. QED
  BY <1>1, TypeCorrect, PTL DEF Spec, PastTablePaidOrUndone

-----------------------------------------------------------------------------
(* The sold figure and the reservations.                                   *)

\* The lines of a variant, and the orders the two figures count.
Lines(v) == [o \in Order |-> basket[o][v]]
Committed == {o \in Order : stock_committed[o]}
Unsold == {o \in Order : Placed(o) /\ commits[o] = 0}

\* The strengthening the two figures need: an order that was not placed has
\* nothing that could sell or undo units before its lines are known.
NothingBeforePlacement ==
  \A o \in Order : ~Placed(o) =>
    /\ ~stock_committed[o] /\ commits[o] = 0
    /\ o \notin attempted /\ o \notin confirming

FiguresInv == NothingBeforePlacement /\ SoldMatchesOrders /\ NoPhantomReservation

\* What the sums over orders do when an order joins, leaves or is rewritten.
LEMMA OrderSums ==
  ASSUME TypeOK, NEW v \in Variant, NEW S \in SUBSET Order
  PROVE  /\ TotalOver(Lines(v), S) \in Nat
         /\ \A o \in Order \ S :
              TotalOver(Lines(v), S \cup {o})
                = TotalOver(Lines(v), S) + basket[o][v]
         /\ \A o \in S :
              /\ TotalOver(Lines(v), S \ {o})
                   = TotalOver(Lines(v), S) - basket[o][v]
              /\ TotalOver(Lines(v), S) >= basket[o][v]
<1>1. /\ \A o \in Order : Lines(v)[o] = basket[o][v]
      /\ \A o \in Order : Lines(v)[o] \in Nat
  BY DEF Lines, TypeOK
<1>2. IsFiniteSet(S)
  BY OrderAssumption, FS_Subset
<1>3. TotalOver(Lines(v), S) \in Nat
  BY <1>1, <1>2, UnitsFinite
<1>4. ASSUME NEW o \in Order \ S
      PROVE  TotalOver(Lines(v), S \cup {o})
               = TotalOver(Lines(v), S) + basket[o][v]
  <2>1. \A x \in S \cup {o} : Lines(v)[x] \in Nat
    BY <1>1
  <2>2. TotalOver(Lines(v), S \cup {o}) = TotalOver(Lines(v), S) + Lines(v)[o]
    BY <1>2, <2>1, TotalOfOneMore
  <2>. QED
    BY <1>1, <2>2
<1>5. ASSUME NEW o \in S
      PROVE  /\ TotalOver(Lines(v), S \ {o})
                  = TotalOver(Lines(v), S) - basket[o][v]
             /\ TotalOver(Lines(v), S) >= basket[o][v]
  <2>1. \A x \in S : Lines(v)[x] \in Nat
    BY <1>1
  <2>2. /\ TotalOver(Lines(v), S \ {o}) = TotalOver(Lines(v), S) - Lines(v)[o]
        /\ TotalOver(Lines(v), S) >= Lines(v)[o]
    BY <1>2, <2>1, TotalOfOneLess
  <2>. QED
    BY <1>1, <2>2
<1>. QED
  BY <1>3, <1>4, <1>5

\* The two figures in terms of those sums.
LEMMA FiguresAsSums ==
  /\ SoldMatchesOrders <=>
       \A v \in Variant : inventory[v].sold = TotalOver(Lines(v), Committed)
  /\ NoPhantomReservation <=>
       \A v \in Variant : inventory[v].reserved <= TotalOver(Lines(v), Unsold)
BY DEF SoldMatchesOrders, NoPhantomReservation, UnitsOf, Lines, Committed, Unsold

\* A handler that leaves the figures, the lines and the orders they count.
LEMMA FiguresKept ==
  ASSUME FiguresInv, UNCHANGED <<inventory, basket, stock_committed, commits>>,
         \A o \in Order : Placed(o)' = Placed(o),
         NothingBeforePlacement'
  PROVE  FiguresInv'
BY DEF FiguresInv, SoldMatchesOrders, NoPhantomReservation, UnitsOf

\* Giving back a reservation, one's own or what is left of another's, only
\* lowers the reserved figure.
LEMMA ReleaseFigures ==
  ASSUME TypeOK, FiguresInv, NEW o \in Order, ReleaseStock(o),
         UNCHANGED <<basket, stock_committed, commits>>,
         \A p \in Order : Placed(p)' = Placed(p),
         NothingBeforePlacement'
  PROVE  FiguresInv'
<1>1. /\ \A v \in Variant : Lines(v)' = Lines(v)
      /\ Committed' = Committed /\ Unsold' = Unsold
  BY DEF Lines, Committed, Unsold
<1>2. ASSUME NEW v \in Variant
      PROVE  /\ inventory'[v].sold = inventory[v].sold
             /\ inventory'[v].reserved <= inventory[v].reserved
             /\ inventory[v].reserved \in Nat /\ inventory'[v].reserved \in Nat
             /\ TotalOver(Lines(v), Unsold) \in Nat
  <2>1. inventory[v] \in Row /\ basket[o][v] \in Nat
    BY DEF TypeOK
  <2>2. inventory'[v] = Release(inventory[v], basket[o][v])
    BY DEF ReleaseStock
  <2>3. TotalOver(Lines(v), Unsold) \in Nat
    BY OrderSums DEF Unsold
  <2>. QED
    BY <2>1, <2>2, <2>3 DEF Release, Row, Monus
<1>3. SoldMatchesOrders'
  BY <1>1, <1>2 DEF FiguresInv, SoldMatchesOrders, UnitsOf, Lines, Committed
<1>4. ASSUME NEW v \in Variant
      PROVE  inventory'[v].reserved <= TotalOver(Lines(v)', Unsold')
  BY <1>1, <1>2, <1>4, FiguresAsSums DEF FiguresInv
<1>5. NoPhantomReservation'
  BY <1>4 DEF NoPhantomReservation, UnitsOf, Lines, Unsold
<1>. QED
  BY <1>3, <1>5 DEF FiguresInv

\* A sale moves the order from the unsold to the committed, with its units.
LEMMA CommitFigures ==
  ASSUME TypeOK, FiguresInv, NEW o \in Order, Placed(o), CommitStock(o),
         UNCHANGED basket,
         \A p \in Order : Placed(p)' = Placed(p),
         NothingBeforePlacement'
  PROVE  FiguresInv'
<1>1. CASE stock_committed[o]
  <2>1. UNCHANGED <<inventory, commits, stock_committed>>
    BY <1>1 DEF CommitStock, TypeOK
  <2>. QED
    BY <2>1, FiguresKept
<1>2. CASE ~stock_committed[o]
  <2>1. /\ \A v \in Variant : Lines(v)' = Lines(v)
        /\ Committed' = Committed \cup {o} /\ o \notin Committed
        /\ Unsold' = Unsold \ {o}
        /\ Committed \in SUBSET Order /\ Unsold \in SUBSET Order
    BY <1>2 DEF CommitStock, TypeOK, Lines, Committed, Unsold
  <2>2. ASSUME NEW v \in Variant
        PROVE  /\ inventory'[v].sold = TotalOver(Lines(v)', Committed')
               /\ inventory'[v].reserved <= TotalOver(Lines(v)', Unsold')
    <3>1. inventory[v] \in Row /\ basket[o][v] \in Nat
      BY DEF TypeOK
    <3>2. /\ inventory'[v].sold = inventory[v].sold + basket[o][v]
          /\ inventory'[v].reserved = Monus(inventory[v].reserved, basket[o][v])
      BY <1>2, <3>1 DEF CommitStock, Commit, Row
    <3>3. /\ inventory[v].sold = TotalOver(Lines(v), Committed)
          /\ inventory[v].reserved <= TotalOver(Lines(v), Unsold)
      BY FiguresAsSums DEF FiguresInv
    <3>4. TotalOver(Lines(v), Committed \cup {o})
            = TotalOver(Lines(v), Committed) + basket[o][v]
      BY <2>1, OrderSums
    <3>5. inventory'[v].sold = TotalOver(Lines(v)', Committed')
      BY <2>1, <3>2, <3>3, <3>4
    <3>6. Monus(inventory[v].reserved, basket[o][v])
            <= TotalOver(Lines(v), Unsold \ {o})
      <4>1. CASE o \in Unsold
        <5>1. /\ TotalOver(Lines(v), Unsold \ {o})
                   = TotalOver(Lines(v), Unsold) - basket[o][v]
              /\ TotalOver(Lines(v), Unsold) >= basket[o][v]
              /\ TotalOver(Lines(v), Unsold) \in Nat
          BY <2>1, <4>1, OrderSums
        <5>. QED
          BY <3>1, <3>3, <5>1 DEF Monus, Row
      <4>2. CASE o \notin Unsold
        <5>1. Unsold \ {o} = Unsold /\ TotalOver(Lines(v), Unsold) \in Nat
          BY <2>1, <4>2, OrderSums
        <5>. QED
          BY <3>1, <3>3, <5>1 DEF Monus, Row
      <4>. QED
        BY <4>1, <4>2
    <3>. QED
      BY <2>1, <3>2, <3>5, <3>6
  <2>. QED
    BY <2>2 DEF FiguresInv, SoldMatchesOrders, NoPhantomReservation, UnitsOf,
                Lines, Committed, Unsold
<1>. QED
  BY <1>1, <1>2

\* Undoing a sale takes back what it counted: the floor is never reached.
LEMMA RestoreFigures ==
  ASSUME TypeOK, FiguresInv, NEW o \in Order, stock_committed[o],
         inventory' = [v \in Variant |-> Restore(inventory[v], basket[o][v])],
         stock_committed' = [stock_committed EXCEPT ![o] = FALSE],
         UNCHANGED <<basket, commits>>,
         \A p \in Order : Placed(p)' = Placed(p),
         NothingBeforePlacement'
  PROVE  FiguresInv'
<1>1. /\ \A v \in Variant : Lines(v)' = Lines(v)
      /\ Committed' = Committed \ {o} /\ o \in Committed
      /\ Unsold' = Unsold
      /\ Committed \in SUBSET Order
  BY DEF TypeOK, Lines, Committed, Unsold
<1>2. ASSUME NEW v \in Variant
      PROVE  /\ inventory'[v].sold = TotalOver(Lines(v)', Committed')
             /\ inventory'[v].reserved <= TotalOver(Lines(v)', Unsold')
  <2>1. inventory[v] \in Row /\ basket[o][v] \in Nat
    BY DEF TypeOK
  <2>2. /\ inventory'[v].sold = Monus(inventory[v].sold, basket[o][v])
        /\ inventory'[v].reserved = inventory[v].reserved
    BY <2>1 DEF Restore, Row
  <2>3. /\ inventory[v].sold = TotalOver(Lines(v), Committed)
        /\ inventory[v].reserved <= TotalOver(Lines(v), Unsold)
    BY FiguresAsSums DEF FiguresInv
  <2>4. /\ TotalOver(Lines(v), Committed \ {o})
             = TotalOver(Lines(v), Committed) - basket[o][v]
        /\ TotalOver(Lines(v), Committed) >= basket[o][v]
    BY <1>1, OrderSums
  <2>5. Monus(inventory[v].sold, basket[o][v])
          = TotalOver(Lines(v), Committed \ {o})
    BY <2>1, <2>3, <2>4 DEF Monus, Row
  <2>. QED
    BY <1>1, <2>2, <2>3, <2>5
<1>. QED
  BY <1>2 DEF FiguresInv, SoldMatchesOrders, NoPhantomReservation, UnitsOf,
              Lines, Committed, Unsold

\* A placement reserves the units of an order that counted in neither figure.
LEMMA PlaceFigures ==
  ASSUME TypeOK, TypeOK', FiguresInv, NEW o \in Order, NEW lines \in [Variant -> Nat],
         ~Placed(o), ReserveStock(lines),
         basket' = [basket EXCEPT ![o] = lines],
         UNCHANGED <<stock_committed, commits>>,
         \A p \in Order : Placed(p)' <=> Placed(p) \/ p = o,
         NothingBeforePlacement'
  PROVE  FiguresInv'
<1>1. /\ Committed' = Committed /\ o \notin Committed
      /\ Unsold' = Unsold \cup {o} /\ o \notin Unsold
      /\ Committed \in SUBSET Order /\ Unsold \in SUBSET Order
  BY DEF FiguresInv, NothingBeforePlacement, Committed, Unsold
<1>2. ASSUME NEW v \in Variant
      PROVE  /\ inventory'[v].sold = TotalOver(Lines(v)', Committed')
             /\ inventory'[v].reserved <= TotalOver(Lines(v)', Unsold')
  <2>1. inventory[v] \in Row /\ lines[v] \in Nat
    BY DEF TypeOK
  <2>2. /\ inventory'[v].sold = inventory[v].sold
        /\ inventory'[v].reserved = inventory[v].reserved + lines[v]
    BY <2>1 DEF ReserveStock, Reserve, Row
  <2>3. /\ inventory[v].sold = TotalOver(Lines(v), Committed)
        /\ inventory[v].reserved <= TotalOver(Lines(v), Unsold)
    BY FiguresAsSums DEF FiguresInv
  <2>4. /\ \A p \in Order \ {o} : Lines(v)'[p] = Lines(v)[p]
        /\ Lines(v)'[o] = lines[v]
        /\ \A p \in Order : Lines(v)'[p] \in Nat
    BY DEF Lines, TypeOK
  <2>5. /\ TotalOver(Lines(v)', Committed) = TotalOver(Lines(v), Committed)
        /\ TotalOver(Lines(v)', Unsold) = TotalOver(Lines(v), Unsold)
    <3>1. /\ \A p \in Committed : Lines(v)'[p] = Lines(v)[p]
          /\ \A p \in Unsold : Lines(v)'[p] = Lines(v)[p]
      BY <1>1, <2>4
    <3>. QED
      BY <3>1, TotalOfSame
  <2>6. TotalOver(Lines(v)', Unsold \cup {o})
          = TotalOver(Lines(v)', Unsold) + lines[v]
    <3>1. IsFiniteSet(Unsold)
      BY <1>1, OrderAssumption, FS_Subset
    <3>2. \A p \in Unsold \cup {o} : Lines(v)'[p] \in Nat
      BY <1>1, <2>4
    <3>3. TotalOver(Lines(v)', Unsold \cup {o})
            = TotalOver(Lines(v)', Unsold) + Lines(v)'[o]
      BY <1>1, <3>1, <3>2, TotalOfOneMore
    <3>. QED
      BY <2>4, <3>3
  <2>7. TotalOver(Lines(v), Unsold) \in Nat
    BY <1>1, OrderSums
  <2>8. inventory'[v].sold = TotalOver(Lines(v)', Committed')
    BY <1>1, <2>2, <2>3, <2>5
  <2>9. inventory[v].reserved + lines[v] <= TotalOver(Lines(v)', Unsold \cup {o})
    BY <2>1, <2>3, <2>5, <2>6, <2>7 DEF Row
  <2>. QED
    BY <1>1, <2>2, <2>8, <2>9
<1>. QED
  BY <1>2 DEF FiguresInv, SoldMatchesOrders, NoPhantomReservation, UnitsOf,
              Lines, Committed, Unsold

\* A placed order stays placed, and no handler but place_order works on one
\* that was not.
LEMMA NothingBeforePlacementStep ==
  TypeOK /\ NothingBeforePlacement /\ [Next]_vars => NothingBeforePlacement'
<1>. SUFFICES ASSUME TypeOK, NothingBeforePlacement, [Next]_vars
              PROVE  NothingBeforePlacement'
  OBVIOUS
<1>1. ASSUME UNCHANGED <<status, stock_committed, commits>>,
             attempted' \subseteq attempted \cup {o \in Order : Placed(o)},
             confirming' \subseteq confirming
      PROVE  NothingBeforePlacement'
  BY <1>1 DEF NothingBeforePlacement, Placed
<1>2. ASSUME NEW o \in Order, Placed(o), CommitStock(o),
             NEW new \in Status, status' = [status EXCEPT ![o] = new],
             UNCHANGED attempted, confirming' \subseteq confirming
      PROVE  NothingBeforePlacement'
  <2>1. /\ stock_committed' = [stock_committed EXCEPT ![o] = TRUE]
        /\ \A p \in Order \ {o} : commits'[p] = commits[p]
    BY <1>2 DEF CommitStock, TypeOK
  <2>. QED
    BY <1>2, <2>1 DEF NothingBeforePlacement, Placed, TypeOK, Status
<1>3. ASSUME NEW o \in Order, NEW lines \in Baskets,
             NEW method \in {"cod", "online"}, NEW withCoupon \in BOOLEAN,
             PlaceOrder(o, lines, method, withCoupon)
      PROVE  NothingBeforePlacement'
  BY <1>3 DEF PlaceOrder, NothingBeforePlacement, Placed, TypeOK
<1>4. ASSUME NEW o \in Order, ConfirmCod(o)
      PROVE  NothingBeforePlacement'
  <2>1. CASE status[o] = "pending"
    BY <1>2, <1>4, <2>1 DEF ConfirmCod, Placed, Status
  <2>2. CASE status[o] # "pending"
    BY <1>1, <1>4, <2>2 DEF ConfirmCod
  <2>. QED
    BY <2>1, <2>2
<1>5. ASSUME NEW o \in Order, MarkPaid(o)
      PROVE  NothingBeforePlacement'
  <2>1. Placed(o)
    BY <1>5 DEF MarkPaid, NothingBeforePlacement
  <2>2. CASE payment_status[o] # "paid"
    BY <1>2, <1>5, <2>1, <2>2 DEF MarkPaid, Status
  <2>3. CASE payment_status[o] = "paid"
    BY <1>1, <1>5, <2>3 DEF MarkPaid
  <2>. QED
    BY <2>2, <2>3
<1>6. ASSUME NEW o \in Order, NEW new \in Status, TransitionOrder(o, new)
      PROVE  NothingBeforePlacement'
  <2>1. CASE new = "confirmed"
    BY <1>2, <1>6, <2>1 DEF TransitionOrder, requestVars
  <2>2. CASE new # "confirmed"
    BY <1>6, <2>2
    DEF TransitionOrder, requestVars, NothingBeforePlacement, Placed, TypeOK,
        Status
  <2>. QED
    BY <2>1, <2>2
<1>7. ASSUME NEW o \in Order, NEW staff_override \in BOOLEAN,
             CancelOrder(o, staff_override)
      PROVE  NothingBeforePlacement'
  BY <1>7 DEF CancelOrder, requestVars, NothingBeforePlacement, Placed, TypeOK
<1>8. ASSUME NEW o \in Order,
             LoseCodRequest(o) \/ StartPayment(o) \/ MarkPaymentFailed(o)
      PROVE  NothingBeforePlacement'
  BY <1>1, <1>8
  DEF LoseCodRequest, StartPayment, MarkPaymentFailed, orderVars, stockVars,
      TypeOK
<1>9. CASE UNCHANGED vars
  BY <1>1, <1>9 DEF vars, orderVars, stockVars, requestVars
<1>. QED
  BY <1>3, <1>4, <1>5, <1>6, <1>7, <1>8, <1>9 DEF Next

\* Only place_order places an order.
LEMMA PlacedKept ==
  ASSUME TypeOK, NEW o \in Order, Placed(o), NEW new \in Status,
         status' = [status EXCEPT ![o] = new]
  PROVE  \A p \in Order : Placed(p)' = Placed(p)
BY DEF Placed, TypeOK, Status

LEMMA FiguresInvStep == TypeOK /\ FiguresInv /\ [Next]_vars => FiguresInv'
<1>. SUFFICES ASSUME TypeOK, FiguresInv, [Next]_vars
              PROVE  FiguresInv'
  OBVIOUS
<1>0. TypeOK' /\ NothingBeforePlacement' /\ NothingBeforePlacement
  BY TypeOKStep, NothingBeforePlacementStep DEF FiguresInv
<1>1. ASSUME UNCHANGED <<status, inventory, basket, stock_committed, commits>>
      PROVE  FiguresInv'
  BY <1>0, <1>1, FiguresKept DEF Placed
<1>2. ASSUME NEW o \in Order, Placed(o), CommitStock(o), UNCHANGED basket,
             status' = [status EXCEPT ![o] = "confirmed"]
      PROVE  FiguresInv'
  <2>1. \A p \in Order : Placed(p)' = Placed(p)
    BY <1>2, PlacedKept DEF Status
  <2>. QED
    BY <1>0, <1>2, <2>1, CommitFigures
<1>3. ASSUME NEW o \in Order, NEW lines \in Baskets,
             NEW method \in {"cod", "online"}, NEW withCoupon \in BOOLEAN,
             PlaceOrder(o, lines, method, withCoupon)
      PROVE  FiguresInv'
  <2>1. lines \in [Variant -> Nat]
    BY BasketAssumption
  <2>2. \A p \in Order : Placed(p)' <=> Placed(p) \/ p = o
    BY <1>3 DEF PlaceOrder, Placed, TypeOK
  <2>3. /\ ~Placed(o) /\ ReserveStock(lines)
        /\ basket' = [basket EXCEPT ![o] = lines]
        /\ UNCHANGED <<stock_committed, commits>>
    BY <1>3 DEF PlaceOrder
  <2>. QED
    BY <1>0, <2>1, <2>2, <2>3, PlaceFigures
<1>4. ASSUME NEW o \in Order, ConfirmCod(o)
      PROVE  FiguresInv'
  BY <1>1, <1>2, <1>4 DEF ConfirmCod, Placed
<1>5. ASSUME NEW o \in Order, MarkPaid(o)
      PROVE  FiguresInv'
  <2>1. Placed(o)
    BY <1>0, <1>5 DEF MarkPaid, NothingBeforePlacement
  <2>. QED
    BY <1>1, <1>2, <1>5, <2>1 DEF MarkPaid
<1>6. ASSUME NEW o \in Order, MarkPaymentFailed(o)
      PROVE  FiguresInv'
  <2>1. UNCHANGED <<status, basket, stock_committed, commits>>
    BY <1>6 DEF MarkPaymentFailed
  <2>2. CASE payment_status[o] = "paid"
    BY <1>1, <1>6, <2>1, <2>2 DEF MarkPaymentFailed
  <2>3. CASE payment_status[o] # "paid"
    BY <1>0, <1>6, <2>1, <2>3, ReleaseFigures DEF MarkPaymentFailed, Placed
  <2>. QED
    BY <2>2, <2>3
<1>7. ASSUME NEW o \in Order, NEW new \in Status, TransitionOrder(o, new)
      PROVE  FiguresInv'
  <2>1. Placed(o) /\ UNCHANGED basket /\ status' = [status EXCEPT ![o] = new]
    BY <1>7 DEF TransitionOrder
  <2>2. CASE new = "confirmed"
    BY <1>2, <1>7, <2>1, <2>2 DEF TransitionOrder
  <2>3. CASE new # "confirmed"
    <3>1. UNCHANGED <<inventory, basket, stock_committed, commits>>
      BY <1>7, <2>3 DEF TransitionOrder
    <3>. QED
      BY <1>0, <2>1, <3>1, PlacedKept, FiguresKept
  <2>. QED
    BY <2>2, <2>3
<1>8. ASSUME NEW o \in Order, NEW staff_override \in BOOLEAN,
             CancelOrder(o, staff_override)
      PROVE  FiguresInv'
  <2>1. \A p \in Order : Placed(p)' = Placed(p)
    BY <1>8, PlacedKept DEF CancelOrder, Status
  <2>2. /\ UNCHANGED <<basket, commits>>
        /\ stock_committed' = [stock_committed EXCEPT ![o] = FALSE]
    BY <1>8 DEF CancelOrder
  <2>3. CASE stock_committed[o]
    <3>1. inventory' = [v \in Variant |-> Restore(inventory[v], basket[o][v])]
      BY <1>8, <2>3 DEF CancelOrder
    <3>. QED
      BY <1>0, <2>1, <2>2, <2>3, <3>1, RestoreFigures
  <2>4. CASE ~stock_committed[o]
    <3>1. ReleaseStock(o) /\ UNCHANGED stock_committed
      BY <1>8, <2>2, <2>4 DEF CancelOrder, TypeOK
    <3>. QED
      BY <1>0, <2>1, <2>2, <3>1, ReleaseFigures
  <2>. QED
    BY <2>3, <2>4
<1>9. ASSUME NEW o \in Order, LoseCodRequest(o) \/ StartPayment(o)
      PROVE  FiguresInv'
  BY <1>1, <1>9 DEF LoseCodRequest, StartPayment, orderVars, stockVars
<1>10. CASE UNCHANGED vars
  BY <1>1, <1>10 DEF vars, orderVars, stockVars
<1>. QED
  BY <1>3, <1>4, <1>5, <1>6, <1>7, <1>8, <1>9, <1>10 DEF Next

LEMMA InitFigures == Init => FiguresInv
<1>. SUFFICES ASSUME Init PROVE FiguresInv
  OBVIOUS
<1>1. NothingBeforePlacement /\ Committed = {} /\ Unsold = {}
  BY DEF Init, NothingBeforePlacement, Placed, Committed, Unsold
<1>2. ASSUME NEW v \in Variant
      PROVE  inventory[v].sold = 0 /\ inventory[v].reserved = 0
  BY DEF Init, FullShelf
<1>3. \A v \in Variant : TotalOver(Lines(v), {}) = 0
  BY TotalOfNone
<1>. QED
  BY <1>1, <1>2, <1>3, FiguresAsSums DEF FiguresInv

LEMMA FiguresAlways == Spec => []FiguresInv
BY InitFigures, TypeCorrect, FiguresInvStep, PTL DEF Spec

\* The sold figure of every variant is exactly what the orders with a standing
\* sale bought, for any number of orders: _commit_stock adds an order's units
\* when it joins them, cancel_order takes the same units back when it leaves
\* them, and no decrement ever meets its floor.
THEOREM SoldIsWhatOrdersBought == Spec => []SoldMatchesOrders
BY FiguresAlways, PTL DEF FiguresInv

\* No unit is reserved for nobody: the reserved figure of a variant never
\* passes the lines of the placed orders that were never sold, although a
\* failed payment may release the units of another order.
THEOREM NothingReservedForNobody == Spec => []NoPhantomReservation
BY FiguresAlways, PTL DEF FiguresInv

-----------------------------------------------------------------------------
(* What the modules over Orders need of it.                                *)

\* Money is only ever recorded against units that were sold, and nothing but
\* sold units is on its way, delivered or coming back.
PaidWasSold == \A o \in Order : payment_status[o] = "paid" => commits[o] > 0
FulfilledWasSold ==
  \A o \in Order : status[o] \in Fulfilling => commits[o] > 0

\* What the payments and the returns lean on.  Unlike FulfilmentOnlyAfterSale
\* it holds although request_return reopens an order cancelled meanwhile.
SaleInv ==
  /\ TypeOK
  /\ NothingBeforePlacement
  /\ CommittedExactlyOnce
  /\ FulfilledWasSold
  /\ PaidWasSold

LEMMA StandingSaleWasMade ==
  ASSUME SaleInv, NEW o \in Order, stock_committed[o]
  PROVE  commits[o] > 0
BY DEF SaleInv, TypeOK, CommittedExactlyOnce

\* _commit_stock leaves an order that was sold.
LEMMA CommitStockSells ==
  ASSUME SaleInv, NEW o \in Order, CommitStock(o)
  PROVE  /\ commits'[o] > 0
         /\ \A p \in Order : commits'[p] >= commits[p]
<1>1. CASE stock_committed[o]
  BY <1>1, StandingSaleWasMade DEF CommitStock, SaleInv, TypeOK
<1>2. CASE ~stock_committed[o]
  BY <1>2 DEF CommitStock, SaleInv, TypeOK
<1>. QED
  BY <1>1, <1>2

\* No sale is forgotten once made.
LEMMA CommitsGrow ==
  ASSUME SaleInv, [Next]_vars, NEW o \in Order
  PROVE  commits'[o] >= commits[o]
<1>1. UNCHANGED commits => commits'[o] >= commits[o]
  BY DEF SaleInv, TypeOK
<1>2. ASSUME NEW p \in Order, CommitStock(p)
      PROVE  commits'[o] >= commits[o]
  BY <1>2, CommitStockSells
<1>. QED
  BY <1>1, <1>2
  DEF Next, PlaceOrder, ConfirmCod, LoseCodRequest, StartPayment, MarkPaid,
      MarkPaymentFailed, TransitionOrder, CancelOrder, vars, stockVars

\* An order is paid by its own sale, or delivered after it.
LEMMA PaidWasSoldStep == SaleInv /\ [Next]_vars => PaidWasSold'
<1>. SUFFICES ASSUME SaleInv, [Next]_vars PROVE PaidWasSold'
  OBVIOUS
<1>1. ASSUME \A o \in Order :
               payment_status'[o] = "paid" => payment_status[o] = "paid"
      PROVE  PaidWasSold'
  <2>1. \A o \in Order : commits'[o] >= commits[o] /\ commits[o] \in Nat
                           /\ commits'[o] \in Nat
    BY CommitsGrow, TypeOKStep DEF SaleInv, TypeOK
  <2>. QED
    BY <1>1, <2>1 DEF SaleInv, PaidWasSold
<1>2. ASSUME NEW o \in Order, MarkPaid(o)
      PROVE  PaidWasSold'
  <2>1. CASE payment_status[o] = "paid"
    BY <1>1, <1>2, <2>1 DEF MarkPaid
  <2>2. CASE payment_status[o] # "paid"
    <3>1. /\ CommitStock(o)
          /\ payment_status' = [payment_status EXCEPT ![o] = "paid"]
      BY <1>2, <2>2 DEF MarkPaid
    <3>2. /\ commits'[o] > 0
          /\ \A p \in Order : commits'[p] >= commits[p] /\ commits[p] \in Nat
                                /\ commits'[p] \in Nat
      BY <3>1, CommitStockSells, TypeOKStep DEF SaleInv, TypeOK
    <3>. QED
      BY <3>1, <3>2 DEF SaleInv, PaidWasSold, TypeOK
  <2>. QED
    BY <2>1, <2>2
<1>3. ASSUME NEW o \in Order, NEW new \in Status, TransitionOrder(o, new)
      PROVE  PaidWasSold'
  <2>1. CASE new = "delivered"
    <3>1. status[o] \in Fulfilling
      BY <1>3, <2>1 DEF TransitionOrder, Placed, TRANSITIONS, Fulfilling,
                        Status, SaleInv, TypeOK
    <3>2. commits[o] > 0 /\ UNCHANGED commits
      BY <1>3, <2>1, <3>1 DEF TransitionOrder, SaleInv, FulfilledWasSold
    <3>. QED
      BY <1>3, <3>2 DEF TransitionOrder, SaleInv, PaidWasSold, TypeOK
  <2>2. CASE new # "delivered"
    BY <1>1, <1>3, <2>2 DEF TransitionOrder
  <2>. QED
    BY <2>1, <2>2
<1>4. ASSUME NEW o \in Order,
             \/ \E lines \in Baskets, method \in {"cod", "online"},
                   withCoupon \in BOOLEAN :
                     PlaceOrder(o, lines, method, withCoupon)
             \/ ConfirmCod(o)
             \/ LoseCodRequest(o)
             \/ StartPayment(o)
             \/ MarkPaymentFailed(o)
             \/ \E staff_override \in BOOLEAN : CancelOrder(o, staff_override)
      PROVE  PaidWasSold'
  BY <1>1, <1>4
  DEF PlaceOrder, ConfirmCod, LoseCodRequest, StartPayment, MarkPaymentFailed,
      CancelOrder, orderVars, SaleInv, TypeOK
<1>5. CASE UNCHANGED vars
  BY <1>1, <1>5 DEF vars, orderVars
<1>. QED
  BY <1>2, <1>3, <1>4, <1>5 DEF Next

LEMMA FulfilledWasSoldStep == SaleInv /\ [Next]_vars => FulfilledWasSold'
<1>. SUFFICES ASSUME SaleInv, [Next]_vars PROVE FulfilledWasSold'
  OBVIOUS
<1>1. \A o \in Order : commits'[o] >= commits[o] /\ commits[o] \in Nat
                         /\ commits'[o] \in Nat
  BY CommitsGrow, TypeOKStep DEF SaleInv, TypeOK
<1>2. ASSUME \A o \in Order :
               status'[o] \in Fulfilling => status[o] \in Fulfilling
      PROVE  FulfilledWasSold'
  BY <1>1, <1>2 DEF SaleInv, FulfilledWasSold
<1>3. ASSUME NEW o \in Order, CommitStock(o),
             status' = [status EXCEPT ![o] = "confirmed"]
      PROVE  FulfilledWasSold'
  <2>1. commits'[o] > 0
    BY <1>3, CommitStockSells
  <2>. QED
    BY <1>1, <1>3, <2>1 DEF SaleInv, FulfilledWasSold, TypeOK
<1>4. ASSUME NEW o \in Order, NEW new \in Status, TransitionOrder(o, new)
      PROVE  FulfilledWasSold'
  <2>1. CASE new = "confirmed"
    BY <1>3, <1>4, <2>1 DEF TransitionOrder
  <2>2. CASE new # "confirmed"
    <3>1. new \in Fulfilling => status[o] \in Fulfilling
      BY <1>4, <2>2 DEF TransitionOrder, Placed, TRANSITIONS, Fulfilling,
                        Status, SaleInv, TypeOK
    <3>. QED
      BY <1>2, <1>4, <3>1 DEF TransitionOrder, SaleInv, TypeOK
  <2>. QED
    BY <2>1, <2>2
<1>5. ASSUME NEW o \in Order, ConfirmCod(o) \/ MarkPaid(o)
      PROVE  FulfilledWasSold'
  BY <1>2, <1>3, <1>5 DEF ConfirmCod, MarkPaid
<1>6. ASSUME NEW o \in Order,
             \/ \E lines \in Baskets, method \in {"cod", "online"},
                   withCoupon \in BOOLEAN :
                     PlaceOrder(o, lines, method, withCoupon)
             \/ LoseCodRequest(o)
             \/ StartPayment(o)
             \/ MarkPaymentFailed(o)
             \/ \E staff_override \in BOOLEAN : CancelOrder(o, staff_override)
      PROVE  FulfilledWasSold'
  BY <1>2, <1>6
  DEF PlaceOrder, LoseCodRequest, StartPayment, MarkPaymentFailed, CancelOrder,
      orderVars, Fulfilling, SaleInv, TypeOK
<1>7. CASE UNCHANGED vars
  BY <1>2, <1>7 DEF vars, orderVars
<1>. QED
  BY <1>4, <1>5, <1>6, <1>7 DEF Next

LEMMA SaleInvStep == SaleInv /\ [Next]_vars => SaleInv'
BY TypeOKStep, NothingBeforePlacementStep, CommittedExactlyOnceStep,
   FulfilledWasSoldStep, PaidWasSoldStep DEF SaleInv

\* An order keeps its lines from its placement on.
LEMMA LinesKept ==
  ASSUME TypeOK, [Next]_vars, NEW o \in Order, Placed(o)
  PROVE  Placed(o)' /\ basket'[o] = basket[o]
<1>1. UNCHANGED status => Placed(o)'
  BY DEF Placed
<1>2. ASSUME NEW p \in Order, NEW new \in Status,
             status' = [status EXCEPT ![p] = new]
      PROVE  Placed(o)'
  BY <1>2 DEF Placed, TypeOK, Status
<1>3. {"pending", "confirmed", "cancelled"} \subseteq Status
  BY DEF Status
<1>4. ASSUME NEW p \in Order, NEW lines \in Baskets,
             NEW method \in {"cod", "online"}, NEW withCoupon \in BOOLEAN,
             PlaceOrder(p, lines, method, withCoupon)
      PROVE  Placed(o)' /\ basket'[o] = basket[o]
  <2>1. p # o
    BY <1>4 DEF PlaceOrder
  <2>. QED
    BY <1>2, <1>3, <1>4, <2>1 DEF PlaceOrder, TypeOK
<1>5. ASSUME NEW p \in Order,
             \/ ConfirmCod(p) \/ LoseCodRequest(p) \/ StartPayment(p)
             \/ MarkPaid(p) \/ MarkPaymentFailed(p)
             \/ \E new \in Status : TransitionOrder(p, new)
             \/ \E staff_override \in BOOLEAN : CancelOrder(p, staff_override)
      PROVE  Placed(o)' /\ basket'[o] = basket[o]
  BY <1>1, <1>2, <1>3, <1>5
  DEF ConfirmCod, LoseCodRequest, StartPayment, MarkPaid, MarkPaymentFailed,
      TransitionOrder, CancelOrder, orderVars
<1>6. CASE UNCHANGED vars
  BY <1>1, <1>6 DEF vars, orderVars
<1>. QED
  BY <1>4, <1>5, <1>6 DEF Next

LEMMA InitSaleInv == Init => SaleInv
<1>. SUFFICES ASSUME Init PROVE SaleInv
  OBVIOUS
<1>1. NothingBeforePlacement /\ CommittedExactlyOnce
  BY DEF Init, NothingBeforePlacement, CommittedExactlyOnce
<1>2. FulfilledWasSold /\ PaidWasSold
  BY DEF Init, FulfilledWasSold, Fulfilling, PaidWasSold
<1>. QED
  BY <1>1, <1>2, InitTypeOK DEF SaleInv

\* No payment is recorded, online or on delivery, of an order whose units were
\* never sold: mark_paid and the delivery of a COD order find or make the sale.
THEOREM NothingPaidUnsold == Spec => []PaidWasSold
<1>1. SaleInv => PaidWasSold
  BY DEF SaleInv
<1>. QED
  BY <1>1, InitSaleInv, SaleInvStep, PTL DEF Spec

-----------------------------------------------------------------------------
(* Where the row lock does stop the same unit from being sold twice.        *)

\* A pending order that was neither sold nor had its units given back.
HoldsReservation(o) ==
  status[o] = "pending" /\ payment_status[o] # "failed" /\ commits[o] = 0

Holders == {o \in Order : HoldsReservation(o)}

\* A sale, a failed payment and the cancellation of an order that is not sold
\* take units off the reserved figure: this step takes them of an order that
\* holds them.
TakesOwn ==
  \A o \in Order :
    /\ commits'[o] # commits[o] => HoldsReservation(o)
    /\ MarkPaymentFailed(o) /\ payment_status[o] # "paid" => HoldsReservation(o)
    /\ (\E staff_override \in BOOLEAN : CancelOrder(o, staff_override))
         /\ ~stock_committed[o]
       => HoldsReservation(o)

\* What is reserved covers the orders that hold units, and no unit of a
\* variant without backorders is made or lost.
OwnInv ==
  \A v \in Variant \ AllowBackorder :
    /\ inventory[v].reserved >= TotalOver(Lines(v), Holders)
    /\ inventory[v].available + inventory[v].sold = Stock[v]

LEMMA HolderSums ==
  ASSUME TypeOK, NEW v \in Variant, NEW S \in SUBSET Holders
  PROVE  /\ TotalOver(Lines(v), S) \in Nat /\ TotalOver(Lines(v), Holders) \in Nat
         /\ TotalOver(Lines(v), S) <= TotalOver(Lines(v), Holders)
<1>1. /\ IsFiniteSet(Holders) /\ Holders \in SUBSET Order /\ S \in SUBSET Order
      /\ \A o \in Holders : Lines(v)[o] \in Nat
  BY OrderAssumption, FS_Subset DEF Holders, Lines, TypeOK
<1>. QED
  BY <1>1, OrderSums, TotalOfFewer

\* A holder's own units are part of what is reserved.
LEMMA HolderUnits ==
  ASSUME TypeOK, OwnInv, NEW v \in Variant \ AllowBackorder, NEW o \in Holders,
         NEW S \in SUBSET (Holders \ {o})
  PROVE  TotalOver(Lines(v), S) + basket[o][v] <= inventory[v].reserved
<1>1. o \in Order /\ Holders \in SUBSET Order
  BY DEF Holders
<1>2. /\ TotalOver(Lines(v), Holders \ {o})
           = TotalOver(Lines(v), Holders) - basket[o][v]
      /\ TotalOver(Lines(v), Holders) >= basket[o][v]
  BY <1>1, OrderSums
<1>3. TotalOver(Lines(v), S) <= TotalOver(Lines(v), Holders \ {o})
  <2>1. /\ IsFiniteSet(Holders \ {o})
        /\ \A p \in Holders \ {o} : Lines(v)[p] \in Nat
    BY <1>1, OrderAssumption, FS_Subset DEF Lines, TypeOK
  <2>. QED
    BY <2>1, TotalOfFewer
<1>4. /\ TotalOver(Lines(v), S) \in Nat /\ TotalOver(Lines(v), Holders) \in Nat
      /\ basket[o][v] \in Nat /\ inventory[v].reserved \in Nat
      /\ inventory[v].reserved >= TotalOver(Lines(v), Holders)
  BY <1>1, HolderSums DEF OwnInv, TypeOK, Row
<1>. QED
  BY <1>2, <1>3, <1>4

\* A handler that leaves stock and lines, and makes nobody a holder.
LEMMA OwnKept ==
  ASSUME TypeOK, OwnInv, UNCHANGED <<inventory, basket>>, Holders' \subseteq Holders
  PROVE  OwnInv'
<1>. SUFFICES ASSUME NEW v \in Variant \ AllowBackorder
              PROVE  /\ inventory'[v].reserved >= TotalOver(Lines(v)', Holders')
                     /\ inventory'[v].available + inventory'[v].sold = Stock[v]
  BY DEF OwnInv
<1>1. Lines(v)' = Lines(v)
  BY DEF Lines
<1>2. inventory[v].reserved \in Nat
  BY DEF TypeOK, Row
<1>. QED
  BY <1>1, <1>2, HolderSums DEF OwnInv

LEMMA OwnReleased ==
  ASSUME TypeOK, OwnInv, NEW o \in Holders, ReleaseStock(o), UNCHANGED basket,
         Holders' \subseteq Holders \ {o}
  PROVE  OwnInv'
<1>. SUFFICES ASSUME NEW v \in Variant \ AllowBackorder
              PROVE  /\ inventory'[v].reserved >= TotalOver(Lines(v)', Holders')
                     /\ inventory'[v].available + inventory'[v].sold = Stock[v]
  BY DEF OwnInv
<1>1. Lines(v)' = Lines(v) /\ o \in Order
  BY DEF Lines, Holders
<1>2. inventory[v] \in Row /\ basket[o][v] \in Nat
  BY <1>1 DEF TypeOK
<1>3. /\ inventory'[v].reserved = Monus(inventory[v].reserved, basket[o][v])
      /\ inventory'[v].available = inventory[v].available
      /\ inventory'[v].sold = inventory[v].sold
  BY <1>2 DEF ReleaseStock, Release, Row
<1>4. TotalOver(Lines(v), Holders') + basket[o][v] <= inventory[v].reserved
  BY HolderUnits
<1>5. TotalOver(Lines(v), Holders') \in Nat
  BY HolderSums
<1>6. Monus(inventory[v].reserved, basket[o][v]) >= TotalOver(Lines(v), Holders')
  BY <1>2, <1>4, <1>5 DEF Monus, Row
<1>. QED
  BY <1>1, <1>3, <1>6 DEF OwnInv

\* The floors of a sale are not met: its order's units are reserved, and what
\* is reserved is on the shelf.
LEMMA OwnSold ==
  ASSUME TypeOK, OwnInv, ReservedWithinShelf,
         NEW o \in Order, CommitStock(o), UNCHANGED basket,
         commits'[o] # commits[o] => o \in Holders,
         Holders' \subseteq Holders \ {o}
  PROVE  OwnInv'
<1>1. CASE stock_committed[o]
  BY <1>1, OwnKept DEF CommitStock
<1>2. CASE ~stock_committed[o]
  <2>1. o \in Holders
    BY <1>2 DEF CommitStock, TypeOK
  <2>. SUFFICES ASSUME NEW v \in Variant \ AllowBackorder
                PROVE  /\ inventory'[v].reserved >= TotalOver(Lines(v)', Holders')
                       /\ inventory'[v].available + inventory'[v].sold = Stock[v]
    BY DEF OwnInv
  <2>2. Lines(v)' = Lines(v)
    BY DEF Lines
  <2>3. inventory[v] \in Row /\ basket[o][v] \in Nat
    BY DEF TypeOK
  <2>4. /\ inventory'[v].reserved = Monus(inventory[v].reserved, basket[o][v])
        /\ inventory'[v].available = Monus(inventory[v].available, basket[o][v])
        /\ inventory'[v].sold = inventory[v].sold + basket[o][v]
    BY <1>2, <2>3 DEF CommitStock, Commit, Row
  <2>5. TotalOver(Lines(v), Holders') + basket[o][v] <= inventory[v].reserved
    BY <2>1, HolderUnits
  <2>6. TotalOver(Lines(v), Holders') \in Nat
    BY HolderSums
  <2>7. Monus(inventory[v].reserved, basket[o][v]) >= TotalOver(Lines(v), Holders')
    BY <2>3, <2>5, <2>6 DEF Monus, Row
  <2>8. /\ inventory[v].reserved <= inventory[v].available
        /\ inventory[v].available + inventory[v].sold = Stock[v]
    BY DEF ReservedWithinShelf, OwnInv
  <2>9. Monus(inventory[v].available, basket[o][v])
          + (inventory[v].sold + basket[o][v]) = Stock[v]
    BY <2>3, <2>5, <2>6, <2>8, StockAssumption DEF Monus, Row
  <2>. QED
    BY <2>2, <2>4, <2>7, <2>9
<1>. QED
  BY <1>1, <1>2

LEMMA OwnRestored ==
  ASSUME TypeOK, OwnInv, FiguresInv, NEW o \in Order, stock_committed[o],
         inventory' = [v \in Variant |-> Restore(inventory[v], basket[o][v])],
         UNCHANGED basket, Holders' \subseteq Holders
  PROVE  OwnInv'
<1>. SUFFICES ASSUME NEW v \in Variant \ AllowBackorder
              PROVE  /\ inventory'[v].reserved >= TotalOver(Lines(v)', Holders')
                     /\ inventory'[v].available + inventory'[v].sold = Stock[v]
  BY DEF OwnInv
<1>1. Lines(v)' = Lines(v)
  BY DEF Lines
<1>2. inventory[v] \in Row /\ basket[o][v] \in Nat
  BY DEF TypeOK
<1>3. /\ inventory'[v].reserved = inventory[v].reserved
      /\ inventory'[v].available = inventory[v].available + basket[o][v]
      /\ inventory'[v].sold = Monus(inventory[v].sold, basket[o][v])
  BY <1>2 DEF Restore, Row
<1>4. inventory[v].sold >= basket[o][v]
  <2>1. o \in Committed /\ Committed \in SUBSET Order
    BY DEF Committed
  <2>2. inventory[v].sold = TotalOver(Lines(v), Committed)
    BY FiguresAsSums DEF FiguresInv
  <2>. QED
    BY <2>1, <2>2, OrderSums
<1>5. /\ inventory[v].reserved >= TotalOver(Lines(v), Holders')
  BY <1>2, HolderSums DEF OwnInv, Row
<1>6. inventory[v].available + basket[o][v] + Monus(inventory[v].sold, basket[o][v])
        = Stock[v]
  BY <1>2, <1>4, StockAssumption DEF OwnInv, Monus, Row
<1>. QED
  BY <1>1, <1>3, <1>5, <1>6

LEMMA OwnPlaced ==
  ASSUME TypeOK, TypeOK', OwnInv, NEW o \in Order, o \notin Holders,
         NEW lines \in [Variant -> Nat], ReserveStock(lines),
         basket' = [basket EXCEPT ![o] = lines],
         Holders' \subseteq Holders \cup {o}
  PROVE  OwnInv'
<1>. SUFFICES ASSUME NEW v \in Variant \ AllowBackorder
              PROVE  /\ inventory'[v].reserved >= TotalOver(Lines(v)', Holders')
                     /\ inventory'[v].available + inventory'[v].sold = Stock[v]
  BY DEF OwnInv
<1>1. inventory[v] \in Row /\ lines[v] \in Nat
  BY DEF TypeOK
<1>2. /\ inventory'[v].reserved = inventory[v].reserved + lines[v]
      /\ inventory'[v].available = inventory[v].available
      /\ inventory'[v].sold = inventory[v].sold
  BY <1>1 DEF ReserveStock, Reserve, Row
<1>3. PICK others : others = Holders' \ {o}
  OBVIOUS
<1>4. PICK units : units = Lines(v)'
  OBVIOUS
<1>5. /\ others \subseteq Holders /\ others \in SUBSET Order /\ o \notin others
      /\ IsFiniteSet(others)
  BY <1>3, OrderAssumption, FS_Subset DEF Holders
<1>6. /\ \A p \in others : units[p] = Lines(v)[p]
      /\ \A p \in others \cup {o} : units[p] \in Nat
      /\ units[o] = lines[v]
  BY <1>4, <1>5 DEF Lines, TypeOK
<1>7. TotalOver(units, others) = TotalOver(Lines(v), others)
  BY <1>6, TotalOfSame
<1>8. /\ TotalOver(Lines(v), others) \in Nat
      /\ TotalOver(Lines(v), others) <= inventory[v].reserved
  <2>1. /\ TotalOver(Lines(v), others) \in Nat
        /\ TotalOver(Lines(v), Holders) \in Nat
        /\ TotalOver(Lines(v), others) <= TotalOver(Lines(v), Holders)
    BY <1>5, HolderSums
  <2>2. inventory[v].reserved >= TotalOver(Lines(v), Holders)
    BY DEF OwnInv
  <2>. QED
    BY <1>1, <2>1, <2>2 DEF Row
<1>9. TotalOver(units, others \cup {o}) = TotalOver(units, others) + lines[v]
  <2>1. TotalOver(units, others \cup {o}) = TotalOver(units, others) + units[o]
    <3>1. IsFiniteSet(others) /\ o \notin others
      BY <1>5
    <3>2. \A x \in others \cup {o} : units[x] \in Nat
      BY <1>6
    <3>. QED
      BY <3>1, <3>2, TotalOfOneMore
  <2>. QED
    BY <1>6, <2>1
<1>10. Holders' = others \/ Holders' = others \cup {o}
  BY <1>3
<1>11. TotalOver(units, Holders') <= inventory[v].reserved + lines[v]
  BY <1>1, <1>7, <1>8, <1>9, <1>10 DEF Row
<1>12. inventory'[v].reserved >= TotalOver(Lines(v)', Holders')
  BY <1>1, <1>2, <1>4, <1>7, <1>8, <1>9, <1>10, <1>11 DEF Row
<1>. QED
  BY <1>2, <1>12 DEF OwnInv

LEMMA OwnStep ==
  /\ SaleInv /\ FiguresInv /\ ReservedWithinShelf /\ OwnInv
  /\ [Next]_vars /\ [TakesOwn]_vars
  => OwnInv'
<1>. SUFFICES ASSUME SaleInv, FiguresInv, ReservedWithinShelf, OwnInv,
                     [Next]_vars, [TakesOwn]_vars
              PROVE  OwnInv'
  OBVIOUS
<1>0. TypeOK /\ TypeOK'
  BY TypeOKStep DEF SaleInv
<1>1. CASE UNCHANGED vars
  BY <1>0, <1>1, OwnKept DEF vars, orderVars, stockVars, Holders, HoldsReservation
<1>. SUFFICES ASSUME TakesOwn, Next
              PROVE  OwnInv'
  BY <1>1
<1>2. ASSUME NEW o \in Order, NEW lines \in Baskets,
             NEW method \in {"cod", "online"}, NEW withCoupon \in BOOLEAN,
             PlaceOrder(o, lines, method, withCoupon)
      PROVE  OwnInv'
  <2>1. o \notin Holders /\ lines \in [Variant -> Nat]
    BY <1>2, BasketAssumption DEF PlaceOrder, Placed, Holders, HoldsReservation
  <2>2. Holders' \subseteq Holders \cup {o}
    BY <1>0, <1>2 DEF PlaceOrder, Holders, HoldsReservation, TypeOK
  <2>. QED
    BY <1>0, <1>2, <2>1, <2>2, OwnPlaced DEF PlaceOrder
<1>3. ASSUME NEW o \in Order, CommitStock(o), UNCHANGED basket,
             status' = [status EXCEPT ![o] = "confirmed"],
             \A p \in Order \ {o} : payment_status'[p] = payment_status[p]
      PROVE  OwnInv'
  <2>1. Holders' \subseteq Holders \ {o}
    BY <1>0, <1>3 DEF CommitStock, Holders, HoldsReservation, TypeOK
  <2>2. commits'[o] # commits[o] => o \in Holders
    BY DEF TakesOwn, Holders
  <2>. QED
    BY <1>0, <1>3, <2>1, <2>2, OwnSold
<1>4. ASSUME NEW o \in Order, ConfirmCod(o)
      PROVE  OwnInv'
  <2>1. CASE status[o] = "pending"
    BY <1>3, <1>4, <2>1 DEF ConfirmCod
  <2>2. CASE status[o] # "pending"
    BY <1>0, <1>4, <2>2, OwnKept DEF ConfirmCod, Holders, HoldsReservation
  <2>. QED
    BY <2>1, <2>2
<1>5. ASSUME NEW o \in Order, MarkPaid(o)
      PROVE  OwnInv'
  <2>1. CASE payment_status[o] # "paid"
    BY <1>0, <1>3, <1>5, <2>1 DEF MarkPaid, TypeOK
  <2>2. CASE payment_status[o] = "paid"
    BY <1>0, <1>5, <2>2, OwnKept DEF MarkPaid, Holders, HoldsReservation
  <2>. QED
    BY <2>1, <2>2
<1>6. ASSUME NEW o \in Order, MarkPaymentFailed(o)
      PROVE  OwnInv'
  <2>1. CASE payment_status[o] # "paid"
    <3>1. o \in Holders
      BY <1>6, <2>1 DEF TakesOwn, Holders
    <3>2. Holders' \subseteq Holders \ {o}
      BY <1>0, <1>6, <2>1 DEF MarkPaymentFailed, Holders, HoldsReservation, TypeOK
    <3>. QED
      BY <1>0, <1>6, <2>1, <3>1, <3>2, OwnReleased DEF MarkPaymentFailed
  <2>2. CASE payment_status[o] = "paid"
    BY <1>0, <1>6, <2>2, OwnKept DEF MarkPaymentFailed, Holders, HoldsReservation
  <2>. QED
    BY <2>1, <2>2
<1>7. ASSUME NEW o \in Order, NEW new \in Status, TransitionOrder(o, new)
      PROVE  OwnInv'
  <2>1. CASE new = "confirmed"
    BY <1>0, <1>3, <1>7, <2>1 DEF TransitionOrder
  <2>2. CASE new # "confirmed"
    <3>1. new # "pending"
      BY <1>0, <1>7 DEF TransitionOrder, TRANSITIONS, TypeOK, Placed, Status
    <3>2. Holders' \subseteq Holders
      BY <1>0, <1>7, <2>2, <3>1
      DEF TransitionOrder, Holders, HoldsReservation, TypeOK
    <3>. QED
      BY <1>0, <1>7, <2>2, <3>2, OwnKept DEF TransitionOrder
  <2>. QED
    BY <2>1, <2>2
<1>8. ASSUME NEW o \in Order, NEW staff_override \in BOOLEAN,
             CancelOrder(o, staff_override)
      PROVE  OwnInv'
  <2>1. Holders' \subseteq Holders \ {o}
    BY <1>0, <1>8 DEF CancelOrder, Holders, HoldsReservation, TypeOK
  <2>2. CASE stock_committed[o]
    BY <1>0, <1>8, <2>1, <2>2, OwnRestored DEF CancelOrder
  <2>3. CASE ~stock_committed[o]
    <3>1. o \in Holders
      BY <1>8, <2>3 DEF TakesOwn, Holders
    <3>. QED
      BY <1>0, <1>8, <2>1, <2>3, <3>1, OwnReleased DEF CancelOrder
  <2>. QED
    BY <2>2, <2>3
<1>9. ASSUME NEW o \in Order, LoseCodRequest(o) \/ StartPayment(o)
      PROVE  OwnInv'
  BY <1>0, <1>9, OwnKept
  DEF LoseCodRequest, StartPayment, orderVars, stockVars, Holders, HoldsReservation
<1>. QED
  BY <1>2, <1>4, <1>5, <1>6, <1>7, <1>8, <1>9 DEF Next

\* As long as every sale, failed payment and cancellation is of an order that
\* still holds its units, no unit is sold twice, as inventory/services.py:3-5
\* says of the row lock: what sells one twice is the late payment, the second
\* failure or the cancellation of an order that gave its units back.
THEOREM OwnUnitsSoldOnce == Spec /\ [][TakesOwn]_vars => []NoLastUnitSoldTwice
<1>1. Init => OwnInv
  <2>. SUFFICES ASSUME Init, NEW v \in Variant \ AllowBackorder
                PROVE  /\ inventory[v].reserved >= TotalOver(Lines(v), Holders)
                       /\ inventory[v].available + inventory[v].sold = Stock[v]
    BY DEF OwnInv
  <2>1. Holders = {} /\ inventory[v] = FullShelf(Stock[v])
    BY DEF Init, Holders, HoldsReservation
  <2>. QED
    BY <2>1, TotalOfNone, StockAssumption DEF FullShelf
<1>2. TypeOK /\ OwnInv => NoLastUnitSoldTwice
  BY StockAssumption DEF OwnInv, NoLastUnitSoldTwice, TypeOK, Row
<1>. QED
  BY <1>1, <1>2, TypeCorrect, FiguresAlways, ReservationsFitShelf, InitSaleInv,
     SaleInvStep, OwnStep, PTL DEF Spec
=============================================================================
