--------------------------- MODULE CheckoutProofs ---------------------------
(* Proof that place_order, step by step under its row locks, implements    *)
(* the single step of module Orders, for any number of requests, carts and *)
(* variants; and, at the end, what the checkout pages promise.             *)
EXTENDS Checkout, CountingProofs, CheckoutPages

-----------------------------------------------------------------------------
(* The stock arithmetic.                                                   *)

\* What reserve and release do to a row of the table.
LEMMA RowSteps ==
  ASSUME NEW row \in Row, NEW n \in Nat
  PROVE  /\ Reserve(row, n) \in Row
         /\ Release(row, n) \in Row
BY DEF Row, Reserve, Release, Monus

\* A quantity of zero leaves the row alone and can always be reserved.
LEMMA NothingOfIt ==
  ASSUME NEW row \in Row
  PROVE  /\ Reserve(row, 0) = row
         /\ Release(row, 0) = row
         /\ 0 <= Sellable(row)
BY DEF Row, Reserve, Release, Sellable, Monus

-----------------------------------------------------------------------------
(* The inductive invariant.                                                *)

\* A held row is one of the holder's lines, done with, and what the holder
\* found under the lock still holds.
RowsHeld ==
  \A p \in Request, v \in Variant :
    lock[v] = p =>
      /\ pc[p] = "locking"
      /\ v \in Chosen(items[p]) \ todo[p]
      /\ CanReserve(inventory[v], items[p][v], v \in AllowBackorder)

\* A request that is past its checks has lines, and each of them is still to
\* be locked or is locked.
LinesLocked ==
  \A p \in Request :
    /\ pc[p] \in {"quoting", "locking"} => Chosen(items[p]) # {}
    /\ pc[p] = "locking" =>
         /\ todo[p] \subseteq Chosen(items[p])
         /\ \A v \in Chosen(items[p]) \ todo[p] : lock[v] = p
    /\ want[p] # NoVariant => pc[p] = "locking" /\ want[p] \in todo[p]

\* Whoever holds the coupon row found a use left.
CouponHeld ==
  \A p \in Request :
    couponLock = p =>
      pc[p] = "locking" /\ p \in withCoupon /\ used_count < UsageLimit

\* Only placed orders give units back.
ReleasedPlaced == \A p \in released : pc[p] = "placed"

IInv ==
  /\ TypeOK
  /\ RowsHeld
  /\ LinesLocked
  /\ CouponHeld
  /\ ReleasedPlaced

LEMMA NoLinesType == NoLines \in Lines
BY LimitsAssumption DEF NoLines, Lines

LEMMA InitIInv == Init => IInv
<1>. SUFFICES ASSUME Init PROVE IInv
  OBVIOUS
<1>1. TypeOK
  BY InitialCartAssumption, CouponCartsAssumption, ShelfAssumption,
     LimitsAssumption
  DEF Init, TypeOK, Lines, NoLines, Row, FullShelf, InFlight, Ended
<1>2. RowsHeld /\ CouponHeld
  BY RequestAssumption DEF Init, RowsHeld, CouponHeld
<1>3. LinesLocked /\ ReleasedPlaced
  BY DEF Init, LinesLocked, ReleasedPlaced
<1>. QED
  BY <1>1, <1>2, <1>3 DEF IInv

\* A rollback frees what the request held and touches nothing else.
LEMMA RollbackIInv ==
  ASSUME IInv, NEW p \in Request, NEW outcome \in Ended \ {"placed"},
         pc[p] # "placed", Rollback(p, outcome)
  PROVE  IInv'
<1>1. TypeOK'
  <2>1. /\ pc' \in [Request -> {"idle"} \cup InFlight \cup Ended]
        /\ withCoupon' \subseteq Request
        /\ todo' \in [Request -> SUBSET Variant]
        /\ want' \in [Request -> Variant \cup {NoVariant}]
    BY DEF IInv, TypeOK, Rollback
  <2>2. items' \in [Request -> Lines]
    BY NoLinesType DEF IInv, TypeOK, Rollback
  <2>3. /\ lock' \in [Variant -> Request \cup {NoRequest}]
        /\ couponLock' \in Request \cup {NoRequest}
    BY DEF IInv, TypeOK, Rollback, Unlock
  <2>. QED
    BY <2>1, <2>2, <2>3 DEF IInv, TypeOK, Rollback, cartVars, couponVars
<1>2. RowsHeld'
  BY RequestAssumption
  DEF IInv, TypeOK, RowsHeld, Rollback, Unlock, Chosen, cartVars, couponVars
<1>3. LinesLocked'
  <2>. SUFFICES ASSUME NEW q \in Request
                PROVE  /\ pc'[q] \in {"quoting", "locking"}
                            => Chosen(items'[q]) # {}
                       /\ pc'[q] = "locking" =>
                            /\ todo'[q] \subseteq Chosen(items'[q])
                            /\ \A v \in Chosen(items'[q]) \ todo'[q] :
                                 lock'[v] = q
                       /\ want'[q] # NoVariant =>
                            pc'[q] = "locking" /\ want'[q] \in todo'[q]
    BY DEF LinesLocked, Chosen
  <2>1. CASE q = p
    BY <2>1 DEF IInv, TypeOK, Rollback, Ended
  <2>2. CASE q # p
    <3>1. /\ pc'[q] = pc[q] /\ items'[q] = items[q]
          /\ todo'[q] = todo[q] /\ want'[q] = want[q]
          /\ \A v \in Variant : lock[v] = q => lock'[v] = q
      BY <2>2 DEF IInv, TypeOK, Rollback, Unlock
    <3>. QED
      BY <3>1 DEF IInv, LinesLocked, Chosen
  <2>. QED
    BY <2>1, <2>2
<1>4. CouponHeld'
  BY RequestAssumption
  DEF IInv, TypeOK, CouponHeld, Rollback, Unlock, couponVars
<1>5. ReleasedPlaced'
  BY DEF IInv, TypeOK, ReleasedPlaced, Rollback
<1>. QED
  BY <1>1, <1>2, <1>3, <1>4, <1>5 DEF IInv

\* ReadCart and Quote take no lock and change no committed data.
LEMMA ReadSteps ==
  ASSUME IInv, NEW p \in Request, ReadCart(p) \/ Quote(p)
  PROVE  IInv'
<1>1. CASE Quote(p)
  <2>1. TypeOK'
    BY <1>1 DEF IInv, TypeOK, Quote, InFlight, Chosen, Lines, lockVars,
                cartVars, couponVars
  <2>2. RowsHeld' /\ CouponHeld' /\ ReleasedPlaced'
    BY <1>1 DEF IInv, TypeOK, RowsHeld, CouponHeld, ReleasedPlaced, Quote,
                Chosen, lockVars, couponVars
  <2>3. LinesLocked'
    BY <1>1 DEF IInv, TypeOK, LinesLocked, Quote, Chosen, lockVars
  <2>. QED
    BY <2>1, <2>2, <2>3 DEF IInv
<1>2. CASE ReadCart(p) /\ Rollback(p, "refused")
  BY <1>2, RollbackIInv DEF ReadCart, Ended
<1>3. CASE ReadCart(p) /\ ~Rollback(p, "refused")
  <2> DEFINE lines == cart[CartOf[p]]
  <2>1. /\ pc[p] = "idle"
        /\ Chosen(lines) # {}
        /\ pc' = [pc EXCEPT ![p] = "quoting"]
        /\ items' = [items EXCEPT ![p] = lines]
        /\ withCoupon' \in {withCoupon, withCoupon \cup {p}}
        /\ UNCHANGED <<todo, want, lockVars, cartVars, couponVars, inventory,
                       released>>
    BY <1>3 DEF ReadCart
  <2>2. lines \in Lines
    BY CartOfAssumption DEF IInv, TypeOK
  <2>. HIDE DEF lines
  <2>3. TypeOK'
    BY <2>1, <2>2
    DEF IInv, TypeOK, InFlight, lockVars, cartVars, couponVars
  <2>4. RowsHeld' /\ CouponHeld' /\ ReleasedPlaced'
    BY <2>1 DEF IInv, TypeOK, RowsHeld, CouponHeld, ReleasedPlaced, Chosen,
                lockVars, couponVars
  <2>5. LinesLocked'
    BY <2>1 DEF IInv, TypeOK, LinesLocked, Chosen, lockVars
  <2>. QED
    BY <2>3, <2>4, <2>5 DEF IInv
<1>. QED
  BY <1>1, <1>2, <1>3

\* A request takes its locks one at a time, checking under each.
LEMMA LockSteps ==
  ASSUME IInv, NEW p \in Request,
         \/ \E v \in Variant : AskRow(p, v) \/ TakeRow(p, v)
         \/ RedeemCoupon(p)
  PROVE  IInv'
<1>1. ASSUME NEW v \in Variant, AskRow(p, v)
      PROVE  IInv'
  <2>1. TypeOK'
    BY <1>1 DEF IInv, TypeOK, AskRow, lockVars, cartVars, couponVars
  <2>2. RowsHeld' /\ CouponHeld' /\ ReleasedPlaced'
    BY <1>1 DEF IInv, TypeOK, RowsHeld, CouponHeld, ReleasedPlaced, AskRow,
                Chosen, lockVars, couponVars
  <2>3. LinesLocked'
    BY <1>1 DEF IInv, TypeOK, LinesLocked, AskRow, Chosen, lockVars
  <2>. QED
    BY <2>1, <2>2, <2>3 DEF IInv
<1>2. ASSUME NEW v \in Variant, TakeRow(p, v)
      PROVE  IInv'
  <2>1. /\ want[p] = v
        /\ lock[v] = NoRequest
        /\ pc[p] = "locking"
        /\ v \in Chosen(items[p])
    BY <1>2, VariantAssumption DEF TakeRow, IInv, LinesLocked
  <2>2. CASE Rollback(p, "failed")
    BY <2>1, <2>2, RollbackIInv DEF Ended
  <2>3. CASE ~Rollback(p, "failed")
    <3>1. /\ CanReserve(inventory[v], items[p][v], v \in AllowBackorder)
          /\ lock' = [lock EXCEPT ![v] = p]
          /\ todo' = [todo EXCEPT ![p] = @ \ {v}]
          /\ want' = [want EXCEPT ![p] = NoVariant]
          /\ UNCHANGED <<pc, items, withCoupon, couponLock, cartVars,
                         couponVars, inventory, released>>
      BY <1>2, <2>3 DEF TakeRow
    <3>2. TypeOK'
      BY <3>1 DEF IInv, TypeOK, cartVars, couponVars
    <3>3. RowsHeld'
      BY <2>1, <3>1 DEF IInv, TypeOK, RowsHeld, Chosen
    <3>4. LinesLocked'
      BY <2>1, <3>1, RequestAssumption DEF IInv, TypeOK, LinesLocked, Chosen
    <3>5. CouponHeld' /\ ReleasedPlaced'
      BY <3>1 DEF IInv, CouponHeld, ReleasedPlaced, couponVars
    <3>. QED
      BY <3>2, <3>3, <3>4, <3>5 DEF IInv
  <2>. QED
    BY <2>2, <2>3
<1>3. CASE RedeemCoupon(p)
  <2>1. CASE Rollback(p, "failed")
    BY <1>3, <2>1, RollbackIInv DEF RedeemCoupon, AllReserved, Ended
  <2>2. CASE ~Rollback(p, "failed")
    <3>1. /\ pc[p] = "locking" /\ p \in withCoupon
          /\ used_count < UsageLimit
          /\ couponLock' = p
          /\ UNCHANGED <<requestVars, lock, cartVars, couponVars, inventory,
                         released>>
      BY <1>3, <2>2 DEF RedeemCoupon, AllReserved
    <3>2. TypeOK'
      BY <3>1 DEF IInv, TypeOK, requestVars, cartVars, couponVars
    <3>3. RowsHeld' /\ LinesLocked' /\ ReleasedPlaced'
      BY <3>1 DEF IInv, RowsHeld, LinesLocked, ReleasedPlaced, Chosen,
                  requestVars
    <3>4. CouponHeld'
      BY <3>1 DEF CouponHeld, requestVars, couponVars
    <3>. QED
      BY <3>2, <3>3, <3>4 DEF IInv
  <2>. QED
    BY <2>1, <2>2
<1>. QED
  BY <1>1, <1>2, <1>3

\* When an order commits or gives its units back, the rows that other
\* requests hold do not change: it has no units of them.
LEMMA HeldRowsKept ==
  ASSUME IInv, NEW p \in Request, NEW v \in Variant,
         NEW q \in Request, lock[v] = q,
         \/ p # q /\ AllReserved(p)
         \/ pc[p] = "placed" /\ \A w \in Chosen(items[p]) : lock[w] = NoRequest
  PROVE  items[p][v] = 0
<1>1. items[p][v] \in Nat
  BY DEF IInv, TypeOK, Lines
<1>2. v \notin Chosen(items[p])
  BY RequestAssumption DEF IInv, TypeOK, LinesLocked, AllReserved
<1>. QED
  BY <1>1, <1>2 DEF Chosen

LEMMA CommitOrderIInv ==
  ASSUME IInv, NEW p \in Request, CommitOrder(p)
  PROVE  IInv'
<1>1. /\ pc[p] = "locking"
      /\ pc' = [pc EXCEPT ![p] = "placed"]
      /\ cart' = [cart EXCEPT ![CartOf[p]] = NoLines]
      /\ want[p] = NoVariant
      /\ UNCHANGED <<items, withCoupon, todo, want, released>>
      /\ Unlock(p)
  BY DEF CommitOrder, AllReserved
<1>2. inventory' \in [Variant -> Row]
  <2>. \A v \in Variant : inventory[v] \in Row /\ items[p][v] \in Nat
    BY DEF IInv, TypeOK, Lines
  <2>. QED
    BY RowSteps DEF CommitOrder
<1>3. TypeOK'
  <2>1. /\ pc' \in [Request -> {"idle"} \cup InFlight \cup Ended]
        /\ cart' \in [Cart -> Lines]
    BY <1>1, NoLinesType DEF IInv, TypeOK, Ended
  <2>2. /\ lock' \in [Variant -> Request \cup {NoRequest}]
        /\ couponLock' \in Request \cup {NoRequest}
    BY <1>1 DEF IInv, TypeOK, Unlock
  <2>3. usages' \subseteq Request /\ used_count' \in Nat /\ coupon' \subseteq Cart
    BY DEF IInv, TypeOK, CommitOrder
  <2>. QED
    BY <1>1, <1>2, <2>1, <2>2, <2>3 DEF IInv, TypeOK
<1>4. RowsHeld'
  <2>. SUFFICES ASSUME NEW q \in Request, NEW v \in Variant, lock'[v] = q
                PROVE  /\ pc'[q] = "locking"
                       /\ v \in Chosen(items'[q]) \ todo'[q]
                       /\ CanReserve(inventory'[v], items'[q][v],
                                     v \in AllowBackorder)
    BY DEF RowsHeld, Chosen
  <2>1. q # p /\ lock[v] = q
    BY <1>1, RequestAssumption DEF Unlock
  <2>2. items[p][v] = 0
    BY <2>1, HeldRowsKept DEF CommitOrder
  <2>3. inventory'[v] = inventory[v]
    BY <2>2, NothingOfIt DEF CommitOrder, IInv, TypeOK
  <2>. QED
    BY <1>1, <2>1, <2>3 DEF IInv, RowsHeld, TypeOK, Chosen
<1>5. LinesLocked'
  <2>. SUFFICES ASSUME NEW q \in Request
                PROVE  /\ pc'[q] \in {"quoting", "locking"}
                            => Chosen(items'[q]) # {}
                       /\ pc'[q] = "locking" =>
                            /\ todo'[q] \subseteq Chosen(items'[q])
                            /\ \A v \in Chosen(items'[q]) \ todo'[q] :
                                 lock'[v] = q
                       /\ want'[q] # NoVariant =>
                            pc'[q] = "locking" /\ want'[q] \in todo'[q]
    BY DEF LinesLocked, Chosen
  <2>1. CASE q = p
    BY <1>1, <2>1 DEF IInv, TypeOK
  <2>2. CASE q # p
    <3>1. /\ pc'[q] = pc[q]
          /\ \A v \in Variant : lock[v] = q => lock'[v] = q
      BY <1>1, <2>2 DEF IInv, TypeOK, Unlock
    <3>. QED
      BY <1>1, <3>1 DEF IInv, LinesLocked, Chosen
  <2>. QED
    BY <2>1, <2>2
<1>6. CouponHeld'
  <2>. SUFFICES ASSUME NEW q \in Request, couponLock' = q
                PROVE  /\ pc'[q] = "locking" /\ q \in withCoupon'
                       /\ used_count' < UsageLimit
    BY DEF CouponHeld
  <2>1. q # p /\ couponLock = q
    BY <1>1, RequestAssumption DEF Unlock
  <2>2. used_count' = used_count
    BY <2>1 DEF CommitOrder
  <2>. QED
    BY <1>1, <2>1, <2>2 DEF IInv, TypeOK, CouponHeld
<1>7. ReleasedPlaced'
  BY <1>1 DEF IInv, TypeOK, ReleasedPlaced
<1>. QED
  BY <1>3, <1>4, <1>5, <1>6, <1>7 DEF IInv

LEMMA ReleaseOrderIInv ==
  ASSUME IInv, NEW p \in Request, ReleaseOrder(p)
  PROVE  IInv'
<1>1. UNCHANGED <<requestVars, lockVars, cartVars, couponVars>>
  BY DEF ReleaseOrder
<1>2. TypeOK'
  <2>1. inventory' \in [Variant -> Row]
    <3>. \A v \in Variant : inventory[v] \in Row /\ items[p][v] \in Nat
      BY DEF IInv, TypeOK, Lines
    <3>. QED
      BY RowSteps DEF ReleaseOrder
  <2>2. released' \subseteq Request
    BY DEF ReleaseOrder, IInv, TypeOK
  <2>. QED
    BY <1>1, <2>1, <2>2
    DEF IInv, TypeOK, requestVars, lockVars, cartVars, couponVars
<1>3. RowsHeld'
  <2>. SUFFICES ASSUME NEW q \in Request, NEW v \in Variant, lock[v] = q
                PROVE  inventory'[v] = inventory[v]
    BY <1>1 DEF IInv, RowsHeld, Chosen, requestVars, lockVars
  <2>1. items[p][v] = 0
    BY HeldRowsKept DEF ReleaseOrder
  <2>. QED
    BY <2>1, NothingOfIt DEF ReleaseOrder, IInv, TypeOK
<1>4. LinesLocked' /\ CouponHeld'
  BY <1>1 DEF IInv, LinesLocked, CouponHeld, Chosen, requestVars, lockVars,
              couponVars
<1>5. ReleasedPlaced'
  BY <1>1 DEF IInv, ReleasedPlaced, ReleaseOrder, requestVars
<1>. QED
  BY <1>2, <1>3, <1>4, <1>5 DEF IInv

LEMMA AddToCartIInv ==
  ASSUME IInv, NEW c \in Cart, NEW v \in Variant, AddToCart(c, v)
  PROVE  IInv'
<1>1. UNCHANGED <<requestVars, lockVars, coupon, couponVars, inventory,
                  released>>
  BY DEF AddToCart
<1>2. cart' \in [Cart -> Lines]
  <2>1. cart[c] \in Lines /\ cart[c][v] + 1 \in 0 .. MaxPerItem
    BY LimitsAssumption DEF AddToCart, IInv, TypeOK, Lines
  <2>2. [cart[c] EXCEPT ![v] = @ + 1] \in Lines
    BY <2>1 DEF Lines
  <2>3. cart' = [cart EXCEPT ![c] = [cart[c] EXCEPT ![v] = @ + 1]]
    BY DEF AddToCart, IInv, TypeOK
  <2>. QED
    BY <2>2, <2>3 DEF IInv, TypeOK
<1>3. TypeOK'
  BY <1>1, <1>2 DEF IInv, TypeOK, requestVars, lockVars, couponVars
<1>4. RowsHeld' /\ LinesLocked' /\ CouponHeld' /\ ReleasedPlaced'
  BY <1>1 DEF IInv, RowsHeld, LinesLocked, CouponHeld, ReleasedPlaced, Chosen,
              requestVars, lockVars, couponVars
<1>. QED
  BY <1>3, <1>4 DEF IInv

LEMMA CouponOfCartIInv ==
  ASSUME IInv, NEW c \in Cart, ApplyCoupon(c) \/ RemoveCoupon(c)
  PROVE  IInv'
<1>1. /\ UNCHANGED <<requestVars, lockVars, cart, couponVars, inventory, released>>
      /\ coupon' \subseteq Cart
  BY DEF ApplyCoupon, RemoveCoupon, IInv, TypeOK
<1>2. TypeOK'
  BY <1>1 DEF IInv, TypeOK, requestVars, lockVars, couponVars
<1>3. RowsHeld' /\ LinesLocked' /\ CouponHeld' /\ ReleasedPlaced'
  BY <1>1 DEF IInv, RowsHeld, LinesLocked, CouponHeld, ReleasedPlaced, Chosen,
              requestVars, lockVars, couponVars
<1>. QED
  BY <1>2, <1>3 DEF IInv

LEMMA IInvStep == IInv /\ [Next]_vars => IInv'
<1>. SUFFICES ASSUME IInv, [Next]_vars PROVE IInv'
  OBVIOUS
<1>1. ASSUME NEW p \in Request, Step(p)
      PROVE  IInv'
  <2>1. CASE RefuseQuote(p)
    BY <2>1, RollbackIInv DEF RefuseQuote, Ended
  <2>. QED
    BY <1>1, <2>1, ReadSteps, LockSteps, CommitOrderIInv DEF Step
<1>2. ASSUME NEW p \in Request, DeadlockVictim(p)
      PROVE  IInv'
  <2>1. want[p] # NoVariant
    BY <1>2 DEF DeadlockVictim, Deadlocked, Waiting
  <2>2. pc[p] = "locking"
    BY <2>1 DEF IInv, LinesLocked
  <2>. QED
    BY <1>2, <2>2, RollbackIInv DEF DeadlockVictim, Ended
<1>3. ASSUME NEW p \in Request, Abort(p)
      PROVE  IInv'
  BY <1>3, RollbackIInv DEF Abort, InFlight, Ended
<1>4. CASE UNCHANGED vars
  <2>1. TypeOK'
    BY <1>4 DEF IInv, TypeOK, vars, requestVars, lockVars, cartVars, couponVars
  <2>2. RowsHeld' /\ LinesLocked' /\ CouponHeld' /\ ReleasedPlaced'
    BY <1>4 DEF IInv, RowsHeld, LinesLocked, CouponHeld, ReleasedPlaced,
                Chosen, vars, requestVars, lockVars, cartVars, couponVars
  <2>. QED
    BY <2>1, <2>2 DEF IInv
<1>. QED
  BY <1>1, <1>2, <1>3, <1>4, ReleaseOrderIInv, AddToCartIInv,
     CouponOfCartIInv DEF Next

\* What a request found under its locks holds until it commits, whatever the
\* other requests, the customers and failures do meanwhile.
THEOREM Invariance == Spec => []IInv
BY InitIInv, IInvStep, PTL DEF Spec

\* Every variable keeps its type, whatever is rolled back or aborted.
THEOREM TypeCorrect == Spec => []TypeOK
BY Invariance, PTL DEF IInv

\* A request that is over, by commit, refusal, error, deadlock or crash,
\* holds neither an inventory row nor the coupon row.
THEOREM NothingHeldAtTheEnd == Spec => []EndedHoldNothing
<1>1. IInv => EndedHoldNothing
  BY DEF IInv, RowsHeld, CouponHeld, EndedHoldNothing, Ended
<1>. QED
  BY <1>1, Invariance, PTL

-----------------------------------------------------------------------------
(* The shelf.                                                              *)

\* Committed reservations fit the shelf.
ShelfInv ==
  \A v \in Variant \ AllowBackorder :
    inventory[v].reserved <= inventory[v].available

\* A held row has room for the holder's line on top of what is reserved.
LEMMA HoldFits ==
  ASSUME NEW row \in Row, NEW n \in Nat \ {0}, CanReserve(row, n, FALSE)
  PROVE  row.reserved + n <= row.available
BY DEF Row, CanReserve, Sellable, Monus

LEMMA ShelfInvStep == IInv /\ ShelfInv /\ [Next]_vars => ShelfInv'
<1>. SUFFICES ASSUME IInv, ShelfInv, [Next]_vars,
                     NEW v \in Variant \ AllowBackorder
              PROVE  inventory'[v].reserved <= inventory'[v].available
  BY DEF ShelfInv
<1>1. ASSUME UNCHANGED inventory
      PROVE  inventory'[v].reserved <= inventory'[v].available
  BY <1>1 DEF ShelfInv
<1>2. inventory[v] \in Row /\ \A p \in Request : items[p][v] \in Nat
  BY DEF IInv, TypeOK, Lines
<1>3. ASSUME NEW p \in Request, CommitOrder(p)
      PROVE  inventory'[v].reserved <= inventory'[v].available
  <2>1. inventory'[v] = Reserve(inventory[v], items[p][v])
    BY <1>3 DEF CommitOrder
  <2>2. CASE v \in Chosen(items[p])
    <3>1. lock[v] = p
      BY <1>3, <2>2 DEF CommitOrder, AllReserved, IInv, LinesLocked
    <3>2. CanReserve(inventory[v], items[p][v], FALSE)
      BY <3>1 DEF IInv, RowsHeld, CanReserve
    <3>3. items[p][v] \in Nat \ {0}
      BY <1>2, <2>2 DEF Chosen
    <3>4. inventory[v].reserved + items[p][v] <= inventory[v].available
      BY <1>2, <3>2, <3>3, HoldFits
    <3>. QED
      BY <1>2, <2>1, <3>4 DEF Reserve, Row
  <2>3. CASE v \notin Chosen(items[p])
    <3>1. items[p][v] = 0
      BY <1>2, <2>3 DEF Chosen
    <3>. QED
      BY <1>1, <1>2, <2>1, <3>1, NothingOfIt DEF ShelfInv
  <2>. QED
    BY <2>2, <2>3
<1>4. ASSUME NEW p \in Request, ReleaseOrder(p)
      PROVE  inventory'[v].reserved <= inventory'[v].available
  <2>1. inventory'[v] = Release(inventory[v], items[p][v])
    BY <1>4 DEF ReleaseOrder
  <2>. QED
    BY <1>2, <2>1 DEF Release, Monus, Row, ShelfInv
<1>5. ASSUME NEW p \in Request,
             \/ Step(p) /\ ~CommitOrder(p)
             \/ DeadlockVictim(p)
             \/ Abort(p)
      PROVE  UNCHANGED inventory
  BY <1>5
  DEF Step, ReadCart, Quote, RefuseQuote, AskRow, TakeRow, RedeemCoupon,
      DeadlockVictim, Abort, Rollback
<1>6. ASSUME NEW c \in Cart,
             \/ \E w \in Variant : AddToCart(c, w)
             \/ ApplyCoupon(c)
             \/ RemoveCoupon(c)
      PROVE  UNCHANGED inventory
  BY <1>6 DEF AddToCart, ApplyCoupon, RemoveCoupon
<1>7. CASE UNCHANGED vars
  BY <1>1, <1>7 DEF vars
<1>. QED
  BY <1>1, <1>3, <1>4, <1>5, <1>6, <1>7 DEF Next

\* The shelf holds what is reserved and what running transactions have
\* promised on top: place_order's locks leave no room for two concurrent
\* checkouts to reserve the same unit.
THEOREM NoUnitPromisedTwice == Spec => []HoldsFitShelf
<1>1. Init => ShelfInv
  BY ShelfAssumption DEF Init, ShelfInv, FullShelf
<1>2. IInv /\ ShelfInv => HoldsFitShelf
  <2>. SUFFICES ASSUME IInv, ShelfInv, NEW v \in Variant \ AllowBackorder
                PROVE  inventory[v].reserved
                         + (IF lock[v] = NoRequest
                            THEN 0 ELSE items[lock[v]][v])
                         <= inventory[v].available
    BY DEF HoldsFitShelf
  <2>1. inventory[v] \in Row
    BY DEF IInv, TypeOK
  <2>2. CASE lock[v] = NoRequest
    BY <2>1, <2>2 DEF ShelfInv, Row
  <2>3. CASE lock[v] # NoRequest
    <3>1. lock[v] \in Request
      BY <2>3 DEF IInv, TypeOK
    <3>2. /\ items[lock[v]][v] \in Nat \ {0}
          /\ CanReserve(inventory[v], items[lock[v]][v], FALSE)
      BY <3>1 DEF IInv, TypeOK, Lines, RowsHeld, Chosen, CanReserve
    <3>. QED
      BY <2>1, <2>3, <3>2, HoldFits
  <2>. QED
    BY <2>2, <2>3
<1>. QED
  BY <1>1, <1>2, Invariance, ShelfInvStep, PTL DEF Spec

-----------------------------------------------------------------------------
(* The reservations and the orders they belong to.                         *)

\* The lines of a variant, and the orders that hold reserved units.
LinesOf(v) == [p \in Request |-> items[p][v]]
Holding == PlacedOrders \ released

\* A step that places nothing and gives nothing back counts the same lines.
LEMMA ReservationsKept ==
  ASSUME IInv, ReservationsMatchOrders, UNCHANGED <<inventory, released>>,
         \A q \in Request :
           \/ pc'[q] = pc[q] /\ items'[q] = items[q]
           \/ pc[q] # "placed" /\ pc'[q] # "placed"
  PROVE  ReservationsMatchOrders'
<1>. SUFFICES ASSUME NEW v \in Variant
              PROVE  inventory'[v].reserved = TotalOver(LinesOf(v)', Holding')
  BY DEF ReservationsMatchOrders, LinesOf, Holding, PlacedOrders
<1>1. Holding' = Holding /\ Holding \subseteq Request
  BY DEF Holding, PlacedOrders
<1>2. \A p \in Holding : LinesOf(v)'[p] = LinesOf(v)[p]
  BY DEF Holding, PlacedOrders, LinesOf
<1>3. TotalOver(LinesOf(v)', Holding) = TotalOver(LinesOf(v), Holding)
  BY <1>2, TotalOfSame
<1>. QED
  BY <1>1, <1>3 DEF ReservationsMatchOrders, LinesOf, Holding

\* A step of a request that does not commit, and what ends one from outside,
\* leaves every request alone but one, which was not placed and is not now.
LEMMA OtherSteps ==
  ASSUME IInv, NEW p \in Request,
         \/ Step(p) /\ ~CommitOrder(p)
         \/ DeadlockVictim(p)
         \/ Abort(p)
  PROVE  \A q \in Request :
           \/ pc'[q] = pc[q] /\ items'[q] = items[q]
           \/ pc[q] # "placed" /\ pc'[q] # "placed"
<1>1. pc[p] # "placed"
  BY VariantAssumption
  DEF Step, ReadCart, Quote, RefuseQuote, AskRow, TakeRow, RedeemCoupon,
      AllReserved, DeadlockVictim, Deadlocked, Waiting, Abort, InFlight, IInv,
      LinesLocked
<1>2. ASSUME NEW outcome \in Ended \ {"placed"}, Rollback(p, outcome)
      PROVE  /\ pc'[p] # "placed"
             /\ \A q \in Request \ {p} : pc'[q] = pc[q] /\ items'[q] = items[q]
  BY <1>2 DEF Rollback, IInv, TypeOK
<1>3. ASSUME Step(p), ~CommitOrder(p),
             ~\E outcome \in Ended \ {"placed"} : Rollback(p, outcome)
      PROVE  /\ pc'[p] # "placed"
             /\ \A q \in Request \ {p} : pc'[q] = pc[q] /\ items'[q] = items[q]
  BY <1>1, <1>3
  DEF Step, ReadCart, Quote, RefuseQuote, AskRow, TakeRow, RedeemCoupon,
      IInv, TypeOK, Ended, requestVars
<1>4. DeadlockVictim(p) \/ Abort(p)
        => \E outcome \in Ended \ {"placed"} : Rollback(p, outcome)
  BY DEF DeadlockVictim, Abort, Ended
<1>5. /\ pc'[p] # "placed"
      /\ \A q \in Request \ {p} : pc'[q] = pc[q] /\ items'[q] = items[q]
  BY <1>2, <1>3, <1>4
<1>. QED
  BY <1>1, <1>5

\* What a commit reserves is the lines of the order it places.
LEMMA CommitReservations ==
  ASSUME IInv, ReservationsMatchOrders, NEW p \in Request, CommitOrder(p)
  PROVE  ReservationsMatchOrders'
<1>. SUFFICES ASSUME NEW v \in Variant
              PROVE  inventory'[v].reserved = TotalOver(LinesOf(v)', Holding')
  BY DEF ReservationsMatchOrders, LinesOf, Holding, PlacedOrders
<1>1. /\ pc[p] = "locking" /\ pc' = [pc EXCEPT ![p] = "placed"]
      /\ UNCHANGED <<items, released>> /\ p \notin released
  BY DEF CommitOrder, AllReserved, IInv, ReleasedPlaced
<1>2. Holding' = Holding \cup {p} /\ p \notin Holding /\ Holding \subseteq Request
  BY <1>1 DEF IInv, TypeOK, Holding, PlacedOrders
<1>3. LinesOf(v)' = LinesOf(v)
  BY <1>1 DEF LinesOf
<1>4. /\ \A q \in Request : LinesOf(v)[q] = items[q][v]
      /\ \A q \in Request : items[q][v] \in Nat
      /\ inventory[v] \in Row
  BY DEF LinesOf, IInv, TypeOK, Lines
<1>5. inventory'[v].reserved = inventory[v].reserved + items[p][v]
  BY <1>4 DEF CommitOrder, Reserve, Row
<1>6. inventory[v].reserved = TotalOver(LinesOf(v), Holding)
  BY DEF ReservationsMatchOrders, LinesOf, Holding
<1>7. TotalOver(LinesOf(v), Holding \cup {p})
        = TotalOver(LinesOf(v), Holding) + LinesOf(v)[p]
  <2>1. IsFiniteSet(Holding)
    BY <1>2, RequestAssumption, FS_Subset
  <2>2. \A q \in Holding \cup {p} : LinesOf(v)[q] \in Nat
    BY <1>2, <1>4
  <2>. QED
    BY <1>2, <2>1, <2>2, TotalOfOneMore
<1>. QED
  BY <1>2, <1>3, <1>4, <1>5, <1>6, <1>7

\* What a failed payment gives back is the lines of its order, all of which
\* are still reserved.
LEMMA ReleaseReservations ==
  ASSUME IInv, ReservationsMatchOrders, NEW p \in Request, ReleaseOrder(p)
  PROVE  ReservationsMatchOrders'
<1>. SUFFICES ASSUME NEW v \in Variant
              PROVE  inventory'[v].reserved = TotalOver(LinesOf(v)', Holding')
  BY DEF ReservationsMatchOrders, LinesOf, Holding, PlacedOrders
<1>1. /\ pc[p] = "placed" /\ p \notin released
      /\ released' = released \cup {p} /\ UNCHANGED <<pc, items>>
  BY DEF ReleaseOrder, requestVars
<1>2. Holding' = Holding \ {p} /\ p \in Holding /\ Holding \subseteq Request
  BY <1>1 DEF Holding, PlacedOrders
<1>3. LinesOf(v)' = LinesOf(v)
  BY <1>1 DEF LinesOf
<1>4. /\ \A q \in Request : LinesOf(v)[q] = items[q][v]
      /\ \A q \in Request : items[q][v] \in Nat
      /\ inventory[v] \in Row
  BY DEF LinesOf, IInv, TypeOK, Lines
<1>5. inventory'[v].reserved = Monus(inventory[v].reserved, items[p][v])
  BY <1>4 DEF ReleaseOrder, Release, Row
<1>6. inventory[v].reserved = TotalOver(LinesOf(v), Holding)
  BY DEF ReservationsMatchOrders, LinesOf, Holding
<1>7. /\ TotalOver(LinesOf(v), Holding \ {p})
           = TotalOver(LinesOf(v), Holding) - LinesOf(v)[p]
      /\ TotalOver(LinesOf(v), Holding) >= LinesOf(v)[p]
  <2>1. IsFiniteSet(Holding)
    BY <1>2, RequestAssumption, FS_Subset
  <2>2. \A q \in Holding : LinesOf(v)[q] \in Nat
    BY <1>2, <1>4
  <2>. QED
    BY <1>2, <2>1, <2>2, TotalOfOneLess
<1>8. Monus(inventory[v].reserved, items[p][v])
        = TotalOver(LinesOf(v), Holding \ {p})
  <2>1. inventory[v].reserved \in Nat /\ items[p][v] \in Nat
        /\ LinesOf(v)[p] = items[p][v]
    BY <1>4 DEF Row
  <2>. QED
    BY <1>6, <1>7, <2>1 DEF Monus
<1>. QED
  BY <1>2, <1>3, <1>5, <1>8

LEMMA ReservationsStep ==
  IInv /\ ReservationsMatchOrders /\ [Next]_vars => ReservationsMatchOrders'
<1>. SUFFICES ASSUME IInv, ReservationsMatchOrders, [Next]_vars
              PROVE  ReservationsMatchOrders'
  OBVIOUS
<1>1. ASSUME NEW p \in Request,
             \/ Step(p) /\ ~CommitOrder(p)
             \/ DeadlockVictim(p)
             \/ Abort(p)
      PROVE  ReservationsMatchOrders'
  <2>1. UNCHANGED <<inventory, released>>
    BY <1>1
    DEF Step, ReadCart, Quote, RefuseQuote, AskRow, TakeRow, RedeemCoupon,
        DeadlockVictim, Abort, Rollback
  <2>2. \A q \in Request :
          \/ pc'[q] = pc[q] /\ items'[q] = items[q]
          \/ pc[q] # "placed" /\ pc'[q] # "placed"
    BY <1>1, OtherSteps
  <2>. QED
    BY <2>1, <2>2, ReservationsKept
<1>2. ASSUME NEW c \in Cart,
             \/ \E v \in Variant : AddToCart(c, v)
             \/ ApplyCoupon(c)
             \/ RemoveCoupon(c)
      PROVE  ReservationsMatchOrders'
  <2>1. UNCHANGED <<requestVars, inventory, released>>
    BY <1>2 DEF AddToCart, ApplyCoupon, RemoveCoupon
  <2>. QED
    BY <2>1, ReservationsKept DEF requestVars
<1>3. CASE UNCHANGED vars
  BY <1>3, ReservationsKept DEF vars, requestVars
<1>. QED
  BY <1>1, <1>2, <1>3, CommitReservations, ReleaseReservations DEF Next

\* The reserved figure is exactly the lines of the orders that were placed and
\* have not given their units back, whatever deadlock, refusal or crash cut a
\* checkout short halfway through its rows: place_order leaves no reservation
\* of its own behind and loses none of another's.
THEOREM ReservedIsWhatOrdersHold == Spec => []ReservationsMatchOrders
<1>1. Init => ReservationsMatchOrders
  <2>. SUFFICES ASSUME Init, NEW v \in Variant
                PROVE  inventory[v].reserved = TotalOver(LinesOf(v), Holding)
    BY DEF ReservationsMatchOrders, LinesOf, Holding
  <2>1. Holding = {} /\ inventory[v].reserved = 0
    BY DEF Init, Holding, PlacedOrders, FullShelf
  <2>. QED
    BY <2>1, TotalOfNone
<1>. QED
  BY <1>1, Invariance, ReservationsStep, PTL DEF Spec

-----------------------------------------------------------------------------
(* The refinement.                                                         *)

\* A checkout that commits is one step of O!PlaceOrder: nobody has placed
\* that order, each line can still be reserved and the coupon has a use left.
LEMMA CommitImplements ==
  ASSUME IInv, NEW p \in Request, CommitOrder(p)
  PROVE  \E b \in BOOLEAN : O!PlaceOrder(p, items[p], "online", b)
<1>1. /\ AllReserved(p)
      /\ pc' = [pc EXCEPT ![p] = "placed"]
      /\ UNCHANGED <<items, withCoupon, released>>
  BY DEF CommitOrder
<1>2. pc[p] = "locking" /\ todo[p] = {}
  BY <1>1 DEF AllReserved
<1>3. p \notin released
  BY <1>2 DEF IInv, ReleasedPlaced
<1>4. \E v \in Variant : items[p][v] > 0
  BY <1>2 DEF IInv, LinesLocked, Chosen
<1>5. \A v \in Variant :
        O!CanReserve(inventory[v], items[p][v], v \in AllowBackorder)
  <2>. SUFFICES ASSUME NEW v \in Variant
                PROVE  CanReserve(inventory[v], items[p][v],
                                  v \in AllowBackorder)
    BY DEF CanReserve, O!CanReserve, Sellable, O!Sellable, Monus, O!Monus
  <2>1. CASE v \in Chosen(items[p])
    BY <1>2, <2>1 DEF IInv, LinesLocked, RowsHeld
  <2>2. CASE v \notin Chosen(items[p])
    <3>1. items[p][v] = 0 /\ inventory[v] \in Row
      BY <2>2 DEF IInv, TypeOK, Lines, Chosen
    <3>. QED
      BY <3>1, NothingOfIt DEF CanReserve
  <2>. QED
    BY <2>1, <2>2
<1>6. O!ReserveStock(items[p])
  BY DEF CommitOrder, O!ReserveStock, Reserve, O!Reserve
<1>7. IF p \in withCoupon THEN O!Redeem(p) ELSE UNCHANGED O!couponVars
  <2>1. CASE p \in withCoupon
    <3>1. used_count < UsageLimit
      BY <2>1 DEF CommitOrder, IInv, CouponHeld
    <3>. QED
      BY <2>1, <3>1 DEF CommitOrder, O!Redeem
  <2>2. CASE p \notin withCoupon
    BY <2>2 DEF CommitOrder, O!couponVars
  <2>. QED
    BY <2>1, <2>2
<1>8. /\ \A q \in Request : pc'[q] = IF q = p THEN "placed" ELSE pc[q]
      /\ released' = released /\ items' = items
  BY <1>1 DEF IInv, TypeOK
<1>9. CASE p \in withCoupon
  <2>. O!PlaceOrder(p, items[p], "online", TRUE)
    BY <1>2, <1>3, <1>4, <1>5, <1>6, <1>7, <1>8, <1>9
    DEF O!PlaceOrder, O!Placed
  <2>. QED
    OBVIOUS
<1>10. CASE p \notin withCoupon
  <2>. O!PlaceOrder(p, items[p], "online", FALSE)
    BY <1>2, <1>3, <1>4, <1>5, <1>6, <1>7, <1>8, <1>10
    DEF O!PlaceOrder, O!Placed
  <2>. QED
    OBVIOUS
<1>. QED
  BY <1>9, <1>10

\* A release is one step of O!MarkPaymentFailed.
LEMMA ReleaseImplements ==
  ASSUME IInv, NEW p \in Request, ReleaseOrder(p)
  PROVE  O!MarkPaymentFailed(p)
<1>1. /\ pc[p] = "placed"
      /\ p \notin released
      /\ released' = released \cup {p}
      /\ UNCHANGED <<pc, items, usages, used_count>>
  BY DEF ReleaseOrder, requestVars, couponVars
<1>2. O!ReleaseStock(p)
  BY <1>1 DEF ReleaseOrder, O!ReleaseStock, Release, O!Release, Monus, O!Monus
<1>3. [q \in Request |-> IF q \in released' THEN "failed" ELSE "pending"]
        = [[q \in Request |-> IF q \in released THEN "failed" ELSE "pending"]
             EXCEPT ![p] = "failed"]
  BY <1>1
<1>. QED
  BY <1>1, <1>2, <1>3 DEF O!MarkPaymentFailed, O!Placed, O!couponVars

\* Every other step is invisible to module Orders.
LEMMA Stutters ==
  ASSUME IInv, UNCHANGED <<inventory, couponVars, released>>,
         \A q \in Request :
           \/ pc'[q] = pc[q] /\ items'[q] = items[q]
           \/ pc[q] # "placed" /\ pc'[q] # "placed"
  PROVE  UNCHANGED O!vars
<1>1. \A q \in Request :
        /\ (pc'[q] = "placed") = (pc[q] = "placed")
        /\ pc[q] = "placed" => items'[q] = items[q]
  OBVIOUS
<1>. QED
  BY <1>1 DEF couponVars, O!vars, O!orderVars, O!stockVars, O!couponVars,
              O!requestVars

\* place_order with its unlocked reads, row locks, deadlocks and crashes
\* implements the atomic placement of module Orders.
THEOREM CheckoutImplementsOrders == Spec => Implements
<1>1. Init => O!Init
  BY DEF Init, O!Init, NoLines, FullShelf, O!FullShelf
<1>2. ASSUME IInv, [Next]_vars
      PROVE  [O!Next]_(O!vars)
  <2>1. ASSUME NEW p \in Request, CommitOrder(p)
        PROVE  O!Next
    <3>1. items[p] \in Lines
      BY <1>2 DEF IInv, TypeOK
    <3>2. \E b \in BOOLEAN : O!PlaceOrder(p, items[p], "online", b)
      BY <1>2, <2>1, CommitImplements
    <3>. QED
      BY <3>1, <3>2 DEF O!Next
  <2>2. ASSUME NEW p \in Request, ReleaseOrder(p)
        PROVE  O!Next
    BY <1>2, <2>2, ReleaseImplements DEF O!Next
  <2>3. ASSUME NEW p \in Request,
               \/ Step(p) /\ ~CommitOrder(p)
               \/ DeadlockVictim(p)
               \/ Abort(p)
        PROVE  UNCHANGED O!vars
    <3>1. UNCHANGED <<inventory, couponVars, released>>
      BY <2>3
      DEF Step, ReadCart, Quote, RefuseQuote, AskRow, TakeRow, RedeemCoupon,
          DeadlockVictim, Abort, Rollback
    <3>. QED
      BY <1>2, <2>3, <3>1, OtherSteps, Stutters
  <2>4. ASSUME NEW c \in Cart,
               \/ \E v \in Variant : AddToCart(c, v)
               \/ ApplyCoupon(c)
               \/ RemoveCoupon(c)
        PROVE  UNCHANGED O!vars
    <3>1. UNCHANGED <<requestVars, couponVars, inventory, released>>
      BY <2>4 DEF AddToCart, ApplyCoupon, RemoveCoupon
    <3>. QED
      BY <1>2, <3>1, Stutters DEF requestVars
  <2>5. CASE UNCHANGED vars
    BY <1>2, <2>5, Stutters DEF vars, requestVars
  <2>. QED
    BY <1>2, <2>1, <2>2, <2>3, <2>4, <2>5 DEF Next
<1>. QED
  BY <1>1, <1>2, Invariance, PTL DEF Spec, Implements, O!Spec

-----------------------------------------------------------------------------
(* The limit of each customer.  It is checked at the quote and not again    *)
(* under the lock, so all that keeps it is that nobody of the same customer *)
(* redeems in between.                                                      *)

\* No two checkouts of one customer run at the same time.
OneAtATime ==
  \A p, q \in Request :
    pc[p] \in InFlight /\ pc[q] \in InFlight /\ CartOf[p] = CartOf[q] => p = q

UsesOf(c) == usages \cap RequestsOf(c)

\* A quoted checkout still finds the customer below the limit.
LimitInv ==
  /\ \A c \in Cart : Cardinality(UsesOf(c)) <= UsageLimitPerUser
  /\ \A p \in Request :
       pc[p] = "locking" /\ p \in withCoupon =>
         Cardinality(UsesOf(CartOf[p])) < UsageLimitPerUser

LEMMA UsesAreFew ==
  ASSUME IInv, NEW c \in Cart
  PROVE  IsFiniteSet(UsesOf(c)) /\ Cardinality(UsesOf(c)) \in Nat
<1>1. UsesOf(c) \subseteq Request
  BY DEF UsesOf, RequestsOf
<1>. QED
  BY <1>1, RequestAssumption, FS_Subset, FS_CardinalityType

LEMMA LimitStep ==
  IInv /\ LimitInv /\ OneAtATime /\ [Next]_vars => LimitInv'
<1>. SUFFICES ASSUME IInv, LimitInv, OneAtATime, [Next]_vars
              PROVE  LimitInv'
  OBVIOUS
<1>1. ASSUME usages' = usages,
             \A p \in Request : pc'[p] = "locking" /\ p \in withCoupon' =>
               \/ pc[p] = "locking" /\ p \in withCoupon
               \/ CouponValid(CartOf[p])
      PROVE  LimitInv'
  <2>1. \A c \in Cart : UsesOf(c)' = UsesOf(c)
    BY <1>1 DEF UsesOf
  <2>. QED
    BY <1>1, <2>1, CartOfAssumption DEF LimitInv, CouponValid, UsesOf
<1>2. ASSUME NEW p \in Request, CommitOrder(p)
      PROVE  LimitInv'
  <2>1. /\ pc[p] = "locking" /\ pc' = [pc EXCEPT ![p] = "placed"]
        /\ withCoupon' = withCoupon
    BY <1>2 DEF CommitOrder, AllReserved
  <2>2. CASE p \notin withCoupon
    BY <1>1, <1>2, <2>1, <2>2 DEF CommitOrder, IInv, TypeOK
  <2>3. CASE p \in withCoupon
    <3>1. usages' = usages \cup {p} /\ CartOf[p] \in Cart
      BY <1>2, <2>3, CartOfAssumption DEF CommitOrder
    <3>2. \A c \in Cart \ {CartOf[p]} : UsesOf(c)' = UsesOf(c)
      BY <3>1 DEF UsesOf, RequestsOf
    <3>3. UsesOf(CartOf[p])' = UsesOf(CartOf[p]) \cup {p}
      BY <3>1 DEF UsesOf, RequestsOf
    <3>4. Cardinality(UsesOf(CartOf[p])') <= Cardinality(UsesOf(CartOf[p])) + 1
      <4>1. IsFiniteSet(UsesOf(CartOf[p])) /\ Cardinality(UsesOf(CartOf[p])) \in Nat
        BY <3>1, UsesAreFew
      <4>2. Cardinality(UsesOf(CartOf[p]) \cup {p})
              = IF p \in UsesOf(CartOf[p]) THEN Cardinality(UsesOf(CartOf[p]))
                ELSE Cardinality(UsesOf(CartOf[p])) + 1
        BY <4>1, FS_AddElement
      <4>. QED
        BY <3>3, <4>1, <4>2
    <3>5. Cardinality(UsesOf(CartOf[p])') <= UsageLimitPerUser
      <4>1. Cardinality(UsesOf(CartOf[p])) < UsageLimitPerUser
        BY <2>1, <2>3 DEF LimitInv
      <4>2. IsFiniteSet(UsesOf(CartOf[p])')
        BY <3>1, <3>3, UsesAreFew, FS_AddElement
      <4>. QED
        BY <3>1, <3>4, <4>1, <4>2, UsesAreFew, FS_CardinalityType, LimitsAssumption
    <3>6. ASSUME NEW q \in Request, pc'[q] = "locking"
          PROVE  CartOf[q] # CartOf[p] /\ pc[q] = "locking"
      BY <2>1, <3>6 DEF OneAtATime, InFlight, IInv, TypeOK
    <3>. QED
      BY <2>1, <3>1, <3>2, <3>5, <3>6, CartOfAssumption DEF LimitInv
  <2>. QED
    BY <2>2, <2>3
<1>3. ASSUME NEW p \in Request,
             \/ Step(p) /\ ~CommitOrder(p)
             \/ DeadlockVictim(p)
             \/ Abort(p)
      PROVE  LimitInv'
  <2>1. usages' = usages
    BY <1>3
    DEF Step, ReadCart, Quote, RefuseQuote, AskRow, TakeRow, RedeemCoupon,
        DeadlockVictim, Abort, Rollback, couponVars
  <2>2. CASE \E outcome \in Ended : Rollback(p, outcome)
    BY <1>1, <2>1, <2>2 DEF Rollback, Ended, IInv, TypeOK
  <2>3. CASE ReadCart(p)
    BY <1>1, <2>1, <2>2, <2>3 DEF ReadCart, Ended, IInv, TypeOK
  <2>4. CASE Quote(p)
    BY <1>1, <2>1, <2>4 DEF Quote, IInv, TypeOK
  <2>5. CASE \E v \in Variant : AskRow(p, v)
    BY <1>1, <2>1, <2>5 DEF AskRow
  <2>6. CASE \E v \in Variant : TakeRow(p, v)
    BY <1>1, <2>1, <2>2, <2>6 DEF TakeRow, Ended
  <2>7. CASE RedeemCoupon(p)
    BY <1>1, <2>1, <2>2, <2>7 DEF RedeemCoupon, requestVars, Ended
  <2>8. DeadlockVictim(p) \/ Abort(p) \/ RefuseQuote(p)
          => \E outcome \in Ended : Rollback(p, outcome)
    BY DEF DeadlockVictim, Abort, RefuseQuote, Ended
  <2>. QED
    BY <1>3, <2>2, <2>3, <2>4, <2>5, <2>6, <2>7, <2>8 DEF Step
<1>4. ASSUME NEW p \in Request, ReleaseOrder(p)
      PROVE  LimitInv'
  BY <1>1, <1>4 DEF ReleaseOrder, requestVars, couponVars
<1>5. ASSUME NEW c \in Cart,
             \/ \E v \in Variant : AddToCart(c, v)
             \/ ApplyCoupon(c)
             \/ RemoveCoupon(c)
      PROVE  LimitInv'
  <2>1. UNCHANGED <<requestVars, couponVars>>
    BY <1>5 DEF AddToCart, ApplyCoupon, RemoveCoupon
  <2>. QED
    BY <1>1, <2>1 DEF requestVars, couponVars
<1>6. CASE UNCHANGED vars
  BY <1>1, <1>6 DEF vars, requestVars, couponVars
<1>. QED
  BY <1>2, <1>3, <1>4, <1>5, <1>6 DEF Next

\* Where the checkouts of a customer never overlap the limit of the coupon for
\* each customer holds, so concurrent submits are its only way past
\* (orders/tests/test_orders.py:181; coupons/services.py:79 checks the
\* limit of the coupon alone).
THEOREM LimitHoldsOneAtATime ==
  Spec /\ []OneAtATime => []PerUserLimitEnforced
<1>1. Init => LimitInv
  <2>. SUFFICES ASSUME Init PROVE LimitInv
    OBVIOUS
  <2>1. \A c \in Cart : UsesOf(c) = {}
    BY DEF Init, UsesOf
  <2>2. \A p \in Request : pc[p] # "locking"
    BY DEF Init
  <2>. QED
    BY <2>1, <2>2, FS_EmptySet, LimitsAssumption DEF LimitInv
<1>2. LimitInv => PerUserLimitEnforced
  BY CartOfAssumption DEF LimitInv, PerUserLimitEnforced, UsesOf, Mine
<1>. QED
  BY <1>1, <1>2, Invariance, LimitStep, PTL DEF Spec
-----------------------------------------------------------------------------
(* The pages of the checkout.                                              *)

\* An address other than the one then chosen is accounted for.
Moved(then, now, since) ==
  now \notin {then, Nothing} => since \cap {"choice", "overlap"} # {}

\* TenderIn, with the rates there are given.
TenderAt(session, r) ==
  LET t == IF session.tender = Nothing THEN TenderOf[session.nation]
                                       ELSE session.tender
  IN  IF t \in r THEN t ELSE BaseTender

\* What a page shows is what a session, the book, the rates and the cart say,
\* or what came between is noted.
PageTells(page, since, session, w, r, u) ==
  /\ page.place \in Place
  /\ Moved(page.place, session.address, since)
  /\ w[page.place] \notin {page.wording, Gone} => "edit" \in since
  /\ TenderAt(session, r) # page.tender => since \cap {"switch", "rate", "overlap"} # {}
  /\ u # page.units => "cart" \in since

\* So is what an order has read, with its currency and units to be.
OrderTells(page, order, tender, u) ==
  /\ order.place # page.place => order.since \cap {"choice", "overlap"} # {}
  /\ order.place = page.place /\ order.wording # page.wording => "edit" \in order.since
  /\ tender # page.tender => order.since \cap {"switch", "rate", "overlap"} # {}
  /\ u # page.units => "cart" \in order.since

\* And what a request for a page has loaded.
SessionTells(session, since, now) ==
  /\ Moved(session.address, now.address, since)
  /\ now.tender # session.tender \/ now.nation # session.nation
       => since \cap {"switch", "overlap"} # {}

CallTells(k, session, w, r, u) ==
  /\ k.at = "showing" => SessionTells(k.session, k.read.since, session)
  /\ k.at = "posted" => PageTells(k.from, k.read.since, k.session, w, r, u)
  /\ k.at = "found" /\ k.from # BlankPage =>
       OrderTells(k.from, k.read, TenderAt(k.session, r), u)
  /\ k.at \in {"placing", "answering"} /\ k.from # BlankPage =>
       OrderTells(k.from, k.read, k.read.tender, k.read.units)
  /\ k.at = "answering" => k.from # BlankPage
  /\ k.at = "placing" /\ ~k.crossed => k.read.units = u
  /\ k.at \in {"placing", "answering"} => k.read.units > 0

ScreensTell(screens, session, w, r, u) ==
  /\ screens \in [Screen -> PageData]
  /\ \A s \in Screen : screens[s] # BlankPage =>
       PageTells(screens[s], screens[s].since, session, w, r, u)

CallsTell(calls, session, w, r, u) ==
  /\ calls \in [Call -> CallData]
  /\ \A c \in Call : CallTells(calls[c], session, w, r, u)

DataTyped ==
  /\ stored \in SessionData /\ wording \in [Place -> Gone .. MaxWording]
  /\ rated \subseteq Tender /\ units \in 0 .. UnitLimit

PagesInv ==
  /\ DataTyped /\ units = due
  /\ ScreensTell(screen, stored, wording, rated, units)
  /\ CallsTell(call, stored, wording, rated, units)

\* A step notes what it changes.
Told(happenings) ==
  /\ Moved(stored.address, stored'.address, happenings)
  /\ stored'.tender # stored.tender \/ stored'.nation # stored.nation
       => happenings \cap {"switch", "overlap"} # {}
  /\ \A p \in Place : /\ wording'[p] \notin {wording[p], Gone} => "edit" \in happenings
                      /\ wording[p] = Gone => wording'[p] = Gone
  /\ rated' # rated => "rate" \in happenings
  /\ units' # units => "cart" \in happenings

LEMMA IdleTells ==
  /\ BlankPage \in PageData /\ IdleCall \in CallData /\ IdleCall.at = "idle" /\ BlankPage.units = 0
  /\ IdleCall.session \in SessionData /\ IdleCall.from = BlankPage /\ IdleCall.read = BlankPage
  /\ \A session, w, r, u : CallTells(IdleCall, session, w, r, u)
<1>1. BlankPage \in PageData /\ BlankPage.units = 0
  BY PagesAssumption DEF BlankPage, PageData
<1>2. /\ IdleCall.at = "idle" /\ IdleCall.session \in SessionData
      /\ IdleCall.from = BlankPage /\ IdleCall.read = BlankPage
  BY PagesAssumption DEF IdleCall, SessionData
<1>3. IdleCall \in CallData
  <2>. DEFINE session == [address |-> Nothing, nation |-> HomeNation, tender |-> Nothing]
  <2>1. session \in SessionData
    BY PagesAssumption DEF SessionData
  <2>2. IdleCall = [at |-> "idle", session |-> session, window |-> Nothing,
                from |-> BlankPage, read |-> BlankPage, crossed |-> FALSE]
    BY DEF IdleCall
  <2>. HIDE DEF session
  <2>. QED
    BY <1>1, <2>1, <2>2 DEF CallData, CallAt
<1>. QED
  BY <1>1, <1>2, <1>3 DEF CallTells

\* A page goes on telling, with what happens noted.
LEMMA PageStays ==
  ASSUME NEW page, NEW since, NEW happenings, Told(happenings),
         PageTells(page, since, stored, wording, rated, units)
  PROVE  PageTells(page, since \cup happenings, stored', wording', rated', units')
<1>1. Moved(page.place, stored'.address, since \cup happenings)
  BY DEF PageTells, Told, Moved
<1>2. TenderAt(stored', rated') # page.tender =>
        (since \cup happenings) \cap {"switch", "rate", "overlap"} # {}
  BY DEF PageTells, Told, TenderAt
<1>. QED
  BY <1>1, <1>2 DEF PageTells, Told

LEMMA NotedTyped ==
  ASSUME NEW k \in CallData, NEW happenings \in SUBSET Happening
  PROVE  LET noted == Noted(k, happenings)
         IN  /\ noted \in CallData
             /\ noted.at = k.at /\ noted.session = k.session /\ noted.from = k.from
             /\ noted.read \in PageData
             /\ noted.read.since = k.read.since \cup (happenings \cap Hears(k.at))
             /\ noted.read.place = k.read.place /\ noted.read.wording = k.read.wording
             /\ noted.read.tender = k.read.tender /\ noted.read.units = k.read.units
             /\ noted.crossed = (k.crossed \/ (k.at = "placing" /\ "cart" \in happenings))
BY DEF Noted, CallData, PageData

\* So does a request.
LEMMA CallStays ==
  ASSUME NEW k \in CallData, NEW happenings \in SUBSET Happening, Told(happenings),
         CallTells(k, stored, wording, rated, units)
  PROVE  CallTells(Noted(k, happenings), stored', wording', rated', units')
<1>. DEFINE since == k.read.since \cup (happenings \cap Hears(k.at))
<1>1. PICK noted :
      /\ noted = Noted(k, happenings)
      /\ noted.at = k.at /\ noted.session = k.session /\ noted.from = k.from
      /\ noted.read.since = since
      /\ noted.read.place = k.read.place /\ noted.read.wording = k.read.wording
      /\ noted.read.tender = k.read.tender /\ noted.read.units = k.read.units
      /\ noted.crossed = (k.crossed \/ (k.at = "placing" /\ "cart" \in happenings))
  BY NotedTyped
<1>. SUFFICES CallTells(noted, stored', wording', rated', units')
  BY <1>1
<1>2. CASE k.at = "showing"
  <2>1. since = k.read.since \cup happenings
    BY <1>2 DEF Hears
  <2>. HIDE DEF since
  <2>2. SessionTells(k.session, since, stored')
    BY <1>2, <2>1 DEF CallTells, SessionTells, Told, Moved
  <2>. QED
    BY <1>1, <1>2, <2>2 DEF CallTells
<1>3. CASE k.at = "posted"
  <2>1. /\ k.read.since \subseteq since
        /\ \A h \in {"edit", "rate", "cart"} : h \in happenings => h \in since
    BY <1>3 DEF Hears
  <2>. HIDE DEF since
  <2>2. PageTells(k.from, k.read.since, k.session, wording, rated, units)
    BY <1>3 DEF CallTells
  <2>3. TenderAt(k.session, rated') # k.from.tender =>
          since \cap {"switch", "rate", "overlap"} # {}
    BY <2>1, <2>2 DEF PageTells, Told
  <2>4. PageTells(k.from, since, k.session, wording', rated', units')
    BY <2>1, <2>2, <2>3 DEF PageTells, Told, Moved
  <2>. QED
    BY <1>1, <1>3, <2>4 DEF CallTells
<1>4. CASE k.at = "found"
  <2>1. /\ k.read.since \subseteq since
        /\ \A h \in {"rate", "cart"} : h \in happenings => h \in since
    BY <1>4 DEF Hears
  <2>. HIDE DEF since
  <2>2. ASSUME k.from # BlankPage
        PROVE  OrderTells(k.from, noted.read, TenderAt(k.session, rated'), units')
    <3>1. OrderTells(k.from, k.read, TenderAt(k.session, rated), units)
      BY <1>4, <2>2 DEF CallTells
    <3>2. TenderAt(k.session, rated') # k.from.tender =>
            since \cap {"switch", "rate", "overlap"} # {}
      BY <2>1, <3>1 DEF OrderTells, Told
    <3>. QED
      BY <1>1, <2>1, <3>1, <3>2 DEF OrderTells, Told
  <2>. QED
    BY <1>1, <1>4, <2>2 DEF CallTells
<1>5. CASE k.at \in {"placing", "answering"}
  <2>1. since = k.read.since
    BY <1>5 DEF Hears
  <2>. HIDE DEF since
  <2>2. k.from # BlankPage => OrderTells(k.from, noted.read, noted.read.tender, noted.read.units)
    BY <1>1, <1>5, <2>1 DEF CallTells, OrderTells
  <2>3. k.at = "placing" /\ ~noted.crossed => k.read.units = units'
    BY <1>1 DEF CallTells, Told
  <2>. QED
    BY <1>1, <1>5, <2>2, <2>3 DEF CallTells
<1>6. CASE k.at \in {"idle", "saving"}
  BY <1>1, <1>6 DEF CallTells
<1>. QED
  BY <1>2, <1>3, <1>4, <1>5, <1>6 DEF CallData, CallAt

\* Something happens, and everyone is told.
LEMMA HappenStep ==
  ASSUME PagesInv, NEW happenings \in SUBSET Happening, Told(happenings),
         NEW calls, CallsTell(calls, stored, wording, rated, units),
         Happen(happenings, calls), DataTyped', (units = due)'
  PROVE  PagesInv'
<1>1. ScreensTell(screen', stored', wording', rated', units')
  <2>1. screen \in [Screen -> PageData]
    BY DEF PagesInv, ScreensTell
  <2>2. ASSUME NEW s \in Screen
        PROVE  /\ screen'[s] \in PageData
               /\ screen'[s] # BlankPage =>
                    PageTells(screen'[s], screen'[s].since, stored', wording', rated', units')
    <3>1. CASE screen[s] = BlankPage
      BY <3>1, IdleTells DEF Happen
    <3>2. CASE screen[s] # BlankPage
      <4>. DEFINE page == screen[s]
                  next == [page EXCEPT !.since = page.since \cup happenings]
      <4>1. /\ next \in PageData /\ next.since = page.since \cup happenings
            /\ next.place = page.place /\ next.wording = page.wording
            /\ next.tender = page.tender /\ next.units = page.units
        BY <2>1 DEF PageData
      <4>2. screen'[s] = next
        BY <3>2 DEF Happen
      <4>3. PageTells(page, page.since, stored, wording, rated, units)
        BY <3>2 DEF PagesInv, ScreensTell
      <4>. HIDE DEF page, next
      <4>4. PageTells(page, page.since \cup happenings, stored', wording', rated', units')
        BY <4>3, PageStays
      <4>. QED
        BY <4>1, <4>2, <4>4 DEF PageTells
    <3>. QED
      BY <3>1, <3>2
  <2>. QED
    BY <2>2 DEF ScreensTell, Happen
<1>2. CallsTell(call', stored', wording', rated', units')
  <2>1. ASSUME NEW c \in Call
        PROVE  /\ Noted(calls[c], happenings) \in CallData
               /\ CallTells(Noted(calls[c], happenings), stored', wording', rated', units')
    BY NotedTyped, CallStays DEF CallsTell
  <2>. QED
    BY <2>1 DEF CallsTell, Happen
<1>. QED
  BY <1>1, <1>2 DEF PagesInv

\* One request goes on, and nothing happens to the others.
LEMMA GoesStep ==
  ASSUME PagesInv, NEW c \in Call, NEW k \in CallData,
         CallTells(k, stored, wording, rated, units), GoesOn(c, k),
         ScreensTell(screen', stored, wording, rated, units),
         UNCHANGED <<stored, wording, rated, units, due>>
  PROVE  PagesInv'
<1>1. CallsTell(call', stored, wording, rated, units)
  BY DEF PagesInv, CallsTell, GoesOn
<1>2. DataTyped'
  BY DEF PagesInv, DataTyped
<1>. QED
  BY <1>1, <1>2 DEF PagesInv

\* A request that ends leaves the others as they were.
LEMMA EndedTells ==
  ASSUME PagesInv, NEW c \in Call
  PROVE  CallsTell([call EXCEPT ![c] = IdleCall], stored, wording, rated, units)
BY IdleTells DEF PagesInv, CallsTell

\* What is stored of a session: the address is another after a choice alone,
\* the currency and the country after a switch alone, or sessions overlap.
LEMMA StoreStep ==
  ASSUME PagesInv, NEW c \in Call, NEW session \in SessionData,
         NEW happening \in {"choice", "switch"}, Store(c, session, happening),
         session.address # call[c].session.address => happening = "choice",
         session.tender # call[c].session.tender \/ session.nation # call[c].session.nation
           => happening = "switch"
  PROVE  PagesInv'
<1>1. PICK happenings \in SUBSET Happening :
        /\ happenings = {happening} \cup IF stored = call[c].session THEN {} ELSE {"overlap"}
        /\ Happen(happenings, [call EXCEPT ![c] = IdleCall])
  BY DEF Store, Happening
<1>2. stored' = session /\ UNCHANGED <<wording, rated, units, due>>
  BY DEF Store
<1>3. Told(happenings)
  <2>1. CASE stored = call[c].session
    BY <1>1, <1>2, <2>1 DEF Told, Moved
  <2>2. CASE stored # call[c].session
    BY <1>1, <1>2, <2>2 DEF Told, Moved
  <2>. QED
    BY <2>1, <2>2
<1>4. DataTyped' /\ (units = due)'
  BY <1>2 DEF PagesInv, DataTyped
<1>. QED
  BY <1>1, <1>3, <1>4, EndedTells, HappenStep

LEMMA SavingPageStep ==
  ASSUME PagesInv, NEW c \in Call,
         \/ \E p \in Place : ChooseAddress(c, p)
         \/ \E t \in Tender : SetSessionCurrency(c, t)
         \/ \E n \in Nation : SetSessionCountry(c, n)
  PROVE  PagesInv'
<1>1. call[c].session \in SessionData
  BY DEF PagesInv, CallsTell, CallData
<1>2. ASSUME NEW p \in Place, ChooseAddress(c, p) PROVE PagesInv'
  <2>1. PICK session : session = [call[c].session EXCEPT !.address = p]
    OBVIOUS
  <2>1a. /\ session \in SessionData /\ session.tender = call[c].session.tender
         /\ session.nation = call[c].session.nation
    BY <2>1, <1>1 DEF SessionData
  <2>. QED
    BY <1>2, <2>1, <2>1a, StoreStep DEF ChooseAddress
<1>3. ASSUME NEW t \in Tender, SetSessionCurrency(c, t) PROVE PagesInv'
  <2>1. PICK session : session = [call[c].session EXCEPT !.tender = t]
    OBVIOUS
  <2>1a. /\ session \in SessionData /\ session.address = call[c].session.address
    BY <2>1, <1>1 DEF SessionData
  <2>. QED
    BY <1>3, <2>1, <2>1a, StoreStep DEF SetSessionCurrency
<1>4. ASSUME NEW n \in Nation, SetSessionCountry(c, n) PROVE PagesInv'
  <2>1. PICK session :
          session = [call[c].session EXCEPT !.nation = n,
                       !.tender = IF @ = Nothing THEN TenderOf[n] ELSE @]
    OBVIOUS
  <2>1a. /\ session \in SessionData /\ session.address = call[c].session.address
    BY <2>1, <1>1, PagesAssumption DEF SessionData
  <2>. QED
    BY <1>4, <2>1, <2>1a, StoreStep DEF SetSessionCountry
<1>. QED
  BY <1>2, <1>3, <1>4

\* Requests that load the session, or begin with it.
LEMMA BeginStep ==
  ASSUME PagesInv, NEW c \in Call,
         \/ Load(c)
         \/ \E s \in Screen : OpenPayment(c, s) \/ PostPayment(c, s)
         \/ \E p \in Place : CreateOrder(c, p)
  PROVE  PagesInv'
<1>1. /\ stored \in SessionData /\ screen \in [Screen -> PageData]
      /\ ScreensTell(screen, stored, wording, rated, units)
      /\ wording \in [Place -> Gone .. MaxWording]
  BY DEF PagesInv, DataTyped, ScreensTell
<1>2. CASE Load(c)
  <2>1. PICK k : k = [IdleCall EXCEPT !.at = "saving", !.session = stored]
    OBVIOUS
  <2>1a. /\ k \in CallData /\ k.at = "saving"
    BY <2>1, <1>1, IdleTells DEF CallData, CallAt
  <2>2. CallTells(k, stored, wording, rated, units)
    BY <2>1, <2>1a DEF CallTells
  <2>. QED
    BY <1>1, <1>2, <2>1, <2>1a, <2>2, GoesStep DEF Load
<1>3. ASSUME NEW s \in Screen, OpenPayment(c, s) PROVE PagesInv'
  <2>1. PICK k : k = [IdleCall EXCEPT !.at = "showing", !.session = stored, !.window = s]
    OBVIOUS
  <2>1a. /\ k \in CallData /\ k.at = "showing" /\ k.session = stored
    BY <2>1, <1>1, IdleTells DEF CallData, CallAt
  <2>2. CallTells(k, stored, wording, rated, units)
    BY <2>1, <2>1a DEF CallTells, SessionTells, Moved
  <2>3. ScreensTell(screen', stored, wording, rated, units)
    BY <1>1, <1>3, IdleTells DEF OpenPayment, ScreensTell
  <2>. QED
    BY <1>3, <2>1, <2>1a, <2>2, <2>3, GoesStep DEF OpenPayment
<1>4. ASSUME NEW s \in Screen, PostPayment(c, s) PROVE PagesInv'
  <2>1. screen[s] \in PageData /\ screen[s].units > 0
    BY <1>1, <1>4 DEF PostPayment
  <2>2. PageTells(screen[s], screen[s].since, stored, wording, rated, units)
    BY <1>1, <2>1, IdleTells DEF ScreensTell
  <2>3. PICK from : from = [screen[s] EXCEPT !.since = {}]
    OBVIOUS
  <2>3a. /\ from \in PageData /\ from.place = screen[s].place
         /\ from.wording = screen[s].wording /\ from.tender = screen[s].tender
         /\ from.units = screen[s].units
    BY <2>3, <2>1 DEF PageData
  <2>4. PICK read : read = [BlankPage EXCEPT !.since = screen[s].since]
    OBVIOUS
  <2>4a. /\ read \in PageData /\ read.since = screen[s].since
    BY <2>4, <2>1, IdleTells DEF PageData
  <2>5. PICK k : k = [IdleCall EXCEPT !.at = "posted", !.session = stored,
                                  !.from = from, !.read = read]
    OBVIOUS
  <2>5a. /\ k \in CallData /\ k.at = "posted" /\ k.session = stored /\ k.from = from
         /\ k.read = read
    BY <2>5, <2>3a, <2>4a, <1>1, IdleTells DEF CallData, CallAt
  <2>6. CallTells(k, stored, wording, rated, units)
    BY <2>2, <2>3, <2>3a, <2>4, <2>4a, <2>5, <2>5a DEF CallTells, PageTells
  <2>7. GoesOn(c, k)
    BY <1>4, <2>3, <2>3a, <2>4, <2>4a, <2>5, <2>5a, IdleTells DEF PostPayment
  <2>. QED
    BY <1>1, <1>4, <2>5, <2>5a, <2>6, <2>7, GoesStep DEF PostPayment
<1>5. ASSUME NEW p \in Place, CreateOrder(c, p) PROVE PagesInv'
  <2>1. PICK read : read = [BlankPage EXCEPT !.place = p, !.wording = wording[p]]
    OBVIOUS
  <2>1a. /\ read \in PageData
    <3>1. wording[p] \in Int
      BY <1>1, PagesAssumption DEF Gone
    <3>. QED
      BY <2>1, <3>1, IdleTells DEF PageData
  <2>2. PICK k : k = [IdleCall EXCEPT !.at = "found", !.session = stored, !.read = read]
    OBVIOUS
  <2>2a. /\ k \in CallData /\ k.at = "found" /\ k.from = BlankPage
    BY <2>2, <2>1a, <1>1, IdleTells DEF CallData, CallAt
  <2>3. CallTells(k, stored, wording, rated, units)
    BY <2>2, <2>2a DEF CallTells
  <2>4. GoesOn(c, k)
    BY <1>5, <2>1, <2>1a, <2>2, <2>2a, IdleTells DEF CreateOrder
  <2>. QED
    BY <1>1, <1>5, <2>2, <2>2a, <2>3, <2>4, GoesStep DEF CreateOrder
<1>. QED
  BY <1>2, <1>3, <1>4, <1>5

\* The page shows what its request loaded, and what is there now.
LEMMA ShowStep ==
  ASSUME PagesInv, NEW c \in Call, ShowPaymentPage(c)
  PROVE  PagesInv'
<1>. DEFINE k == call[c]
<1>1. /\ k \in CallData /\ k.at = "showing"
      /\ SessionTells(k.session, k.read.since, stored)
  BY DEF PagesInv, CallsTell, CallTells, ShowPaymentPage
<1>2. /\ k.session \in SessionData /\ k.read.since \in SUBSET Happening
      /\ k.window \in Screen \cup {Nothing}
  BY <1>1 DEF CallData, PageData
<1>3. ScreensTell(screen, stored, wording, rated, units) /\ DataTyped
  BY DEF PagesInv
<1>4. GoesOn(c, IdleCall) /\ UNCHANGED <<stored, wording, rated, units, due>>
  BY DEF ShowPaymentPage
<1>5. ScreensTell(screen', stored, wording, rated, units)
  <2>1. CASE UNCHANGED screen
    BY <1>3, <2>1
  <2>2. CASE screen' # screen
    <3>. HIDE DEF k
    <3>1. PICK p \in Finds(k.session) : screen' = [screen EXCEPT ![k.window] =
            [place |-> p, wording |-> wording[p], tender |-> TenderIn(k.session),
             units |-> units, since |-> k.read.since]]
      BY <2>2 DEF ShowPaymentPage, k
    <3>. DEFINE page == [place |-> p, wording |-> wording[p],
                         tender |-> TenderIn(k.session), units |-> units,
                         since |-> k.read.since]
    <3>2. p \in Place /\ p = k.session.address
      BY <3>1 DEF Finds
    <3>3. TenderIn(k.session) \in Tender /\ TenderIn(k.session) = TenderAt(k.session, rated)
      BY <1>2, PagesAssumption DEF TenderIn, TenderAt, SessionData
    <3>4. page \in PageData
      <4>1. wording[p] \in Int /\ units \in Nat
        BY <1>3, <3>2, PagesAssumption DEF DataTyped, Gone
      <4>. QED
        BY <1>2, <3>2, <3>3, <4>1 DEF PageData
    <3>5. PageTells(page, page.since, stored, wording, rated, units)
      <4>1. TenderAt(stored, rated) # page.tender =>
              k.read.since \cap {"switch", "rate", "overlap"} # {}
        BY <1>1, <3>3 DEF SessionTells, TenderAt
      <4>. QED
        BY <1>1, <3>2, <4>1 DEF SessionTells, PageTells, Moved
    <3>. HIDE DEF page
    <3>. QED
      BY <1>3, <3>1, <3>4, <3>5 DEF ScreensTell, page
  <2>. QED
    BY <2>1, <2>2
<1>. QED
  BY <1>4, <1>5, IdleTells, GoesStep

\* The post reads the address its session names, ...
LEMMA FindStep ==
  ASSUME PagesInv, NEW c \in Call, FindAddress(c)
  PROVE  PagesInv'
<1>. DEFINE k == call[c]
<1>1. /\ k \in CallData /\ k.at = "posted"
      /\ PageTells(k.from, k.read.since, k.session, wording, rated, units)
  BY DEF PagesInv, CallsTell, CallTells, FindAddress
<1>2. /\ ScreensTell(screen', stored, wording, rated, units)
      /\ UNCHANGED <<stored, wording, rated, units, due>>
  BY DEF PagesInv, FindAddress
<1>3. CASE GoesOn(c, IdleCall)
  BY <1>2, <1>3, IdleTells, GoesStep
<1>4. ASSUME NEW p \in Finds(k.session),
             GoesOn(c, [k EXCEPT !.at = "found", !.read.place = p, !.read.wording = wording[p]])
      PROVE  PagesInv'
  <2>. HIDE DEF k
  <2>1. p \in Place /\ p = k.session.address /\ wording[p] # Gone /\ p # Nothing
    BY <1>4, PagesAssumption DEF Finds
  <2>2. PICK read : read = [k.read EXCEPT !.place = p, !.wording = wording[p]]
    OBVIOUS
  <2>2a. /\ read \in PageData /\ read.since = k.read.since /\ read.place = p
         /\ read.wording = wording[p]
    <3>1. wording[p] \in Int
      BY <2>1, PagesAssumption DEF PagesInv, DataTyped, Gone
    <3>. QED
      BY <2>2, <1>1, <2>1, <3>1 DEF CallData, PageData
  <2>3. PICK next : next = [k EXCEPT !.at = "found", !.read.place = p,
                                     !.read.wording = wording[p]]
    OBVIOUS
  <2>3a. /\ next \in CallData /\ next.at = "found" /\ next.session = k.session
         /\ next.from = k.from /\ next.read = read
    BY <2>3, <1>1, <2>2, <2>2a DEF CallData, CallAt
  <2>4. CallTells(next, stored, wording, rated, units)
    <3>1. OrderTells(next.from, next.read, TenderAt(next.session, rated), units)
      BY <1>1, <2>1, <2>2a, <2>3a DEF PageTells, OrderTells, Moved
    <3>. QED
      BY <2>3a, <3>1 DEF CallTells
  <2>. QED
    BY <1>2, <1>4, <2>3, <2>3a, <2>4, GoesStep
<1>. QED
  BY <1>3, <1>4 DEF FindAddress

\* ... and place_order the currency and the cart.
LEMMA ReadUnitsStep ==
  ASSUME PagesInv, NEW c \in Call, ReadUnits(c)
  PROVE  PagesInv'
<1>. DEFINE k == call[c]
<1>1. /\ k \in CallData /\ k.at = "found" /\ units \in Nat
      /\ k.from # BlankPage => OrderTells(k.from, k.read, TenderAt(k.session, rated), units)
  BY PagesAssumption DEF PagesInv, DataTyped, CallsTell, CallTells, ReadUnits
<1>2. /\ ScreensTell(screen', stored, wording, rated, units)
      /\ UNCHANGED <<stored, wording, rated, units, due>>
  BY DEF PagesInv, ReadUnits
<1>3. CASE units = 0
  BY <1>2, <1>3, IdleTells, GoesStep DEF ReadUnits
<1>4. CASE units # 0
  <2>0. GoesOn(c, [k EXCEPT !.at = "placing", !.read.units = units,
                          !.read.tender = TenderIn(k.session)])
    BY <1>4 DEF ReadUnits
  <2>. HIDE DEF k
  <2>1. TenderIn(k.session) \in Tender /\ TenderIn(k.session) = TenderAt(k.session, rated)
    BY <1>1, PagesAssumption DEF TenderIn, TenderAt, SessionData, CallData
  <2>2. PICK read : read = [k.read EXCEPT !.units = units, !.tender = TenderIn(k.session)]
    OBVIOUS
  <2>2a. /\ read \in PageData /\ read.since = k.read.since /\ read.place = k.read.place
         /\ read.wording = k.read.wording /\ read.units = units
         /\ read.tender = TenderIn(k.session)
    BY <2>2, <1>1, <2>1 DEF CallData, PageData
  <2>3. PICK next : next = [k EXCEPT !.at = "placing", !.read.units = units,
                                     !.read.tender = TenderIn(k.session)]
    OBVIOUS
  <2>3a. /\ next \in CallData /\ next.at = "placing" /\ next.from = k.from
         /\ next.read = read
    BY <2>3, <1>1, <2>2, <2>2a DEF CallData, CallAt
  <2>4. CallTells(next, stored, wording, rated, units)
    <3>1. next.from # BlankPage =>
            OrderTells(next.from, next.read, next.read.tender, next.read.units)
      BY <1>1, <2>1, <2>2a, <2>3a DEF OrderTells
    <3>. QED
      BY <1>1, <1>4, <2>2a, <2>3a, <3>1 DEF CallTells
  <2>. QED
    BY <1>2, <2>0, <2>3, <2>3a, <2>4, GoesStep
<1>. QED
  BY <1>3, <1>4

\* The cart is emptied: who has read it and not committed is crossed.
LEMMA PlacedStep ==
  ASSUME PagesInv, NEW c \in Call, CommitPlacement(c)
  PROVE  PagesInv'
<1>. DEFINE k == call[c]
            next == IF k.from = BlankPage THEN IdleCall ELSE [k EXCEPT !.at = "answering"]
<1>1. /\ k \in CallData /\ k.at = "placing" /\ k.read.units \in Nat
      /\ CallTells(k, stored, wording, rated, units)
  BY DEF PagesInv, CallsTell, CommitPlacement, CallData, PageData
<1>2. /\ units' = 0 /\ due' = Due(k, 0) /\ UNCHANGED <<stored, wording, rated>>
      /\ Happen({"cart"}, [call EXCEPT ![c] = next])
  BY DEF CommitPlacement
<1>3. next \in CallData /\ CallTells(next, stored, wording, rated, units)
  <2>. HIDE DEF k
  <2>1. CASE k.from = BlankPage
    BY <2>1, IdleTells
  <2>2. CASE k.from # BlankPage
    <3>1. PICK placed : placed = [k EXCEPT !.at = "answering"]
      OBVIOUS
    <3>1a. /\ placed \in CallData /\ placed.at = "answering" /\ placed.from = k.from
           /\ placed.read = k.read
      BY <3>1, <1>1 DEF CallData, CallAt
    <3>2. CallTells(placed, stored, wording, rated, units)
      BY <1>1, <2>2, <3>1, <3>1a DEF CallTells
    <3>. QED
      BY <2>2, <3>1, <3>1a, <3>2
  <2>. QED
    BY <2>1, <2>2
<1>4. Told({"cart"}) /\ {"cart"} \in SUBSET Happening
  BY <1>2 DEF Told, Moved, Happening
<1>5. DataTyped'
  BY <1>2, PagesAssumption DEF PagesInv, DataTyped
<1>6. (units = due)'
  <2>1. due \in Nat
    BY PagesAssumption DEF PagesInv, DataTyped
  <2>2. ~k.crossed => k.read.units = due
    BY <1>1 DEF CallTells, PagesInv
  <2>. QED
    BY <1>2, <2>1, <2>2 DEF Due
<1>. HIDE DEF next
<1>7. CallsTell([call EXCEPT ![c] = next], stored, wording, rated, units)
  BY <1>3 DEF PagesInv, CallsTell
<1>. QED
  BY <1>2, <1>4, <1>5, <1>6, <1>7, HappenStep

LEMMA AnsweredStep ==
  ASSUME PagesInv, NEW c \in Call, Answered(c)
  PROVE  PagesInv'
<1>1. call[c].session \in SessionData
  BY DEF PagesInv, CallsTell, CallData
<1>2. PICK happenings \in SUBSET Happening :
        /\ happenings = IF stored = call[c].session THEN {} ELSE {"overlap"}
        /\ Happen(happenings, [call EXCEPT ![c] = IdleCall])
  BY DEF Answered, Happening
<1>3. /\ stored' = [call[c].session EXCEPT !.address = Nothing]
      /\ UNCHANGED <<wording, rated, units, due>>
  BY DEF Answered
<1>4. /\ stored' \in SessionData /\ stored'.address = Nothing
      /\ stored'.tender = call[c].session.tender
      /\ stored'.nation = call[c].session.nation
  BY <1>1, <1>3 DEF SessionData
<1>5. Told(happenings)
  <2>1. CASE stored = call[c].session
    BY <1>2, <1>3, <1>4, <2>1 DEF Told, Moved
  <2>2. CASE stored # call[c].session
    BY <1>2, <1>3, <1>4, <2>2 DEF Told, Moved
  <2>. QED
    BY <2>1, <2>2
<1>6. DataTyped' /\ (units = due)'
  BY <1>3, <1>4 DEF PagesInv, DataTyped
<1>. QED
  BY <1>2, <1>5, <1>6, EndedTells, HappenStep

\* The book, the rates and the cart.
LEMMA ChangedStep ==
  ASSUME PagesInv,
         \/ \E p \in Place : EditAddress(p)
         \/ \E t \in Tender : ChangeRates(t)
         \/ \E n \in 1 .. UnitLimit : PutUnits(n) \/ TakeUnits(n - 1)
  PROVE  PagesInv'
<1>1. CallsTell(call, stored, wording, rated, units) /\ DataTyped /\ units = due
  BY DEF PagesInv
<1>2. ASSUME NEW p \in Place, EditAddress(p) PROVE PagesInv'
  <2>1. /\ wording[p] \in 0 .. MaxWording - 1 /\ UNCHANGED <<stored, rated, units, due>>
        /\ wording' = [wording EXCEPT ![p] = wording[p] + 1] /\ Happen({"edit"}, call)
    BY <1>2 DEF EditAddress
  <2>2. Told({"edit"}) /\ {"edit"} \in SUBSET Happening
    BY <1>1, <2>1 DEF Told, Moved, Happening, DataTyped, Gone
  <2>3. DataTyped' /\ (units = due)'
    BY <1>1, <2>1, PagesAssumption DEF DataTyped, Gone
  <2>. QED
    BY <1>1, <2>1, <2>2, <2>3, HappenStep
<1>3. ASSUME NEW t \in Tender, ChangeRates(t) PROVE PagesInv'
  <2>1. /\ UNCHANGED <<stored, wording, units, due>> /\ Happen({"rate"}, call)
        /\ rated' = IF t \in rated THEN rated \ {t} ELSE rated \cup {t}
    BY <1>3 DEF ChangeRates
  <2>2. Told({"rate"}) /\ {"rate"} \in SUBSET Happening
    BY <2>1 DEF Told, Moved, Happening
  <2>3. DataTyped' /\ (units = due)'
    BY <1>1, <2>1 DEF DataTyped
  <2>. QED
    BY <1>1, <2>1, <2>2, <2>3, HappenStep
<1>4. ASSUME NEW n \in 1 .. UnitLimit, PutUnits(n) \/ TakeUnits(n - 1) PROVE PagesInv'
  <2>1. UNCHANGED <<stored, wording, rated>> /\ Happen({"cart"}, call)
    BY <1>4 DEF PutUnits, TakeUnits
  <2>2. Told({"cart"}) /\ {"cart"} \in SUBSET Happening
    BY <2>1 DEF Told, Moved, Happening
  <2>3. units' \in 0 .. UnitLimit /\ units' = due'
    <3>1. CASE PutUnits(n)
      BY <1>1, <3>1, PagesAssumption DEF PutUnits, DataTyped
    <3>2. CASE TakeUnits(n - 1)
      BY <1>1, <3>2, PagesAssumption DEF TakeUnits, DataTyped
    <3>. QED
      BY <1>4, <3>1, <3>2
  <2>4. DataTyped' /\ (units = due)'
    BY <1>1, <2>1, <2>3 DEF DataTyped
  <2>. QED
    BY <1>1, <2>1, <2>2, <2>4, HappenStep
<1>. QED
  BY <1>2, <1>3, <1>4

\* A page of an address that is gone is a page of nothing one can order.
LEMMA DeletedStep ==
  ASSUME PagesInv, NEW p \in Place, DropAddress(p)
  PROVE  PagesInv'
<1>1. /\ wording' = [wording EXCEPT ![p] = Gone]
      /\ UNCHANGED <<stored, rated, units, screen, call, due>>
  BY DEF DropAddress
<1>2. DataTyped' /\ \A q \in Place : wording'[q] \in {wording[q], Gone}
  BY <1>1, PagesAssumption DEF PagesInv, DataTyped, Gone
<1>3. ASSUME NEW page, NEW since, NEW session,
             PageTells(page, since, session, wording, rated, units)
      PROVE  PageTells(page, since, session, wording', rated, units)
  BY <1>2, <1>3 DEF PageTells
<1>4. ScreensTell(screen, stored, wording', rated, units)
  BY <1>3 DEF PagesInv, ScreensTell
<1>5. CallsTell(call, stored, wording', rated, units)
  BY <1>3 DEF PagesInv, CallsTell, CallTells
<1>. QED
  BY <1>1, <1>2, <1>4, <1>5 DEF PagesInv

LEMMA PagesInvInit == PagesInit => PagesInv
<1>. SUFFICES ASSUME PagesInit PROVE PagesInv
  OBVIOUS
<1>1. stored \in SessionData
  BY IdleTells, PagesAssumption DEF PagesInit, SessionData
<1>2. DataTyped /\ units = due
  BY <1>1, PagesAssumption DEF PagesInit, DataTyped, Gone
<1>3. ScreensTell(screen, stored, wording, rated, units)
  BY IdleTells DEF PagesInit, ScreensTell
<1>4. CallsTell(call, stored, wording, rated, units)
  BY IdleTells DEF PagesInit, CallsTell
<1>. QED
  BY <1>2, <1>3, <1>4 DEF PagesInv

LEMMA PagesInvStep == PagesInv /\ [PagesNext]_pagesVars => PagesInv'
<1>. SUFFICES ASSUME PagesInv, [PagesNext]_pagesVars PROVE PagesInv'
  OBVIOUS
<1>1. ASSUME NEW c \in Call, GiveUp(c) PROVE PagesInv'
  <2>1. ScreensTell(screen', stored, wording, rated, units)
    BY <1>1 DEF PagesInv, GiveUp
  <2>. QED
    BY <1>1, <2>1, IdleTells, GoesStep DEF GiveUp
<1>2. CASE UNCHANGED pagesVars
  <2>1. UNCHANGED <<stored, wording, rated, units, screen, call, due>>
    BY <1>2 DEF pagesVars
  <2>. QED
    BY <2>1 DEF PagesInv, DataTyped
<1>. QED
  BY <1>1, <1>2, BeginStep, SavingPageStep, ShowStep, FindStep, ReadUnitsStep, PlacedStep,
     AnsweredStep, ChangedStep, DeletedStep DEF PagesNext

LEMMA PagesInvAlways == PagesSpec => []PagesInv
  BY PagesInvInit, PagesInvStep, PTL DEF PagesSpec

\* The cart keeps within its limit and no order is of nothing
\* (cart/services.py:81-84, orders/services.py:98).
LEMMA PagesTypeCorrect == PagesSpec => []PagesTypeOK
<1>1. PagesInv => PagesTypeOK
  BY PagesAssumption DEF PagesInv, DataTyped, ScreensTell, CallsTell, CallTells, PagesTypeOK
<1>. QED
  BY <1>1, PagesInvAlways, PTL

\* For any number of windows, requests, addresses, countries and currencies, an
\* order posted from a page is what the page showed, or what made the
\* difference happened before the post had read it (orders/views.py:190-228).
THEOREM OrdersAreAsShown == PagesSpec => []OrderedAsShown
<1>1. PagesInv => OrderedAsShown
  <2>. SUFFICES ASSUME PagesInv, NEW c \in Call, call[c].at = "answering"
                PROVE  OrderTells(call[c].from, call[c].read, call[c].read.tender,
                                  call[c].read.units)
    BY DEF OrderedAsShown, PlacedFromPage, OrderTells
  <2>. QED
    BY DEF PagesInv, CallsTell, CallTells
<1>. QED
  BY <1>1, PagesInvAlways, PTL

\* And what is in the cart is what was put into it, less what was taken out or
\* ordered, while no cart changes between place_order's read of it and its
\* clear (orders/services.py:98, 286).
THEOREM CartOrderedOnce == PagesSpec => []OrderedOnce
<1>1. PagesInv => OrderedOnce
  BY DEF PagesInv, OrderedOnce
<1>. QED
  BY <1>1, PagesInvAlways, PTL
=============================================================================
