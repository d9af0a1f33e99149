SPECIFICATION Spec
CONSTANTS
  v1 = v1
  v2 = v2
  Order = {o1, o2}
  Variant = {v1, v2}
  Baskets <- MCBaskets
  Stock <- MCStock
  AllowBackorder = {v2}
  UsageLimit = 1
  MaxRestores = 2
SYMMETRY Symmetry
INVARIANT CommittedExactlyOnce
INVARIANT SoldMatchesOrders
INVARIANT ReservedWithinShelf
INVARIANT NoPhantomReservation
INVARIANT CouponCountMatchesUsages
PROPERTY PaidOnlyLeavesToRefund
PROPERTY PastTablePaidOrUndone
CHECK_DEADLOCK FALSE
