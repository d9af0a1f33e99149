SPECIFICATION PaymentsSpec
CONSTANTS
  Order = {o1}
  Variant = {v1}
  Baskets <- MCBaskets
  Stock <- MCStock
  AllowBackorder = {}
  UsageLimit = 0
  MaxRestores = 1
  MaxPayments = 1
  Gateway = "razorpay"
  Event <- MCOwnIds
  Traced <- MCOwnIds
  Request = {r1}
  Worker = {w1, w2}
  MaxCrashes = 1
  DeskStatuses = {"confirmed", "cancelled"}
  NoOrder = NoOrder
  Idle = Idle
SYMMETRY Symmetry
INVARIANT AppliedAtMostOnce
CHECK_DEADLOCK FALSE
