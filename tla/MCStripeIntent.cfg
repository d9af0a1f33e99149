SPECIFICATION PaymentsSpec
CONSTANTS
  Order = {o1}
  Variant = {v1}
  Baskets <- MCBaskets
  Stock <- MCStock
  AllowBackorder = {}
  UsageLimit = 0
  MaxRestores = 1
  MaxPayments = 2
  Gateway = "stripe"
  Event <- MCOwnIds
  Traced = {}
  Request = {r1}
  Worker = {w1}
  MaxCrashes = 0
  DeskStatuses = {"confirmed"}
  NoOrder = NoOrder
  Idle = Idle
INVARIANT CapturedWereCharged
CHECK_DEADLOCK FALSE
