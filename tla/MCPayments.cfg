SPECIFICATION FairPaymentsSpec
CONSTANTS
  Order = {o1}
  Variant = {v1}
  Baskets <- MCBaskets
  Stock <- MCStock
  AllowBackorder = {}
  UsageLimit = 0
  MaxRestores = 1
  MaxPayments = 2
  Gateway = "stripe"
  Event <- MCEvents
  Traced = {}
  Request = {r1}
  Worker = {w1}
  MaxCrashes = 1
  DeskStatuses = {"processing"}
  NoOrder = NoOrder
  Idle = Idle
INVARIANT AnsweredChargesApplied
PROPERTY PaidOnlyByCharge
PROPERTY ChargeReachesOrder
CHECK_DEADLOCK FALSE
