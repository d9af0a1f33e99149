SPECIFICATION ReturnsSpec
CONSTANTS
  Order = {o1}
  Variant = {v1}
  Baskets <- MCBaskets
  Stock <- MCStock
  AllowBackorder = {}
  UsageLimit = 0
  MaxRestores = 1
  MaxReturns = 2
  MaxCompletions = 1
  Tab = {t1, t2}
  Staff = {s1}
  Methods = {"cod"}
  DeskStatuses = {"processing", "shipped", "delivered"}
  FormStatuses = {"rejected"}
  NoLine = NoLine
  NoBatch = NoBatch
CHECK_DEADLOCK FALSE
INVARIANT ReturnsWithinPurchase
