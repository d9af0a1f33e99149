SPECIFICATION ReturnsSpec
CONSTANTS
  Order = {o1}
  Variant = {v1}
  Baskets <- MCBaskets
  Stock <- MCStock
  AllowBackorder = {}
  UsageLimit = 0
  MaxRestores = 1
  MaxReturns = 2
  MaxCompletions = 2
  Tab = {t1}
  Staff = {s1, s2}
  Methods = {"cod"}
  DeskStatuses = {"processing", "shipped", "delivered"}
  FormStatuses = {"rejected"}
  NoLine = NoLine
  NoBatch = NoBatch
SYMMETRY Symmetry
INVARIANT SoldCoversSales
INVARIANT ReturnsOnlyOfSoldOrders
CHECK_DEADLOCK FALSE
