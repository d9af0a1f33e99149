SPECIFICATION Spec
CONSTANTS
  p1 = p1
  p2 = p2
  p3 = p3
  c1 = c1
  c2 = c2
  v1 = v1
  v2 = v2
  NoRequest = NoRequest
  NoVariant = NoVariant
  Request = {p1, p2, p3}
  Cart = {c1, c2}
  Variant = {v1, v2}
  CartOf <- MCCartOf
  InitialCart <- MCInitialCart
  CouponCarts = {c1, c2}
  Stock <- MCStock
  AllowBackorder = {v2}
  MaxPerItem = 2
  UsageLimit = 2
  UsageLimitPerUser = 1
INVARIANT PerUserLimitEnforced
CHECK_DEADLOCK FALSE
