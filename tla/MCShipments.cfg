SPECIFICATION ShipmentsSpec
CONSTANTS
  Order = {o1}
  Variant = {v1}
  Baskets <- MCBaskets
  Stock <- MCStock
  AllowBackorder = {}
  UsageLimit = 0
  MaxRestores = 1
  MaxParcels = 2
  Packer = {p1}
  Handler = {h1, h2}
  Updates = {"dispatched", "out_for_delivery", "delivered"}
  Methods = {"cod"}
  DeskStatuses = {"processing", "delivered", "return_requested"}
  Nothing = Nothing
SYMMETRY Symmetry
INVARIANT FulfilmentOnlyAfterSale
PROPERTY DeliveredComplete
PROPERTY ParcelsReopenNothing
CHECK_DEADLOCK FALSE
