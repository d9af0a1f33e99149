SPECIFICATION PricingSpec
CONSTANTS
  None = None
  Variant = {"saree", "lamp"}
  Good <- MCGood
  Parent <- MCParent
  TaxRules <- MCTaxRules
  Bands <- MCBands
  Methods <- MCMethods
  ZoneOf <- MCZoneOf
  Shippable = {"IN", "DE", "SG"}
  OriginState = "Karnataka"
  FreeThreshold = 100000
  FlatDelivery = 4900
  FlatTax = 18
  Coupon = {"SILK20", "POST", "FLAT"}
  Terms <- MCTerms
  Baskets <- MCBaskets
  Destinations <- MCDestinations
  Currency <- MCCurrency
  BaseCurrency = "INR"
  FirstRate <- MCFirstRate
  LaterRates = {200}
  MaxSettings = 1
  MaxDay = 1
INVARIANT ShownDeliveryCharged
CHECK_DEADLOCK FALSE
