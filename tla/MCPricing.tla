----------------------------- MODULE MCPricing -----------------------------
(* An instance of Pricing for TLC: a garment of a taxed category and a     *)
(* gadget of none, sold within India (CGST and SGST or IGST) and abroad,   *)
(* three coupons, two delivery methods and a currency without decimals.    *)
EXTENDS Pricing, TLC

MCGood ==
  [saree |-> [price |-> 90000, price_override |-> None, compare_at |-> 120000,
              compare_at_override |-> None, product |-> "p1",
              category |-> "silk", weight |-> 400, variant_weight |-> None,
              tax_percent |-> 5],
   lamp |-> [price |-> 40050, price_override |-> 39950, compare_at |-> None,
             compare_at_override |-> None, product |-> "p2",
             category |-> "home", weight |-> 400, variant_weight |-> 900,
             tax_percent |-> 12]]

MCParent == [silk |-> "clothes", clothes |-> None, home |-> None]

Tax(name, category, percent, when) ==
  [name |-> name, country |-> "IN", state |-> None, category |-> category,
   percent |-> percent, applies_when |-> when, effective_from |-> 0,
   effective_to |-> None, is_active |-> TRUE]

MCTaxRules ==
  {Tax("CGST", None, 9, "intra"), Tax("SGST", None, 9, "intra"),
   Tax("IGST", None, 18, "inter"), Tax("CGST", "clothes", 3, "intra"),
   Tax("SGST", "clothes", 3, "intra"),
   [Tax("IGST", "clothes", 5, "inter") EXCEPT !.effective_to = 0],
   [Tax("VAT", None, 19, "any") EXCEPT !.country = "DE"]}

Band(zone, method, low, high, price, free) ==
  [zone |-> zone, method |-> method, min_weight |-> low, max_weight |-> high,
   min_value |-> 0, max_value |-> None, price |-> price, free_over |-> free]

MCBands ==
  {Band("home", "standard", 0, 1000, 5000, 120000),
   Band("home", "standard", 1000, None, 9000, 120000),
   Band("home", "express", 0, None, 20000, None),
   Band("away", "standard", 500, None, 90000, None)}

MCMethods == [standard |-> [min_days |-> 4], express |-> [min_days |-> 1]]

MCZoneOf == [IN |-> "home", DE |-> "away", SG |-> None]

Coupons(type, value, cap, least, categories, first) ==
  [type |-> type, value |-> value, max_discount |-> cap,
   min_order_value |-> least, products |-> {}, categories |-> categories,
   first_order_only |-> first, per_user |-> 1, usage_limit |-> 3,
   used_count |-> 2, is_active |-> TRUE, valid_from |-> 0, valid_to |-> None]

MCTerms ==
  [SILK20 |-> Coupons("percentage", 20, None, 0, {"clothes"}, FALSE),
   POST |-> [Coupons("free_shipping", 0, None, 80000, {}, FALSE)
               EXCEPT !.valid_to = 0],
   FLAT |-> Coupons("fixed", 45000, None, 0, {}, TRUE)]

MCBaskets ==
  {[saree |-> 1, lamp |-> 1], [saree |-> 0, lamp |-> 1],
   [saree |-> 1, lamp |-> 0]}

MCDestinations ==
  {[country |-> "IN", state |-> "Karnataka"],
   [country |-> "IN", state |-> "Kerala"], [country |-> "IN", state |-> None],
   [country |-> "DE", state |-> None], [country |-> None, state |-> None]}

MCCurrency == [INR |-> [rounding |-> "none", unit |-> 1],
               JPY |-> [rounding |-> "up", unit |-> 100],
               EUR |-> [rounding |-> "none", unit |-> 1]]

MCFirstRate == [INR |-> 100, JPY |-> 187, EUR |-> 1]
=============================================================================
