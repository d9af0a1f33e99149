------------------------------ MODULE Quoting ------------------------------
(***************************************************************************)
(* What a basket costs: the pure functions of the cart, coupon, tax,       *)
(* shipping and currency modules (src/apps/cart/models.py,                 *)
(* coupons/models.py, tax/services.py, shipping/services.py,               *)
(* geo/services.py).  No state: module Pricing runs them.                  *)
(*                                                                         *)
(* Money is a natural number of hundredths, a percent a whole number and a *)
(* rate a natural number of hundredths, so that every rounding of the code *)
(* is a division here.  A basket gives each variant its quantity.          *)
(* The wording of refusals, labels and names is left out.                  *)
(***************************************************************************)
EXTENDS Integers, FiniteSets, Functions

CONSTANTS
  None,           \* an empty column
  Variant,        \* what can be bought
  Good,           \* the catalogue row of each variant, with its product's
  Parent,         \* the parent of each category, or None
  TaxRules,       \* the rows of the tax table
  Bands,          \* the rows of the shipping rate table
  Methods,        \* the delivery methods, with their sort order and days
  ZoneOf,         \* the active zone that covers each country, or None
  Shippable,      \* the countries orders may be delivered to
  OriginState,    \* TAX_ORIGIN_STATE
  FreeThreshold,  \* FREE_DELIVERY_THRESHOLD
  FlatDelivery,   \* DELIVERY_CHARGE
  FlatTax         \* TAX_RATE_PERCENT

Optional(S) == S \cup {None}

\* The catalogue row of a variant, with the columns of its product.
GoodRow ==
  [price : Nat, price_override : Optional(Nat), compare_at : Optional(Nat),
   compare_at_override : Optional(Nat), product : STRING, category : STRING,
   weight : Nat, variant_weight : Optional(Nat), tax_percent : Nat]

TaxRuleRow ==
  [name : STRING, country : STRING, state : Optional(STRING),
   category : Optional(STRING), percent : 0 .. 100,
   applies_when : {"any", "intra", "inter"}, effective_from : Int,
   effective_to : Optional(Int), is_active : BOOLEAN]

\* Admin forms see to it that a band is not empty.
ShippingRateRow ==
  {b \in [zone : STRING, method : STRING, min_weight : Nat,
          max_weight : Optional(Nat), min_value : Nat,
          max_value : Optional(Nat), price : Nat, free_over : Optional(Nat)] :
     /\ b.max_weight # None => b.max_weight > b.min_weight
     /\ b.max_value # None => b.max_value > b.min_value}

ShippingMethodRow == [min_days : Nat]

\* The tables are finite and refer to each other's rows.
ASSUME QuotingAssumption ==
  /\ IsFiniteSet(Variant) /\ IsFiniteSet(TaxRules) /\ IsFiniteSet(Bands)
  /\ IsFiniteSet(DOMAIN Methods) /\ None \notin DOMAIN Methods
  /\ Good \in [Variant -> GoodRow]
  /\ \A v \in Variant : Good[v].category \in DOMAIN Parent
  /\ Parent \in [DOMAIN Parent -> Optional(DOMAIN Parent)]
  /\ TaxRules \subseteq TaxRuleRow
  /\ Bands \subseteq ShippingRateRow
  /\ \A m \in DOMAIN Methods : Methods[m] \in ShippingMethodRow
  /\ \A b \in Bands : b.method \in DOMAIN Methods
  /\ ZoneOf \in [DOMAIN ZoneOf -> Optional({b.zone : b \in Bands})]
  /\ FreeThreshold \in Nat /\ FlatDelivery \in Nat /\ FlatTax \in Nat

\* n / d rounded to a whole number, halves up: ROUND_HALF_UP.
HalfUp(n, d) == (2 * n + d) \div (2 * d)

\* n / d rounded to a whole number, halves to the even one: what quantize does
\* when it is given no rounding.
HalfEven(n, d) ==
  LET q == n \div d
      twice == 2 * (n % d)
  IN  IF twice > d \/ (twice = d /\ q % 2 = 1) THEN q + 1 ELSE q

\* n / d rounded up: ROUND_CEILING.
Ceiling(n, d) == (n + d - 1) \div d

AtLeastZero(n) == IF n < 0 THEN 0 ELSE n

Least(a, b) == IF a < b THEN a ELSE b

Lines(items) == {v \in Variant : items[v] > 0}

-----------------------------------------------------------------------------
(* Prices.                                                                 *)

Price(v) == IF Good[v].price_override # None THEN Good[v].price_override
                                             ELSE Good[v].price

CompareAt(v) ==
  IF Good[v].compare_at_override # None THEN Good[v].compare_at_override
                                        ELSE Good[v].compare_at

\* What the line would cost at full price, None and zero being no price.
UnitMrp(v) == IF CompareAt(v) \in {None, 0} THEN Price(v) ELSE CompareAt(v)

LineTotal(items, v) == items[v] * Price(v)

LineSavings(items, v) == AtLeastZero(items[v] * (UnitMrp(v) - Price(v)))

LineTotals(items) == [v \in Variant |-> LineTotal(items, v)]

Subtotal(items) == SumFunctionOnSet(LineTotals(items), Lines(items))

MrpTotal(items) ==
  SumFunctionOnSet([v \in Variant |-> items[v] * UnitMrp(v)], Lines(items))

\* The weight of a variant is its own, or its product's.
Weight(items) ==
  SumFunctionOnSet([v \in Variant |->
                      items[v] * (IF Good[v].variant_weight \in {None, 0}
                                    THEN Good[v].weight
                                    ELSE Good[v].variant_weight)],
                   Lines(items))

\* A category and the categories above it.
Lineage(c) ==
  LET Up[n \in Nat] ==
        IF n = 0 THEN {c}
        ELSE LET below == Up[n - 1]
             IN  below \cup {Parent[d] : d \in below \ {None}}
  IN  Up[Cardinality(DOMAIN Parent)] \ {None}

\* descendant_ids: a category and everything filed under it.
Subtree(c) == {d \in DOMAIN Parent : c \in Lineage(d)}

-----------------------------------------------------------------------------
(* Coupons.                                                                *)

Restricted(c) == c.products # {} \/ c.categories # {}

\* eligible_subtotal
EligibleSubtotal(c, items) ==
  LET filed == UNION {Subtree(d) : d \in c.categories}
  IN  IF ~Restricted(c) THEN Subtotal(items)
      ELSE SumFunctionOnSet(LineTotals(items),
             {v \in Lines(items) : Good[v].product \in c.products
                                   \/ Good[v].category \in filed})

\* check_validity for a customer who is signed in or not, has used the
\* coupon so often and has ordered before or not.  The cart asks it without
\* its items, and then restrictions are not looked at.
CheckValidity(c, member, mine, ordered, today, total, items) ==
  /\ c.is_active
  /\ c.valid_from <= today
  /\ c.valid_to # None => c.valid_to >= today
  /\ c.usage_limit \notin {None, 0} => c.used_count < c.usage_limit
  /\ total >= c.min_order_value
  /\ IF member THEN /\ c.per_user = 0 \/ mine < c.per_user
                    /\ c.first_order_only => ~ordered
               ELSE c.per_user = 0 /\ ~c.first_order_only
  /\ Restricted(c) /\ items # None => EligibleSubtotal(c, items) > 0

\* The amount a discount is taken of.
DiscountBase(c, amount, items) ==
  IF items # None /\ Restricted(c) THEN EligibleSubtotal(c, items) ELSE amount

\* discount_for
DiscountFor(c, amount, items) ==
  LET base == DiscountBase(c, amount, items)
      uncapped == base * c.value
      percentage == IF c.max_discount = None THEN uncapped
                    ELSE Least(uncapped, 100 * c.max_discount)
  IN  CASE c.type = "free_shipping" -> 0
        [] c.type = "percentage" -> HalfUp(Least(percentage, 100 * base), 100)
        [] c.type = "fixed" -> Least(c.value, base)

-----------------------------------------------------------------------------
(* Tax.                                                                    *)

\* Whether a rule for sales within or across state lines covers a state:
\* not when either end is unknown.
AppliesWhen(r, state) ==
  CASE r.applies_when = "any" -> TRUE
    [] r.applies_when = "intra" -> state # None /\ OriginState # None
                                   /\ state = OriginState
    [] r.applies_when = "inter" -> state # None /\ OriginState # None
                                   /\ state # OriginState

\* applicable_rules
ApplicableRules(country, state, today) ==
  {r \in TaxRules :
     /\ country # None /\ r.country = country
     /\ r.is_active
     /\ r.effective_from <= today
     /\ r.effective_to # None => r.effective_to >= today
     /\ r.state # None => r.state = state
     /\ AppliesWhen(r, state)}

\* rules_for_category: a category's own rules push out the general ones.
RulesForCategory(rules, category) ==
  LET specific == {r \in rules : r.category \in Lineage(category)}
  IN  IF specific # {} THEN specific ELSE {r \in rules : r.category = None}

\* compute: tax by name, each summed over the order and rounded once.  A
\* product no rule covers pays its own rate under the name "Tax".
TaxLines(items, country, state, today) ==
  LET rules == ApplicableRules(country, state, today)
      matched(v) == RulesForCategory(rules, Good[v].category)
      names == {r.name : r \in rules} \cup {"Tax"}
      percent(v, n) ==
        IF matched(v) # {}
          THEN SumFunctionOnSet([r \in TaxRules |-> r.percent],
                                {r \in matched(v) : r.name = n})
          ELSE IF n = "Tax" THEN Good[v].tax_percent ELSE 0
      amount(n) ==
        HalfUp(SumFunctionOnSet([v \in Variant |-> LineTotal(items, v) * percent(v, n)],
                                Lines(items)), 100)
  IN  {[name |-> n, amount |-> amount(n)] : n \in {m \in names : amount(m) > 0}}

TaxTotal(lines) == SumFunctionOnSet([l \in lines |-> l.amount], lines)

-----------------------------------------------------------------------------
(* Delivery.                                                               *)

\* ShippingRate.covers: bands are half open.
Covers(b, weight, value) ==
  /\ b.min_weight <= weight /\ (b.max_weight # None => weight < b.max_weight)
  /\ b.min_value <= value /\ (b.max_value # None => value < b.max_value)

\* ShippingRate.charge_for
ChargeFor(b, value) ==
  IF b.free_over # None /\ value >= b.free_over THEN 0 ELSE b.price

\* quote: for each method the first band that covers the parcel, the lightest
\* first, among the bands in force.
DeliveryOptions(items, country, value, bands) ==
  LET fits(m) == {b \in bands : /\ b.zone = ZoneOf[country] /\ b.method = m
                                /\ Covers(b, Weight(items), value)}
      first(m) == CHOOSE b \in fits(m) :
                    \A c \in fits(m) : b.min_weight <= c.min_weight
  IN  IF country = None \/ Lines(items) = {} THEN {}
      ELSE IF country \notin Shippable \/ ZoneOf[country] = None THEN {}
      ELSE {[method |-> m, price |-> ChargeFor(first(m), value)] :
              m \in {n \in DOMAIN Methods : fits(n) # {}}}

\* default_option: the cheapest, then the fastest.
DefaultOption(options) ==
  IF options = {} THEN None
  ELSE CHOOSE o \in options : \A p \in options :
         \/ o.price < p.price
         \/ o.price = p.price /\ Methods[o.method].min_days
                                 <= Methods[p.method].min_days

OptionByCode(options, code) ==
  IF \E o \in options : o.method = code
    THEN CHOOSE o \in options : o.method = code
    ELSE None

\* legacy_flat_charge
FlatCharge(value) ==
  IF FreeThreshold # 0 /\ value >= FreeThreshold THEN 0 ELSE FlatDelivery

-----------------------------------------------------------------------------
(* The cart page, which has rules of its own.                              *)

CartDelivery(items, discounted) ==
  IF Lines(items) = {} THEN 0
  ELSE IF discounted >= FreeThreshold THEN 0 ELSE FlatDelivery

CartTax(discounted) == HalfUp(discounted * FlatTax, 100)

\* Cart.as_summary, for a coupon discount already worked out.
Summary(items, discount) ==
  LET subtotal == Subtotal(items)
      discounted == AtLeastZero(subtotal - discount)
  IN  [subtotal |-> subtotal,
       product_discount |-> AtLeastZero(MrpTotal(items) - subtotal),
       coupon_discount |-> discount,
       delivery |-> CartDelivery(items, discounted),
       tax |-> CartTax(discounted),
       total |-> discounted + CartDelivery(items, discounted)
                 + CartTax(discounted)]

-----------------------------------------------------------------------------
(* Currencies.                                                             *)

\* Currency.quantize of n / 100 hundredths: to the smallest unit there is (in
\* hundredths), to the nearest whole one, or up to it.
Quantize(currency, n) ==
  CASE currency.rounding = "none" ->
         currency.unit * HalfUp(n, 100 * currency.unit)
    [] currency.rounding = "nearest" -> 100 * HalfUp(n, 10000)
    [] currency.rounding = "up" -> 100 * Ceiling(n, 10000)

\* convert, at a rate in hundredths.
Convert(amount, currency, rate) == Quantize(currency, amount * rate)
=============================================================================
