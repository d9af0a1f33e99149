------------------------------ MODULE Pricing ------------------------------
(***************************************************************************)
(* One customer's way from the basket to the invoice, as far as money      *)
(* goes: the coupon on the cart, the delivery prices the payment page      *)
(* shows, the figures place_order freezes and the invoice prints           *)
(* (src/apps/orders/services.py, orders/views.py, coupons/services.py,     *)
(* invoices/services.py), while coupons end, rate bands are withdrawn and  *)
(* exchange rates move.                                                    *)
(*                                                                         *)
(* Each handler reads what it needs in one go here; races for stock and    *)
(* for the last use of a coupon are in module Checkout.  Refused orders    *)
(* change nothing and are no step.  Which products may be paid on delivery *)
(* is left out.                                                            *)
(***************************************************************************)
EXTENDS Quoting

CONSTANTS
  Coupon,         \* the coupon codes
  Terms,          \* the terms of each coupon
  Baskets,        \* bound: the baskets people check out with
  Destinations,   \* bound: the countries and states they live in
  Currency,       \* the currencies orders are charged in: [rounding, unit]
  BaseCurrency,   \* the currency of the prices
  FirstRate,      \* the exchange rate of each currency at first
  LaterRates,     \* bound: the rates set later
  MaxSettings,    \* bound: coupons and bands switched off
  MaxDay          \* bound: days

CouponRow ==
  [type : {"percentage", "fixed", "free_shipping"}, value : Nat,
   max_discount : Optional(Nat), min_order_value : Nat,
   products : SUBSET {Good[v].product : v \in Variant},
   categories : SUBSET DOMAIN Parent, first_order_only : BOOLEAN,
   per_user : Nat, usage_limit : Optional(Nat), used_count : Nat,
   is_active : BOOLEAN, valid_from : Nat, valid_to : Optional(Nat)]

\* unit is the smallest amount, in hundredths: one with two decimal places, a
\* hundred with none.
CurrencyRow == [rounding : {"none", "nearest", "up"}, unit : Nat \ {0}]

ASSUME PricingAssumption ==
  /\ Terms \in [Coupon -> CouponRow]
  /\ Currency \in [DOMAIN Currency -> CurrencyRow]
  /\ BaseCurrency \in DOMAIN Currency
  /\ FirstRate \in [DOMAIN Currency -> Nat \ {0}]
  /\ Destinations \subseteq [country : Optional(DOMAIN ZoneOf), state : Optional(STRING)]
  /\ Baskets \subseteq [Variant -> Nat] /\ None \notin Baskets
  /\ LaterRates \subseteq Nat \ {0}
  /\ None \notin Coupon
  /\ MaxSettings \in Nat /\ MaxDay \in Nat

VARIABLES
  today,     \* the date
  retired,   \* coupons whose is_active was switched off
  withdrawn, \* bands whose is_active was switched off
  rate,      \* the newest exchange rate of each currency
  customer,  \* who shops: [items, to, member, ordered]
  attached,  \* Cart.coupon
  shown,     \* the payment page last opened: [options, page], or None
  order,     \* the order's frozen figures, or None
  invoice    \* the invoice's figures, or None

pricingVars == <<today, retired, withdrawn, rate, customer, attached, shown, order,
          invoice>>
settings == <<retired, withdrawn, rate>>

PricingInit ==
  /\ today = 0
  /\ retired = {} /\ withdrawn = {}
  /\ rate = FirstRate
  /\ customer \in [items : Baskets, to : Destinations,
                   member : BOOLEAN, ordered : BOOLEAN]
  /\ attached = None /\ shown = None /\ order = None /\ invoice = None

items == customer.items
country == customer.to.country
state == customer.to.state

\* The coupon as it is today.
Live(c) == [Terms[c] EXCEPT !.is_active = c \notin retired]

BandsInForce == {b \in Bands : b \notin withdrawn}

\* Uses the customer has made of the coupon: there is one order at most.
Mine(c) == IF order # None /\ order.coupon = c THEN 1 ELSE 0

Valid(c, checked) ==
  CheckValidity(Live(c), customer.member, Mine(c),
                customer.ordered \/ order # None, today, Subtotal(items),
                checked)

-----------------------------------------------------------------------------
(* The cart and its coupon.                                                *)

\* Cart.coupon_discount, worked out again on every read.
CartDiscount ==
  IF attached # None /\ Valid(attached, None)
    THEN DiscountFor(Live(attached), Subtotal(items), None)
    ELSE 0

\* What the cart page says.
CartPage == Summary(items, CartDiscount)

\* apply_to_cart with validate_for_cart
ApplyCoupon(c) ==
  /\ order = None
  /\ Lines(items) # {}
  /\ Valid(c, items)
  /\ \/ DiscountFor(Live(c), Subtotal(items), items) > 0
     \/ Terms[c].type = "free_shipping"
  /\ attached' = c
  /\ UNCHANGED <<today, settings, customer, shown, order, invoice>>

RemoveCoupon ==
  /\ order = None
  /\ attached' = None
  /\ UNCHANGED <<today, settings, customer, shown, order, invoice>>

-----------------------------------------------------------------------------
(* Checkout.                                                               *)

\* CheckoutPaymentView.get: the cart's own summary, and delivery options that
\* are quoted on the subtotal whatever the coupon takes off it.
ShowPayment ==
  /\ order = None /\ customer.member /\ Lines(items) # {}
  /\ shown' = [options |-> DeliveryOptions(items, country, Subtotal(items),
                                           BandsInForce),
               page |-> CartPage]
  /\ UNCHANGED <<today, settings, customer, attached, order, invoice>>

\* Mutant: the discount of the cart page is taken over.
OrderDiscountOfCart == CartDiscount

OrderDiscount ==
  IF attached = None THEN 0
  ELSE DiscountFor(Live(attached), Subtotal(items), items)

Discounted == AtLeastZero(Subtotal(items) - OrderDiscount)

FreeShipping == attached # None /\ Terms[attached].type = "free_shipping"

\* The value delivery is quoted for at placement.
OptionsAtPlacement ==
  DeliveryOptions(items, country, Discounted, BandsInForce)

\* The option an order is placed with, when the customer sent this code.
ChosenOption(code) ==
  LET named == OptionByCode(OptionsAtPlacement, code)
  IN  IF code # None /\ named # None THEN named
      ELSE DefaultOption(OptionsAtPlacement)

\* The code names an option that is no longer there, or nothing delivers to
\* a country although the rate table has rows in force.
DeliveryRefused(code) ==
  /\ ~FreeShipping
  /\ IF OptionsAtPlacement # {}
       THEN code # None /\ OptionByCode(OptionsAtPlacement, code) = None
       ELSE BandsInForce # {} /\ country # None

DeliveryCharge(code) ==
  IF FreeShipping THEN 0
  ELSE IF OptionsAtPlacement # {} THEN ChosenOption(code).price
  ELSE FlatCharge(Discounted)

TaxCharge ==
  LET computed == TaxTotal(TaxLines(items, country, state, today))
  IN  IF computed = 0 /\ country = None THEN CartTax(Discounted) ELSE computed

\* The rate an order in this currency is charged at.
RateFor(cur) == IF cur = BaseCurrency THEN 100 ELSE rate[cur]

\* redeem counts against the limit itself, and a limit of zero is a limit.
Redeemable(c) ==
  Terms[c].usage_limit # None => Terms[c].used_count < Terms[c].usage_limit

\* place_order, as far as money goes.
PlaceOrder(code, cur) ==
  LET subtotal == Subtotal(items)
      savings == SumFunctionOnSet([v \in Variant |-> LineSavings(items, v)], Lines(items))
      delivery == DeliveryCharge(code)
      tax == TaxCharge
      total == Discounted + delivery + tax
      charged(amount) == Convert(amount, Currency[cur], RateFor(cur))
  IN  /\ order = None /\ customer.member /\ Lines(items) # {}
      /\ attached # None => Valid(attached, items) /\ Redeemable(attached)
      /\ country # None => country \in Shippable
      /\ ~DeliveryRefused(code)
      /\ order' = [subtotal |-> subtotal, product_discount |-> savings,
                   coupon |-> attached, coupon_discount |-> OrderDiscount,
                   delivery |-> delivery, tax |-> tax, total |-> total,
                   method |-> IF OptionsAtPlacement = {} THEN None
                              ELSE ChosenOption(code).method,
                   tax_lines |-> TaxLines(items, country, state, today),
                   currency |-> cur, rate |-> RateFor(cur),
                   placed |-> today,
                   charged_subtotal |-> charged(subtotal),
                   charged_discount |-> charged(savings + OrderDiscount),
                   charged_delivery |-> charged(delivery),
                   charged_tax |-> charged(tax),
                   charged_total |-> charged(total)]
      /\ attached' = None
      /\ UNCHANGED <<today, settings, customer, shown, invoice>>

-----------------------------------------------------------------------------
(* The invoice.                                                            *)

\* A figure in the order's currency: the frozen one, or when that is zero the
\* base amount at the order's rate, to the hundredth.
Figure(base, stored, at) ==
  IF stored # 0 THEN stored ELSE HalfEven(base * at, 100)

\* Mutant: the invoice converts again, at the rate of the day.
IssueInvoiceAtRateOfTheDay ==
  /\ order # None /\ invoice = None
  /\ invoice' = [total |-> Convert(order.total, Currency[order.currency],
                                   RateFor(order.currency)),
                 subtotal |-> order.charged_subtotal,
                 delivery |-> order.charged_delivery,
                 tax |-> order.charged_tax, tax_lines |-> {}, lines |-> {}]
  /\ UNCHANGED <<today, settings, customer, attached, shown, order>>

\* issue_for
IssueInvoice ==
  /\ order # None /\ invoice = None
  /\ invoice' =
       [subtotal |-> Figure(order.subtotal, order.charged_subtotal, order.rate),
        delivery |-> Figure(order.delivery, order.charged_delivery, order.rate),
        tax |-> Figure(order.tax, order.charged_tax, order.rate),
        total |-> Figure(order.total, order.charged_total, order.rate),
        lines |-> {[variant |-> v,
                    total |-> items[v] * Figure(Price(v), 0, order.rate)] :
                     v \in Lines(items)},
        tax_lines |-> {[name |-> l.name,
                        amount |-> Figure(l.amount, 0, order.rate)] :
                         l \in order.tax_lines}]
  /\ UNCHANGED <<today, settings, customer, attached, shown, order>>

-----------------------------------------------------------------------------
(* The back office, meanwhile.                                             *)

MoreSettings == Cardinality(retired) + Cardinality(withdrawn) < MaxSettings

RetireCoupon(c) ==
  /\ MoreSettings
  /\ retired' = retired \cup {c}
  /\ UNCHANGED <<today, withdrawn, rate, customer, attached, shown, order,
                 invoice>>

WithdrawBand(b) ==
  /\ MoreSettings
  /\ withdrawn' = withdrawn \cup {b}
  /\ UNCHANGED <<today, retired, rate, customer, attached, shown, order,
                 invoice>>

\* set_rate: not for the base currency.
SetRate(cur, r) ==
  /\ cur # BaseCurrency
  /\ rate' = [rate EXCEPT ![cur] = r]
  /\ UNCHANGED <<today, retired, withdrawn, customer, attached, shown, order,
                 invoice>>

NextDay ==
  /\ today < MaxDay
  /\ today' = today + 1
  /\ UNCHANGED <<settings, customer, attached, shown, order, invoice>>

PricingNext ==
  \/ \E c \in Coupon : ApplyCoupon(c) \/ RetireCoupon(c)
  \/ RemoveCoupon
  \/ ShowPayment
  \/ \E code \in DOMAIN Methods \cup {None}, cur \in DOMAIN Currency :
       PlaceOrder(code, cur)
  \/ IssueInvoice
  \/ \E b \in Bands : WithdrawBand(b)
  \/ \E cur \in DOMAIN Currency, r \in LaterRates : SetRate(cur, r)
  \/ NextDay

PricingSpec == PricingInit /\ [][PricingNext]_pricingVars

-----------------------------------------------------------------------------
(* Properties.                                                             *)

Charges == {"charged_subtotal", "charged_discount", "charged_delivery",
            "charged_tax", "charged_total"}

\* Types: no figure is negative, a coupon takes off no more than the basket
\* is worth, and what an order costs is what its parts add up to.
PricingTypeOK ==
  /\ today \in 0 .. MaxDay
  /\ retired \subseteq Coupon /\ withdrawn \subseteq Bands
  /\ attached \in Coupon \cup {None}
  /\ order # None =>
       /\ order.coupon_discount \in 0 .. order.subtotal
       /\ order.delivery \in Nat /\ order.tax \in Nat
       /\ order.tax_lines # {} => order.tax = TaxTotal(order.tax_lines)
       /\ order.total = order.subtotal - order.coupon_discount
                        + order.delivery + order.tax
       /\ \A f \in Charges : order[f] \in Nat
  /\ invoice # None => order # None

\* The part of a basket a coupon covers.
Qualifying(c) ==
  [v \in Variant |->
     IF ~Restricted(Terms[c]) THEN items[v]
     ELSE IF \/ Good[v].product \in Terms[c].products
             \/ \E d \in Terms[c].categories : d \in Lineage(Good[v].category)
     THEN items[v] ELSE 0]

\* Lines a coupon does not cover earn no discount: the order gets what the
\* covered lines alone would get.  The cart page does without its items when
\* it works the discount out, place_order does not (orders/services.py:135).
OtherLinesEarnNothing ==
  order # None /\ order.coupon # None =>
    LET c == Terms[order.coupon]
        only == Qualifying(order.coupon)
    IN  order.coupon_discount =
          DiscountFor([c EXCEPT !.products = {}, !.categories = {}],
                      Subtotal(only), only)

\* The invoice asks for what the order was charged, whatever the exchange
\* rate has become since; only a charge that rounded to nothing is converted
\* again, to less than the currency's smallest unit.  Its own lines come from
\* the same rate: at most a rounding per piece away from the subtotal
\* (invoices/services.py:63, geo/services.py:136).
InvoiceKeepsCharge ==
  invoice # None =>
    LET cur == Currency[order.currency]
        whole == IF cur.rounding = "none" THEN cur.unit ELSE 100
        listed == SumFunctionOnSet([l \in invoice.lines |-> l.total], invoice.lines)
        gap == listed - invoice.subtotal
        pieces == SumFunctionOnSet(items, Lines(items))
    IN  /\ order.charged_total = Convert(order.total, cur, order.rate)
        /\ \/ invoice.total = order.charged_total
           \/ order.charged_total = 0 /\ invoice.total < whole
        /\ pieces + whole >= gap /\ pieces + whole >= -gap

\* What a customer who has chosen one of the delivery options shown is asked
\* for it is the price shown, unless a band was withdrawn.
\* (orders/views.py:157: "the price shown here is the price charged".)
ShownDeliveryCharged ==
  order # None /\ shown # None /\ withdrawn = {}
      /\ order.method # None
      /\ ~(order.coupon # None /\ Terms[order.coupon].type = "free_shipping")
    => order.delivery \in {o.price : o \in {p \in shown.options :
                                              p.method = order.method}}
=============================================================================
