------------------------------- MODULE MCDesk -------------------------------
(***************************************************************************)
(* One instance for TLC of the components that do not share state with the *)
(* order handlers.  A behaviour is a behaviour of one of them: part names  *)
(* it, and the others stay as they begin, each in one of its first states. *)
(***************************************************************************)
EXTENDS MCPricing, StockDesk, Paperwork, SignInCodes, AddressBook, Carts,
        Helpdesk, Reviews, Importer, ExchangeRates, Listing, MCReports,
        OrderDesk, CheckoutPages

VARIABLE part

(* StockDesk: two variants, the SKU of one beginning with the other's.     *)
MCStock == [SAREE1 |-> 2, SAREE10 |-> 3]
MCLonger == [SAREE1 |-> {"SAREE1", "SAREE10"}, SAREE10 |-> {"SAREE10"}]
MCLine == [l1 |-> [variant |-> "SAREE1", quantity |-> 1],
           l2 |-> [variant |-> "SAREE1", quantity |-> 2]]

(* Paperwork: two orders and a ticket.                                     *)
MCSeriesOf == [o1 |-> "INV", o2 |-> "INV", t1 |-> "SUP"]

(* OrderDesk: one order of the only cup there is.                          *)
MCCup == [v \in Shopped |-> 1]
MCCups == {MCCup}

(* Importer: three options, two of them with one slug.                     *)
MCLabel(option) == IF option = "blue" THEN "blue" ELSE "reds"
MCStocks == {-1, 1}

(* Listing: two products, in a category and in the one above it.           *)
MCSaree == [category |-> "sarees", brand |-> "meridian", name |-> "saree"]
MCLamp == [category |-> "women", brand |-> "lumen", name |-> "lamp"]
MCItem == {MCSaree, MCLamp}
MCPiece == {[item |-> MCSaree, size |-> "M", color |-> "red"],
            [item |-> MCLamp, size |-> "L", color |-> ""]}
MCTree == [women |-> {"sarees"}, sarees |-> {}]
MCTag == {[code |-> "fabric", value |-> "silk"]}
MCHits(term, item) == item.name = term

(* Pricing: two baskets; the one customer there is while another part runs,*)
(* and of those without an account one.                                    *)
MCTwoBaskets == {[saree |-> 1, lamp |-> 1], [saree |-> 1, lamp |-> 0]}
MCBasket == [saree |-> 1, lamp |-> 1]
MCHome == [country |-> "IN", state |-> "Kerala"]
MCTwoCurrencies == [c \in {"INR", "JPY"} |-> MCCurrency[c]]
MCTwoRates == [c \in {"INR", "JPY"} |-> MCFirstRate[c]]

(* CheckoutPages: where the visitor comes from prices are not in rupees.   *)
MCInDollars == [US |-> "USD"]

DeskInit ==
  /\ part \in {"pricing", "stock", "paper", "codes", "book", "carts", "help",
               "reviews", "import", "geo", "list", "reports", "form",
               "pages"}
  /\ PricingInit
  /\ customer.member \/ (~customer.ordered /\ customer.to = MCHome)
  /\ part # "pricing" =>
       customer = [items |-> MCBasket, to |-> MCHome, member |-> TRUE, ordered |-> TRUE]
  /\ StockDeskInit
  /\ PaperworkInit
  /\ CodesInit
  /\ BookInit
  /\ CartsInit /\ (part # "carts" => shelf = [w \in Ware |-> 0])
  /\ HelpInit
  /\ ReviewsInit
  /\ ImporterInit /\ (part # "import" => products = {} /\ variants = {})
  /\ GeoInit
  /\ ListingInit /\ (part # "list" => tags = {})
  /\ ReportsInit
  /\ OrderDeskInit
  /\ PagesInit

\* Everything but the part that moves.
OthersStay ==
  /\ UNCHANGED part
  /\ IF part = "pricing" THEN TRUE ELSE UNCHANGED pricingVars
  /\ IF part = "stock" THEN TRUE ELSE UNCHANGED stockVars
  /\ IF part = "paper" THEN TRUE ELSE UNCHANGED paperVars
  /\ IF part = "codes" THEN TRUE ELSE UNCHANGED codeVars
  /\ IF part = "book" THEN TRUE ELSE UNCHANGED bookVars
  /\ IF part = "carts" THEN TRUE ELSE UNCHANGED cartVars
  /\ IF part = "help" THEN TRUE ELSE UNCHANGED helpVars
  /\ IF part = "reviews" THEN TRUE ELSE UNCHANGED reviewVars
  /\ IF part = "import" THEN TRUE ELSE UNCHANGED importVars
  /\ IF part = "geo" THEN TRUE ELSE UNCHANGED geoVars
  /\ IF part = "list" THEN TRUE ELSE UNCHANGED listVars
  /\ IF part = "reports" THEN TRUE ELSE UNCHANGED reportVars
  /\ IF part = "form" THEN TRUE ELSE UNCHANGED orderDeskVars
  /\ IF part = "pages" THEN TRUE ELSE UNCHANGED pagesVars

DeskNext ==
  \/ part = "pricing" /\ PricingNext /\ OthersStay
  \/ part = "stock" /\ StockDeskNext /\ OthersStay
  \/ part = "paper" /\ PaperworkNext /\ OthersStay
  \/ part = "codes" /\ CodesNext /\ OthersStay
  \/ part = "book" /\ BookNext /\ OthersStay
  \/ part = "carts" /\ CartsNext /\ OthersStay
  \/ part = "help" /\ HelpNext /\ OthersStay
  \/ part = "reviews" /\ ReviewsNext /\ OthersStay
  \/ part = "import" /\ ImporterNext /\ OthersStay
  \/ part = "geo" /\ GeoNext /\ OthersStay
  \/ part = "list" /\ ListingNext /\ OthersStay
  \/ part = "reports" /\ ReportsNext /\ OthersStay
  \/ part = "form" /\ OrderDeskNext /\ OthersStay
  \/ part = "pages" /\ PagesNext /\ OthersStay

deskVars == <<part, pricingVars, stockVars, paperVars, codeVars, bookVars, cartVars,
              helpVars, reviewVars, importVars, geoVars, listVars, reportVars, orderDeskVars,
              pagesVars>>

DeskSpec == DeskInit /\ [][DeskNext]_deskVars

\* The types of all parts.
DeskTypeOK ==
  /\ part = "pricing" => PricingTypeOK
  /\ part = "stock" => StockDeskTypeOK
  /\ part = "paper" => PaperworkTypeOK
  /\ part = "codes" => CodesTypeOK
  /\ part = "book" => BookTypeOK
  /\ part = "carts" => CartsTypeOK
  /\ part = "help" => HelpTypeOK
  /\ part = "reviews" => ReviewsTypeOK
  /\ part = "import" => ImporterTypeOK
  /\ part = "geo" => GeoTypeOK
  /\ part = "list" => ListingTypeOK
  /\ part = "reports" => ReportsTypeOK
  /\ part = "form" => OrderDeskTypeOK
=============================================================================
