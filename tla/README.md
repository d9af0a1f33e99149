# Formal model of the e-commerce shop

TLA+ modules, TLC configurations and TLAPS proofs for the Django shop in
`src/`. They cover the part of the program where money and stock change hands
(placing an order, paying for it, shipping, cancelling or returning it, and the
stock and coupon it takes with it) and the components around it that keep state of
their own. Paths below are relative to `src/apps/` unless they
start with `src/`.

- [Inventory of the system](#inventory-of-the-system)
- [The modules](#the-modules)
- [The runs](#the-runs)
- [The proofs](#the-proofs)
- [Where code and documentation part](#where-code-and-documentation-part)
- [What is not modelled](#what-is-not-modelled)
- [Plan](#plan)

## Inventory of the system

The program is a Django monolith over PostgreSQL (`src/config/settings/base.py`,
default isolation READ COMMITTED, one transaction for each `transaction.atomic`,
`ATOMIC_REQUESTS` not set). Web workers run side by side and share nothing but the
database and the cache. A *service* module of each app holds its logic; the
views, the REST API and the admin call it. Concurrency is row locks
(`select_for_update`), unique constraints and, in many places, nothing.

| component | state | operations | what makes it correct |
|---|---|---|---|
| inventory | one row for each variant: available, reserved, sold, returned, damaged; a movement log | `reserve`, `release`, `commit`, `restore`, `write_off`, `adjust`, `restock`, `check_availability`; admin form | no figure below zero, reservations fit the shelf, sold figures match the orders |
| orders | status, payment status, lines, `stock_committed`, refunded amount, return requests | `place_order`, `confirm_cod`, `mark_paid`, `mark_payment_failed`, `transition_order`, `cancel_order`, `request_return`, `process_return`, `record_refund` | stock is sold once, nothing unsold is shipped, payments are not lost, statuses follow the table |
| coupons | `used_count`, one usage row for each order | `check_validity`, `redeem`, `revoke`, `discount_for` | counter equals rows, both within the limits |
| cart | lines, attached coupon | `add_to_cart`, `update_quantity`, `remove_item`, `merge_carts`, `clear`, `clamp_cart_to_stock` | one line for each variant, quantities within stock and the cap |
| payments | `Payment` rows, `WebhookEvent` rows | `start_payment`, `verify_payment`, `cancel_payment`, `webhook` | paid only with the gateway's proof, every charge reaches its order, retries are harmless |
| shipping | parcels, their items and carrier events; zones, methods, rate bands | `create_shipment`, `record_event`, `_sync_order`; `quote` | never more shipped than ordered, the order follows its parcels |
| invoices | number series, invoices | `allocate`, `issue_for` | numbers unique, one invoice for each order |
| geo | countries, currencies, exchange rates, cached rates | `rate_for`, `set_rate`, `convert` | a new rate takes effect at once |
| tax | rules | `applicable_rules`, `compute` | the most specific rule, rounded once |
| accounts | users, addresses, one-time codes | `issue`, `verify`, `make_default` | a code works once, attempts are bounded, one default |
| support | tickets, messages | `open_ticket`, `add_message`, `set_status` | a closed ticket stays closed |
| reviews | reviews, denormalised ratings | `create_review`, `recalculate_product_rating` | the rating is the average of what is approved |
| catalog | products, variants, categories | importer, search, filters | the importer respects the stock rules |
| notifications, audit | messages, log rows | `send`, `record` | never break the operation they report |
| wishlist, marketing, cms, dashboard, core, api, settings | content, reports, entry points | reads and single-row writes | - |

How they interact: a checkout view reads the **cart**, calls `place_order`, which
reads **inventory**, **coupons**, **shipping**, **tax** and **geo**, locks
inventory rows and the coupon row, and writes the order. A COD view calls
`confirm_cod` in a second transaction. Otherwise the customer goes to
**payments**, whose views and webhook call `mark_paid` or `mark_payment_failed`.
Staff move orders through the API and the admin, and **shipping** moves them
when parcels move. Signals (**notifications**, **audit**, **reviews**) run after
a save. Nothing is scheduled: no job expires anything.

The behaviours that are hard to test, each with its line and the properties
that cover it, are the `hazards` of `PROJECT.json`. In short:

- the same order is confirmed, paid, failed and cancelled by actors that do not
  know of each other, in any order and repeatedly;
- `place_order` reads without locks and then locks row by row in cart order, so
  requests race for the last unit, deadlock, and fail halfway;
- a webhook is several transactions, so workers die between them, two workers
  hold one event, and the gateway retries;
- quantities are floored at zero, so an order that gives back what it no longer
  holds takes what belongs to another;
- returns are requested without a lock and processed from a list read earlier, while
  staff cancel the order and late payments confirm it again;
- carriers repeat and reorder their updates, and an order follows parcels that were
  read before it was locked;
- the checkout's pages and its order are tied by a session that requests load and store
  whole, while addresses, rates and the cart change under an open page;
- two edit forms of the admin save whole rows that were read earlier, past the
  service layer and its locks;
- sign-in codes, default addresses, cart merges, tickets, ratings, the rate cache
  and numbered documents are each a read and a write with something in between;
- the same figure is computed in two places (the payment page and the placement, a
  dry run and a run, a tile and a report) and has to agree.

## The modules

| module | models | extends |
|---|---|---|
| `StockRow` | the arithmetic of one inventory row | - |
| `Counting` | sums over sets, as the number of things they count | - |
| `Orders` | the life of an order: one action for each service function, each a transaction under the order's row lock | `StockRow` |
| `Checkout` | `place_order` at the grain of its locks; implements `Orders` | `StockRow`, instance of `Orders` |
| `Payments` | payment views, webhook, gateway and workers around `Orders` | `Orders` |
| `Returns` | return requests and the return desk around `Orders` | `Orders` |
| `Shipments` | packers, parcels and carrier updates around `Orders` | `Orders` |
| `OrderDesk` | the edit form of an order and the trail of its statuses around `Orders` | instance of `Orders` |
| `StockDesk` | everything that writes an inventory row: services, form, import, with log and alerts | `StockRow` |
| `Quoting` | discounts, tax, delivery and currency as pure operators | - |
| `Pricing` | the customer's way from basket to invoice, as far as money goes | `Quoting` |
| `Paperwork` | number series, invoices and their mail | - |
| `Carts` | guest cart, account cart, merge at sign-in, wishlist | - |
| `SignInCodes`, `AddressBook` | one-time codes; the default address | - |
| `Helpdesk`, `Reviews` | a ticket's turn; ratings and helpful votes | - |
| `Importer`, `Listing` | the bulk upload; the product listing with its facets | - |
| `ExchangeRates` | the rate cache and what visitors are shown | - |
| `Reports` | the dashboard's figures | - |
| `CheckoutPages` | the address and payment pages with the session between them: what is ordered against what was shown | - |
| `CountingProofs` | lemmas about those sums, and that the library's fold over a set is one of them | `Counting`, `Functions` |
| `OrdersProofs`, `CheckoutProofs` | theorems and proofs about `Orders`; about `Checkout` and `CheckoutPages` | the module they are about, `CountingProofs` |
| `PaymentsProofs`, `ReturnsProofs`, `ShipmentsProofs` | the same about the modules around `Orders` | the module they are about, `OrdersProofs` |
| `BackOfficeProofs` | about `StockDesk`, `Paperwork`, `Helpdesk`, `OrderDesk`, `Reports`, `Importer` | those, `CountingProofs`, an instance of `OrdersProofs` |
| `StorefrontProofs` | about `AddressBook`, `SignInCodes`, `Carts`, `ExchangeRates`, `Reviews`, `Listing`, `Pricing`, and the fourteen parts together | `MCDesk`, `BackOfficeProofs` |
| `MCOrders`, `MCCheckout`, `MCPayments`, `MCReturns`, `MCShipments`, `MCPricing`, `MCReports` | instances for TLC | the module they instantiate |
| `MCDesk` | one instance of the fourteen modules that share no variable; a behaviour is a behaviour of one of them | all of them |

### StockRow

`Reserve`, `Release`, `Commit`, `Restore` (a cancellation) and `RestoreReturned` (a
return) are what the functions of
`inventory/services.py` do to the locked row; `CanReserve` is the check of
`reserve`; `Monus` is `max(a - b, 0)`. A quantity of zero leaves the row alone,
as the early returns of the code do. The movement log is left out: it is append-only and
nothing reads it to decide anything.

### Orders

State and code: `status`, `payment_status`, `payment_method` and
`stock_committed` are the columns of `Order`; `basket` is the quantity of each
variant on its lines; `inventory` the table of rows; `usages` the `CouponUsage`
rows of one coupon and `used_count` its counter; `confirming` the COD requests
between their two transactions; `attempted` the orders with a `Payment` row.
`commits` and `restores` are history, and the only variables the code does not have.

| action | code |
|---|---|
| `PlaceOrder` | `place_order`, as one step (see `Checkout`) |
| `ConfirmCod`, `LoseCodRequest` | the view's second transaction, and its loss |
| `StartPayment` | `start_payment`, as far as the order can tell |
| `MarkPaid`, `MarkPaymentFailed` | the functions of these names |
| `TransitionOrder` | `transition_order`, called with any status by staff and by parcels |
| `CancelOrder` | `cancel_order`, by the customer or with `staff_override` |

One handler is one action because each of these functions first locks the order
row and writes everything in one transaction. The payment methods other than COD
behave alike and are one value, `"online"`. The cancellation window is a clock
condition: a customer's cancellation may or may not happen in any cancellable
status. Money, addresses, item statuses, the status history and the invoice are
left out: no guard of these handlers reads them.

### Checkout

Each request runs the steps of `place_order`: `ReadCart` (cart and stock, no
lock), `Quote` or `RefuseQuote` (coupon, address, delivery; no lock), for each line
`AskRow` then `TakeRow` (wait for the row lock, check under it, reserve),
`RedeemCoupon` (lock, check and use the coupon), `CommitOrder` (clear the cart
and commit). `DeadlockVictim` is PostgreSQL rolling one transaction of a wait
cycle back; `Abort` is a lost worker. `AddToCart`, `ApplyCoupon` and `RemoveCoupon` change a
cart under a running request, from another tab, and `ReleaseOrder` is a failed payment of a placed order giving its units back. The
variables hold committed data; a request's own writes are implied by the rows it
has locked, because nobody can see them before the commit.

A request that loses a race under a lock ends as `"failed"`, not `"refused"`:
`InsufficientStock` and `CouponError` are no `OrderError`, and the views do not
catch them.

### Payments

The gateway (external) charges or declines, and delivers events until answered.
`VerifyPayment` is `verify_payment` up to the gateway's word: with Razorpay the signature
over the payment's own gateway order, with Stripe what `retrieve` says of the intent the
browser posted, whichever it is (`Posted`). The row is saved on that word later
(`SaveCaptured`, `SaveFailed`), whatever became of it meanwhile, and the order is told in
one more transaction (`VerifyPaid`, `VerifyRejected`); `LoseVerify` is the request's death
before any of these.

An event is about a payment, of a kind, and with an id: the kind is a charge
(`"captured"`), a decline (`"failed"`) or any other event whose type does not contain "fail"
and which the code takes for a success too (`"other"`); the id is the event's own, or the
`gateway_order_id` the code falls back to (`"reference"`: such events of one payment share
a `WebhookEvent` row, `SameRow`), or missing (`"none"`: answered 400 for good). Which of them
there are is the constant `Event`. `Receive`, `ProcessCaptured`, `ProcessPaid` (or `ProcessFailed`)
and `Finish` are the transactions of a webhook call; `Crash` ends a call between any two of them, by a
dead worker or by the 500 of the `except` branch. A webhook is authentic: the signature
is abstracted to the fact that only the gateway puts events in `emitted`. Amounts and the
mock gateway of development are left out. `applied`, `reapplied` (of the events in `Traced`)
and `denied` are history.

### Returns

`AskReturn` is `request_return` up to its insert: it reads the order and the line's
earlier requests and locks nothing. `InsertReturn` is the rest; it makes the
order `return_requested` whatever it has become meanwhile, because the code tests
the status it read. A member of staff starts an admin action with `OpenBatch`,
which reads the list; for each entry `TakeReturn` locks the request and reads what
`process_return` reads, and `ApproveReturn`, `RejectReturn` or `CompleteReturn`
commits. `process_return` checks no status, so an entry somebody else has dealt
with since is processed all the same. `DropBatch` is a lost worker between
entries, `EditReturn` the edit form and the inline of the order, which write the
status only. A request is for one variant of an order: an order has one line for each
variant. `completions` is history. Whether an item is returnable and whether the
window is open are inputs: a customer may or may not ask.

### Shipments

`StartPacking` is `create_shipment` up to what it counts without a lock, `FinishPacking`
its insert. An update is three steps: `LoadParcel` (the caller reads the parcel),
`RouteOrder` (`record_event` writes the status under the parcel's row lock, and
`_sync_order` reads order and parcels and asks `_fulfilment_path`), and `Walk` or `Stay`
(the transitions under the order's lock, and the commit). The order can change
between the last two. `FulfilmentPath` is the breadth-first search, written
as what it finds: a shortest legal walk through the safe statuses. `arrived` is history. Neither
function has a caller outside the tests, so who packs and who reports is not
restricted.

### OrderDesk

`HandlerStep` is any handler of `Orders`, with the row it leaves in
`OrderStatusHistory` (`Logged`) or, on its early returns, does not (`Silent`). The
form is four steps: `OpenOrder` (the page), `PostOrder` (the row is read and the
posted values put on it), `ReadBack` (`AuditedModelAdmin.save_model` reads the row
again, to compare) and `SaveOrder` (the whole row is saved, and the audit entry
written for what differs). Staff post the page as it is, with another status, or
as paid. Of the columns the form carries but does not show, the model keeps
`stock_committed`, the one a handler decides on. `lastTold` is what the history and the
audit log said last; `savedOver` and `unheard` are history and name the
two windows of the form.

### StockDesk

Each service function is a step under the row lock; `WriteOff`, `Adjust`, `Restock`
write the movement log as the code does (`Log` keeps a total per reason).
`OpenForm`, `PostForm`, `SaveForm` are the inventory form: shown, read again when posted,
saved whole. The importer reads a row without a lock (`ReadForImport`) and writes the shelf count
alone, past the log, at the end of the file (`SaveImport`; the rows it saves stay locked until its
commit, which is why one step is enough; `DropImport` when the file is refused); whether to
alert it decides on the copy it read. Every save raises the low-stock alert (`Alerted`); `ReadAlerts` is staff reading them. `unlogged`,
`uncovered` and `raced` are history: what was written past the log, what was sold that
was not there, and rows a form overwrote.

### Quoting and Pricing

`Quoting` has the functions of `cart/models.py`, `coupons/models.py`, `tax/services.py`,
`shipping/services.py` and `geo/services.py` over records that stand for their rows, in
hundredths, with the code's four roundings (`HalfUp`, `HalfEven`, `Ceiling`, whole
units). `Pricing` runs them: `ApplyCoupon`, `RemoveCoupon`, `ShowPayment`, `PlaceOrder`
(the figures it freezes), `IssueInvoice`, while coupons end, bands are withdrawn, rates
move and days pass. Stock and the coupon's last use are in `Checkout`.

### Paperwork

A worker's transaction is `Begin`, `ExistingInvoice` or `Allocate` (the series row is
locked from here on), `MailInvoice` and `CommitPaper` or `RollBack`; `NumberingFails` is the
fallback of references, `MailFails` the swallowed error. The mail leaves when it is
sent, before the commit, so a rollback can follow it.

### Carts, SignInCodes, AddressBook

The transactions of `cart/services.py` are steps; the buttons of the cart page, which
read a row and set it later, the merge, which the middleware repeats for every request that
still finds a guest cart, and the moves of the wishlist are several steps
of a request (`r` in `Visit`). Trimming to the stock goes row by row, without a transaction (`ReadForClamp`,
`ClampRow`); a row that is removed and put back between its read and its save counts as the one
that was read. In `SignInCodes` every statement of `verify` is a step, because it is deliberately no
transaction; `issue` retires the old codes (`RetireCodes`) and makes a new one (`SendCode`) in two
statements, so two requests at once may leave two codes that work. In `AddressBook` so are the two statements of `Address.save` and
`make_default`, under the database's unique constraint.

### Helpdesk, Reviews

A request of the help desk reads the ticket (`LoadTicket`), writes its message on the copy's
status and then the turn; the list form writes every status it showed. A review's
save, the aggregate its receiver reads and the figures it writes are three steps; the API's
edit reads a review and saves the whole row later (`LoadReview`, `SaveReview`, or
`ReviveReview` when it was deleted meanwhile); a deletion reads the aggregate without the row
it is about to lose (`DeleteReview`) and writes the figures and commits afterwards (`FinishDelete`), its row
locked until then (`Locked`); a helpful vote and its count are two steps.

### Importer, Listing, ExchangeRates, Reports

`Run` is one pass over the rows of a sheet, a function of how many rows it has behind it; `Preview` and `CommitFile` run
it without and with writing, and staff may edit in between. `Listing` has the
filters and facets as set expressions over products, pieces and tags. In
`ExchangeRates` every row has a date from which it holds (`effective_from`), which the admin's
form may set ahead, and there is a clock (`PassTime`). A lookup reads the clock, reads the rate in
force then and stores it; recording is an insert and an invalidation, in the admin both in a
transaction that commits later. The page that deletes one rate throws the cached copy away, the list's
"delete selected" does not. `since` is history: what put the cached rate out of force after
the query that found it (an overlapping save, a deletion, a date that came). `Reports` has the
queries of `dashboard/reports.py` as sums over the rows they join, one per order or one
per line, grouped and cut as the code does: goods by product and SKU, and of categories, goods and customers
only the first (`TopCategories`, `TopProducts`, `TopCustomers` for the code's 8, 50 and 50).

### CheckoutPages

One customer, several windows (`Screen`) and requests under way (`Call`). A request loads
the session when it first uses it and, if it changes it, stores the whole of it when it ends:
`Load` and then `ChooseAddress`, `SetSessionCurrency` or `SetSessionCountry`. The payment page
(`OpenPayment`, `ShowPaymentPage`) shows an address, a currency and the cart; its form
(`PostPayment`) posts none of the three, so the order is made of what session, address book,
rates and cart then say: `FindAddress`, `ReadUnits`, `CommitPlacement`, and `Answered` when
the session is stored without its address. `CreateOrder` is the API, which shows no page. Under them
`EditAddress`, `DropAddress`, `ChangeRates`, `PutUnits` and `TakeUnits` go on. The cart is a number of
units; which of them can be sold is in `Checkout`. `since` (of a page and of a request) is
history: what happened between the page's reads and the post's; so is `due`, the units put
into the cart and neither taken out nor ordered.

## The runs

Bounds are constants of the modules, named `Max...` or described as a bound
where they are declared.

| run | instance | size | asks |
|---|---|---|---|
| `orders` | `MCOrders.cfg` | 622,432 states | do the figures of stock, coupon and payment agree under every interleaving? |
| `checkout` | `MCCheckout.cfg` | 103,208 states | does the locking protocol implement the atomic placement, and does every request end? |
| `payments` | `MCPayments.cfg` | 892,996 states | does every charge reach its order, and nothing else? |
| `returns` | `MCReturns.cfg` | 4,319,406 states | do the figures explain every unit that comes back, twice included? |
| `shipments` | `MCShipments.cfg` | 2,066,323 states | do parcels move an order only where it may go? |
| `desk` | `MCDesk.cfg` | 1,860,505 states | do the fourteen components beside the order handlers keep what they promise? |
| `oversell` | `MCOversell.cfg` | first counterexample | a statement of the repository the code does not keep |
| `per_user_coupon` | `MCPerUser.cfg` | first counterexample | the same, about concurrent placements |
| `webhook_retry` | `MCWebhook.cfg` | first counterexample | the same, about retried webhooks |
| `over_return` | `MCOverReturn.cfg` | first counterexample | the same, about concurrent return requests |
| `shown_delivery` | `MCShownDelivery.cfg` | first counterexample | the same, about the delivery price on the payment page |
| `stripe_intent` | `MCStripeIntent.cfg` | first counterexample | the same, about a verified payment with Stripe |

**orders.** Two orders, two baskets (both units of `v1`, or one unit of each
variant), two units of `v1`, none of `v2` with backorders allowed, a coupon with
one use, two restores for each order. Two orders are enough for one to take what
belongs to the other, and two restores for the second sale after a cancellation
to be undone again; every handler can repeat without bound otherwise. Checked:
`CommittedExactlyOnce` (a reservation is sold once, and again only after the
sale was undone), `SoldMatchesOrders` (the sold figure is what standing sales
bought), `ReservedWithinShelf`, `NoPhantomReservation` (what is reserved
belongs to orders that have not bought it), `CouponCountMatchesUsages`,
`PaidOnlyLeavesToRefund`, `PastTablePaidOrUndone` (of this module's handlers only a payment not
taken before and a cancellation that undoes the sale step outside `Order.TRANSITIONS`; `request_return`,
`process_return`, `record_refund` and the edit form, which step outside it too, are in `Returns`
and `OrderDesk` or have no caller). Orders are symmetric:
no property of the run is a liveness property.

**checkout.** Three requests, two of them submitting one cart (a double click)
and one another cart, two variants, two units of `v1`, the last unit of `v2`,
which may be backordered, one piece of each in a cart, a coupon with one use, put on and
taken off the carts at any time. Two rows and two requests give
the lock-order deadlock; the third request finds what they leave. Checked:
`HoldsFitShelf`, `ReservationsMatchOrders` (a rollback leaves no reservation),
`Implements` (refinement of `Orders`) and `EveryRequestEnds`.
Fairness: a request that has started takes its next step if it can (a worker
runs until its request ends), and the database breaks a deadlock
(`deadlock_timeout`). Weak fairness is enough: a request waiting for a row that is
taken again and again could starve, but here each request takes each row once.
No customer is obliged to start.

**payments.** One order, one unit, two payments, one `verify_payment` request at a time, one worker
that may die once, one restore, and the staff desk moving the order to processing. The gateway is
Stripe: it takes the proof of any intent, the payment's own included, so what Razorpay's
check admits is among the behaviours. Four events: the charge of the first payment and something
else about it, with ids of their own; the charge and the decline of the second, which share a row. Two payments
are needed for the latest-payment rule to reject a genuine one and for a foreign intent, one crash
for a retry. Checked: `AnsweredChargesApplied` (once the gateway is told "ok" or "already processed",
the units were sold and the row is captured, with two exceptions it names: a row a Stripe request was told
was unpaid and saved as failed afterwards, and a charge answered for the decline it shares a row with),
`PaidOnlyByCharge` (an order becomes paid by the gateway's word for one of its payments: a charge of it,
of the intent posted for it, or an event that does not say "fail"; the delivery of a COD order, its other
way, needs a desk that delivers and is covered by the theorem), `ChargeReachesOrder` (a charge told with an
id of its own leads to a sale and a captured row although browsers close and failures come late). Fairness: the gateway
retries until answered, and a worker that is not killed goes on; crashes are
bounded, customers and browsers owe nothing.

**returns.** One COD order of two units, two return requests of one or two units, each
completed at most twice, two members of staff, one browser tab that may die
between check and insert, one staff cancellation after the sale, the desk moving the order
from confirmed to delivered (also back from `return_requested`), late
payments, and an edit form that rejects. Two requests are needed for crossing
rejections, two staff for one request on two lists, two completions for a
double restore. COD orders can be paid online too, so the
other method adds only orders that delivery does not settle. Checked:
`SoldCoversSales` (the strict
`SoldMatchesOrders` no longer holds once a return and a cancellation both put
back a unit: this is what is left of it), `ReturnsOnlyOfSoldOrders`.

**shipments.** One COD order of two units, two parcels, one packer, two workers with updates in
hand, three of the carrier statuses, staff moving the order to processing, delivered and
back to a return request, payments and one cancellation after the sale. Two
parcels are what "every parcel" needs, two workers what a stale route needs. Checked:
`FulfilmentOnlyAfterSale`, `DeliveredComplete` (the parcels deliver an order only when
all of it is in parcels that arrived), `ParcelsReopenNothing`. That an order whose
parcels all arrived *becomes* delivered is not promised: two updates handled at once can
leave it shipped.

**desk.** Fourteen modules that share no variable, in one specification: `part`
names the one that moves, the others stay in one of their first states, so a
state of the run is a state of one module and nothing is multiplied. Per part:

| part | bounds, and the case they are for | checked |
|---|---|---|
| pricing | two goods of different categories, five destinations, three coupons, two currencies (one rounds up to whole units), one setting changed, one day | `OtherLinesEarnNothing`, `InvoiceKeepsCharge` |
| stock | two variants, the SKU of one a prefix of the other's, two order lines, one form, two desk moves of two units | `LogExplainsShelf`, `DeskKeepsPromises`, `LowStockAnnounced` |
| paper | two invoices and a reference, two workers, two failures | `NumbersWithoutGaps`, `InvoiceMailedOnce` |
| codes | two browsers, two codes, two attempts, three cooldown periods | `EveryEntryCounted` |
| book | three addresses, two tabs | `DefaultKept` |
| carts | one ware, shelves of 0, 1 and 3 against a limit of 2, two requests, three units put in (one more than the limit, so a merge is cut) | `NothingMergedTwice` |
| help | two agents, three entries | `TicketTellsWhoseTurn` |
| reviews | two customers who both received the product, two requests, one vote; one rating, so the figures differ by their number | `RatingTold` |
| import | two SKUs, three options, two with one slug, two rows | `PreviewPredicts` |
| geo | one visitor, two rates, two rows, a clock of two moments, so a row may be dated ahead | `StaleRateHasCause` |
| list | two products, a category and its parent, one tag | `NoDeadEnds` |
| reports | two orders, three accounts, one of staff, three days; cuts after one category, two goods, one customer, so that each cuts something off | `FiguresAgree` |
| form | one order of the only unit, one form, one cancellation after the sale | `SaleSurvivesForms`, `TrailTellsStatus` |
| pages | two addresses, a country whose currency is not the base, two currencies, one window and two requests, two units, three changes | `OrderedAsShown`, `OrderedOnce` |

Properties that speak of a race name what makes them fail and exclude only that: a form
saved over a write that came after it was read (`raced`, `savedOver`), a handler between
reading back and saving (`unheard`), what put a cached rate out of force (`since`), what changed
between a page and its post (`since` of `CheckoutPages`), figures of a product that were
overtaken or never written (`astray`), a request that died halfway (`forgone`, `undone`). `OrderedAsShown` is exact in this: only a
change of the kind that explains the difference counts, and only until the post has read it; a cart that
changes between the placement's read and its clear is the one exception of `OrderedOnce`. Everything else must hold, and the mutants
show that it would not by itself. No liveness is stated here: every one of these
components waits for people.

`CHECK_DEADLOCK FALSE` everywhere: orders end delivered or refunded, requests
end, and then nothing has to happen.

Every property of a passing run has a *mutant*, a definition next to the one it
mutates that changes it the way a plausible bug would (`MonusNoFloor`,
`CommitStockAgain`, `TakeRowUnchecked`, `CrashAnswered`, ...). With the mutant in
place TLC finds the property violated under the run's own configuration, so
the property does watch that code.

## The proofs

TLC checks the small instances; the theorems hold for every set of orders, requests,
people and variants, every stock and every limit. They assume only the `ASSUME`s of the
modules, which TLC evaluates in a run each:

- finite sets where something is counted (orders, lines, accounts, days), natural numbers for
  stock, limits and bounds, and null values that are no row or person (`NoOne`, `NoRate`, ...);
- `Checkout`: carts within the cap and coupon limits above zero;
- `Pricing`: amounts, tax rates and charges that are not negative and rates above zero, as the columns
  and validators have them, and a coupon table with types the code knows;
- `Reports`: an order's discount is at most its subtotal (proved of `Pricing`'s orders by
  `PricingTypeCorrect`), and its lines have natural amounts;
- `Importer`: stock columns are integers, of either sign.

Every invariant and every action property a passing run checks is stated by a theorem.

A sum over orders or lines is the number of pairs of a line and a unit of it
(`TotalOver` in `Counting`), so that what it does when a line joins, leaves or changes
follows from the library's facts about cardinality (`CountingProofs`). `Reports`, `Quoting`
and `Pricing` sum with the library's `SumFunctionOnSet`, a fold; `SumIsTotal` shows that on
natural amounts this is the same number. Facts about "every finite set" and "every row
of a file" would be inductions whose predicate is a parameter, which no prover here can
instantiate. `LeastNatural` replaces them: a non-empty set of naturals has a least member. A set
of counterexamples is written down as a set, its least member is taken, and one element or one
row less is no counterexample.

**`OrdersProofs`**

- `TypeCorrect` - inductive as it stands; the stock arithmetic is in `RowFunctions`
  (each function maps a row to a row, which is where the floors matter).
- `SalesMadeOnce` - `CommittedExactlyOnce` is inductive with `TypeOK`: only
  `CommitStock` and `CancelOrder` touch the three variables, and both look at
  `stock_committed` first.
- `ReservationsFitShelf` - `ReserveWithinShelf` needs the check under the lock;
  `OthersWithinShelf` shows that the other functions keep `reserved <= available`
  whatever quantity they take and whosever it is, because `Commit` takes as much from
  both. That is why late failures that release other orders' units do not break it.
- `FulfilledOrdersWereSold` - by cases on the handlers: `TRANSITIONS` enters
  fulfilment only through `"confirmed"`.
- `SoldIsWhatOrdersBought`, `NothingReservedForNobody` - `FiguresInv`. The two figures alone
  are not inductive: an order that was not placed could be sold before its lines are
  known. `NothingBeforePlacement` says it has no sale, payment or confirmation. Then
  a sale adds exactly the lines of an order that joins the sum, a cancellation takes the
  same lines off, and the floor of `Restore` is never met.
- `NothingPaidUnsold` - `SaleInv`: what was paid or went into fulfilment was sold at some
  time (`commits > 0`). The modules around `Orders` rest on it.
- `CouponNeverOverspent` - `CouponCountMatchesUsages` does not say that the row
  `redeem` adds is a new one. `CouponInv` adds that only placed orders have a usage row.
- `PaidStaysPaid`, `SaleHandlersKeepTable` - the two action properties, by cases on the handlers of
  `Orders`. The second says nothing of the handlers and the form outside that module.
- `OwnUnitsSoldOnce` - `OwnInv`: without backorders a row's reserved figure covers the orders that
  still hold units, and shelf and sold figure together stay the opening stock. It holds under `TakesOwn`, that a
  sale, a failure or a cancellation is of an order that holds its units, which the code does
  not ensure: this is what run `oversell` is about.

**`CheckoutProofs`**

- `Invariance` - `IInv`: types; a request holds exactly the rows of its lines that it no
  longer has to lock, and only while it is locking; what it holds passed the check, and
  still does; at most one request holds the coupon row, with a use left. It is what "checked
  under the lock and still true at commit" means, and no property of the run is inductive
  without it.
- `NothingHeldAtTheEnd`, `NoUnitPromisedTwice` - `EndedHoldNothing`, and `HoldsFitShelf` with
  `ShelfInv` (committed reservations fit the shelf) and what `IInv` says of held rows.
- `ReservedIsWhatOrdersHold` - `ReservationsMatchOrders`: only a commit adds to the
  committed figure, the lines of one request that joins the placed ones.
- `CheckoutImplementsOrders` - `Spec => O!Spec`: `CommitOrder` is `PlaceOrder`,
  `ReleaseOrder` is `MarkPaymentFailed`, every other step is a stutter.
- `LimitHoldsOneAtATime` - `LimitInv`: a quoted request still finds its customer below the limit,
  if no other checkout of the customer runs (`OneAtATime`).
- `OrdersAreAsShown`, `CartOrderedOnce` - of `CheckoutPages`, `PagesInv`: a page, and a request with what
  it has read so far, differ from session, book, rates and cart only by what `since` names; a
  placement that no change of the cart crossed has read what is in it.

**`PaymentsProofs`** - `PaymentsInv`: a row has an order from its creation on, a captured row is of
a payment the gateway gave its word for (`Backed`), a request holds such a word, a worker past
a step of a call can rely on what that step wrote, an answered event was applied or shares the row of one
that was.

- `PaymentsImplementOrders` - every step of views, webhook and gateway is a handler of
  `Orders` or a stutter, so every theorem above holds of it. It needs the invariant: a
  row that is used belongs to an order that has one.
- `AnswersAreTrue` - of every charge the gateway need not repeat, with the two exceptions
  `AnsweredChargesApplied` names, for any set of events and either gateway.
- `PaidByAChargeOnly` - of every order that becomes paid: the gateway's word, which need not be
  a charge of that payment. `RazorpayPaysByOwnCharge` - with Razorpay, and a webhook that is told of
  charges and declines only, it is.
- `RetriesHarmlessUndisturbed` - `RetriesInv`: an applied event is processed, or about to be by the
  worker that has it. It holds where calls about one event stay apart (`CallsApart`) and none
  dies after the order's transaction (`NoneDiesApplied`).

**`ReturnsProofs`** - `ReturnsInv`: `SaleInv`, and whatever is asked, made or on a list of
the desk is of an order that was sold. `FulfilmentOnlyAfterSale` is *not* an invariant here:
`request_return` makes an order `return_requested` that was cancelled since it was
checked. What remains true of it is that the order was sold at some time, which is why
`SaleInv` counts commits.

- `ReturnsFollowSales`; `UnitsNeverLost` (shelf and sold figure together stay above the opening stock, which no run
  checks besides; inductive: each function moves units between
  the two figures, and its floors only add); `SalesStayCovered` (`CoverageKept`: a
  cancellation takes no more off the figure than it takes off the sum).
- `ReturnsWithinUndisturbed` - `WithinInv`: a line that was checked still fits what was bought. An
  insert keeps it only where no second tab has the same line checked (`SubmitsApart`), and
  the sum only falls where rejections stand (`RejectionsStand`).

**`ShipmentsProofs`** - `ShipmentsInv`: a route keeps to the table whatever happens to its
order, and one that ends in delivery belongs to an order whose every unit was in parcels
that had arrived. That stays true without any lock, because lines do not change once an order is
placed and `arrived` only grows.

- `ParcelsFollowSales`, `NothingReopened`, `DeliveredWhenAllArrived`.

**`BackOfficeProofs`**

- `LogIsComplete`, `DeskKeepsOrdersPromises` - `StockInv`: both together, since a floor that is
  met shows in both. `StaffAreTold` from what a save does, with the
  exception of an import whose unlocked copy was overtaken by another write of the row.
- `NumbersRunOn`, `InvoicesMailedOnce` - `PaperInv`: papers under way are apart, a number
  taken and not committed is the one after the last, and its taker holds the series lock; a
  mailed invoice is mailed by one worker.
- `TurnIsTold` - `HelpInv`: while a reply is half done its author has read up to
  somewhere, and what was said since is no note; the last say either is still to be
  written into the status or is there.
- `TrailIsTrue`, `SalesOutliveForms` - `FormsInv`: a page that was compared and not
  crossed since shows the status its order still has; and while nothing was saved over, the
  invariants of `OrdersProofs` hold. They are taken from an instance of that
  module: a handler is a step of it, and a form that leaves `stock_committed` as it was changes
  nothing they speak of.
- `FiguresTellOneStory` - `FiguresAgree` needs no step of the system, only sums: the revenue
  orders of a period are parted by day, by payment method and by customer, and a sum over
  the parts is the sum over the whole (`SumOfParts`). Where a cut took something off, what is left is no more than the
  whole; where it did not, they agree.
- `SalesReportCountsLines` - parted by period and parted by order, the joined rows have the same
  sums: each order's total times its lines.
- `DryRunPredicts` - `Apace`: after every row the dry run and the real run, set off from one
  catalogue, have seen the same products and variants and counted the same, or the real run has
  an error. The delicate case is a product's second row, which the real run finds in the
  catalogue by then and the dry run does not: it is counted only once because of
  `seenProducts`. `ImporterInv` carries `Apace` of the file from the preview to the
  commit while nobody has edited.

**`StorefrontProofs`**

- `DefaultIsKept` - `BookInv`: there is one default at most, and while nothing is marked some
  request is about to mark.
- `EveryEntryIsCounted` - `CodesInv`, the property with the set of waiting requests as a
  function of the code.
- `MergedOnce` - `CartsInv`, with the guest cart empty once it is gone: that is why a second merge
  adds nothing; a line that is trimmed
  late gets no more than was once put into it.
- `StaleRatesHaveCauses` - `GeoInv`: as long as nothing of `since` happened, a request under way has
  found, or will find, what is in force, and so is what is cached.
- `CardTellsReviews` - `ReviewsInv`: the card is right, or somebody is about to write it, or
  it went astray (figures another save or deletion had overtaken, a worker lost before it wrote them, a
  review moved to another product); votes shown and votes cast but not counted are together no more than those cast.
- `SidebarIsTrue` - in every state: a product behind an offered answer meets the filter of its
  question, and a question nothing is ticked for turns nothing away.
- `OnlyCoveredLinesEarn` - `PricingInv`, `OrderFigures`: what an order froze comes from one basket and
  one coupon. Lines the coupon does not cover add nothing to any sum it is computed from, caps
  included.
- `InvoiceAsksTheCharge` - `InvoiceFigures`, and what each of the four roundings can be away
  from the amount. For every table of rates this is true only with an exception the
  instance does not have: a charge that rounds to nothing is converted again by the invoice, because the
  code takes 0 for "no charge stored", and then asks for less than the currency's smallest unit.
- `ShownPriceHoldsUndiscounted` - `ShownInv`: while no band is withdrawn, page and placement ask
  for the same options if they ask with the same value.
- `DeskIsItsParts` - a behaviour of `MCDesk` is a behaviour of each of the fourteen
  specifications, so what is proved of a part holds of what TLC explores; `DeskTypeCorrect` is
  one use of it.

Each module above also has a theorem for its types.

Only model-checked:

- liveness (`EveryRequestEnds`, `ChargeReachesOrder`): fairness and `ENABLED` are out of the
  prover's reach;
- the refuted statements, of course.

No module declares a `RECURSIVE` operator.

## Where code and documentation part

Six statements of the repository are refuted by a run each; `findings` in
`PROJECT.json` quotes them. For each a theorem says that nothing but the cause named here
breaks it (the sixth: not with Razorpay).

1. `oversell`: `mark_paid` commits stock whether or not the order still holds its
   reservation, so a payment after a failure or a cancellation sells a unit twice
   (`inventory/services.py:3-5` says the lock stops that). A second failure of one order, or its
   cancellation after one, takes the reservation of another and opens the same way
   (`OwnUnitsSoldOnce`).
2. `per_user_coupon`: the per-user limit of a coupon is not re-checked under the
   lock (`orders/tests/test_orders.py:181`); only overlapping checkouts of a customer pass
   it (`LimitHoldsOneAtATime`).
3. `webhook_retry`: a retried event is applied twice
   (`payments/models.py:117`), by two calls at once or after a death between the order's
   transaction and the processed flag, and by nothing else (`RetriesHarmlessUndisturbed`).
4. `over_return`: two return requests submitted together ask for more than was bought
   (`orders/tests/test_orders.py:470`); so does a rejected one that is taken up again when
   another has its place (`ReturnsWithinUndisturbed`).
5. `shown_delivery`: the payment page quotes delivery on the subtotal before the coupon, placement
   on the one after it (`orders/views.py:159`, "there is no second calculation to drift"). Without a
   discount both agree (`ShownPriceHoldsUndiscounted`).
6. `stripe_intent`: Stripe's `verify` asks about the intent the browser posts and never compares it with
   the payment's own (`payments/gateways.py:222`), so a payment nobody made is marked captured on the
   success of another, although it is "only ever marked successful *after* server-side
   verification" (`src/README.md:515`). Razorpay's signature is over the payment's own order
   (`RazorpayPaysByOwnCharge`).

Others met while modelling, without a run of their own:

- *Orders.* `mark_paid` and a staff cancellation write statuses outside `Order.TRANSITIONS`,
  "the single source of truth" (`orders/models.py:109`). Of the handlers of `Orders` they are the only ones
  (`SaleHandlersKeepTable`), but `request_return` and `process_return` (`orders/services.py:557`, `:586`,
  `:609`), `record_refund` (`:629`) and the edit form write past the table too. `transition_order` to cancelled returns no stock (`orders/models.py:125`) and keeps
  the coupon use. The admin's docstring says status changes go through
  `transition_order` (`orders/admin.py:96`), while the form's status field is editable; a
  status the form sets is in the audit log but not in the history that has "every status change"
  (`orders/models.py:466`). A form saved while a handler sells the units writes
  `stock_committed` back, and a later handler sells them again.
- *Payments.* An event without an id of its own is stored under the payment's `gateway_order_id`
  (`payments/views.py:150`), so a charge after a decline is answered "already processed" and never
  applied. Every event whose type does not contain "fail" marks its payment captured
  (`payments/views.py:202`). A Stripe request told "unpaid" saves its row as failed over a charge the webhook has
  taken since (`payments/gateways.py:224-231`).
- *Pages.* The payment page's form does not post what it showed: a currency switched in
  another window changes the currency of the order (`orders/views.py:224`), an edited address its address.
- *Parcels.* An order whose two parcels arrive at once may never become delivered, and two
  packers at once ship more than was ordered, though `create_shipment` refuses over-shipping.
- *Money.* The cart's discount ignores a coupon's category; the cart taxes with a flat rate
  (`tax/services.py:3`); state rules do not beat country rules as `TaxRule` says; "narrowest first"
  of `shipping/services.py:106` goes by the lower weight; a `usage_limit` of zero is
  no limit for the cart and already reached at placement; `PRICES_INCLUDE_TAX` and flash-sale
  prices are used by no checkout.
- *Stock.* The inventory form edits a quantity its docstring says is adjusted through services
  (`inventory/admin.py:55`). No alert is raised when stock falls straight to zero, when a longer SKU's
  alert is unread, or for the eleventh member of staff.
- *Carts.* `update_quantity` deletes a sold-out line and raises in the same transaction, so the line stays
  (`cart/services.py:118`). A wish moved by two clicks is put into the cart twice.
- *Reviews.* An edit through the API saves a whole row: a review hidden meanwhile is shown again,
  a deleted one re-inserted; one moved to another product leaves the old product's rating.
- *Rates.* An admin save deletes the cached rate before its commit, and "delete selected" never
  does (`geo/models.py:197`). A rate dated ahead takes effect while the old one is still served from the cache
  (`geo/services.py:117`).
- *Reports.* The sales report counts an order and its money once per line
  (`dashboard/reports.py:221`); its orders and its net are right otherwise (`SalesReportCountsLines`).
- *Codes.* Two issues at once leave two codes that work (`accounts/otp.py:126`), and entries that overlap can
  pass "exactly MAX_ATTEMPTS guesses" (`accounts/otp.py:179`); `EveryEntryCounted` does not claim either.
- *Import.* A negative stock and an option whose slug is taken are found by the real run only
  (`catalog/importer.py:10`).
- *Support.* A reply that overlaps a close reopens the ticket; the admin edits statuses past the
  services, though "everything that changes a ticket goes through here".
- *Mail.* An invoice is mailed inside a transaction that may still be rolled back.

## What is not modelled

Templates, layout, CSV and PDF output, form validation and the wording of messages: nothing here
depends on them. `marketing`, `cms`, `core` and the settings hold content and
configuration. Registration, passwords and profile pages are the framework's.
`catalog/search.py` is a constant of `Listing` (which products a term finds): its PostgreSQL and
its fallback branch answer differently. Warehouses, sign-in entries of the audit log, and the dashboard's stock lists are
left out for size. Attempts to write an audit entry or a notification that fail are swallowed by the
code, inside a transaction that PostgreSQL has then already aborted; the models take both
as succeeding, except the invoice's mail. The parcels' inline forms in the admin edit
rows past `record_event`. Gateway refunds (`gateway.refund`) are called by no view, and
`record_refund` only by the tests. Who may reach which row (permissions, the owner filters of views and API) is
not modelled: it is a table of conditions in which nothing takes more than one step. Nor are payment amounts and
the mock gateway. Two gaps are inherent: a second charge
for one order and abandoned reservations are reachable in the models, but
the code promises nothing about them, so no property is stated.

## Plan

Done: all modules above, and theorems for every invariant and action property of the
passing runs. Left, most important first:

1. That `Returns` and `Shipments` drive an order only as handlers do, but for the statuses
   `request_return` and `process_return` write past them: a refinement of an `Orders` whose
   status is free to move within the returns.
2. `PaymentsSpec` with its workers against a webhook that is one transaction.
3. `catalog/search.py`, which `Listing` has as a constant.
