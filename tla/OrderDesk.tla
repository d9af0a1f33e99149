------------------------------ MODULE OrderDesk ------------------------------
(***************************************************************************)
(* The edit form of an order in the admin, and the trail that tells how an *)
(* order came to its status (src/apps/orders/admin.py, audit/mixins.py,    *)
(* audit/services.py, orders/models.py OrderStatusHistory).                *)
(*                                                                         *)
(* The form writes status, payment_status and payment_method as they stand *)
(* on the page, past transition_order, and saves every other column of the *)
(* row as it was when the post arrived, while the handlers of module       *)
(* Orders change the order under its lock.  Handlers leave a row in the    *)
(* history; the form leaves an entry in the audit log, for what it finds   *)
(* changed against the row it reads back just before saving.               *)
(***************************************************************************)
EXTENDS Integers, FiniteSets

CONSTANTS
  Bill,          \* the orders
  Shopped,       \* the variants
  Bought,        \* the line quantities an order may have
  Shelved,       \* units of each variant on the shelf at the start
  FormUser,      \* staff with the form of an order
  TypedStatuses, \* bound: the statuses they choose
  MaxForms,      \* bound: forms opened
  MaxCancelled,  \* bound: cancellations of an order after its sale
  NoOrderPage

VARIABLES
  status, payment_status, payment_method, basket, stock_committed, inventory,
  usages, used_count, confirming, attempted, commits, restores,
  orderPage,   \* each form: what it shows, and what its post is at
  lastTold,    \* the status the trail told last of each order
  savedOver,   \* orders saved over a sale, or the end of one, not yet read
  unheard,     \* orders whose status the form changed without noticing
  formsOpened

Service == INSTANCE Orders
  WITH Order <- Bill, Variant <- Shopped, Baskets <- Bought, Stock <- Shelved,
       AllowBackorder <- {}, UsageLimit <- 1, MaxRestores <- MaxCancelled

ASSUME OrderDeskAssumption ==
  /\ IsFiniteSet(Bill) /\ Bought \subseteq [Shopped -> Nat]
  /\ Shelved \in [Shopped -> Nat] /\ MaxCancelled \in Nat
  /\ TypedStatuses \subseteq Service!Status

serviceVars == <<status, payment_status, payment_method, basket, stock_committed,
                 inventory, usages, used_count, confirming, attempted, commits,
                 restores>>
trailVars == <<lastTold, unheard>>
formVars == <<orderPage, savedOver, formsOpened>>
orderDeskVars == <<serviceVars, trailVars, formVars>>

\* What a form shows, and the status read back before it is saved.
OrderPage ==
  [at : {"shown", "posted", "compared"}, order : Bill, status : Service!Status,
   payment_status : Service!PaymentStatus, payment_method : {"cod", "online"},
   loaded : BOOLEAN, before : Service!Status, crossed : BOOLEAN]

OrderDeskInit ==
  /\ Service!Init
  /\ orderPage = [u \in FormUser |-> NoOrderPage]
  /\ lastTold = [o \in Bill |-> "none"]
  /\ savedOver = {} /\ unheard = {} /\ formsOpened = 0

\* _log_status, by a handler or by the form's audit entry.
Tell(o) ==
  /\ lastTold' = [lastTold EXCEPT ![o] = status'[o]]
  /\ unheard' = unheard \ {o}

\* The forms, those marked between whose reading back and saving the status of
\* this order changes.
Crossed(o) ==
  [u \in FormUser |->
     IF /\ orderPage[u] # NoOrderPage /\ orderPage[u].at = "compared"
        /\ orderPage[u].order = o /\ status'[o] # status[o]
     THEN [orderPage[u] EXCEPT !.crossed = TRUE] ELSE orderPage[u]]

\* The handlers.  A second confirmation and a late failure return early and
\* leave no row; the others leave one, whatever they change.
Silent(o) ==
  /\ UNCHANGED trailVars
  /\ \/ Service!LoseCodRequest(o) \/ Service!StartPayment(o)
     \/ status[o] # "pending" /\ Service!ConfirmCod(o)
     \/ payment_status[o] = "paid"
          /\ (Service!MarkPaid(o) \/ Service!MarkPaymentFailed(o))

Logged(o) ==
  /\ \/ \E lines \in Bought, method \in {"cod", "online"}, coupon \in BOOLEAN :
          Service!PlaceOrder(o, lines, method, coupon)
     \/ status[o] = "pending" /\ Service!ConfirmCod(o)
     \/ payment_status[o] # "paid"
          /\ (Service!MarkPaid(o) \/ Service!MarkPaymentFailed(o))
     \/ \E new \in Service!Status : Service!TransitionOrder(o, new)
     \/ \E staff_override \in BOOLEAN : Service!CancelOrder(o, staff_override)
  /\ Tell(o)

HandlerStep(o) ==
  /\ Silent(o) \/ Logged(o)
  /\ orderPage' = Crossed(o)
  /\ UNCHANGED <<savedOver, formsOpened>>

\* The form of an order is opened.
OpenOrder(u, o) ==
  /\ Service!Placed(o)
  /\ formsOpened < MaxForms /\ formsOpened' = formsOpened + 1
  /\ orderPage' = [orderPage EXCEPT ![u] =
       [at |-> "shown", order |-> o, status |-> status[o],
        payment_status |-> payment_status[o],
        payment_method |-> payment_method[o],
        loaded |-> stock_committed[o], before |-> status[o],
        crossed |-> FALSE]]
  /\ UNCHANGED <<serviceVars, trailVars, savedOver>>

\* What staff post: the page, with another status or marked as paid, or as it
\* is, after editing a note.
Posted(shown) ==
  {shown} \cup {[shown EXCEPT !.status = s] : s \in TypedStatuses}
    \cup {[shown EXCEPT !.payment_status = "paid"]}

\* The post is taken: the row is read, and the values of the page put on it.
PostOrder(u) ==
  /\ orderPage[u] # NoOrderPage /\ orderPage[u].at = "shown"
  /\ \E typed \in Posted(orderPage[u]) :
       LET o == typed.order
       IN  orderPage' = [orderPage EXCEPT ![u] =
             [typed EXCEPT !.at = "posted", !.loaded = stock_committed[o],
                           !.before = status[o]]]
  /\ UNCHANGED <<serviceVars, trailVars, savedOver, formsOpened>>

\* Mutant: the audit entry compares with what the form was filled from.
ReadBackNothing(u) ==
  /\ orderPage[u] # NoOrderPage /\ orderPage[u].at = "posted"
  /\ orderPage' = [orderPage EXCEPT ![u].at = "compared"]
  /\ UNCHANGED <<serviceVars, trailVars, savedOver, formsOpened>>

\* AuditedModelAdmin.save_model reads the row back, to compare.
ReadBack(u) ==
  /\ orderPage[u] # NoOrderPage /\ orderPage[u].at = "posted"
  /\ orderPage' = [orderPage EXCEPT
       ![u].at = "compared", ![u].before = status[orderPage[u].order]]
  /\ UNCHANGED <<serviceVars, trailVars, savedOver, formsOpened>>

\* diff: the entry tells a status only when it differs from the one read back.
RecordChange(form) ==
  IF form.status # form.before
    THEN Tell(form.order)
    ELSE /\ unheard' = IF form.crossed THEN unheard \cup {form.order}
                                       ELSE unheard
         /\ UNCHANGED lastTold

\* The whole row is saved, and what changed is recorded.
SaveOrder(u) ==
  LET form == orderPage[u]
      o == form.order
  IN  /\ form # NoOrderPage /\ form.at = "compared"
      /\ status' = [status EXCEPT ![o] = form.status]
      /\ payment_status' = [payment_status EXCEPT ![o] = form.payment_status]
      /\ payment_method' = [payment_method EXCEPT ![o] = form.payment_method]
      /\ stock_committed' = [stock_committed EXCEPT ![o] = form.loaded]
      /\ savedOver' = IF stock_committed[o] = form.loaded THEN savedOver
                                                          ELSE savedOver \cup {o}
      /\ RecordChange(form)
      /\ orderPage' = [Crossed(o) EXCEPT ![u] = NoOrderPage]
      /\ UNCHANGED <<basket, inventory, usages, used_count, confirming, attempted,
                     commits, restores, formsOpened>>

OrderDeskNext ==
  \/ \E o \in Bill : HandlerStep(o) \/ \E u \in FormUser : OpenOrder(u, o)
  \/ \E u \in FormUser : PostOrder(u) \/ ReadBack(u) \/ SaveOrder(u)

OrderDeskSpec == OrderDeskInit /\ [][OrderDeskNext]_orderDeskVars

-----------------------------------------------------------------------------
(* Properties.                                                             *)

\* Types; a form is of an order that was placed.
OrderDeskTypeOK ==
  /\ Service!TypeOK
  /\ orderPage \in [FormUser -> OrderPage \cup {NoOrderPage}]
  /\ \A u \in FormUser :
       orderPage[u] # NoOrderPage => Service!Placed(orderPage[u].order)
  /\ lastTold \in [Bill -> Service!Status \cup {"none"}]
  /\ savedOver \subseteq Bill /\ unheard \subseteq Bill

\* Whatever statuses the form writes, and however old its page is, no handler
\* that runs later sells an order's units twice, gives them back twice or
\* returns a coupon use twice: they go by stock_committed and the usage row,
\* which the form does not show.  Only a form that was being saved while a
\* handler sold the units, or took the sale back, undoes that
\* (orders/services.py:296, "exactly once").
SaleSurvivesForms ==
  savedOver = {} =>
    /\ Service!CommittedExactlyOnce /\ Service!SoldMatchesOrders
    /\ Service!ReservedWithinShelf /\ Service!CouponCountMatchesUsages

\* History and audit log together always tell an order's status, also when an
\* old page puts one back that nobody chose; only a handler that commits
\* between the form's reading back and its saving goes unheard
\* (audit/mixins.py:4: "It reads the row back from the database before saving
\* rather than trusting the form's ``changed_data``").
TrailTellsStatus ==
  \A o \in Bill \ unheard : lastTold[o] = status[o]
=============================================================================
