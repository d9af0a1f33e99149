------------------------------ MODULE Payments ------------------------------
(***************************************************************************)
(* How the outcome of a payment reaches an order: the views and the        *)
(* webhook of src/apps/payments/views.py, over the order handlers of       *)
(* module Orders.                                                          *)
(*                                                                         *)
(* The customer opens the gateway widget, perhaps more than once for the   *)
(* same order, and pays in one of them.  The browser then posts what the   *)
(* gateway gave it to verify_payment, and the gateway calls the webhook,   *)
(* again and again until it gets an answer.  Neither path is atomic: the   *)
(* Payment row, the order and the processed flag of the event are saved in *)
(* separate transactions, several workers may hold the same event, and a   *)
(* worker may die between two of its transactions.                         *)
(*                                                                         *)
(* The gateway is external: it takes money, declines it, and sends events. *)
(* Razorpay signs what the browser posts for one gateway order.  Stripe is *)
(* asked about the intent the browser posts, whichever that is, and says   *)
(* how it stood when it was asked.  Amounts are left out: a posted intent  *)
(* pays for any order.  The mock gateway of development is left out.       *)
(***************************************************************************)
EXTENDS Orders

CONSTANTS
  MaxPayments,    \* bound: gateway orders opened
  Gateway,        \* settings.PAYMENT_GATEWAY
  Event,          \* bound: what the gateway may tell the webhook
  Traced,         \* bound: the events whose effect history tells
  Request,        \* bound: the verify_payment requests at a time
  Worker,         \* the web workers that take webhook calls
  MaxCrashes,     \* bound: workers lost
  DeskStatuses,   \* bound: the statuses the staff desk moves an order to
  NoOrder,        \* the order of a Payment row not created yet
  Idle            \* what a worker without a call is doing

ASSUME PaymentsAssumption ==
  /\ MaxPayments \in Nat /\ MaxCrashes \in Nat
  /\ Gateway \in {"razorpay", "stripe"}
  /\ DeskStatuses \subseteq Status
  /\ NoOrder \notin Order

\* Payment rows, numbered as they are created.
Payment == 1 .. MaxPayments

\* What the gateway tells about a payment: of a charge, of a decline, or of
\* something "other" whose event type does not say "fail" (an intent created,
\* a payment authorized).  The payload carries an id of the event's own, or
\* only the gateway_order_id, or neither.
ASSUME EventAssumption ==
  /\ Event \subseteq
       Payment \X {"captured", "failed", "other"} \X {"id", "reference", "none"}
  /\ Traced \subseteq Event

\* WebhookEvent rows are keyed by the event's id, and by the gateway_order_id
\* of the payment for the events without one.
SameRow(e, f) ==
  \/ e = f
  \/ e[1] = f[1] /\ e[3] = "reference" /\ f[3] = "reference"

VARIABLES
  order_of,       \* Payment.order
  row,            \* Payment.status, "none" before the row exists
  charged,        \* gateway: the payments whose money was taken
  emitted,        \* gateway: the events it has to deliver
  acked,          \* gateway: the events it got an answer for
  processed,      \* the events whose handling set the flag of their row
  worker,         \* what each worker is doing
  request,        \* what each verify_payment request is doing
  crashes,        \* workers lost so far
  applied,        \* history: the events that changed their order
  reapplied,      \* history: the events that changed it more than once
  denied          \* history: the payments a request saved as failed

gatewayVars == <<charged, emitted, acked>>
historyVars == <<applied, reapplied>>
viewVars ==
  <<order_of, row, processed, worker, request, crashes, historyVars, denied>>
paymentVars == <<gatewayVars, viewVars>>
allVars == <<vars, paymentVars>>

\* Between the transactions of a webhook call: before any, after the Payment
\* row was saved, after the order was changed.
Call == [event : Event, step : {"stored", "captured", "applied"}]

\* Where a verify_payment request is: it holds the gateway's word that the
\* payment is paid, or that it is not; it has saved that and mark_paid is due;
\* or a PaymentError was raised and mark_payment_failed is due.
Verifying ==
  [payment : Payment, step : {"paid", "unpaid", "verified", "refused"}]

ASSUME IdleAssumption == Idle \notin Call \cup Verifying

PaymentsTypeOK ==
  /\ TypeOK
  /\ order_of \in [Payment -> Order \cup {NoOrder}]
  /\ row \in [Payment -> {"none", "created", "captured", "failed"}]
  /\ charged \subseteq Payment
  /\ acked \subseteq emitted /\ emitted \subseteq Event
  /\ processed \subseteq Event
  /\ worker \in [Worker -> Call \cup {Idle}]
  /\ request \in [Request -> Verifying \cup {Idle}]
  /\ crashes \in 0 .. MaxCrashes
  /\ reapplied \subseteq applied /\ applied \subseteq Event
  /\ denied \subseteq Payment

PaymentsInit ==
  /\ Init
  /\ order_of = [n \in Payment |-> NoOrder]
  /\ row = [n \in Payment |-> "none"]
  /\ charged = {}
  /\ emitted = {}
  /\ acked = {}
  /\ processed = {}
  /\ worker = [w \in Worker |-> Idle]
  /\ request = [r \in Request |-> Idle]
  /\ crashes = 0
  /\ applied = {}
  /\ reapplied = {}
  /\ denied = {}

-----------------------------------------------------------------------------
(* The gateway.                                                            *)

Created(n) == row[n] # "none"

Tell(n, kind) ==
  \E e \in Event : e[1] = n /\ e[2] = kind /\ emitted' = emitted \cup {e}

\* The money is taken, once.
Charge(n) ==
  /\ Created(n)
  /\ n \notin charged
  /\ charged' = charged \cup {n}
  /\ Tell(n, "captured")
  /\ UNCHANGED <<vars, acked, viewVars>>

\* An attempt is declined.  The customer may try again in the same widget.
Decline(n) ==
  /\ Created(n)
  /\ n \notin charged
  /\ Tell(n, "failed")
  /\ UNCHANGED <<vars, charged, acked, viewVars>>

\* The webhook is told of anything else.
Mention(n) ==
  /\ Created(n)
  /\ Tell(n, "other")
  /\ UNCHANGED <<vars, charged, acked, viewVars>>

-----------------------------------------------------------------------------
(* The customer's views.                                                   *)

\* start_payment: a gateway order and a new Payment row.
OpenWidget(o, n) ==
  /\ StartPayment(o)
  /\ ~Created(n) /\ \A m \in 1 .. n - 1 : Created(m)
  /\ order_of' = [order_of EXCEPT ![n] = o]
  /\ row' = [row EXCEPT ![n] = "created"]
  /\ UNCHANGED <<gatewayVars, processed, worker, request, crashes,
                 historyVars, denied>>

\* The rows verify_payment looks at, and the latest of them.
Unfailed(o) == {n \in Payment : order_of[n] = o /\ row[n] # "failed"}

Latest(o) == CHOOSE n \in Unfailed(o) : \A m \in Unfailed(o) : m <= n

\* The payments whose proof verify takes for n: Razorpay's signature is over
\* n's own gateway order; with Stripe it is the intent the browser posts.
Posted(n) == IF Gateway = "stripe" THEN {m \in Payment : Created(m)} ELSE {n}

\* Mutant: the browser's word is enough.
VerifyUnsigned(r, o) ==
  /\ request[r] = Idle
  /\ Unfailed(o) # {}
  /\ request' =
       [request EXCEPT ![r] = [payment |-> Latest(o), step |-> "paid"]]
  /\ UNCHANGED <<vars, gatewayVars, order_of, row, processed, worker, crashes,
                 historyVars, denied>>

\* verify_payment takes the latest payment and asks for its proof.  Only
\* Stripe says "unpaid"; a missing or foreign signature, an unknown intent or
\* a gateway out of reach raise a PaymentError at once.
VerifyPayment(r, o) ==
  /\ request[r] = Idle
  /\ Unfailed(o) # {}
  /\ \E step \in {"paid", "unpaid", "refused"} :
       /\ step = "paid" => Posted(Latest(o)) \cap charged # {}
       /\ step = "unpaid" =>
            Gateway = "stripe" /\ Posted(Latest(o)) \ charged # {}
       /\ request' = [request EXCEPT ![r] = [payment |-> Latest(o), step |-> step]]
  /\ UNCHANGED <<vars, gatewayVars, order_of, row, processed, worker, crashes,
                 historyVars, denied>>

Asked(r, step) == request[r] # Idle /\ request[r].step = step

\* The row is saved on the gateway's word, whatever became of it since.
SaveCaptured(r) ==
  /\ Asked(r, "paid")
  /\ row' = [row EXCEPT ![request[r].payment] = "captured"]
  /\ request' = [request EXCEPT ![r].step = "verified"]
  /\ UNCHANGED <<vars, gatewayVars, order_of, processed, worker, crashes,
                 historyVars, denied>>

SaveFailed(r) ==
  /\ Asked(r, "unpaid")
  /\ row' = [row EXCEPT ![request[r].payment] = "failed"]
  /\ denied' = denied \cup {request[r].payment}
  /\ request' = [request EXCEPT ![r].step = "refused"]
  /\ UNCHANGED <<vars, gatewayVars, order_of, processed, worker, crashes,
                 historyVars>>

\* mark_paid, or mark_payment_failed, in a transaction of its own.
VerifyPaid(r) ==
  /\ Asked(r, "verified")
  /\ MarkPaid(order_of[request[r].payment])
  /\ request' = [request EXCEPT ![r] = Idle]
  /\ UNCHANGED <<gatewayVars, order_of, row, processed, worker, crashes,
                 historyVars, denied>>

VerifyRejected(r) ==
  /\ Asked(r, "refused")
  /\ MarkPaymentFailed(order_of[request[r].payment])
  /\ request' = [request EXCEPT ![r] = Idle]
  /\ UNCHANGED <<gatewayVars, order_of, row, processed, worker, crashes,
                 historyVars, denied>>

\* The request dies before that.
LoseVerify(r) ==
  /\ request[r] # Idle
  /\ request' = [request EXCEPT ![r] = Idle]
  /\ UNCHANGED <<vars, gatewayVars, order_of, row, processed, worker, crashes,
                 historyVars, denied>>

\* cancel_payment: the customer backs out of the widget.
CancelPayment(o) ==
  /\ MarkPaymentFailed(o)
  /\ UNCHANGED paymentVars

-----------------------------------------------------------------------------
(* The webhook.                                                            *)

RowProcessed(e) == \E f \in processed : SameRow(f, e)

\* Mutant: the event is marked processed when it is stored.
ReceiveMarksFirst(w, e) ==
  /\ worker[w] = Idle
  /\ e \in emitted \ acked
  /\ e[3] # "none"
  /\ processed' = processed \cup {e}
  /\ IF RowProcessed(e)
     THEN /\ acked' = acked \cup {e}
          /\ UNCHANGED worker
     ELSE /\ worker' = [worker EXCEPT ![w] = [event |-> e, step |-> "stored"]]
          /\ UNCHANGED acked
  /\ UNCHANGED <<vars, charged, emitted, order_of, row, request, crashes,
                 historyVars, denied>>

\* webhook: the event is stored, unless its row is known and processed.  An
\* event without any id is turned away with a 400, for good.
Receive(w, e) ==
  /\ worker[w] = Idle
  /\ e \in emitted \ acked
  /\ e[3] # "none"
  /\ IF RowProcessed(e)
     THEN /\ acked' = acked \cup {e}
          /\ UNCHANGED worker
     ELSE /\ worker' = [worker EXCEPT ![w] = [event |-> e, step |-> "stored"]]
          /\ UNCHANGED acked
  /\ UNCHANGED <<vars, charged, emitted, order_of, row, processed, request,
                 crashes, historyVars, denied>>

AtStep(w, step) == worker[w] # Idle /\ worker[w].step = step

\* History: whether this step of the event changed its order or the stock.
CountApplied(e) ==
  IF e \notin Traced \/ UNCHANGED <<orderVars, stockVars>>
  THEN UNCHANGED historyVars
  ELSE /\ applied' = applied \cup {e}
       /\ reapplied' = IF e \in applied THEN reapplied \cup {e} ELSE reapplied

\* _process_webhook_event for a failure.
ProcessFailed(w) ==
  LET e == worker[w].event
  IN  /\ AtStep(w, "stored")
      /\ e[2] = "failed"
      /\ MarkPaymentFailed(order_of[e[1]])
      /\ CountApplied(e)
      /\ worker' = [worker EXCEPT ![w].step = "applied"]
      /\ UNCHANGED <<gatewayVars, order_of, row, processed, request, crashes,
                     denied>>

\* Mutant: mark_paid is left to the browser.
ProcessRowOnly(w) ==
  LET e == worker[w].event
  IN  /\ AtStep(w, "stored")
      /\ e[2] # "failed"
      /\ row' = [row EXCEPT ![e[1]] = "captured"]
      /\ worker' = [worker EXCEPT ![w].step = "applied"]
      /\ UNCHANGED <<vars, gatewayVars, order_of, processed, request, crashes,
                     historyVars, denied>>

\* _process_webhook_event takes any event that does not say "fail" for a
\* success and saves the Payment row ...
ProcessCaptured(w) ==
  LET e == worker[w].event
  IN  /\ AtStep(w, "stored")
      /\ e[2] # "failed"
      /\ row' = [row EXCEPT ![e[1]] = "captured"]
      /\ worker' = [worker EXCEPT ![w].step = "captured"]
      /\ UNCHANGED <<vars, gatewayVars, order_of, processed, request, crashes,
                     historyVars, denied>>

\* ... and then calls mark_paid in a transaction of its own.
ProcessPaid(w) ==
  LET e == worker[w].event
  IN  /\ AtStep(w, "captured")
      /\ MarkPaid(order_of[e[1]])
      /\ CountApplied(e)
      /\ worker' = [worker EXCEPT ![w].step = "applied"]
      /\ UNCHANGED <<gatewayVars, order_of, row, processed, request, crashes,
                     denied>>

\* The processed flag is saved and the gateway gets its answer.
Finish(w) ==
  /\ AtStep(w, "applied")
  /\ processed' = processed \cup {worker[w].event}
  /\ acked' = acked \cup {worker[w].event}
  /\ worker' = [worker EXCEPT ![w] = Idle]
  /\ UNCHANGED <<vars, charged, emitted, order_of, row, request, crashes,
                 historyVars, denied>>

\* Mutant: a failed call is answered as if it had been processed.
CrashAnswered(w) ==
  /\ worker[w] # Idle
  /\ crashes < MaxCrashes
  /\ crashes' = crashes + 1
  /\ acked' = acked \cup {worker[w].event}
  /\ worker' = [worker EXCEPT ![w] = Idle]
  /\ UNCHANGED <<vars, charged, emitted, order_of, row, processed, request,
                 historyVars, denied>>

\* The worker dies, or an exception makes it answer 500: what it committed
\* stays, and the gateway will call again.
Crash(w) ==
  /\ worker[w] # Idle
  /\ crashes < MaxCrashes
  /\ crashes' = crashes + 1
  /\ worker' = [worker EXCEPT ![w] = Idle]
  /\ UNCHANGED <<vars, gatewayVars, order_of, row, processed, request,
                 historyVars, denied>>

-----------------------------------------------------------------------------

\* What the rest of the shop does to an order.
OrderStep(o) ==
  /\ \/ \E lines \in Baskets, method \in {"cod", "online"},
           withCoupon \in BOOLEAN : PlaceOrder(o, lines, method, withCoupon)
     \/ ConfirmCod(o)
     \/ LoseCodRequest(o)
     \/ \E new \in DeskStatuses : TransitionOrder(o, new)
     \/ \E staff_override \in BOOLEAN : CancelOrder(o, staff_override)
  /\ UNCHANGED paymentVars

Work(w) ==
  ProcessFailed(w) \/ ProcessCaptured(w) \/ ProcessPaid(w) \/ Finish(w)

Answer(r) ==
  SaveCaptured(r) \/ SaveFailed(r) \/ VerifyPaid(r) \/ VerifyRejected(r)

PaymentsNext ==
  \/ \E o \in Order :
       \/ OrderStep(o)
       \/ \E n \in Payment : OpenWidget(o, n)
       \/ CancelPayment(o)
       \/ \E r \in Request : VerifyPayment(r, o)
  \/ \E n \in Payment : Charge(n) \/ Decline(n) \/ Mention(n)
  \/ \E r \in Request : Answer(r) \/ LoseVerify(r)
  \/ \E w \in Worker : Work(w) \/ Crash(w) \/ \E e \in Event : Receive(w, e)

\* The gateway calls again until it is answered, and a worker that does not
\* die goes on.  Nothing is asked of the customer or of the browser.
PaymentsFairness ==
  /\ \A e \in Event : WF_allVars(\E w \in Worker : Receive(w, e))
  /\ \A w \in Worker : WF_allVars(Work(w))

PaymentsSpec == PaymentsInit /\ [][PaymentsNext]_allVars

FairPaymentsSpec == PaymentsSpec /\ PaymentsFairness

-----------------------------------------------------------------------------
(* Properties.                                                             *)

\* The charge has reached the order and the row, which only a request that was
\* told otherwise, of this or of another intent, saves as failed again.
Reached(n) ==
  /\ commits[order_of[n]] > 0
  /\ row[n] = "captured" \/ n \in denied

\* An answered charge was applied, whatever workers died on the way: the units
\* were sold and the row says so.  Two exceptions are named: a row that a
\* Stripe request saved as failed, and an event that was answered for another
\* one of its payment because both carry the gateway_order_id for their id.
AnsweredChargesApplied ==
  \A e \in processed \cup acked :
    e[2] = "captured" =>
      Reached(e[1]) \/ \E f \in processed \ {e} : SameRow(f, e) /\ e \notin processed

\* The gateway's word for a payment: it was charged, or another one was whose
\* intent Stripe was asked about, or the webhook was told something else of it.
Backed(n) ==
  \/ Posted(n) \cap charged # {}
  \/ \E e \in emitted : e[1] = n /\ e[2] = "other"

\* An order becomes paid only by the gateway's word for one of its payments or
\* by the delivery of a COD order.  With Razorpay, and a webhook that is told
\* of charges and declines only, that word is a charge of its own.
PaidOnlyByCharge ==
  [][\A o \in Order :
       payment_status[o] # "paid" /\ payment_status'[o] = "paid" =>
         \/ \E n \in Payment : order_of[n] = o /\ Backed(n)
         \/ payment_method[o] = "cod" /\ status'[o] = "delivered"]_allVars

\* Money taken reaches the order: once the gateway tells of a charge in an
\* event with an id of its own, the units are sold and the row is captured
\* (unless a Stripe request is told otherwise), although browsers close,
\* workers die and failures arrive out of order.
ChargeReachesOrder ==
  \A n \in Payment : \A o \in Order :
    <<n, "captured", "id">> \in emitted /\ order_of[n] = o
      ~> commits[o] > 0 /\ (row[n] = "captured" \/ n \in denied)

\* payments/models.py: event_id is unique "so a gateway retrying the same
\* event cannot double apply it".
AppliedAtMostOnce == reapplied = {}

\* README.md: "A payment is only ever marked successful after server-side
\* verification": a captured row is of a payment that was charged.
CapturedWereCharged ==
  \A n \in Payment : row[n] = "captured" => n \in charged
=============================================================================
