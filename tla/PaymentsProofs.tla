--------------------------- MODULE PaymentsProofs ---------------------------
(* Proofs about Payments: every run of the payment views and the webhook   *)
(* is a run of the order handlers, and what the gateway was answered has   *)
(* reached the order, for any number of orders, payments and workers.      *)
EXTENDS Payments, OrdersProofs, WellFoundedInduction

-----------------------------------------------------------------------------
(* The inductive invariant.                                                *)

\* A Payment row belongs to an order from its creation on; only created
\* payments are charged, told about or verified.
RowsOpened ==
  /\ \A n \in Payment : Created(n) <=> order_of[n] \in Order
  /\ \A n \in charged : Created(n)
  /\ \A e \in emitted : Created(e[1])
  /\ \A r \in Request : request[r] # Idle => Created(request[r].payment)

\* The gateway tells of a charge only after it.
CapturesCharged ==
  \A e \in emitted : e[2] = "captured" => e[1] \in charged

\* A request that will call mark_paid has the gateway's word.
RequestsBacked ==
  \A r \in Request :
    Asked(r, "paid") \/ Asked(r, "verified") => Backed(request[r].payment)

\* The row was saved as captured; only a request saves it otherwise.
Told(n) == row[n] = "captured" \/ n \in denied

\* What a worker at some step of a call can rely on.
Informed(call) ==
  /\ call.event \in emitted
  /\ call.step = "captured" =>
       call.event[2] # "failed" /\ Told(call.event[1])
  /\ call.step = "applied" /\ call.event[2] = "captured" =>
       Reached(call.event[1])

WorkersKnow == \A w \in Worker : worker[w] # Idle => Informed(worker[w])

\* The processed events were applied, and an answered one has a processed row.
AnswersTrue ==
  /\ processed \subseteq emitted
  /\ \A e \in processed : e[2] = "captured" => Reached(e[1])
  /\ \A e \in acked : RowProcessed(e)

PaymentsInv ==
  /\ PaymentsTypeOK
  /\ SaleInv
  /\ RowsOpened
  /\ CapturesCharged
  /\ RequestsBacked
  /\ WorkersKnow
  /\ AnswersTrue

LEMMA PaymentRange == Payment \subseteq Nat /\ Payment = 1 .. MaxPayments
BY PaymentsAssumption DEF Payment

\* A worker with a call is at one of the steps of it, with an event of a
\* created payment.
LEMMA WorkerHolds ==
  ASSUME PaymentsInv, NEW w \in Worker, worker[w] # Idle
  PROVE  /\ worker[w] \in Call
         /\ worker[w].event \in emitted
         /\ worker[w].event \in Event
         /\ worker[w].event[1] \in Payment
         /\ order_of[worker[w].event[1]] \in Order
         /\ worker[w].event[2] = "captured" => worker[w].event[1] \in charged
<1>1. worker[w] \in Call /\ worker[w].event \in emitted
  BY DEF PaymentsInv, PaymentsTypeOK, WorkersKnow, Informed
<1>2. worker[w].event \in Event
  BY <1>1 DEF Call
<1>3. worker[w].event[1] \in Payment
  BY EventAssumption, <1>2
<1>. QED
  BY <1>1, <1>2, <1>3 DEF PaymentsInv, RowsOpened, CapturesCharged

\* A request that is under way has a payment of some order.
LEMMA RequestHolds ==
  ASSUME PaymentsInv, NEW r \in Request, request[r] # Idle
  PROVE  /\ request[r] \in Verifying
         /\ request[r].payment \in Payment
         /\ Created(request[r].payment)
         /\ order_of[request[r].payment] \in Order
<1>1. request[r] \in Verifying
  BY DEF PaymentsInv, PaymentsTypeOK
<1>. QED
  BY <1>1 DEF PaymentsInv, RowsOpened, Verifying

\* The latest payment verify_payment looks at is one of the order's.
LEMMA LatestIsTheOrders ==
  ASSUME NEW o, Unfailed(o) # {}
  PROVE  Latest(o) \in Unfailed(o)
<1> DEFINE behind == {k \in Nat : \E n \in Unfailed(o) : k = MaxPayments - n}
<1>1. Unfailed(o) \subseteq 1 .. MaxPayments /\ MaxPayments \in Nat
  BY PaymentsAssumption DEF Unfailed, Payment
<1>2. behind \subseteq Nat /\ behind # {}
  <2>1. PICK n \in Unfailed(o) : TRUE
    OBVIOUS
  <2>2. MaxPayments - n \in Nat
    BY <1>1
  <2>3. MaxPayments - n \in behind
    BY <2>2
  <2>. QED
    BY <2>3
<1>3. \E k \in behind : \A j \in behind : ~(<<j, k>> \in OpToRel(<, Nat))
  <2>. HIDE DEF behind
  <2>. QED
    BY <1>2, NatLessThanWellFounded, WFMin
<1>4. PICK k \in behind : \A j \in behind : ~(<<j, k>> \in OpToRel(<, Nat))
  BY <1>3
<1>5. \A j \in behind : ~(j < k)
  BY <1>2, <1>4 DEF OpToRel
<1>6. PICK n \in Unfailed(o) : k = MaxPayments - n
  OBVIOUS
<1>7. \A m \in Unfailed(o) : m <= n
  <2>. SUFFICES ASSUME NEW m \in Unfailed(o) PROVE m <= n
    OBVIOUS
  <2>1. MaxPayments - m \in Nat
    BY <1>1
  <2>2. MaxPayments - m \in behind
    BY <2>1
  <2>3. ~(MaxPayments - m < MaxPayments - n)
    BY <1>5, <1>6, <2>2
  <2>. QED
    BY <1>1, <2>3
<1>. QED
  BY <1>7 DEF Latest

-----------------------------------------------------------------------------
(* Every step of the payments is a step of the orders.                     *)

LEMMA PaymentsStepOrders ==
  PaymentsInv /\ [PaymentsNext]_allVars => [Next]_vars
<1>. SUFFICES ASSUME PaymentsInv, [PaymentsNext]_allVars
              PROVE  [Next]_vars
  OBVIOUS
<1>1. ASSUME NEW o \in Order, OrderStep(o)
      PROVE  Next
  BY <1>1, PaymentsAssumption DEF OrderStep, Next
<1>2. ASSUME NEW o \in Order, NEW n \in Payment, OpenWidget(o, n)
      PROVE  Next
  BY <1>2 DEF OpenWidget, Next
<1>3. ASSUME NEW o \in Order, CancelPayment(o)
      PROVE  Next
  BY <1>3 DEF CancelPayment, Next
<1>4. ASSUME NEW o \in Order, NEW r \in Request, VerifyPayment(r, o)
      PROVE  UNCHANGED vars
  BY <1>4 DEF VerifyPayment
<1>5. ASSUME NEW r \in Request, VerifyPaid(r) \/ VerifyRejected(r)
      PROVE  Next
  <2>1. order_of[request[r].payment] \in Order
    BY <1>5, RequestHolds DEF VerifyPaid, VerifyRejected, Asked
  <2>. QED
    BY <1>5, <2>1 DEF VerifyPaid, VerifyRejected, Next
<1>6. ASSUME \/ \E n \in Payment : Charge(n) \/ Decline(n) \/ Mention(n)
             \/ \E r \in Request : SaveCaptured(r) \/ SaveFailed(r) \/ LoseVerify(r)
      PROVE  UNCHANGED vars
  BY <1>6 DEF Charge, Decline, Mention, SaveCaptured, SaveFailed, LoseVerify
<1>7. ASSUME NEW w \in Worker, ProcessFailed(w) \/ ProcessPaid(w)
      PROVE  Next
  <2>1. worker[w] # Idle
    BY <1>7 DEF ProcessFailed, ProcessPaid, AtStep
  <2>2. order_of[worker[w].event[1]] \in Order
    BY <2>1, WorkerHolds
  <2>. QED
    BY <1>7, <2>2 DEF ProcessFailed, ProcessPaid, Next
<1>8. ASSUME NEW w \in Worker,
             \/ ProcessCaptured(w) \/ Finish(w) \/ Crash(w)
             \/ \E e \in Event : Receive(w, e)
      PROVE  UNCHANGED vars
  BY <1>8 DEF ProcessCaptured, Finish, Crash, Receive
<1>9. CASE UNCHANGED allVars
  BY <1>9 DEF allVars
<1>. QED
  BY <1>1, <1>2, <1>3, <1>4, <1>5, <1>6, <1>7, <1>8, <1>9
  DEF PaymentsNext, Work, Answer

-----------------------------------------------------------------------------
(* Every step keeps the invariant.                                         *)

\* What is told, sold and saved stays so, but for the rows a request denies.
Kept ==
  /\ charged \subseteq charged' /\ emitted \subseteq emitted'
  /\ \A n \in Payment : Created(n) => Created(n)' /\ order_of'[n] = order_of[n]
  /\ \A n \in Payment : Told(n) => Told(n)'

\* A charge that has reached its order stays there.
LEMMA ReachedKept ==
  ASSUME PaymentsInv, [Next]_vars, Kept, NEW n \in Payment, Created(n), Reached(n)
  PROVE  Reached(n)'
<1>1. order_of[n] \in Order /\ order_of'[n] = order_of[n]
  BY DEF PaymentsInv, RowsOpened, Kept
<1>2. commits'[order_of[n]] >= commits[order_of[n]]
  BY <1>1, CommitsGrow DEF PaymentsInv
<1>3. commits[order_of[n]] \in Nat /\ commits'[order_of[n]] \in Nat
  BY <1>1, TypeOKStep DEF PaymentsInv, SaleInv, TypeOK
<1>4. Told(n)'
  BY DEF Kept, Reached, Told
<1>. QED
  BY <1>1, <1>2, <1>3, <1>4 DEF Reached, Told

LEMMA BackedKept ==
  ASSUME Kept, NEW n \in Payment, Created(n), Backed(n)
  PROVE  Backed(n)'
<1>1. CASE \E e \in emitted : e[1] = n /\ e[2] = "other"
  BY <1>1 DEF Backed, Kept
<1>2. CASE Posted(n) \cap charged # {}
  <2>1. PICK m \in Posted(n) : m \in charged
    BY <1>2
  <2>2. m \in Posted(n)'
    BY <2>1 DEF Posted, Kept
  <2>. QED
    BY <2>1, <2>2 DEF Backed, Kept
<1>. QED
  BY <1>1, <1>2 DEF Backed

LEMMA WorkerStays ==
  ASSUME PaymentsInv, [Next]_vars, Kept, NEW w \in Worker, worker[w] # Idle,
         worker'[w] = worker[w]
  PROVE  Informed(worker[w])'
<1>1. PICK call : call = worker[w]
  OBVIOUS
<1>2. PICK n : n = call.event[1]
  OBVIOUS
<1>3. n \in Payment /\ Created(n) /\ call.event \in emitted
  BY <1>1, <1>2, WorkerHolds DEF PaymentsInv, RowsOpened
<1>4. Informed(call)
  BY <1>1 DEF PaymentsInv, WorkersKnow
<1>5. /\ call.event \in emitted'
      /\ Told(n) => Told(n)'
      /\ Reached(n) => Reached(n)'
  BY <1>3, ReachedKept DEF Kept
<1>6. Informed(call)'
  BY <1>2, <1>4, <1>5 DEF Informed
<1>. QED
  BY <1>1, <1>6

\* The calls and the answers stand when nobody takes a step with them.
LEMMA CallsStay ==
  ASSUME PaymentsInv, [Next]_vars, Kept,
         \A w \in Worker : worker'[w] \in {worker[w], Idle}
  PROVE  WorkersKnow'
<1>. SUFFICES ASSUME NEW w \in Worker, worker'[w] # Idle
              PROVE  Informed(worker[w])'
  BY DEF WorkersKnow
<1>1. worker'[w] = worker[w] /\ worker[w] # Idle
  OBVIOUS
<1>. QED
  BY <1>1, WorkerStays

LEMMA AnswersStay ==
  ASSUME PaymentsInv, [Next]_vars, Kept, UNCHANGED <<processed, acked>>
  PROVE  AnswersTrue'
<1>1. ASSUME NEW e \in processed, e[2] = "captured"
      PROVE  Reached(e[1])'
  <2>1. e[1] \in Payment /\ Created(e[1]) /\ Reached(e[1])
    BY EventAssumption, <1>1 DEF PaymentsInv, PaymentsTypeOK, RowsOpened, AnswersTrue
  <2>. QED
    BY <2>1, ReachedKept
<1>. QED
  BY <1>1 DEF PaymentsInv, AnswersTrue, RowProcessed, Kept

\* The requests keep their backing when none of them takes a step.
LEMMA RequestsStay ==
  ASSUME PaymentsInv, Kept, NEW r \in Request,
         request'[r] \in {request[r], Idle}
  PROVE  /\ request'[r] # Idle => Created(request[r].payment)'
         /\ Asked(r, "paid")' \/ Asked(r, "verified")' =>
              Backed(request[r].payment)'
<1>1. CASE request'[r] = Idle
  BY <1>1 DEF Asked
<1>2. CASE request'[r] = request[r] /\ request[r] # Idle
  <2>1. PICK n : n = request[r].payment
    OBVIOUS
  <2>2. n \in Payment /\ Created(n)
    BY <1>2, <2>1, RequestHolds
  <2>3. Created(n)' /\ (Backed(n) => Backed(n)')
    BY <2>2, BackedKept DEF Kept
  <2>4. Asked(r, "paid") \/ Asked(r, "verified") => Backed(n)
    BY <2>1 DEF PaymentsInv, RequestsBacked
  <2>5. request'[r].payment = n
    BY <1>2, <2>1
  <2>6. Created(request[r].payment)'
    BY <2>3, <2>5
  <2>7. Asked(r, "paid")' \/ Asked(r, "verified")' => Backed(n)'
    BY <1>2, <2>3, <2>4 DEF Asked
  <2>. QED
    BY <2>5, <2>6, <2>7
<1>. QED
  BY <1>1, <1>2

\* A step that leaves the gateway and the rows alone, and that ends a call or a
\* request at most.
LEMMA CallsKept ==
  ASSUME PaymentsInv, [Next]_vars,
         UNCHANGED <<gatewayVars, order_of, row, processed, historyVars, denied>>,
         crashes' \in 0 .. MaxCrashes,
         request' \in [Request -> Verifying \cup {Idle}],
         \A r \in Request : request'[r] \in {request[r], Idle},
         worker' \in [Worker -> Call \cup {Idle}],
         \A w \in Worker : worker'[w] \in {worker[w], Idle}
  PROVE  PaymentsInv'
<1>1. SaleInv' /\ TypeOK'
  BY SaleInvStep DEF PaymentsInv, SaleInv
<1>2. PaymentsTypeOK'
  BY <1>1 DEF PaymentsInv, PaymentsTypeOK, gatewayVars, historyVars
<1>3. Kept
  BY DEF Kept, Told, Created, gatewayVars
<1>4. RowsOpened' /\ RequestsBacked'
  BY <1>3, RequestsStay DEF PaymentsInv, RowsOpened, RequestsBacked, Created, gatewayVars
<1>5. CapturesCharged'
  BY DEF PaymentsInv, CapturesCharged, gatewayVars
<1>6. WorkersKnow' /\ AnswersTrue'
  BY <1>3, CallsStay, AnswersStay DEF gatewayVars
<1>. QED
  BY <1>1, <1>2, <1>4, <1>5, <1>6 DEF PaymentsInv

\* The gateway only adds to what was charged and emitted.
LEMMA GatewaySteps ==
  ASSUME PaymentsInv, NEW n \in Payment, Charge(n) \/ Decline(n) \/ Mention(n)
  PROVE  PaymentsInv'
<1>1. PICK e \in Event :
        /\ e[1] = n /\ emitted' = emitted \cup {e}
        /\ \/ charged' = charged \cup {n}
           \/ e[2] # "captured" /\ charged' = charged
        /\ Created(n) /\ UNCHANGED <<vars, acked, viewVars>>
  BY EventAssumption DEF Charge, Decline, Mention, Tell
<1>2. UNCHANGED <<vars, acked, order_of, row, processed, worker, request, crashes,
                  historyVars, denied>>
  BY <1>1 DEF viewVars
<1>3. SaleInv' /\ TypeOK' /\ [Next]_vars
  BY <1>2, SaleInvStep DEF PaymentsInv, SaleInv
<1>4. PaymentsTypeOK'
  BY <1>1, <1>2, <1>3 DEF PaymentsInv, PaymentsTypeOK, historyVars
<1>5. Kept
  BY <1>1, <1>2 DEF Kept, Told, Created
<1>6. RowsOpened' /\ RequestsBacked'
  BY <1>1, <1>2, <1>5, RequestsStay DEF PaymentsInv, RowsOpened, RequestsBacked, Created
<1>7. CapturesCharged'
  BY <1>1 DEF PaymentsInv, CapturesCharged
<1>8. WorkersKnow' /\ AnswersTrue'
  BY <1>2, <1>3, <1>5, CallsStay, AnswersStay
<1>. QED
  BY <1>3, <1>4, <1>6, <1>7, <1>8 DEF PaymentsInv

\* start_payment gives a new row its order; nobody was told of it yet.
LEMMA OpenWidgetStep ==
  ASSUME PaymentsInv, NEW o \in Order, NEW n \in Payment, OpenWidget(o, n)
  PROVE  PaymentsInv'
<1>1. /\ ~Created(n)
      /\ order_of' = [order_of EXCEPT ![n] = o]
      /\ row' = [row EXCEPT ![n] = "created"]
      /\ UNCHANGED <<gatewayVars, processed, worker, request, crashes,
                     historyVars, denied>>
  BY DEF OpenWidget
<1>2. [Next]_vars
  BY PaymentsStepOrders DEF PaymentsNext
<1>3. SaleInv' /\ TypeOK'
  BY <1>2, SaleInvStep DEF PaymentsInv, SaleInv
<1>4. PaymentsTypeOK'
  BY <1>1, <1>3 DEF PaymentsInv, PaymentsTypeOK, gatewayVars, historyVars
<1>5. /\ Created(n)' /\ order_of'[n] = o
      /\ \A m \in Payment \ {n} : row'[m] = row[m] /\ order_of'[m] = order_of[m]
  BY <1>1 DEF PaymentsInv, PaymentsTypeOK, Created
<1>6. \A m \in Payment : Created(m) => Created(m)'
  BY <1>5 DEF Created
<1>7. /\ charged' = charged /\ emitted' = emitted /\ acked' = acked
      /\ request' = request /\ worker' = worker
  BY <1>1 DEF gatewayVars
<1>8. Kept
  <2>1. \A m \in Payment : Told(m) => Told(m)'
    BY <1>1, <1>5 DEF Told, Created
  <2>. QED
    BY <1>1, <1>5, <1>6, <1>7, <2>1 DEF Kept
<1>9. RequestsBacked' /\ RowsOpened'
  <2>1. ASSUME NEW r \in Request
        PROVE  /\ request'[r] # Idle => Created(request[r].payment)'
               /\ Asked(r, "paid")' \/ Asked(r, "verified")' =>
                    Backed(request[r].payment)'
    <3>1. request'[r] \in {request[r], Idle}
      BY <1>7
    <3>. QED
      BY <1>8, <3>1, RequestsStay
  <2>2. \A m \in Payment : Created(m)' <=> order_of'[m] \in Order
    BY <1>5 DEF PaymentsInv, RowsOpened, Created
  <2>3. /\ \A m \in charged : Created(m)'
        /\ \A e \in emitted : Created(e[1])'
    BY EventAssumption, <1>6 DEF PaymentsInv, PaymentsTypeOK, RowsOpened
  <2>. QED
    BY <1>7, <2>1, <2>2, <2>3 DEF RowsOpened, RequestsBacked
<1>10. CapturesCharged' /\ WorkersKnow' /\ AnswersTrue'
  BY <1>1, <1>2, <1>7, <1>8, CallsStay, AnswersStay DEF PaymentsInv, CapturesCharged
<1>. QED
  BY <1>3, <1>4, <1>9, <1>10 DEF PaymentsInv

\* A request takes the latest payment and the gateway's word for it.
LEMMA VerifyPaymentStep ==
  ASSUME PaymentsInv, NEW o \in Order, NEW r \in Request, VerifyPayment(r, o)
  PROVE  PaymentsInv'
<1>0. PICK n : n = Latest(o)
  OBVIOUS
<1>1. PICK step \in {"paid", "unpaid", "refused"} :
        /\ step = "paid" => Posted(n) \cap charged # {}
        /\ request' = [request EXCEPT ![r] = [payment |-> n, step |-> step]]
  BY <1>0 DEF VerifyPayment
<1>2. /\ Unfailed(o) # {}
      /\ UNCHANGED <<vars, gatewayVars, order_of, row, processed, worker, crashes,
                     historyVars, denied>>
  BY DEF VerifyPayment
<1>3. n \in Payment /\ order_of[n] = o
  BY <1>0, <1>2, LatestIsTheOrders DEF Unfailed
<1>4. Created(n)
  BY <1>3 DEF PaymentsInv, RowsOpened
<1>5. /\ request' \in [Request -> Verifying \cup {Idle}]
      /\ request'[r] = [payment |-> n, step |-> step]
      /\ \A x \in Request \ {r} : request'[x] = request[x]
  BY <1>1, <1>3 DEF PaymentsInv, PaymentsTypeOK, Verifying
<1>6. SaleInv' /\ TypeOK' /\ [Next]_vars
  BY <1>2, SaleInvStep DEF PaymentsInv, SaleInv
<1>7. PaymentsTypeOK'
  BY <1>2, <1>5, <1>6 DEF PaymentsInv, PaymentsTypeOK, gatewayVars, historyVars
<1>8. Kept
  BY <1>2 DEF Kept, Told, Created, gatewayVars
<1>9. step = "paid" => Backed(n)'
  BY <1>1, <1>3, <1>4, <1>8, BackedKept DEF Backed
<1>10. RowsOpened' /\ RequestsBacked'
  <2>1. ASSUME NEW x \in Request
        PROVE  /\ request'[x] # Idle => Created(request[x].payment)'
               /\ Asked(x, "paid")' \/ Asked(x, "verified")' =>
                    Backed(request[x].payment)'
    <3>1. CASE x = r
      BY <1>2, <1>4, <1>5, <1>9, <3>1 DEF Asked, Created
    <3>2. CASE x # r
      BY <1>5, <1>8, <3>2, RequestsStay
    <3>. QED
      BY <3>1, <3>2
  <2>. QED
    BY <1>2, <2>1 DEF PaymentsInv, RowsOpened, RequestsBacked, Created, gatewayVars
<1>11. CapturesCharged' /\ WorkersKnow' /\ AnswersTrue'
  BY <1>2, <1>6, <1>8, CallsStay, AnswersStay
  DEF PaymentsInv, CapturesCharged, gatewayVars
<1>. QED
  BY <1>6, <1>7, <1>10, <1>11 DEF PaymentsInv

\* A Payment row is saved: captured, or failed by a request that is denied.
LEMMA RowStep ==
  ASSUME PaymentsInv, NEW n \in Payment, Created(n),
         NEW new \in {"captured", "failed"},
         row' = [row EXCEPT ![n] = new],
         denied' = IF new = "failed" THEN denied \cup {n} ELSE denied,
         request' \in [Request -> Verifying \cup {Idle}],
         worker' \in [Worker -> Call \cup {Idle}],
         UNCHANGED <<vars, gatewayVars, order_of, processed, crashes, historyVars>>
  PROVE  /\ SaleInv' /\ PaymentsTypeOK'
         /\ Kept /\ [Next]_vars
         /\ CapturesCharged' /\ AnswersTrue'
         /\ Told(n)'
         /\ (\A r \in Request : request'[r] # Idle => Created(request[r].payment)')
              => RowsOpened'
<1>1. SaleInv' /\ TypeOK' /\ [Next]_vars
  BY SaleInvStep DEF PaymentsInv, SaleInv
<1>2. /\ row' \in [Payment -> {"none", "created", "captured", "failed"}]
      /\ row'[n] = new /\ \A m \in Payment \ {n} : row'[m] = row[m]
  BY DEF PaymentsInv, PaymentsTypeOK
<1>3. UNCHANGED <<charged, emitted, acked>>
  BY DEF gatewayVars
<1>4. PaymentsTypeOK'
  BY <1>1, <1>2, <1>3 DEF PaymentsInv, PaymentsTypeOK, historyVars
<1>5. \A m \in Payment : Created(m) <=> Created(m)'
  BY <1>2 DEF Created
<1>6. Told(n)' /\ \A m \in Payment : Told(m) => Told(m)'
  BY <1>2 DEF Told
<1>7. Kept
  BY <1>3, <1>5, <1>6 DEF Kept
<1>8. CapturesCharged' /\ AnswersTrue'
  BY <1>1, <1>3, <1>7, AnswersStay DEF PaymentsInv, CapturesCharged
<1>9. /\ \A m \in Payment : Created(m)' <=> order_of'[m] \in Order
      /\ \A m \in charged' : Created(m)'
      /\ \A e \in emitted' : Created(e[1])'
  <2>1. \A m \in charged : m \in Payment
    BY DEF PaymentsInv, PaymentsTypeOK
  <2>2. \A e \in emitted : e[1] \in Payment
    BY EventAssumption DEF PaymentsInv, PaymentsTypeOK
  <2>. QED
    BY <1>3, <1>5, <2>1, <2>2 DEF PaymentsInv, RowsOpened
<1>. QED
  BY <1>1, <1>4, <1>6, <1>7, <1>8, <1>9 DEF RowsOpened

\* A request saves what it was told.
LEMMA SaveVerdictStep ==
  ASSUME PaymentsInv, NEW r \in Request, SaveCaptured(r) \/ SaveFailed(r)
  PROVE  PaymentsInv'
<1>0. PICK n : n = request[r].payment
  OBVIOUS
<1>1. PICK new \in {"captured", "failed"}, step \in {"verified", "refused"} :
        /\ row' = [row EXCEPT ![n] = new]
        /\ denied' = IF new = "failed" THEN denied \cup {n} ELSE denied
        /\ request' = [request EXCEPT ![r].step = step]
        /\ step = "verified" => Asked(r, "paid")
  BY <1>0 DEF SaveCaptured, SaveFailed
<1>2. /\ request[r] # Idle
      /\ UNCHANGED <<vars, gatewayVars, order_of, processed, worker, crashes,
                     historyVars>>
  BY DEF SaveCaptured, SaveFailed, Asked
<1>3. request[r] \in Verifying /\ n \in Payment /\ Created(n)
  BY <1>0, <1>2, RequestHolds
<1>4. /\ request' \in [Request -> Verifying \cup {Idle}]
      /\ request'[r] = [payment |-> n, step |-> step]
      /\ \A x \in Request \ {r} : request'[x] = request[x]
  <2>1. [request[r] EXCEPT !.step = step] = [payment |-> n, step |-> step]
    BY <1>0, <1>3 DEF Verifying
  <2>2. request' = [request EXCEPT ![r] = [request[r] EXCEPT !.step = step]]
    BY <1>1 DEF PaymentsInv, PaymentsTypeOK
  <2>3. [payment |-> n, step |-> step] \in Verifying
    BY <1>3 DEF Verifying
  <2>. QED
    BY <2>1, <2>2, <2>3 DEF PaymentsInv, PaymentsTypeOK
<1>5. worker' \in [Worker -> Call \cup {Idle}]
  BY <1>2 DEF PaymentsInv, PaymentsTypeOK
<1>6. /\ SaleInv' /\ PaymentsTypeOK' /\ Kept /\ [Next]_vars
      /\ CapturesCharged' /\ AnswersTrue'
      /\ (\A x \in Request : request'[x] # Idle => Created(request[x].payment)')
           => RowsOpened'
  BY <1>1, <1>2, <1>3, <1>4, <1>5, RowStep
<1>7. Created(n)' /\ (Backed(n) => Backed(n)')
  BY <1>3, <1>6, BackedKept DEF Kept
<1>8. step = "verified" => Backed(n)'
  BY <1>0, <1>1, <1>7 DEF PaymentsInv, RequestsBacked
<1>9. ASSUME NEW x \in Request
      PROVE  /\ request'[x] # Idle => Created(request[x].payment)'
             /\ Asked(x, "paid")' \/ Asked(x, "verified")' =>
                  Backed(request[x].payment)'
  <2>1. CASE x = r
    BY <1>4, <1>7, <1>8, <2>1 DEF Asked
  <2>2. CASE x # r
    BY <1>4, <1>6, <2>2, RequestsStay
  <2>. QED
    BY <2>1, <2>2
<1>10. WorkersKnow'
  BY <1>2, <1>6, CallsStay
<1>. QED
  BY <1>6, <1>9, <1>10 DEF PaymentsInv, RequestsBacked

\* A worker that has an event goes one step further with it.
LEMMA NextCall ==
  ASSUME PaymentsInv, NEW w \in Worker, worker[w] # Idle,
         NEW step \in {"stored", "captured", "applied"},
         worker' = [worker EXCEPT ![w].step = step]
  PROVE  /\ worker' \in [Worker -> Call \cup {Idle}]
         /\ worker'[w] = [event |-> worker[w].event, step |-> step]
         /\ \A x \in Worker \ {w} : worker'[x] = worker[x]
<1>1. worker[w] \in Call
  BY WorkerHolds
<1>2. [worker[w] EXCEPT !.step = step]
        = [event |-> worker[w].event, step |-> step]
  BY <1>1 DEF Call
<1>3. [event |-> worker[w].event, step |-> step] \in Call
  BY <1>1 DEF Call
<1>4. worker' = [worker EXCEPT ![w] = [worker[w] EXCEPT !.step = step]]
  BY DEF PaymentsInv, PaymentsTypeOK
<1>. QED
  BY <1>2, <1>3, <1>4 DEF PaymentsInv, PaymentsTypeOK

LEMMA ProcessCapturedStep ==
  ASSUME PaymentsInv, NEW w \in Worker, ProcessCaptured(w)
  PROVE  PaymentsInv'
<1>0. PICK e, n : e = worker[w].event /\ n = e[1]
  OBVIOUS
<1>1. /\ worker[w] # Idle /\ e[2] # "failed"
      /\ row' = [row EXCEPT ![n] = "captured"]
      /\ worker' = [worker EXCEPT ![w].step = "captured"]
      /\ UNCHANGED <<vars, gatewayVars, order_of, processed, request, crashes,
                     historyVars, denied>>
  BY <1>0 DEF ProcessCaptured, AtStep
<1>2. n \in Payment /\ e \in emitted /\ Created(n)
  BY <1>0, <1>1, WorkerHolds DEF PaymentsInv, RowsOpened
<1>3. /\ worker' \in [Worker -> Call \cup {Idle}]
      /\ worker'[w] = [event |-> e, step |-> "captured"]
      /\ \A x \in Worker \ {w} : worker'[x] = worker[x]
  BY <1>0, <1>1, NextCall
<1>4. request' \in [Request -> Verifying \cup {Idle}]
  BY <1>1 DEF PaymentsInv, PaymentsTypeOK
<1>5. /\ SaleInv' /\ PaymentsTypeOK' /\ Kept /\ [Next]_vars
      /\ CapturesCharged' /\ AnswersTrue' /\ Told(n)'
      /\ (\A r \in Request : request'[r] # Idle => Created(request[r].payment)')
           => RowsOpened'
  BY <1>1, <1>2, <1>3, <1>4, RowStep
<1>6. RowsOpened' /\ RequestsBacked'
  BY <1>1, <1>5, RequestsStay DEF RequestsBacked
<1>7. ASSUME NEW x \in Worker, worker'[x] # Idle
      PROVE  Informed(worker[x])'
  <2>1. CASE x = w
    <3>1. PICK call : call = worker'[w]
      OBVIOUS
    <3>2. Informed(call)'
      BY <1>0, <1>1, <1>2, <1>3, <1>5, <3>1 DEF Informed, gatewayVars
    <3>. QED
      BY <2>1, <3>1, <3>2
  <2>2. CASE x # w
    BY <1>3, <1>5, <1>7, <2>2, WorkerStays
  <2>. QED
    BY <2>1, <2>2
<1>. QED
  BY <1>5, <1>6, <1>7 DEF PaymentsInv, WorkersKnow

\* The two steps that change the order: a failure, or a charge whose units are
\* sold by the time the event counts as applied.
LEMMA ProcessOrderStep ==
  ASSUME PaymentsInv, NEW w \in Worker, ProcessFailed(w) \/ ProcessPaid(w)
  PROVE  PaymentsInv'
<1>0. PICK e, n : e = worker[w].event /\ n = e[1]
  OBVIOUS
<1>1. /\ worker[w] # Idle
      /\ CountApplied(e)
      /\ worker' = [worker EXCEPT ![w].step = "applied"]
      /\ UNCHANGED <<gatewayVars, order_of, row, processed, request, crashes,
                     denied>>
  BY <1>0 DEF ProcessFailed, ProcessPaid, AtStep
<1>2. /\ n \in Payment /\ e \in emitted /\ e \in Event
      /\ order_of[n] \in Order /\ Created(n)
  BY <1>0, <1>1, WorkerHolds DEF PaymentsInv, RowsOpened
<1>3. [Next]_vars
  BY PaymentsStepOrders DEF PaymentsNext, Work
<1>4. SaleInv' /\ TypeOK'
  BY <1>3, SaleInvStep DEF PaymentsInv, SaleInv
<1>5. /\ worker' \in [Worker -> Call \cup {Idle}]
      /\ worker'[w] = [event |-> e, step |-> "applied"]
      /\ \A x \in Worker \ {w} : worker'[x] = worker[x]
  BY <1>0, <1>1, NextCall
<1>6. reapplied' \subseteq applied' /\ applied' \subseteq Event
  BY <1>1, <1>2 DEF CountApplied, historyVars, PaymentsInv, PaymentsTypeOK
<1>7. PaymentsTypeOK'
  BY <1>1, <1>4, <1>5, <1>6 DEF PaymentsInv, PaymentsTypeOK, gatewayVars
<1>8. Kept
  BY <1>1 DEF Kept, Told, Created, gatewayVars
<1>9. RowsOpened' /\ RequestsBacked' /\ CapturesCharged'
  BY <1>1, <1>8, RequestsStay
  DEF PaymentsInv, RowsOpened, RequestsBacked, CapturesCharged, Created, gatewayVars
<1>10. e[2] = "captured" => Reached(n)'
  <2>. SUFFICES ASSUME e[2] = "captured" PROVE Reached(n)'
    OBVIOUS
  <2>1. ProcessPaid(w)
    BY <1>0 DEF ProcessFailed
  <2>2. Told(n) /\ MarkPaid(order_of[n])
    BY <1>0, <1>1, <2>1 DEF ProcessPaid, AtStep, PaymentsInv, WorkersKnow, Informed
  <2>3. commits'[order_of[n]] > 0
    <3>1. CASE payment_status[order_of[n]] = "paid"
      BY <1>2, <2>2, <3>1 DEF MarkPaid, PaymentsInv, SaleInv, PaidWasSold
    <3>2. CASE payment_status[order_of[n]] # "paid"
      BY <1>2, <2>2, <3>2, CommitStockSells DEF MarkPaid, PaymentsInv
    <3>. QED
      BY <3>1, <3>2
  <2>. QED
    BY <1>1, <2>2, <2>3 DEF Reached, Told
<1>11. ASSUME NEW x \in Worker, worker'[x] # Idle
       PROVE  Informed(worker[x])'
  <2>1. CASE x = w
    <3>1. PICK call : call = worker'[w]
      OBVIOUS
    <3>2. Informed(call)'
      BY <1>0, <1>1, <1>2, <1>5, <1>10, <3>1 DEF Informed, gatewayVars
    <3>. QED
      BY <2>1, <3>1, <3>2
  <2>2. CASE x # w
    BY <1>3, <1>5, <1>8, <1>11, <2>2, WorkerStays
  <2>. QED
    BY <2>1, <2>2
<1>12. AnswersTrue'
  BY <1>1, <1>3, <1>8, AnswersStay DEF gatewayVars
<1>. QED
  BY <1>4, <1>7, <1>9, <1>11, <1>12 DEF PaymentsInv, WorkersKnow

\* An event is taken up, or answered because its row was processed before.
LEMMA ReceiveStep ==
  ASSUME PaymentsInv, NEW w \in Worker, NEW e \in Event, Receive(w, e)
  PROVE  PaymentsInv'
<1>1. /\ e \in emitted \ acked /\ worker[w] = Idle
      /\ UNCHANGED <<vars, charged, emitted, order_of, row, processed, request,
                     crashes, historyVars, denied>>
  BY DEF Receive
<1>2. \/ RowProcessed(e) /\ acked' = acked \cup {e} /\ worker' = worker
      \/ /\ acked' = acked
         /\ worker' = [worker EXCEPT ![w] = [event |-> e, step |-> "stored"]]
  BY DEF Receive
<1>3. SaleInv' /\ TypeOK' /\ [Next]_vars
  BY <1>1, SaleInvStep DEF PaymentsInv, SaleInv
<1>4. /\ acked' \subseteq emitted'
      /\ worker' \in [Worker -> Call \cup {Idle}]
  BY <1>1, <1>2 DEF PaymentsInv, PaymentsTypeOK, Call
<1>5. PaymentsTypeOK'
  BY <1>1, <1>3, <1>4 DEF PaymentsInv, PaymentsTypeOK, historyVars
<1>6. Kept
  BY <1>1 DEF Kept, Told, Created
<1>7. RowsOpened' /\ CapturesCharged' /\ RequestsBacked'
  BY <1>1, <1>6, RequestsStay
  DEF PaymentsInv, RowsOpened, RequestsBacked, CapturesCharged, Created
<1>8. ASSUME NEW x \in Worker, worker'[x] # Idle
      PROVE  Informed(worker[x])'
  <2>1. CASE worker'[x] = worker[x]
    BY <1>3, <1>6, <1>8, <2>1, WorkerStays
  <2>2. CASE worker'[x] # worker[x]
    <3>1. PICK call : call = worker'[x]
      OBVIOUS
    <3>2. call = [event |-> e, step |-> "stored"]
      BY <1>2, <2>2, <3>1 DEF PaymentsInv, PaymentsTypeOK
    <3>3. Informed(call)'
      BY <1>1, <3>2 DEF Informed
    <3>. QED
      BY <3>1, <3>3
  <2>. QED
    BY <2>1, <2>2
<1>9. AnswersTrue'
  <2>1. ASSUME NEW f \in processed, f[2] = "captured"
        PROVE  Reached(f[1])'
    <3>1. f[1] \in Payment /\ Created(f[1]) /\ Reached(f[1])
      BY EventAssumption, <2>1 DEF PaymentsInv, PaymentsTypeOK, RowsOpened, AnswersTrue
    <3>. QED
      BY <1>3, <1>6, <3>1, ReachedKept
  <2>. QED
    BY <1>1, <1>2, <2>1 DEF PaymentsInv, AnswersTrue, RowProcessed
<1>. QED
  BY <1>3, <1>5, <1>7, <1>8, <1>9 DEF PaymentsInv, WorkersKnow

\* The answer: the worker knows that what it answers for is done.
LEMMA FinishStep ==
  ASSUME PaymentsInv, NEW w \in Worker, Finish(w)
  PROVE  PaymentsInv'
<1>0. PICK e : e = worker[w].event
  OBVIOUS
<1>1. /\ worker[w] # Idle /\ worker[w].step = "applied"
      /\ processed' = processed \cup {e}
      /\ acked' = acked \cup {e}
      /\ worker' = [worker EXCEPT ![w] = Idle]
      /\ UNCHANGED <<vars, charged, emitted, order_of, row, request, crashes,
                     historyVars, denied>>
  BY <1>0 DEF Finish, AtStep
<1>2. e \in emitted /\ e \in Event
  BY <1>0, <1>1, WorkerHolds
<1>3. SaleInv' /\ TypeOK' /\ [Next]_vars
  BY <1>1, SaleInvStep DEF PaymentsInv, SaleInv
<1>4. PaymentsTypeOK'
  BY <1>1, <1>2, <1>3 DEF PaymentsInv, PaymentsTypeOK, historyVars
<1>5. Kept
  BY <1>1 DEF Kept, Told, Created
<1>6. RowsOpened' /\ CapturesCharged' /\ RequestsBacked'
  BY <1>1, <1>5, RequestsStay
  DEF PaymentsInv, RowsOpened, RequestsBacked, CapturesCharged, Created
<1>7. WorkersKnow'
  <2>1. \A x \in Worker : worker'[x] \in {worker[x], Idle}
    BY <1>1 DEF PaymentsInv, PaymentsTypeOK
  <2>. QED
    BY <1>3, <1>5, <2>1, CallsStay
<1>8. AnswersTrue'
  <2>1. ASSUME NEW f \in processed', f[2] = "captured"
        PROVE  Reached(f[1])'
    <3>1. f \in Event /\ f \in emitted
      BY <1>1, <1>2 DEF PaymentsInv, PaymentsTypeOK, AnswersTrue
    <3>2. Reached(f[1])
      BY <1>0, <1>1, <2>1 DEF PaymentsInv, AnswersTrue, WorkersKnow, Informed
    <3>3. f[1] \in Payment /\ Created(f[1])
      BY EventAssumption, <3>1 DEF PaymentsInv, RowsOpened
    <3>. QED
      BY <1>3, <1>5, <3>2, <3>3, ReachedKept
  <2>2. \A f \in acked' : RowProcessed(f)'
    BY <1>1 DEF PaymentsInv, AnswersTrue, RowProcessed, SameRow
  <2>. QED
    BY <1>1, <1>2, <2>1, <2>2 DEF PaymentsInv, AnswersTrue
<1>. QED
  BY <1>3, <1>4, <1>6, <1>7, <1>8 DEF PaymentsInv

LEMMA PaymentsInvStep ==
  PaymentsInv /\ [PaymentsNext]_allVars => PaymentsInv'
<1>. SUFFICES ASSUME PaymentsInv, [PaymentsNext]_allVars
              PROVE  PaymentsInv'
  OBVIOUS
<1>0. [Next]_vars
  BY PaymentsStepOrders
<1>1. ASSUME UNCHANGED paymentVars
      PROVE  PaymentsInv'
  BY <1>0, <1>1, CallsKept
  DEF paymentVars, viewVars, PaymentsInv, PaymentsTypeOK
<1>2. ASSUME NEW o \in Order, OrderStep(o) \/ CancelPayment(o)
      PROVE  PaymentsInv'
  BY <1>1, <1>2 DEF OrderStep, CancelPayment
<1>3. ASSUME NEW r \in Request, VerifyPaid(r) \/ VerifyRejected(r) \/ LoseVerify(r)
      PROVE  PaymentsInv'
  <2>1. /\ UNCHANGED <<gatewayVars, order_of, row, processed, worker, crashes,
                       historyVars, denied>>
        /\ request' = [request EXCEPT ![r] = Idle]
    BY <1>3 DEF VerifyPaid, VerifyRejected, LoseVerify
  <2>2. /\ request' \in [Request -> Verifying \cup {Idle}]
        /\ \A x \in Request : request'[x] \in {request[x], Idle}
        /\ worker' \in [Worker -> Call \cup {Idle}]
        /\ crashes' \in 0 .. MaxCrashes
    BY <2>1 DEF PaymentsInv, PaymentsTypeOK
  <2>. QED
    BY <1>0, <2>1, <2>2, CallsKept
<1>4. ASSUME NEW w \in Worker, Crash(w)
      PROVE  PaymentsInv'
  <2>1. /\ UNCHANGED <<gatewayVars, order_of, row, processed, request,
                       historyVars, denied>>
        /\ worker' = [worker EXCEPT ![w] = Idle]
    BY <1>4 DEF Crash
  <2>2. crashes' \in 0 .. MaxCrashes
    BY <1>4, PaymentsAssumption DEF Crash, PaymentsInv, PaymentsTypeOK
  <2>3. /\ worker' \in [Worker -> Call \cup {Idle}]
        /\ \A x \in Worker : worker'[x] \in {worker[x], Idle}
        /\ request' \in [Request -> Verifying \cup {Idle}]
    BY <2>1 DEF PaymentsInv, PaymentsTypeOK
  <2>. QED
    BY <1>0, <2>1, <2>2, <2>3, CallsKept
<1>5. CASE UNCHANGED allVars
  BY <1>1, <1>5 DEF allVars
<1>. QED
  BY <1>2, <1>3, <1>4, <1>5, GatewaySteps, OpenWidgetStep, VerifyPaymentStep,
     SaveVerdictStep, ProcessCapturedStep, ProcessOrderStep, ReceiveStep,
     FinishStep
  DEF PaymentsNext, Work, Answer

LEMMA InitPaymentsInv == PaymentsInit => PaymentsInv
<1>. SUFFICES ASSUME PaymentsInit PROVE PaymentsInv
  OBVIOUS
<1>1. SaleInv /\ TypeOK
  BY InitSaleInv DEF PaymentsInit, SaleInv
<1>2. PaymentsTypeOK
  BY <1>1, PaymentsAssumption DEF PaymentsInit, PaymentsTypeOK
<1>3. RowsOpened /\ CapturesCharged /\ RequestsBacked
  BY PaymentsAssumption
  DEF PaymentsInit, RowsOpened, CapturesCharged, RequestsBacked, Asked, Created
<1>4. WorkersKnow /\ AnswersTrue
  BY DEF PaymentsInit, WorkersKnow, AnswersTrue
<1>. QED
  BY <1>1, <1>2, <1>3, <1>4 DEF PaymentsInv

-----------------------------------------------------------------------------
(* The theorems.                                                           *)

LEMMA PaymentsInvariance == PaymentsSpec => []PaymentsInv
BY InitPaymentsInv, PaymentsInvStep, PTL DEF PaymentsSpec

\* Every variable of the payments keeps its type, whatever workers die.
THEOREM PaymentsTypeCorrect == PaymentsSpec => []PaymentsTypeOK
<1>1. PaymentsInv => PaymentsTypeOK
  BY DEF PaymentsInv
<1>. QED
  BY <1>1, PaymentsInvariance, PTL

\* Browser, webhook, gateway and staff desk, with workers dying between their
\* transactions, drive an order only as the handlers of module Orders do: what
\* is proved of Orders holds of the shop with its payments.
THEOREM PaymentsImplementOrders == PaymentsSpec => Spec
<1>1. PaymentsInit => Init
  BY DEF PaymentsInit
<1>. QED
  BY <1>1, PaymentsInvariance, PaymentsStepOrders, PTL DEF PaymentsSpec, Spec

\* An event of a charge that was marked processed, or answered, has reached its
\* order and its row, or was answered for another one with the same row: no
\* crash between the three transactions of a webhook call, and no failure that
\* overtakes it, loses a payment.
THEOREM AnswersAreTrue == PaymentsSpec => []AnsweredChargesApplied
<1>1. ASSUME PaymentsInv, NEW e \in processed \cup acked, e[2] = "captured"
      PROVE  \/ Reached(e[1])
             \/ \E f \in processed \ {e} : SameRow(f, e) /\ e \notin processed
  <2>1. CASE e \in processed
    BY <1>1, <2>1 DEF PaymentsInv, AnswersTrue
  <2>2. CASE e \notin processed
    BY <1>1, <2>2 DEF PaymentsInv, AnswersTrue, RowProcessed
  <2>. QED
    BY <2>1, <2>2
<1>2. PaymentsInv => AnsweredChargesApplied
  BY <1>1 DEF AnsweredChargesApplied
<1>. QED
  BY <1>2, PaymentsInvariance, PTL

\* What one step may do to an order's payment status.
ByCharge(o) ==
  payment_status[o] # "paid" /\ payment_status'[o] = "paid" =>
    \/ \E n \in Payment : order_of[n] = o /\ Backed(n)
    \/ payment_method[o] = "cod" /\ status'[o] = "delivered"

LEMMA ByChargeStep ==
  ASSUME PaymentsInv, [PaymentsNext]_allVars, NEW o \in Order
  PROVE  ByCharge(o)
<1>1. ASSUME payment_status'[o] = "paid" => payment_status[o] = "paid"
      PROVE  ByCharge(o)
  BY <1>1 DEF ByCharge
<1>2. ASSUME UNCHANGED vars PROVE ByCharge(o)
  BY <1>1, <1>2 DEF vars, orderVars
<1>3. ASSUME NEW n \in Payment, Backed(n), MarkPaid(order_of[n])
      PROVE  ByCharge(o)
  <2>1. CASE o = order_of[n]
    BY <1>3, <2>1 DEF ByCharge
  <2>2. CASE o # order_of[n]
    <3>1. payment_status'[o] = payment_status[o]
      BY <1>3, <2>2 DEF MarkPaid, PaymentsInv, SaleInv, TypeOK
    <3>. QED
      BY <1>1, <3>1
  <2>. QED
    BY <2>1, <2>2
<1>4. ASSUME NEW p \in Order, MarkPaymentFailed(p)
      PROVE  ByCharge(o)
  BY <1>1, <1>4 DEF MarkPaymentFailed, PaymentsInv, SaleInv, TypeOK
<1>5. ASSUME NEW p \in Order, OrderStep(p)
      PROVE  ByCharge(o)
  <2>1. ASSUME NEW new \in DeskStatuses, TransitionOrder(p, new)
        PROVE  ByCharge(o)
    BY <2>1 DEF ByCharge, TransitionOrder, PaymentsInv, SaleInv, TypeOK
  <2>2. CASE ~\E new \in DeskStatuses : TransitionOrder(p, new)
    <3>1. payment_status'[o] = "paid" => payment_status[o] = "paid"
      BY <1>5, <2>2
      DEF OrderStep, PlaceOrder, ConfirmCod, LoseCodRequest, CancelOrder,
          orderVars, PaymentsInv, SaleInv, TypeOK
    <3>. QED
      BY <1>1, <3>1
  <2>. QED
    BY <2>1, <2>2
<1>6. ASSUME NEW p \in Order,
             \/ \E n \in Payment : OpenWidget(p, n)
             \/ \E r \in Request : VerifyPayment(r, p)
      PROVE  ByCharge(o)
  BY <1>1, <1>6 DEF OpenWidget, VerifyPayment, StartPayment, vars, orderVars
<1>7. ASSUME NEW p \in Order, CancelPayment(p)
      PROVE  ByCharge(o)
  BY <1>4, <1>7 DEF CancelPayment
<1>8. ASSUME NEW r \in Request, VerifyPaid(r) \/ VerifyRejected(r)
      PROVE  ByCharge(o)
  <2>1. /\ request[r].payment \in Payment
        /\ order_of[request[r].payment] \in Order
    BY <1>8, RequestHolds DEF VerifyPaid, VerifyRejected, Asked
  <2>2. VerifyPaid(r) => Backed(request[r].payment)
    BY DEF VerifyPaid, PaymentsInv, RequestsBacked
  <2>. QED
    BY <1>3, <1>4, <1>8, <2>1, <2>2 DEF VerifyPaid, VerifyRejected
<1>9. ASSUME \/ \E n \in Payment : Charge(n) \/ Decline(n) \/ Mention(n)
             \/ \E r \in Request : SaveCaptured(r) \/ SaveFailed(r) \/ LoseVerify(r)
      PROVE  ByCharge(o)
  BY <1>2, <1>9 DEF Charge, Decline, Mention, SaveCaptured, SaveFailed, LoseVerify
<1>10. ASSUME NEW w \in Worker, ProcessFailed(w)
       PROVE  ByCharge(o)
  <2>1. order_of[worker[w].event[1]] \in Order
    BY <1>10, WorkerHolds DEF ProcessFailed, AtStep
  <2>. QED
    BY <1>4, <1>10, <2>1 DEF ProcessFailed
<1>11. ASSUME NEW w \in Worker, ProcessPaid(w)
       PROVE  ByCharge(o)
  <2> DEFINE e == worker[w].event
  <2>1. /\ e[1] \in Payment /\ Created(e[1])
        /\ e \in emitted /\ e \in Event /\ e[2] # "failed"
        /\ e[2] = "captured" => e[1] \in charged
    BY <1>11, WorkerHolds DEF ProcessPaid, AtStep, PaymentsInv, WorkersKnow,
                              Informed, RowsOpened
  <2>2. e[2] \in {"captured", "failed", "other"}
    BY EventAssumption, <2>1, PaymentsAssumption
  <2>3. Backed(e[1])
    BY <2>1, <2>2 DEF Backed, Posted
  <2>. QED
    BY <1>3, <1>11, <2>1, <2>3 DEF ProcessPaid
<1>12. ASSUME NEW w \in Worker,
              \/ ProcessCaptured(w) \/ Finish(w) \/ Crash(w)
              \/ \E e \in Event : Receive(w, e)
       PROVE  ByCharge(o)
  BY <1>2, <1>12 DEF ProcessCaptured, Finish, Crash, Receive
<1>13. CASE UNCHANGED allVars
  BY <1>2, <1>13 DEF allVars
<1>. QED
  BY <1>5, <1>6, <1>7, <1>8, <1>9, <1>10, <1>11, <1>12, <1>13
  DEF PaymentsNext, Work, Answer

\* An order becomes paid by the gateway's word for one of its own payments, or
\* by the delivery of a COD order.
THEOREM PaidByAChargeOnly == PaymentsSpec => PaidOnlyByCharge
<1>1. PaymentsInv /\ [PaymentsNext]_allVars
        => [\A o \in Order :
              payment_status[o] # "paid" /\ payment_status'[o] = "paid" =>
                \/ \E n \in Payment : order_of[n] = o /\ Backed(n)
                \/ payment_method[o] = "cod" /\ status'[o] = "delivered"]_allVars
  BY ByChargeStep DEF ByCharge
<1>. QED
  BY <1>1, PaymentsInvariance, PTL DEF PaymentsSpec, PaidOnlyByCharge

\* An order is paid online by a charge of its own and by nothing else.
OwnCharge(o) ==
  payment_status[o] # "paid" /\ payment_status'[o] = "paid" =>
    \/ \E n \in charged : order_of[n] = o
    \/ payment_method[o] = "cod" /\ status'[o] = "delivered"

\* Where the proof is bound to its payment and the webhook is told of charges
\* and declines only, the gateway's word for a payment is its own charge: with
\* Razorpay the exceptions of PaidOnlyByCharge are not needed.
THEOREM RazorpayPaysByOwnCharge ==
  Gateway = "razorpay" /\ (\A e \in Event : e[2] # "other")
    => (PaymentsSpec => [][\A o \in Order : OwnCharge(o)]_allVars)
<1>1. ASSUME Gateway = "razorpay", (\A e \in Event : e[2] # "other"), PaymentsInv,
             NEW n \in Payment, Backed(n)
      PROVE  n \in charged
  <2>1. \A e \in emitted : e[2] # "other"
    BY EventAssumption, <1>1 DEF PaymentsInv, PaymentsTypeOK
  <2>. QED
    BY <1>1, <2>1 DEF Backed, Posted
<1>. SUFFICES ASSUME Gateway = "razorpay", (\A e \in Event : e[2] # "other")
              PROVE  PaymentsSpec => [][\A o \in Order : OwnCharge(o)]_allVars
  OBVIOUS
<1>2. PaymentsInv /\ [PaymentsNext]_allVars
        => [\A o \in Order : OwnCharge(o)]_allVars
  BY <1>1, ByChargeStep DEF ByCharge, OwnCharge
<1>. QED
  BY <1>2, PaymentsInvariance, PTL DEF PaymentsSpec

-----------------------------------------------------------------------------
(* Where the unique event_id does keep an event from being applied twice.   *)

\* No two workers handle the same event row at the same time.
CallsApart ==
  \A w, x \in Worker :
    /\ worker[w] # Idle /\ worker[x] # Idle
    /\ SameRow(worker[w].event, worker[x].event)
    => w = x

\* No call ends between the order's transaction and the one that marks the
\* event processed.
NoneDiesApplied == [][\A w \in Worker : AtStep(w, "applied") => ~Crash(w)]_allVars

\* A call about a processed event is not carried on, and an applied event is
\* processed or will be by the worker that has it.
RetriesInv ==
  /\ AppliedAtMostOnce
  /\ \A w \in Worker : worker[w] # Idle => ~RowProcessed(worker[w].event)
  /\ \A e \in applied :
       \/ RowProcessed(e)
       \/ \E w \in Worker : AtStep(w, "applied") /\ worker[w].event = e

LEMMA RetriesKept ==
  ASSUME RetriesInv, UNCHANGED <<worker, processed, historyVars>>
  PROVE  RetriesInv'
BY DEF RetriesInv, historyVars, AtStep, AppliedAtMostOnce, RowProcessed

\* A worker that applies its event is the first to do so.
LEMMA AppliedFirst ==
  ASSUME PaymentsInv, RetriesInv, CallsApart,
         NEW w \in Worker, worker[w] # Idle, ~AtStep(w, "applied")
  PROVE  worker[w].event \notin applied
<1>. SUFFICES ASSUME worker[w].event \in applied PROVE FALSE
  OBVIOUS
<1>1. PICK x \in Worker : AtStep(x, "applied") /\ worker[x].event = worker[w].event
  BY DEF RetriesInv, RowProcessed
<1>. QED
  BY <1>1 DEF CallsApart, AtStep, SameRow

LEMMA ApplyingStep ==
  ASSUME PaymentsInv, RetriesInv, CallsApart,
         NEW w \in Worker, ProcessFailed(w) \/ ProcessPaid(w)
  PROVE  RetriesInv'
<1> DEFINE e == worker[w].event
<1>1. /\ worker[w] # Idle /\ ~AtStep(w, "applied")
      /\ CountApplied(e)
      /\ worker' = [worker EXCEPT ![w].step = "applied"]
      /\ processed' = processed
  BY DEF ProcessFailed, ProcessPaid, AtStep
<1>2. worker[w] \in Call
  BY <1>1, WorkerHolds
<1>3. /\ AtStep(w, "applied")' /\ worker'[w].event = e
      /\ worker'[w] # Idle
      /\ \A x \in Worker \ {w} : worker'[x] = worker[x]
  <2>1. worker'[w] = [worker[w] EXCEPT !.step = "applied"]
    BY <1>1 DEF PaymentsInv, PaymentsTypeOK
  <2>2. worker'[w] \in Call /\ worker'[w].step = "applied" /\ worker'[w].event = e
    BY <1>2, <2>1 DEF Call
  <2>. QED
    BY <1>1, <2>2, IdleAssumption DEF AtStep, PaymentsInv, PaymentsTypeOK
<1>4. /\ reapplied' = {}
      /\ applied' \subseteq applied \cup {e}
  BY <1>1, AppliedFirst DEF CountApplied, historyVars, RetriesInv, AppliedAtMostOnce
<1>5. \A x \in Worker : worker'[x] # Idle => ~RowProcessed(worker[x].event)'
  BY <1>1, <1>3 DEF RetriesInv, RowProcessed
<1>6. ASSUME NEW f \in applied, ~RowProcessed(f)
      PROVE  \E x \in Worker : AtStep(x, "applied")' /\ worker'[x].event = f
  <2>1. PICK x \in Worker : AtStep(x, "applied") /\ worker[x].event = f
    BY <1>6 DEF RetriesInv, RowProcessed
  <2>2. x # w
    BY <1>1, <2>1
  <2>. QED
    BY <1>3, <2>1, <2>2 DEF AtStep
<1>. QED
  BY <1>1, <1>3, <1>4, <1>5, <1>6 DEF RetriesInv, RowProcessed, AppliedAtMostOnce

LEMMA RetriesStep ==
  /\ PaymentsInv /\ RetriesInv /\ CallsApart
  /\ [PaymentsNext]_allVars
  /\ [\A w \in Worker : AtStep(w, "applied") => ~Crash(w)]_allVars
  => RetriesInv'
<1>. SUFFICES ASSUME PaymentsInv, RetriesInv, CallsApart,
                     [PaymentsNext]_allVars,
                     [\A w \in Worker : AtStep(w, "applied") => ~Crash(w)]_allVars
              PROVE  RetriesInv'
  OBVIOUS
<1>1. ASSUME UNCHANGED viewVars PROVE RetriesInv'
  BY <1>1, RetriesKept DEF viewVars
<1>2. ASSUME NEW o \in Order,
             \/ OrderStep(o)
             \/ \E n \in Payment : OpenWidget(o, n)
             \/ CancelPayment(o)
             \/ \E r \in Request : VerifyPayment(r, o)
      PROVE  RetriesInv'
  <2>1. UNCHANGED <<worker, processed, historyVars>>
    BY <1>2 DEF OrderStep, OpenWidget, VerifyPayment, CancelPayment,
                paymentVars, viewVars
  <2>. QED
    BY <2>1, RetriesKept
<1>3. ASSUME \/ \E n \in Payment : Charge(n) \/ Decline(n) \/ Mention(n)
             \/ \E r \in Request : Answer(r) \/ LoseVerify(r)
      PROVE  RetriesInv'
  <2>1. UNCHANGED <<worker, processed, historyVars>>
    BY <1>3 DEF Charge, Decline, Mention, Answer, SaveCaptured, SaveFailed,
                VerifyPaid, VerifyRejected, LoseVerify, viewVars
  <2>. QED
    BY <2>1, RetriesKept
<1>4. ASSUME NEW w \in Worker, ProcessCaptured(w)
      PROVE  RetriesInv'
  <2>1. /\ AtStep(w, "stored") /\ worker[w] # Idle
        /\ worker' = [worker EXCEPT ![w].step = "captured"]
        /\ UNCHANGED <<processed, historyVars>>
    BY <1>4 DEF ProcessCaptured, AtStep
  <2>2. worker[w] \in Call
    BY <2>1, WorkerHolds
  <2>3. /\ worker'[w].event = worker[w].event
        /\ \A x \in Worker \ {w} : worker'[x] = worker[x]
    BY <2>1, <2>2 DEF Call, PaymentsInv, PaymentsTypeOK
  <2>4. \A x \in Worker : worker'[x] # Idle => ~RowProcessed(worker[x].event)'
    BY <2>1, <2>3 DEF RetriesInv, RowProcessed
  <2>5. \A x \in Worker : AtStep(x, "applied") => x # w
    BY <2>1 DEF AtStep
  <2>. QED
    BY <2>1, <2>3, <2>4, <2>5 DEF RetriesInv, RowProcessed, AtStep, historyVars, AppliedAtMostOnce
<1>5. ASSUME NEW w \in Worker, NEW e \in Event, Receive(w, e)
      PROVE  RetriesInv'
  <2>1. CASE RowProcessed(e)
    BY <1>5, <2>1, RetriesKept DEF Receive
  <2>2. CASE ~RowProcessed(e)
    <3>1. /\ worker[w] = Idle
          /\ worker' = [worker EXCEPT ![w] = [event |-> e, step |-> "stored"]]
          /\ UNCHANGED <<processed, historyVars>>
      BY <1>5, <2>2 DEF Receive
    <3>2. /\ worker'[w].event = e
          /\ \A x \in Worker \ {w} : worker'[x] = worker[x]
      BY <3>1 DEF PaymentsInv, PaymentsTypeOK
    <3>3. \A x \in Worker : worker'[x] # Idle => ~RowProcessed(worker[x].event)'
      BY <2>2, <3>1, <3>2 DEF RetriesInv, RowProcessed
    <3>4. \A x \in Worker : AtStep(x, "applied") => x # w
      BY <3>1 DEF AtStep
    <3>. QED
      BY <3>1, <3>2, <3>3, <3>4 DEF RetriesInv, RowProcessed, AtStep, historyVars, AppliedAtMostOnce
  <2>. QED
    BY <2>1, <2>2
<1>6. ASSUME NEW w \in Worker, Finish(w)
      PROVE  RetriesInv'
  <2>1. /\ worker[w] # Idle
        /\ worker' = [worker EXCEPT ![w] = Idle]
        /\ processed' = processed \cup {worker[w].event}
        /\ UNCHANGED historyVars
    BY <1>6 DEF Finish, AtStep
  <2>2. /\ worker'[w] = Idle
        /\ \A x \in Worker \ {w} : worker'[x] = worker[x]
    BY <2>1 DEF PaymentsInv, PaymentsTypeOK
  <2>3. \A x \in Worker : worker'[x] # Idle => ~RowProcessed(worker[x].event)'
    BY <2>1, <2>2 DEF RetriesInv, CallsApart, RowProcessed, SameRow
  <2>4. ASSUME NEW e \in applied, ~RowProcessed(e)'
        PROVE  \E x \in Worker : AtStep(x, "applied")' /\ worker'[x].event = e
    <3>1. PICK x \in Worker : AtStep(x, "applied") /\ worker[x].event = e
      BY <2>1, <2>4 DEF RetriesInv, RowProcessed
    <3>2. x # w
      BY <2>1, <2>4, <3>1 DEF RowProcessed, SameRow
    <3>. QED
      BY <2>2, <3>1, <3>2 DEF AtStep
  <2>. QED
    BY <2>1, <2>3, <2>4 DEF RetriesInv, RowProcessed, historyVars, AppliedAtMostOnce
<1>7. ASSUME NEW w \in Worker, Crash(w)
      PROVE  RetriesInv'
  <2>1. /\ worker[w] # Idle
        /\ worker' = [worker EXCEPT ![w] = Idle]
        /\ UNCHANGED <<processed, historyVars>>
    BY <1>7 DEF Crash
  <2>2. /\ worker'[w] = Idle
        /\ \A x \in Worker \ {w} : worker'[x] = worker[x]
    BY <2>1 DEF PaymentsInv, PaymentsTypeOK
  <2>3. ~AtStep(w, "applied")
    BY <1>7, <2>1, <2>2 DEF allVars, paymentVars, viewVars
  <2>4. \A x \in Worker : worker'[x] # Idle => ~RowProcessed(worker[x].event)'
    BY <2>1, <2>2 DEF RetriesInv, RowProcessed
  <2>5. \A x \in Worker : AtStep(x, "applied") => x # w
    BY <2>3
  <2>. QED
    BY <2>1, <2>2, <2>4, <2>5 DEF RetriesInv, RowProcessed, AtStep, historyVars, AppliedAtMostOnce
<1>8. CASE UNCHANGED allVars
  BY <1>1, <1>8 DEF allVars, paymentVars
<1>. QED
  BY <1>2, <1>3, <1>4, <1>5, <1>6, <1>7, <1>8, ApplyingStep DEF PaymentsNext, Work

\* A retried event is applied twice only if two calls about it overlap, or one
\* dies between the order's transaction and the processed flag: without either,
\* retries are harmless, as payments/models.py:117 says of the unique event_id.
THEOREM RetriesHarmlessUndisturbed ==
  PaymentsSpec /\ []CallsApart /\ NoneDiesApplied => []AppliedAtMostOnce
<1>1. PaymentsInit => RetriesInv
  BY DEF PaymentsInit, RetriesInv, AppliedAtMostOnce
<1>2. RetriesInv => AppliedAtMostOnce
  BY DEF RetriesInv, RowProcessed
<1>. QED
  BY <1>1, <1>2, PaymentsInvariance, RetriesStep, PTL DEF PaymentsSpec, NoneDiesApplied
=============================================================================
