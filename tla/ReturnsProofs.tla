---------------------------- MODULE ReturnsProofs ----------------------------
(* Proofs about Returns: what the stock figures and the orders keep when   *)
(* unlocked return requests and stale desk lists interleave with the rest  *)
(* of an order's life, for any number of orders, requests and staff.       *)
EXTENDS Returns, OrdersProofs

-----------------------------------------------------------------------------
(* The inductive invariant.                                                *)

\* A request, checked or made, is for an order that was sold; what a member
\* of staff works through was made; only made requests were completed.
RequestsKnow ==
  /\ \A t \in Tab : asking[t] # NoLine => commits[asking[t].order] > 0
  /\ \A r \in Return :
       /\ Made(r) => line[r] \in Line /\ commits[line[r].order] > 0
       /\ ~Made(r) => completions[r] = 0
  /\ \A s \in Staff : Working(s) =>
       \A r \in batch[s].hand \cup batch[s].todo : Made(r)

ReturnsInv == ReturnsTypeOK /\ SaleInv /\ RequestsKnow

\* A handler of module Orders leaves the requests alone.
LEMMA OrderStepReturns ==
  ASSUME ReturnsInv, [Next]_vars, UNCHANGED returnVars
  PROVE  ReturnsInv'
<1>1. SaleInv' /\ TypeOK'
  BY SaleInvStep DEF ReturnsInv, SaleInv
<1>2. UNCHANGED <<line, return_status, asking, batch, completions>>
  BY DEF returnVars, requestRows, deskVars
<1>3. ReturnsTypeOK'
  BY <1>1, <1>2 DEF ReturnsInv, ReturnsTypeOK
<1>4. \A o \in Order : commits[o] > 0 => commits'[o] > 0
  <2>1. \A o \in Order : /\ commits[o] \in Nat /\ commits'[o] \in Nat
                         /\ commits'[o] >= commits[o]
    BY <1>1, CommitsGrow DEF ReturnsInv, SaleInv, TypeOK
  <2>. QED
    BY <2>1
<1>5. /\ \A t \in Tab : asking[t] # NoLine => asking[t].order \in Order
      /\ \A r \in Return : Made(r) => line[r].order \in Order
  BY DEF ReturnsInv, ReturnsTypeOK, RequestsKnow, Line
<1>6. RequestsKnow'
  BY <1>2, <1>4, <1>5 DEF ReturnsInv, RequestsKnow, Made, Working
<1>. QED
  BY <1>1, <1>3, <1>6 DEF ReturnsInv

\* Writing the status of an order that was sold keeps what is known of it.
LEMMA SaleInvKept ==
  ASSUME SaleInv, NEW o \in Order, commits[o] > 0, TypeOK', NEW new \in Status,
         status' = [status EXCEPT ![o] = new],
         \A p \in Order :
           payment_status'[p] = "paid" => payment_status[p] = "paid",
         UNCHANGED <<stock_committed, commits, restores, requestVars>>
  PROVE  SaleInv'
<1>1. NothingBeforePlacement'
  BY DEF SaleInv, TypeOK, NothingBeforePlacement, Placed, Status, requestVars
<1>2. CommittedExactlyOnce'
  BY DEF SaleInv, CommittedExactlyOnce
<1>3. FulfilledWasSold' /\ PaidWasSold'
  BY DEF SaleInv, TypeOK, FulfilledWasSold, PaidWasSold
<1>. QED
  BY <1>1, <1>2, <1>3 DEF SaleInv

\* Each step of the customer.
LEMMA CustomerStep ==
  ASSUME ReturnsInv, NEW t \in Tab, Customer(t)
  PROVE  ReturnsInv'
<1>1. ASSUME NEW o \in Order, NEW v \in Variant, NEW n \in 1 .. basket[o][v],
             AskReturn(t, o, v, n)
      PROVE  ReturnsInv'
  <2>1. /\ asking' = [asking EXCEPT ![t] = [order |-> o, variant |-> v,
                                            quantity |-> n]]
        /\ UNCHANGED <<vars, requestRows, deskVars, commits>>
    BY <1>1 DEF AskReturn, vars, stockVars
  <2>2. SaleInv' /\ TypeOK'
    BY <2>1, SaleInvStep DEF ReturnsInv, SaleInv
  <2>3. [order |-> o, variant |-> v, quantity |-> n] \in Line
    <3>1. basket[o][v] \in Nat
      BY DEF ReturnsInv, ReturnsTypeOK, TypeOK
    <3>. QED
      BY <3>1 DEF Line
  <2>4. commits[o] > 0
    BY <1>1 DEF AskReturn, ReturnsInv, SaleInv, FulfilledWasSold, Fulfilling
  <2>5. ReturnsTypeOK'
    BY <2>1, <2>2, <2>3
    DEF ReturnsInv, ReturnsTypeOK, requestRows, deskVars
  <2>6. RequestsKnow'
    BY <2>1, <2>4
    DEF ReturnsInv, ReturnsTypeOK, RequestsKnow, Made, Working, requestRows,
        deskVars
  <2>. QED
    BY <2>2, <2>5, <2>6 DEF ReturnsInv
<1>2. ASSUME NEW r \in Return, InsertReturn(t, r)
      PROVE  ReturnsInv'
  <2> DEFINE o == asking[t].order
  <2>1. /\ asking[t] # NoLine /\ ~Made(r)
        /\ line' = [line EXCEPT ![r] = asking[t]]
        /\ return_status' = [return_status EXCEPT ![r] = "requested"]
        /\ status' = [status EXCEPT ![o] = "return_requested"]
        /\ asking' = [asking EXCEPT ![t] = NoLine]
        /\ UNCHANGED <<payment_status, payment_method, basket, stockVars,
                       couponVars, requestVars, deskVars>>
    BY <1>2 DEF InsertReturn
  <2>2. asking[t] \in Line /\ o \in Order /\ commits[o] > 0
    BY <2>1 DEF ReturnsInv, ReturnsTypeOK, RequestsKnow, Line
  <2>3. TypeOK'
    BY <2>1, <2>2
    DEF ReturnsInv, ReturnsTypeOK, TypeOK, Status, stockVars, couponVars,
        requestVars
  <2>4. SaleInv'
    BY <2>1, <2>2, <2>3, SaleInvKept DEF ReturnsInv, Status, stockVars
  <2>5. ReturnsTypeOK'
    BY <2>1, <2>2, <2>3
    DEF ReturnsInv, ReturnsTypeOK, ReturnStatus, deskVars
  <2>6. RequestsKnow'
    BY <2>1, <2>2
    DEF ReturnsInv, ReturnsTypeOK, RequestsKnow, Made, Working, deskVars,
        stockVars
  <2>. QED
    BY <2>4, <2>5, <2>6 DEF ReturnsInv
<1>3. CASE LoseReturn(t)
  <2>1. /\ asking' = [asking EXCEPT ![t] = NoLine]
        /\ UNCHANGED <<vars, requestRows, deskVars, commits>>
    BY <1>3 DEF LoseReturn, vars, stockVars
  <2>2. SaleInv' /\ TypeOK'
    BY <2>1, SaleInvStep DEF ReturnsInv, SaleInv
  <2>3. ReturnsTypeOK' /\ RequestsKnow'
    BY <2>1, <2>2
    DEF ReturnsInv, ReturnsTypeOK, RequestsKnow, Made, Working, requestRows,
        deskVars
  <2>. QED
    BY <2>2, <2>3 DEF ReturnsInv
<1>. QED
  BY <1>1, <1>2, <1>3 DEF Customer

\* Putting a batch down, or dropping it, leaves what is still to be done.
LEMMA BatchAfter ==
  ASSUME ReturnsInv, NEW s \in Staff, Working(s),
         PutDown(s) \/ batch' = [batch EXCEPT ![s] = NoBatch]
  PROVE  /\ batch' \in [Staff -> Batch \cup {NoBatch}]
         /\ \A x \in Staff :
              batch'[x] # NoBatch =>
                /\ batch[x] # NoBatch
                /\ batch'[x].hand \cup batch'[x].todo
                     \subseteq batch[x].hand \cup batch[x].todo
<1>1. batch[s] \in Batch /\ batch \in [Staff -> Batch \cup {NoBatch}]
  BY DEF ReturnsInv, ReturnsTypeOK, Working
<1>2. CASE batch' = [batch EXCEPT ![s] = NoBatch]
  BY <1>1, <1>2
<1>3. CASE PutDown(s)
  <2> DEFINE rest == [batch[s] EXCEPT !.hand = {}, !.last = FALSE]
  <2>1. /\ rest \in Batch
        /\ rest.hand = {} /\ rest.todo = batch[s].todo
    BY <1>1 DEF Batch
  <2>2. batch' = [batch EXCEPT ![s] = IF batch[s].todo = {} THEN NoBatch
                                      ELSE rest]
    BY <1>1, <1>3 DEF PutDown
  <2>. HIDE DEF rest
  <2>. QED
    BY <1>1, <2>1, <2>2 DEF Working
<1>. QED
  BY <1>2, <1>3

\* What the desk knows of its lists after a step that only shortens them.
LEMMA DeskKnows ==
  ASSUME ReturnsInv, \A r \in Return : Made(r)' <=> Made(r),
         UNCHANGED <<line, asking, commits>>,
         \A r \in Return : Made(r) \/ completions'[r] = completions[r],
         \A x \in Staff :
              batch'[x] # NoBatch =>
                /\ batch[x] # NoBatch
                /\ batch'[x].hand \cup batch'[x].todo
                     \subseteq batch[x].hand \cup batch[x].todo,
         batch' \in [Staff -> Batch \cup {NoBatch}]
  PROVE  RequestsKnow'
<1>1. \A x \in Staff : batch'[x] # NoBatch =>
        batch'[x].hand \cup batch'[x].todo \subseteq Return
  BY DEF Batch
<1>2. \A x \in Staff : batch'[x] # NoBatch =>
        \A r \in batch'[x].hand \cup batch'[x].todo : Made(r)'
  BY <1>1 DEF ReturnsInv, RequestsKnow, Working
<1>. QED
  BY <1>2 DEF ReturnsInv, RequestsKnow, Working

LEMMA RestoredRow ==
  ASSUME NEW old \in Row, NEW n \in Nat
  PROVE  RestoreReturned(old, n) \in Row
<1>1. Restore(old, n) \in Row
  BY RowFunctions
<1>. QED
  BY <1>1 DEF RestoreReturned, Row

\* Reading a list and locking a request change no figure and no status.
LEMMA ReadingStep ==
  ASSUME ReturnsInv, NEW s \in Staff,
         \/ \E new \in {"approved", "rejected", "completed"} : OpenBatch(s, new)
         \/ \E r \in Return : TakeReturn(s, r)
  PROVE  ReturnsInv'
<1>1. UNCHANGED <<vars, line, return_status, asking, completions, commits>>
  BY DEF OpenBatch, TakeReturn, vars, stockVars, requestRows
<1>2. SaleInv' /\ TypeOK'
  BY <1>1, SaleInvStep DEF ReturnsInv, SaleInv
<1>3. PICK b \in Batch :
         /\ batch' = [batch EXCEPT ![s] = b]
         /\ \A r \in b.hand \cup b.todo : r \in Return /\ Made(r)
  <2>1. ASSUME NEW new \in {"approved", "rejected", "completed"},
               OpenBatch(s, new)
        PROVE  \E b \in Batch :
                 /\ batch' = [batch EXCEPT ![s] = b]
                 /\ \A r \in b.hand \cup b.todo : r \in Return /\ Made(r)
    <3>1. PICK selected \in SUBSET Eligible(new) :
             batch' = [batch EXCEPT ![s] = [new |-> new, todo |-> selected,
                                            hand |-> {}, last |-> FALSE]]
      BY <2>1 DEF OpenBatch
    <3>2. \A r \in selected : r \in Return /\ Made(r)
      BY DEF Eligible
    <3> DEFINE b == [new |-> new, todo |-> selected, hand |-> {}, last |-> FALSE]
    <3>3. b \in Batch /\ b.hand = {} /\ b.todo = selected
      BY <3>2 DEF Batch
    <3>. HIDE DEF b
    <3>. QED
      BY <3>1, <3>2, <3>3 DEF b
  <2>2. ASSUME NEW r \in Return, TakeReturn(s, r)
        PROVE  \E b \in Batch :
                 /\ batch' = [batch EXCEPT ![s] = b]
                 /\ \A q \in b.hand \cup b.todo : q \in Return /\ Made(q)
    <3>1. /\ batch[s] \in Batch /\ batch[s] # NoBatch /\ r \in batch[s].todo
          /\ \A q \in batch[s].todo : q \in Return /\ Made(q)
      BY <2>2 DEF TakeReturn, Working, ReturnsInv, ReturnsTypeOK, RequestsKnow,
                  Batch
    <3> DEFINE last == /\ batch[s].new = "rejected"
                       /\ \A q \in ReturnsOf(line[r].order) \ {r} :
                            return_status[q] = "rejected"
               b == [batch[s] EXCEPT !.hand = {r}, !.todo = @ \ {r},
                                     !.last = last]
    <3>2. last \in BOOLEAN
      OBVIOUS
    <3>3. batch' = [batch EXCEPT ![s] = b]
      BY <2>2 DEF TakeReturn, ReturnsInv, ReturnsTypeOK
    <3>. HIDE DEF last
    <3>4. b \in Batch /\ b.hand = {r} /\ b.todo = batch[s].todo \ {r}
      BY <3>1, <3>2 DEF Batch
    <3>. HIDE DEF b
    <3>. QED
      BY <3>1, <3>3, <3>4
  <2>. QED
    BY <2>1, <2>2
<1>4. ReturnsTypeOK'
  BY <1>1, <1>2, <1>3 DEF ReturnsInv, ReturnsTypeOK
<1>5. RequestsKnow'
  BY <1>1, <1>3
  DEF ReturnsInv, ReturnsTypeOK, RequestsKnow, Made, Working
<1>. QED
  BY <1>2, <1>4, <1>5 DEF ReturnsInv

\* The request in hand was made for an order that was sold.
LEMMA HandKnown ==
  ASSUME ReturnsInv, NEW s \in Staff, NEW r \in Return, NEW new,
         InHand(s, r, new)
  PROVE  /\ Working(s) /\ Made(r)
         /\ line[r] \in Line /\ line[r].order \in Order
         /\ line[r].variant \in Variant /\ line[r].quantity \in Nat
         /\ commits[line[r].order] > 0
<1>1. Working(s) /\ Made(r)
  BY DEF InHand, ReturnsInv, RequestsKnow
<1>2. line[r] \in Line /\ commits[line[r].order] > 0
  BY <1>1 DEF ReturnsInv, RequestsKnow
<1>. QED
  BY <1>1, <1>2 DEF Line

\* A decision on the request in hand, whatever its order is by now.
LEMMA DecisionStep ==
  ASSUME ReturnsInv, NEW s \in Staff, NEW r \in Return,
         ApproveReturn(s, r) \/ RejectReturn(s, r) \/ CompleteReturn(s, r)
  PROVE  ReturnsInv'
<1> DEFINE o == line[r].order
<1>1. /\ Working(s) /\ Made(r) /\ o \in Order /\ commits[o] > 0
      /\ line[r] \in Line /\ line[r].variant \in Variant
      /\ line[r].quantity \in Nat
  BY HandKnown DEF ApproveReturn, RejectReturn, CompleteReturn
<1>2. /\ PutDown(s)
      /\ UNCHANGED <<line, asking, commits, restores, stock_committed, basket,
                     payment_method, usages, used_count, confirming, attempted>>
  BY DEF ApproveReturn, RejectReturn, CompleteReturn, vars, orderVars,
         stockVars, couponVars, requestVars
<1>3. /\ batch' \in [Staff -> Batch \cup {NoBatch}]
      /\ \A x \in Staff :
           batch'[x] # NoBatch =>
             /\ batch[x] # NoBatch
             /\ batch'[x].hand \cup batch'[x].todo
                  \subseteq batch[x].hand \cup batch[x].todo
  BY <1>1, <1>2, BatchAfter
<1>4. PICK new \in {"approved", "rejected", "completed"} :
         return_status' = [return_status EXCEPT ![r] = new]
  BY DEF ApproveReturn, RejectReturn, CompleteReturn
<1>5. /\ return_status' \in [Return -> ReturnStatus \cup {"none"}]
      /\ \A q \in Return : Made(q)' <=> Made(q)
  BY <1>1, <1>4 DEF ReturnsInv, ReturnsTypeOK, ReturnStatus, Made
<1>6. /\ completions' \in [Return -> Nat]
      /\ \A q \in Return : Made(q) \/ completions'[q] = completions[q]
  BY <1>1 DEF ApproveReturn, RejectReturn, CompleteReturn, ReturnsInv,
              ReturnsTypeOK
<1>7. inventory' \in [Variant -> Row]
  <2>1. CASE CompleteReturn(s, r)
    <3>1. inventory[line[r].variant] \in Row
      BY <1>1 DEF ReturnsInv, ReturnsTypeOK, TypeOK
    <3>2. RestoreReturned(inventory[line[r].variant], line[r].quantity) \in Row
      BY <1>1, <3>1, RestoredRow
    <3>. QED
      BY <2>1, <3>2 DEF CompleteReturn, ReturnsInv, ReturnsTypeOK, TypeOK
  <2>2. CASE ApproveReturn(s, r) \/ RejectReturn(s, r)
    BY <2>2 DEF ApproveReturn, RejectReturn, vars, stockVars, ReturnsInv,
                ReturnsTypeOK, TypeOK
  <2>. QED
    BY <2>1, <2>2
<1>8. /\ payment_status' \in [Order -> PaymentStatus]
      /\ \A p \in Order : payment_status'[p] = "paid" => payment_status[p] = "paid"
  BY <1>1 DEF ApproveReturn, RejectReturn, CompleteReturn, vars, orderVars,
              ReturnsInv, ReturnsTypeOK, TypeOK, PaymentStatus
<1>9. \/ status' = status
      \/ \E kept \in Status : status' = [status EXCEPT ![o] = kept]
  BY DEF ApproveReturn, RejectReturn, CompleteReturn, vars, orderVars, Status
<1>10. TypeOK'
  BY <1>1, <1>2, <1>7, <1>8, <1>9 DEF ReturnsInv, ReturnsTypeOK, TypeOK
<1>11. SaleInv'
  <2>1. Placed(o)
    BY <1>1 DEF ReturnsInv, SaleInv, NothingBeforePlacement, TypeOK
  <2>2. PICK kept \in Status : status' = [status EXCEPT ![o] = kept]
    BY <1>1, <1>9, <2>1 DEF ReturnsInv, ReturnsTypeOK, TypeOK, Placed
  <2>. QED
    BY <1>1, <1>2, <1>8, <1>10, <2>2, SaleInvKept DEF ReturnsInv, requestVars
<1>12. ReturnsTypeOK'
  BY <1>2, <1>3, <1>5, <1>6, <1>10 DEF ReturnsInv, ReturnsTypeOK
<1>13. RequestsKnow'
  BY <1>2, <1>3, <1>5, <1>6, DeskKnows
<1>. QED
  BY <1>11, <1>12, <1>13 DEF ReturnsInv

LEMMA ReturnsInvStep == ReturnsInv /\ [ReturnsNext]_allVars => ReturnsInv'
<1>. SUFFICES ASSUME ReturnsInv, [ReturnsNext]_allVars
              PROVE  ReturnsInv'
  OBVIOUS
<1>1. ASSUME NEW o \in Order, OrderStep(o)
      PROVE  ReturnsInv'
  <2>1. Next /\ UNCHANGED returnVars
    BY <1>1, ReturnsAssumption DEF OrderStep, Next
  <2>. QED
    BY <2>1, OrderStepReturns
<1>2. ASSUME NEW s \in Staff, DropBatch(s)
      PROVE  ReturnsInv'
  <2>1. /\ Working(s) /\ batch' = [batch EXCEPT ![s] = NoBatch]
        /\ UNCHANGED <<vars, requestRows, asking, completions, commits>>
    BY <1>2 DEF DropBatch, vars, stockVars
  <2>2. /\ batch' \in [Staff -> Batch \cup {NoBatch}]
        /\ \A x \in Staff :
             batch'[x] # NoBatch =>
               /\ batch[x] # NoBatch
               /\ batch'[x].hand \cup batch'[x].todo
                    \subseteq batch[x].hand \cup batch[x].todo
    BY <2>1, BatchAfter
  <2>3. SaleInv' /\ TypeOK'
    BY <2>1, SaleInvStep DEF ReturnsInv, SaleInv
  <2>4. ReturnsTypeOK'
    BY <2>1, <2>2, <2>3 DEF ReturnsInv, ReturnsTypeOK, requestRows
  <2>5. RequestsKnow'
    BY <2>1, <2>2, DeskKnows DEF requestRows, Made
  <2>. QED
    BY <2>3, <2>4, <2>5 DEF ReturnsInv
<1>3. ASSUME NEW s \in Staff, Desk(s)
      PROVE  ReturnsInv'
  BY <1>2, <1>3, ReadingStep, DecisionStep DEF Desk
<1>4. ASSUME NEW r \in Return, NEW new \in FormStatuses, EditReturn(r, new)
      PROVE  ReturnsInv'
  <2>1. /\ Made(r) /\ return_status' = [return_status EXCEPT ![r] = new]
        /\ UNCHANGED <<vars, line, asking, batch, completions, commits>>
    BY <1>4 DEF EditReturn, vars, stockVars, deskVars
  <2>2. SaleInv' /\ TypeOK'
    BY <2>1, SaleInvStep DEF ReturnsInv, SaleInv
  <2>3. new \in ReturnStatus
    BY ReturnsAssumption
  <2>4. ReturnsTypeOK' /\ \A q \in Return : Made(q)' <=> Made(q)
    BY <2>1, <2>2, <2>3
    DEF ReturnsInv, ReturnsTypeOK, ReturnStatus, Made
  <2>5. RequestsKnow'
    BY <2>1, <2>4, DeskKnows DEF ReturnsInv, ReturnsTypeOK
  <2>. QED
    BY <2>2, <2>4, <2>5 DEF ReturnsInv
<1>5. CASE UNCHANGED allVars
  BY <1>5, OrderStepReturns DEF allVars
<1>. QED
  BY <1>1, <1>3, <1>4, <1>5, CustomerStep DEF ReturnsNext

LEMMA InitReturnsInv == ReturnsInit => ReturnsInv
<1>. SUFFICES ASSUME ReturnsInit PROVE ReturnsInv
  OBVIOUS
<1>1. SaleInv /\ TypeOK
  BY InitSaleInv DEF ReturnsInit, SaleInv
<1>2. ReturnsTypeOK /\ RequestsKnow
  BY <1>1 DEF ReturnsInit, ReturnsTypeOK, RequestsKnow, Made, Working
<1>. QED
  BY <1>1, <1>2 DEF ReturnsInv

LEMMA ReturnsInvariance == ReturnsSpec => []ReturnsInv
BY InitReturnsInv, ReturnsInvStep, PTL DEF ReturnsSpec

\* Every variable of the returns keeps its type.
THEOREM ReturnsTypeCorrect == ReturnsSpec => []ReturnsTypeOK
<1>1. ReturnsInv => ReturnsTypeOK
  BY DEF ReturnsInv
<1>. QED
  BY <1>1, ReturnsInvariance, PTL

\* No request is ever open for an order whose units were never sold, although
\* request_return and process_return write the status of an order they did not
\* lock: the sale, once made, is what neither can undo.
THEOREM ReturnsFollowSales == ReturnsSpec => []ReturnsOnlyOfSoldOrders
<1>1. ReturnsInv => ReturnsOnlyOfSoldOrders
  BY DEF ReturnsInv, RequestsKnow, ReturnsOnlyOfSoldOrders
<1>. QED
  BY <1>1, ReturnsInvariance, PTL

-----------------------------------------------------------------------------
(* No unit is lost.                                                        *)

\* What is on the shelf or sold, in a row: no stock function lowers it.
LEMMA RowLosesNothing ==
  ASSUME NEW old \in Row, NEW n \in Nat, NEW start \in Nat,
         old.available + old.sold >= start
  PROVE  /\ Reserve(old, n).available + Reserve(old, n).sold >= start
         /\ Release(old, n).available + Release(old, n).sold >= start
         /\ Commit(old, n).available + Commit(old, n).sold >= start
         /\ Restore(old, n).available + Restore(old, n).sold >= start
         /\ RestoreReturned(old, n).available + RestoreReturned(old, n).sold
              >= start
<1>1. /\ old.available \in Nat /\ old.sold \in Nat
  BY DEF Row
<1>2. /\ Reserve(old, n).available = old.available
      /\ Reserve(old, n).sold = old.sold
      /\ Release(old, n).available = old.available
      /\ Release(old, n).sold = old.sold
  BY DEF Reserve, Release, Row
<1>3. /\ Commit(old, n).available = Monus(old.available, n)
      /\ Commit(old, n).sold = old.sold + n
  BY DEF Commit, Row
<1>4. /\ Restore(old, n).available = old.available + n
      /\ Restore(old, n).sold = Monus(old.sold, n)
  BY DEF Restore, Row
<1>5. Restore(old, n) \in Row
  BY RowFunctions
<1>6. /\ RestoreReturned(old, n).available = Restore(old, n).available
      /\ RestoreReturned(old, n).sold = Restore(old, n).sold
  BY <1>5 DEF RestoreReturned, Row
<1>7. /\ Monus(old.available, n) + (old.sold + n) >= start
      /\ (old.available + n) + Monus(old.sold, n) >= start
  BY <1>1 DEF Monus
<1>. QED
  BY <1>1, <1>2, <1>3, <1>4, <1>6, <1>7

\* The rows a step may leave: each as it was, or through one stock function.
LEMMA RowChanges ==
  ASSUME ReturnsInv, [ReturnsNext]_allVars, NEW v \in Variant
  PROVE  \/ inventory'[v] = inventory[v]
         \/ \E n \in Nat :
              inventory'[v] \in {Reserve(inventory[v], n),
                                 Release(inventory[v], n),
                                 Commit(inventory[v], n),
                                 Restore(inventory[v], n),
                                 RestoreReturned(inventory[v], n)}
<1>1. ASSUME UNCHANGED inventory
      PROVE  inventory'[v] = inventory[v]
  BY <1>1
<1>2. \A o \in Order : basket[o][v] \in Nat
  BY DEF ReturnsInv, ReturnsTypeOK, TypeOK
<1>3. ASSUME NEW o \in Order, CommitStock(o)
      PROVE  inventory'[v] \in {inventory[v], Commit(inventory[v], basket[o][v])}
  BY <1>3 DEF CommitStock
<1>4. ASSUME NEW o \in Order, OrderStep(o)
      PROVE  \/ inventory'[v] = inventory[v]
             \/ \E n \in Nat :
                  inventory'[v] \in {Reserve(inventory[v], n),
                                     Release(inventory[v], n),
                                     Commit(inventory[v], n),
                                     Restore(inventory[v], n)}
  <2>1. ASSUME NEW lines \in Baskets, NEW method \in Methods,
               NEW withCoupon \in BOOLEAN,
               PlaceOrder(o, lines, method, withCoupon)
        PROVE  lines[v] \in Nat /\ inventory'[v] = Reserve(inventory[v], lines[v])
    BY <2>1, BasketAssumption DEF PlaceOrder, ReserveStock
  <2>2. ASSUME ConfirmCod(o) \/ MarkPaid(o)
                 \/ \E new \in DeskStatuses : TransitionOrder(o, new)
        PROVE  inventory'[v] \in {inventory[v], Commit(inventory[v], basket[o][v])}
    BY <1>3, <2>2 DEF ConfirmCod, MarkPaid, TransitionOrder
  <2>3. ASSUME MarkPaymentFailed(o)
        PROVE  inventory'[v] \in {inventory[v], Release(inventory[v], basket[o][v])}
    BY <2>3 DEF MarkPaymentFailed, ReleaseStock
  <2>4. ASSUME NEW staff_override \in BOOLEAN, CancelOrder(o, staff_override)
        PROVE  inventory'[v] \in {Release(inventory[v], basket[o][v]),
                                  Restore(inventory[v], basket[o][v])}
    BY <2>4 DEF CancelOrder, ReleaseStock
  <2>5. ASSUME LoseCodRequest(o) \/ StartPayment(o)
        PROVE  UNCHANGED inventory
    BY <2>5 DEF LoseCodRequest, StartPayment, stockVars
  <2>. QED
    BY <1>2, <1>4, <2>1, <2>2, <2>3, <2>4, <2>5 DEF OrderStep
<1>5. ASSUME NEW s \in Staff, NEW r \in Return, CompleteReturn(s, r)
      PROVE  \/ inventory'[v] = inventory[v]
             \/ \E n \in Nat : inventory'[v] = RestoreReturned(inventory[v], n)
  <2>1. line[r].quantity \in Nat
    BY <1>5, HandKnown DEF CompleteReturn
  <2>. QED
    BY <1>5, <2>1 DEF CompleteReturn, ReturnsInv, ReturnsTypeOK, TypeOK
<1>6. ASSUME NEW t \in Tab, Customer(t)
      PROVE  UNCHANGED inventory
  BY <1>6 DEF Customer, AskReturn, InsertReturn, LoseReturn, vars, stockVars
<1>7. ASSUME NEW s \in Staff, Desk(s),
             ~\E r \in Return : CompleteReturn(s, r)
      PROVE  UNCHANGED inventory
  BY <1>7 DEF Desk, OpenBatch, TakeReturn, ApproveReturn, RejectReturn,
              DropBatch, vars, stockVars
<1>8. ASSUME NEW r \in Return, NEW new \in FormStatuses, EditReturn(r, new)
      PROVE  UNCHANGED inventory
  BY <1>8 DEF EditReturn, vars, stockVars
<1>9. CASE UNCHANGED allVars
  BY <1>9 DEF allVars, vars, stockVars
<1>. QED
  BY <1>1, <1>4, <1>5, <1>6, <1>7, <1>8, <1>9 DEF ReturnsNext

\* Shelf and sold figure together never fall below the stock the shop began
\* with, for all the floors at zero, the overlapping returns and the returns
\* of cancelled orders: a unit may be counted twice, and never not at all.
THEOREM UnitsNeverLost == ReturnsSpec => []NoUnitLost
<1>1. ReturnsInit => NoUnitLost
  BY StockAssumption DEF ReturnsInit, Init, NoUnitLost, FullShelf
<1>2. ReturnsInv /\ NoUnitLost /\ [ReturnsNext]_allVars => NoUnitLost'
  <2>. SUFFICES ASSUME ReturnsInv, NoUnitLost, [ReturnsNext]_allVars,
                       NEW v \in Variant
                PROVE  inventory'[v].available + inventory'[v].sold >= Stock[v]
    BY DEF NoUnitLost
  <2>1. inventory[v] \in Row /\ Stock[v] \in Nat
    BY StockAssumption DEF ReturnsInv, ReturnsTypeOK, TypeOK
  <2>2. inventory[v].available + inventory[v].sold >= Stock[v]
    BY DEF NoUnitLost
  <2>. QED
    BY <2>1, <2>2, RowChanges, RowLosesNothing
<1>. QED
  BY <1>1, <1>2, ReturnsInvariance, PTL DEF ReturnsSpec

-----------------------------------------------------------------------------
(* The sold figure covers the sales.                                       *)

\* What standing sales bought of v, and what was put back of it by whom.
Sales(v) == TotalOver(Lines(v), Committed)
Back(v) == {r \in Return : Made(r) /\ line[r].variant = v}
PutBack(S) == [r \in S |-> completions[r] * line[r].quantity]

LEMMA CoverageAsSums ==
  SoldCoversSales <=>
    \A v \in Variant :
      inventory[v].sold + TotalOver(PutBack(Back(v)), Back(v)) >= Sales(v)
BY DEF SoldCoversSales, UnitsReturned, UnitsOf, Sales, Lines, Committed, Back,
       PutBack

LEMMA BackTypes ==
  ASSUME ReturnsInv, NEW v \in Variant
  PROVE  /\ IsFiniteSet(Back(v)) /\ Back(v) \subseteq Return
         /\ \A r \in Back(v) :
              /\ line[r].quantity \in Nat /\ completions[r] \in Nat
              /\ PutBack(Back(v))[r] = completions[r] * line[r].quantity
              /\ PutBack(Back(v))[r] \in Nat
         /\ TotalOver(PutBack(Back(v)), Back(v)) \in Nat
<1>1. IsFiniteSet(Return)
  BY ReturnsAssumption, FS_Interval DEF Return
<1>2. IsFiniteSet(Back(v)) /\ Back(v) \subseteq Return
  BY <1>1, FS_Subset DEF Back
<1>3. \A r \in Back(v) : line[r].quantity \in Nat /\ completions[r] \in Nat
  BY DEF Back, ReturnsInv, ReturnsTypeOK, RequestsKnow, Line
<1>4. \A a, b \in Nat : a * b \in Nat
  OBVIOUS
<1>5. \A r \in Back(v) :
        /\ PutBack(Back(v))[r] = completions[r] * line[r].quantity
        /\ PutBack(Back(v))[r] \in Nat
  BY <1>3, <1>4 DEF PutBack
<1>6. TotalOver(PutBack(Back(v)), Back(v)) \in Nat
  BY <1>2, <1>5, UnitsFinite
<1>. QED
  BY <1>2, <1>3, <1>5, <1>6

\* The handlers of module Orders move the sold figure with the sales, or leave
\* more of it than of them: the floor of restore() only keeps units.
LEMMA SoldFollowsSales ==
  ASSUME SaleInv, [Next]_vars, NEW v \in Variant, NEW extra \in Nat,
         inventory[v].sold + extra >= Sales(v)
  PROVE  inventory'[v].sold + extra >= Sales(v)'
<1>1. /\ inventory[v] \in Row /\ Sales(v) \in Nat
      /\ \A o \in Order : basket[o][v] \in Nat
  <2>1. Committed \in SUBSET Order
    BY DEF Committed
  <2>. QED
    BY <2>1, OrderSums DEF SaleInv, TypeOK, Sales
<1>2. ASSUME UNCHANGED <<basket, stock_committed>>,
             inventory'[v].sold = inventory[v].sold
      PROVE  inventory'[v].sold + extra >= Sales(v)'
  <2>1. Sales(v)' = Sales(v)
    BY <1>2 DEF Sales, Lines, Committed
  <2>. QED
    BY <1>2, <2>1
<1>3. ASSUME NEW o \in Order, CommitStock(o), UNCHANGED basket
      PROVE  inventory'[v].sold + extra >= Sales(v)'
  <2>1. CASE stock_committed[o]
    BY <1>2, <1>3, <2>1 DEF CommitStock, SaleInv, TypeOK
  <2>2. CASE ~stock_committed[o]
    <3>1. /\ Lines(v)' = Lines(v)
          /\ Committed' = Committed \cup {o} /\ o \notin Committed
          /\ Committed \in SUBSET Order
      BY <1>3, <2>2 DEF CommitStock, SaleInv, TypeOK, Lines, Committed
    <3>2. inventory'[v].sold = inventory[v].sold + basket[o][v]
      BY <1>1, <1>3, <2>2 DEF CommitStock, Commit, Row
    <3>3. TotalOver(Lines(v), Committed \cup {o}) = Sales(v) + basket[o][v]
      BY <3>1, OrderSums DEF SaleInv, Sales
    <3>4. Sales(v)' = Sales(v) + basket[o][v]
      BY <3>1, <3>3 DEF Sales
    <3>. QED
      BY <1>1, <3>2, <3>4 DEF Row
  <2>. QED
    BY <2>1, <2>2
<1>4. ASSUME NEW o \in Order, NEW lines \in Baskets,
             NEW method \in {"cod", "online"}, NEW withCoupon \in BOOLEAN,
             PlaceOrder(o, lines, method, withCoupon)
      PROVE  inventory'[v].sold + extra >= Sales(v)'
  <2>1. /\ Committed' = Committed /\ o \notin Committed
        /\ Committed \in SUBSET Order
    BY <1>4 DEF PlaceOrder, Committed, SaleInv, NothingBeforePlacement
  <2>2. \A p \in Committed : Lines(v)'[p] = Lines(v)[p]
    BY <1>4, <2>1 DEF PlaceOrder, Lines, SaleInv, TypeOK
  <2>3. TotalOver(Lines(v)', Committed) = TotalOver(Lines(v), Committed)
    BY <2>2, TotalOfSame
  <2>4. Sales(v)' = Sales(v)
    BY <2>1, <2>3 DEF Sales
  <2>5. inventory'[v].sold = inventory[v].sold
    BY <1>1, <1>4 DEF PlaceOrder, ReserveStock, Reserve, Row
  <2>. QED
    BY <2>4, <2>5
<1>5. ASSUME NEW o \in Order, NEW staff_override \in BOOLEAN,
             CancelOrder(o, staff_override)
      PROVE  inventory'[v].sold + extra >= Sales(v)'
  <2>1. CASE ~stock_committed[o]
    <3>1. UNCHANGED <<basket, stock_committed>>
      BY <1>5, <2>1 DEF CancelOrder, SaleInv, TypeOK
    <3>2. inventory'[v].sold = inventory[v].sold
      BY <1>1, <1>5, <2>1 DEF CancelOrder, ReleaseStock, Release, Row
    <3>. QED
      BY <1>2, <3>1, <3>2
  <2>2. CASE stock_committed[o]
    <3>1. /\ Lines(v)' = Lines(v)
          /\ Committed' = Committed \ {o} /\ o \in Committed
          /\ Committed \in SUBSET Order
      BY <1>5, <2>2 DEF CancelOrder, SaleInv, TypeOK, Lines, Committed
    <3>2. inventory'[v].sold = Monus(inventory[v].sold, basket[o][v])
      <4>1. inventory'[v] = Restore(inventory[v], basket[o][v])
        BY <1>5, <2>2 DEF CancelOrder
      <4>. QED
        BY <1>1, <4>1 DEF Restore, Row
    <3>3. TotalOver(Lines(v), Committed \ {o}) = Sales(v) - basket[o][v]
      BY <3>1, OrderSums DEF SaleInv, Sales
    <3>4. Sales(v)' = Sales(v) - basket[o][v]
      BY <3>1, <3>3 DEF Sales
    <3>5. inventory[v].sold \in Nat /\ basket[o][v] \in Nat
      BY <1>1 DEF Row
    <3>. QED
      BY <1>1, <3>2, <3>4, <3>5 DEF Monus
  <2>. QED
    BY <2>1, <2>2
<1>6. ASSUME NEW o \in Order, MarkPaymentFailed(o)
      PROVE  inventory'[v].sold + extra >= Sales(v)'
  BY <1>1, <1>2, <1>6 DEF MarkPaymentFailed, ReleaseStock, Release, Row
<1>7. ASSUME NEW o \in Order,
             \/ ConfirmCod(o) \/ MarkPaid(o)
             \/ \E new \in Status : TransitionOrder(o, new)
      PROVE  inventory'[v].sold + extra >= Sales(v)'
  BY <1>2, <1>3, <1>7 DEF ConfirmCod, MarkPaid, TransitionOrder
<1>8. ASSUME NEW o \in Order, LoseCodRequest(o) \/ StartPayment(o)
      PROVE  inventory'[v].sold + extra >= Sales(v)'
  BY <1>2, <1>8 DEF LoseCodRequest, StartPayment, orderVars, stockVars
<1>9. CASE UNCHANGED vars
  BY <1>2, <1>9 DEF vars, orderVars, stockVars
<1>. QED
  BY <1>4, <1>5, <1>6, <1>7, <1>8, <1>9 DEF Next

\* A step that puts nothing back and sells nothing.
LEMMA CoverageKept ==
  ASSUME ReturnsInv, SoldCoversSales,
         UNCHANGED <<basket, stock_committed, inventory, completions>>,
         \A r \in Return : Made(r) => Made(r)' /\ line'[r] = line[r],
         \A r \in Return : ~Made(r) =>
           (Made(r)' => line'[r].quantity \in Nat)
  PROVE  SoldCoversSales'
<1>. SUFFICES ASSUME NEW v \in Variant
              PROVE  inventory'[v].sold
                       + TotalOver(PutBack(Back(v))', Back(v)') >= Sales(v)'
  BY DEF SoldCoversSales, UnitsReturned, UnitsOf, Sales, Lines, Committed, Back,
         PutBack
<1>1. Sales(v)' = Sales(v)
  BY DEF Sales, Lines, Committed
<1>2. /\ Back(v) \subseteq Back(v)' /\ Back(v)' \subseteq Return
      /\ IsFiniteSet(Back(v)')
  <2>1. IsFiniteSet(Return)
    BY ReturnsAssumption, FS_Interval DEF Return
  <2>2. Back(v) \subseteq Back(v)' /\ Back(v)' \subseteq Return
    BY DEF Back
  <2>. QED
    BY <2>1, <2>2, FS_Subset
<1>3. \A r \in Back(v)' : /\ line'[r].quantity \in Nat
                          /\ completions'[r] \in Nat
  BY BackTypes DEF Back, ReturnsInv, ReturnsTypeOK, RequestsKnow, Line
<1>4. \A r \in Back(v)' :
        PutBack(Back(v))'[r] \in Nat
  <2>1. \A a, b \in Nat : a * b \in Nat
    OBVIOUS
  <2>. QED
    BY <1>3, <2>1 DEF PutBack
<1>5. TotalOver(PutBack(Back(v))', Back(v)) <= TotalOver(PutBack(Back(v))', Back(v)')
  BY <1>2, <1>4, TotalOfFewer
<1>6. TotalOver(PutBack(Back(v))', Back(v)) = TotalOver(PutBack(Back(v)), Back(v))
  <2>1. \A r \in Back(v) : PutBack(Back(v))'[r] = PutBack(Back(v))[r]
    BY <1>2 DEF PutBack, Back
  <2>. QED
    BY <2>1, TotalOfSame
<1>7. inventory[v].sold + TotalOver(PutBack(Back(v)), Back(v)) >= Sales(v)
  BY CoverageAsSums
<1>8. /\ inventory[v].sold \in Nat /\ inventory'[v].sold = inventory[v].sold
      /\ Sales(v) \in Nat
      /\ TotalOver(PutBack(Back(v)), Back(v)) \in Nat
      /\ TotalOver(PutBack(Back(v))', Back(v)') \in Nat
  <2>1. inventory[v] \in Row
    BY DEF ReturnsInv, ReturnsTypeOK, TypeOK
  <2>2. Committed \in SUBSET Order
    BY DEF Committed
  <2>3. Sales(v) \in Nat
    BY <2>2, OrderSums DEF ReturnsInv, SaleInv, Sales
  <2>4. TotalOver(PutBack(Back(v))', Back(v)') \in Nat
    BY <1>2, <1>4, UnitsFinite
  <2>. QED
    BY <2>1, <2>3, <2>4, BackTypes DEF Row
<1>. QED
  BY <1>1, <1>5, <1>6, <1>7, <1>8

\* A completed return puts back what its line asked for, twice if it is
\* completed twice, and takes no more off the sold figure.
LEMMA CompletionCovered ==
  ASSUME ReturnsInv, SoldCoversSales, NEW s \in Staff, NEW r \in Return,
         CompleteReturn(s, r)
  PROVE  SoldCoversSales'
<1>1. /\ Made(r) /\ line[r].variant \in Variant /\ line[r].quantity \in Nat
  BY HandKnown DEF CompleteReturn
<1>2. /\ completions' = [completions EXCEPT ![r] = @ + 1]
      /\ inventory' = [inventory EXCEPT ![line[r].variant] =
                         RestoreReturned(@, line[r].quantity)]
      /\ UNCHANGED <<line, basket, stock_committed>>
  BY DEF CompleteReturn
<1>3. \A q \in Return : Made(q)' <=> Made(q)
  BY <1>1 DEF CompleteReturn, Made, ReturnsInv, ReturnsTypeOK
<1>. SUFFICES ASSUME NEW v \in Variant
              PROVE  inventory'[v].sold
                       + TotalOver(PutBack(Back(v))', Back(v)') >= Sales(v)'
  BY DEF SoldCoversSales, UnitsReturned, UnitsOf, Sales, Lines, Committed, Back,
         PutBack
<1>4. Sales(v)' = Sales(v) /\ Back(v)' = Back(v)
  BY <1>2, <1>3 DEF Sales, Lines, Committed, Back
<1>5. inventory[v].sold + TotalOver(PutBack(Back(v)), Back(v)) >= Sales(v)
  BY CoverageAsSums
<1>6. /\ inventory[v] \in Row /\ inventory[v].sold \in Nat /\ Sales(v) \in Nat
      /\ TotalOver(PutBack(Back(v)), Back(v)) \in Nat
  <2>1. inventory[v] \in Row
    BY DEF ReturnsInv, ReturnsTypeOK, TypeOK
  <2>2. Committed \in SUBSET Order
    BY DEF Committed
  <2>3. Sales(v) \in Nat
    BY <2>2, OrderSums DEF ReturnsInv, SaleInv, Sales
  <2>. QED
    BY <2>1, <2>3, BackTypes DEF Row
<1>7. CASE line[r].variant # v
  <2>1. inventory'[v] = inventory[v] /\ r \notin Back(v)
    BY <1>2, <1>7 DEF ReturnsInv, ReturnsTypeOK, TypeOK, Back
  <2>2. \A q \in Back(v) : PutBack(Back(v))'[q] = PutBack(Back(v))[q]
    BY <1>2, <1>4, <2>1 DEF PutBack, Back, ReturnsInv, ReturnsTypeOK
  <2>3. TotalOver(PutBack(Back(v))', Back(v)) = TotalOver(PutBack(Back(v)), Back(v))
    BY <2>2, TotalOfSame
  <2>. QED
    BY <1>4, <1>5, <2>1, <2>3
<1>8. CASE line[r].variant = v
  <2> DEFINE n == line[r].quantity
  <2>1. r \in Back(v)
    BY <1>1, <1>8 DEF Back
  <2>2. /\ PutBack(Back(v))[r] = completions[r] * n
        /\ PutBack(Back(v))'[r] = (completions[r] + 1) * n
        /\ \A q \in Back(v) \ {r} : PutBack(Back(v))'[q] = PutBack(Back(v))[q]
        /\ completions[r] \in Nat
    BY <1>2, <1>4, <2>1 DEF PutBack, ReturnsInv, ReturnsTypeOK, Back
  <2>3. \A c \in Nat, k \in Nat : (c + 1) * k = c * k + k /\ c * k \in Nat
    OBVIOUS
  <2>4. /\ PutBack(Back(v))'[r] = PutBack(Back(v))[r] + n
        /\ PutBack(Back(v))[r] \in Nat /\ n \in Nat
    BY <1>1, <2>2, <2>3
  <2>5. \A q \in Back(v) : PutBack(Back(v))[q] \in Nat /\ PutBack(Back(v))'[q] \in Nat
    <3>1. \A q \in Back(v) : PutBack(Back(v))[q] \in Nat
      BY BackTypes
    <3>. QED
      BY <2>2, <2>4, <3>1
  <2>6. TotalOver(PutBack(Back(v))', Back(v))
          = TotalOver(PutBack(Back(v)), Back(v)) - PutBack(Back(v))[r]
              + PutBack(Back(v))'[r]
    BY <2>1, <2>2, <2>5, BackTypes, TotalOfOneChanged
  <2>7. inventory'[v].sold = Monus(inventory[v].sold, n)
    <3>1. inventory'[v] = RestoreReturned(inventory[v], n)
      BY <1>2, <1>8 DEF ReturnsInv, ReturnsTypeOK, TypeOK
    <3>2. Restore(inventory[v], n) \in Row
      BY <1>1, <1>6, RowFunctions
    <3>3. Restore(inventory[v], n).sold = Monus(inventory[v].sold, n)
      BY <1>6 DEF Restore, Row
    <3>. QED
      BY <3>1, <3>2, <3>3 DEF RestoreReturned, Row
  <2>8. TotalOver(PutBack(Back(v))', Back(v))
          = TotalOver(PutBack(Back(v)), Back(v)) + n
    <3>. HIDE DEF n
    <3>. QED
      BY <1>6, <2>4, <2>6
  <2>9. Monus(inventory[v].sold, n) + (TotalOver(PutBack(Back(v)), Back(v)) + n)
          >= Sales(v)
    <3>. HIDE DEF n
    <3>. QED
      BY <1>5, <1>6, <2>4 DEF Monus
  <2>. QED
    BY <1>4, <2>7, <2>8, <2>9
<1>. QED
  BY <1>7, <1>8

\* The sold figure, with what the return desk put back, never falls short of
\* the standing sales: cancel_order and process_return may both put back the
\* same units, and the floor of restore() then keeps the figure from counting
\* a sale that stands as undone.
THEOREM SalesStayCovered == ReturnsSpec => []SoldCoversSales
<1>1. ReturnsInit => SoldCoversSales
  <2>. SUFFICES ASSUME ReturnsInit, NEW v \in Variant
                PROVE  inventory[v].sold
                         + TotalOver(PutBack(Back(v)), Back(v)) >= Sales(v)
    BY CoverageAsSums
  <2>1. inventory[v].sold = 0 /\ Committed = {} /\ Back(v) = {}
    BY DEF ReturnsInit, Init, FullShelf, Committed, Back, Made
  <2>2. /\ TotalOver(PutBack(Back(v)), {}) = 0
        /\ TotalOver(Lines(v), {}) = 0
    BY TotalOfNone
  <2>3. Sales(v) = 0 /\ TotalOver(PutBack(Back(v)), Back(v)) = 0
    BY <2>1, <2>2 DEF Sales
  <2>. QED
    BY <2>1, <2>3
<1>2. ReturnsInv /\ SoldCoversSales /\ [ReturnsNext]_allVars => SoldCoversSales'
  <2>. SUFFICES ASSUME ReturnsInv, SoldCoversSales, [ReturnsNext]_allVars
                PROVE  SoldCoversSales'
    OBVIOUS
  <2>1. ASSUME [Next]_vars, UNCHANGED returnVars
        PROVE  SoldCoversSales'
    <3>1. ASSUME NEW v \in Variant
          PROVE  /\ inventory'[v].sold
                      + TotalOver(PutBack(Back(v)), Back(v)) >= Sales(v)'
                 /\ Back(v)' = Back(v) /\ PutBack(Back(v))' = PutBack(Back(v))
      <4>1. /\ inventory[v].sold + TotalOver(PutBack(Back(v)), Back(v))
                 >= Sales(v)
            /\ TotalOver(PutBack(Back(v)), Back(v)) \in Nat
        BY CoverageAsSums, BackTypes
      <4>2. Back(v)' = Back(v) /\ PutBack(Back(v))' = PutBack(Back(v))
        BY <2>1 DEF Back, PutBack, Made, returnVars, requestRows, deskVars
      <4>3. SaleInv
        BY DEF ReturnsInv
      <4>. QED
        BY <2>1, <4>1, <4>2, <4>3, SoldFollowsSales
    <3>2. \A v \in Variant :
            inventory'[v].sold + TotalOver(PutBack(Back(v))', Back(v)')
              >= Sales(v)'
      BY <3>1
    <3>. QED
      BY <3>2 DEF SoldCoversSales, UnitsReturned, UnitsOf, Sales, Lines,
                  Committed, Back, PutBack
  <2>2. ASSUME NEW o \in Order, OrderStep(o)
        PROVE  SoldCoversSales'
    <3>1. Next /\ UNCHANGED returnVars
      BY <2>2, ReturnsAssumption DEF OrderStep, Next
    <3>. QED
      BY <2>1, <3>1
  <2>3. ASSUME NEW t \in Tab, Customer(t)
        PROVE  SoldCoversSales'
    <3>1. UNCHANGED <<basket, stock_committed, inventory, completions>>
      BY <2>3 DEF Customer, AskReturn, InsertReturn, LoseReturn, vars,
                  orderVars, stockVars, deskVars
    <3>2. /\ \A r \in Return : Made(r) => Made(r)' /\ line'[r] = line[r]
          /\ \A r \in Return : ~Made(r) => (Made(r)' => line'[r].quantity \in Nat)
      BY <2>3 DEF Customer, AskReturn, InsertReturn, LoseReturn, requestRows,
                  Made, ReturnsInv, ReturnsTypeOK, Line
    <3>. QED
      BY <3>1, <3>2, CoverageKept
  <2>4. ASSUME NEW s \in Staff, Desk(s), ~\E r \in Return : CompleteReturn(s, r)
        PROVE  SoldCoversSales'
    <3>1. UNCHANGED <<basket, stock_committed, inventory, completions, line>>
      BY <2>4 DEF Desk, OpenBatch, TakeReturn, ApproveReturn, RejectReturn,
                  DropBatch, vars, orderVars, stockVars, requestRows
    <3>2. \A r \in Return : Made(r)' <=> Made(r)
      <4>1. ASSUME NEW r \in Return, ApproveReturn(s, r) \/ RejectReturn(s, r)
            PROVE  \A q \in Return : Made(q)' <=> Made(q)
        <5>1. Made(r)
          BY <4>1, HandKnown DEF ApproveReturn, RejectReturn
        <5>. QED
          BY <4>1, <5>1 DEF ApproveReturn, RejectReturn, Made, ReturnsInv,
                            ReturnsTypeOK
      <4>2. ASSUME ~\E r \in Return : ApproveReturn(s, r) \/ RejectReturn(s, r)
            PROVE  UNCHANGED return_status
        BY <2>4, <4>2 DEF Desk, OpenBatch, TakeReturn, DropBatch, requestRows
      <4>. QED
        BY <4>1, <4>2 DEF Made
    <3>. QED
      BY <3>1, <3>2, CoverageKept
  <2>5. ASSUME NEW r \in Return, NEW new \in FormStatuses, EditReturn(r, new)
        PROVE  SoldCoversSales'
    <3>1. /\ UNCHANGED <<basket, stock_committed, inventory, completions, line>>
          /\ \A q \in Return : Made(q)' <=> Made(q)
      BY <2>5, ReturnsAssumption
      DEF EditReturn, vars, orderVars, stockVars, deskVars, Made, ReturnStatus,
          ReturnsInv, ReturnsTypeOK
    <3>. QED
      BY <3>1, CoverageKept
  <2>6. CASE UNCHANGED allVars
    BY <2>1, <2>6 DEF allVars
  <2>. QED
    BY <2>2, <2>3, <2>4, <2>5, <2>6, CompletionCovered
    DEF ReturnsNext, Desk
<1>. QED
  BY <1>1, <1>2, ReturnsInvariance, PTL DEF ReturnsSpec
-----------------------------------------------------------------------------
(* Where no more is asked back than was bought.                            *)

\* No two tabs have the same line checked and not yet inserted.
SubmitsApart ==
  \A t, u \in Tab :
    /\ asking[t] # NoLine /\ asking[u] # NoLine
    /\ asking[t].order = asking[u].order /\ asking[t].variant = asking[u].variant
    => t = u

\* What was rejected stays so: no second list or edit form takes it up again.
RejectionsStand ==
  [][\A r \in Return : return_status[r] = "rejected"
                         => return_status'[r] = "rejected"]_allVars

\* The requests that count for a line.
AskedBack(o, v) ==
  {r \in ReturnsOf(o) : line[r].variant = v /\ return_status[r] # "rejected"}

QuantityAsked == [r \in Return |-> line[r].quantity]

\* A line that was checked still fits what was bought.
WithinInv ==
  /\ ReturnsWithinPurchase
  /\ \A t \in Tab : asking[t] # NoLine =>
       Already(asking[t].order, asking[t].variant) + asking[t].quantity
         <= basket[asking[t].order][asking[t].variant]

\* What is asked back of a line is a sum over its requests.
AskedIsSum ==
  \A o \in Order, v \in Variant :
    /\ Already(o, v) = TotalOver(QuantityAsked, AskedBack(o, v))
    /\ Already(o, v) \in Nat
    /\ IsFiniteSet(AskedBack(o, v)) /\ AskedBack(o, v) \subseteq Return
    /\ \A r \in AskedBack(o, v) : QuantityAsked[r] \in Nat

LEMMA AlreadyAsSum == ReturnsInv => AskedIsSum
<1> SUFFICES ASSUME ReturnsInv, NEW o \in Order, NEW v \in Variant
             PROVE  /\ Already(o, v) = TotalOver(QuantityAsked, AskedBack(o, v))
                    /\ Already(o, v) \in Nat
                    /\ IsFiniteSet(AskedBack(o, v)) /\ AskedBack(o, v) \subseteq Return
                    /\ \A r \in AskedBack(o, v) : QuantityAsked[r] \in Nat
  BY DEF AskedIsSum
<1> DEFINE asked == AskedBack(o, v)
           own == [r \in asked |-> line[r].quantity]
<1>1. asked \subseteq Return
  BY DEF AskedBack, ReturnsOf
<1>2. IsFiniteSet(asked)
  <2>1. IsFiniteSet(Return)
    BY ReturnsAssumption, FS_Interval DEF Return
  <2>. QED
    BY <1>1, <2>1, FS_Subset
<1>3. \A r \in asked : line[r] \in Line /\ QuantityAsked[r] = line[r].quantity
  BY DEF AskedBack, ReturnsOf, ReturnsInv, RequestsKnow, QuantityAsked
<1>4. \A r \in asked : QuantityAsked[r] \in Nat
  BY <1>3 DEF Line
<1>5. Already(o, v) = TotalOver(own, asked)
  BY DEF Already, AskedBack
<1> HIDE DEF asked
<1>6. \A r \in asked : own[r] = QuantityAsked[r]
  BY <1>3
<1> HIDE DEF own
<1>7. TotalOver(own, asked) = TotalOver(QuantityAsked, asked)
  BY <1>6, TotalOfSame
<1>8. TotalOver(QuantityAsked, asked) \in Nat
  BY <1>2, <1>4, UnitsFinite
<1>. QED
  BY <1>1, <1>2, <1>4, <1>5, <1>7, <1>8 DEF asked

\* With fewer requests that count no more is asked.
LEMMA FewerAsked ==
  ASSUME ReturnsInv, ReturnsInv', NEW o \in Order, NEW v \in Variant,
         AskedBack(o, v)' \subseteq AskedBack(o, v),
         \A r \in AskedBack(o, v) : line'[r] = line[r]
  PROVE  Already(o, v)' <= Already(o, v) /\ Already(o, v) \in Nat /\ Already(o, v)' \in Nat
<1> DEFINE before == AskedBack(o, v)
           after == AskedBack(o, v)'
           told == QuantityAsked'
<1>1. /\ Already(o, v) = TotalOver(QuantityAsked, before) /\ Already(o, v) \in Nat
      /\ IsFiniteSet(before) /\ before \subseteq Return
      /\ \A r \in before : QuantityAsked[r] \in Nat
  BY AlreadyAsSum DEF AskedIsSum
<1>2. /\ Already(o, v)' = TotalOver(told, after) /\ Already(o, v)' \in Nat
  <2>1. AskedIsSum'
    BY AlreadyAsSum, PTL
  <2>. QED
    BY <2>1 DEF AskedIsSum
<1>3. \A r \in after : told[r] = QuantityAsked[r]
  BY <1>1 DEF QuantityAsked
<1> HIDE DEF before, after, told
<1>4. TotalOver(told, after) = TotalOver(QuantityAsked, after)
  BY <1>3, TotalOfSame
<1>5. TotalOver(QuantityAsked, after) <= TotalOver(QuantityAsked, before)
  <2>1. after \in SUBSET before
    BY DEF after, before
  <2>. QED
    BY <1>1, <2>1, TotalOfFewer
<1>. QED
  BY <1>1, <1>2, <1>4, <1>5

\* A step that makes no request, revives none and leaves the lines of sold
\* orders alone.
LEMMA NothingMoreAsked ==
  ASSUME ReturnsInv, ReturnsInv', WithinInv, UNCHANGED line,
         \A r \in Return : Made(r)' <=> Made(r),
         \A r \in Return : return_status[r] = "rejected"
                             => return_status'[r] = "rejected",
         \A t \in Tab : asking'[t] \in {asking[t], NoLine},
         \A o \in Order : commits[o] > 0 => basket'[o] = basket[o]
  PROVE  WithinInv'
<1>1. ASSUME NEW o \in Order, NEW v \in Variant
      PROVE  /\ Already(o, v)' <= Already(o, v)
             /\ Already(o, v) \in Nat /\ Already(o, v)' \in Nat
  <2>1. AskedBack(o, v)' \subseteq AskedBack(o, v)
    BY DEF AskedBack, ReturnsOf
  <2>. QED
    BY <2>1, FewerAsked
<1>2. ASSUME NEW o \in Order, NEW v \in Variant
      PROVE  /\ basket[o][v] \in Nat /\ basket'[o][v] \in Nat
  BY DEF ReturnsInv, ReturnsTypeOK, TypeOK
<1>3. ASSUME NEW o \in Order, NEW v \in Variant
      PROVE  Already(o, v)' <= basket'[o][v]
  <2>1. CASE commits[o] > 0
    BY <1>1, <1>2, <2>1 DEF WithinInv, ReturnsWithinPurchase
  <2>2. CASE ~(commits[o] > 0)
    <3>1. AskedBack(o, v)' = {}
      BY <2>2 DEF AskedBack, ReturnsOf, ReturnsInv, RequestsKnow
    <3>2. AskedIsSum'
      BY AlreadyAsSum, PTL
    <3>3. Already(o, v)' = 0
      BY <3>1, <3>2, TotalOfNone DEF AskedIsSum
    <3>. QED
      BY <1>2, <3>3
  <2>. QED
    BY <2>1, <2>2
<1>4. ASSUME NEW t \in Tab, asking'[t] # NoLine
      PROVE  (Already(asking[t].order, asking[t].variant) + asking[t].quantity
                <= basket[asking[t].order][asking[t].variant])'
  <2>1. asking'[t] = asking[t] /\ asking[t] # NoLine
    BY <1>4
  <2>2. asking[t] \in Line /\ commits[asking[t].order] > 0
    BY <2>1 DEF ReturnsInv, ReturnsTypeOK, RequestsKnow
  <2>3. PICK o \in Order, v \in Variant, n \in Nat :
          /\ asking[t].order = o /\ asking[t].variant = v /\ asking[t].quantity = n
    BY <2>2 DEF Line
  <2>4. Already(o, v) + n <= basket[o][v]
    BY <2>1, <2>3 DEF WithinInv
  <2>5. basket'[o] = basket[o]
    BY <2>2, <2>3
  <2>6. /\ Already(o, v)' <= Already(o, v)
        /\ Already(o, v) \in Nat /\ Already(o, v)' \in Nat /\ basket[o][v] \in Nat
    BY <1>1, <1>2
  <2>7. Already(o, v)' + n <= basket'[o][v]
    BY <2>3, <2>4, <2>5, <2>6
  <2>. QED
    BY <2>1, <2>3, <2>7
<1>. QED
  BY <1>3, <1>4 DEF WithinInv, ReturnsWithinPurchase

\* What a tab has checked is added to what is asked.
LEMMA InsertedWithin ==
  ASSUME ReturnsInv, ReturnsInv', WithinInv, SubmitsApart,
         NEW t \in Tab, NEW r \in Return, InsertReturn(t, r)
  PROVE  WithinInv'
<1>1. /\ asking[t] # NoLine /\ ~Made(r)
      /\ line' = [line EXCEPT ![r] = asking[t]]
      /\ return_status' = [return_status EXCEPT ![r] = "requested"]
      /\ asking' = [asking EXCEPT ![t] = NoLine]
      /\ UNCHANGED basket
  BY DEF InsertReturn
<1>2. asking[t] \in Line
  BY <1>1 DEF ReturnsInv, ReturnsTypeOK
<1>3. PICK a \in Order, w \in Variant, n \in Nat :
        asking[t].order = a /\ asking[t].variant = w /\ asking[t].quantity = n
  BY <1>2 DEF Line
<1>4. /\ line'[r] = asking[t] /\ return_status'[r] = "requested"
      /\ \A q \in Return \ {r} : line'[q] = line[q] /\ return_status'[q] = return_status[q]
  BY <1>1 DEF ReturnsInv, ReturnsTypeOK
<1>5. AskedIsSum /\ AskedIsSum'
  BY AlreadyAsSum, PTL
<1>6. ASSUME NEW o \in Order, NEW v \in Variant
      PROVE  /\ Already(o, v) \in Nat /\ Already(o, v)' \in Nat
             /\ basket[o][v] \in Nat
             /\ Already(o, v)' = IF o = a /\ v = w THEN Already(o, v) + n
                                 ELSE Already(o, v)
  <2> DEFINE before == AskedBack(o, v)
             told == QuantityAsked'
  <2>1. /\ Already(o, v) = TotalOver(QuantityAsked, before)
        /\ Already(o, v)' = TotalOver(told, AskedBack(o, v)')
        /\ Already(o, v) \in Nat /\ Already(o, v)' \in Nat
        /\ IsFiniteSet(before) /\ before \subseteq Return
        /\ \A q \in before : QuantityAsked[q] \in Nat
    BY <1>5 DEF AskedIsSum
  <2>2. r \notin before
    BY <1>1 DEF AskedBack, ReturnsOf
  <2>3. AskedBack(o, v)' = IF o = a /\ v = w THEN before \cup {r} ELSE before
    BY <1>1, <1>3, <1>4 DEF AskedBack, ReturnsOf, Made
  <2>4. \A q \in before : told[q] = QuantityAsked[q]
    BY <1>4, <2>1, <2>2 DEF QuantityAsked
  <2>5. told[r] = n
    BY <1>3, <1>4 DEF QuantityAsked
  <2> HIDE DEF before, told
  <2>6. TotalOver(told, before) = TotalOver(QuantityAsked, before)
    BY <2>4, TotalOfSame
  <2>7. \A q \in before \cup {r} : told[q] \in Nat
    BY <2>1, <2>4, <2>5
  <2>8. TotalOver(told, before \cup {r}) = TotalOver(told, before) + told[r]
    <3>1. IsFiniteSet(before) /\ r \notin before
      BY <2>1, <2>2
    <3>. QED
      BY <2>7, <3>1, TotalOfOneMore
  <2>9. basket[o][v] \in Nat
    BY DEF ReturnsInv, ReturnsTypeOK, TypeOK
  <2>. QED
    BY <2>1, <2>3, <2>5, <2>6, <2>8, <2>9
<1>7. Already(a, w) + n <= basket[a][w]
  BY <1>1, <1>3 DEF WithinInv
<1>8. ASSUME NEW o \in Order, NEW v \in Variant
      PROVE  Already(o, v)' <= basket'[o][v]
  <2>1. Already(o, v) <= basket[o][v]
    BY DEF WithinInv, ReturnsWithinPurchase
  <2>. QED
    BY <1>1, <1>6, <1>7, <2>1
<1>9. ASSUME NEW u \in Tab, asking'[u] # NoLine
      PROVE  (Already(asking[u].order, asking[u].variant) + asking[u].quantity
                <= basket[asking[u].order][asking[u].variant])'
  <2>1. u # t /\ asking'[u] = asking[u] /\ asking[u] # NoLine
    BY <1>1, <1>9 DEF ReturnsInv, ReturnsTypeOK
  <2>2. asking[u] \in Line
    BY <2>1 DEF ReturnsInv, ReturnsTypeOK
  <2>3. PICK o \in Order, v \in Variant, k \in Nat :
          asking[u].order = o /\ asking[u].variant = v /\ asking[u].quantity = k
    BY <2>2 DEF Line
  <2>4. ~(o = a /\ v = w)
    BY <1>1, <1>3, <2>1, <2>3 DEF SubmitsApart
  <2>5. Already(o, v) + k <= basket[o][v]
    BY <2>1, <2>3 DEF WithinInv
  <2>6. Already(o, v)' + k <= basket'[o][v]
    BY <1>1, <1>6, <2>4, <2>5
  <2>. QED
    BY <2>1, <2>3, <2>6
<1>. QED
  BY <1>8, <1>9 DEF WithinInv, ReturnsWithinPurchase

\* Checking a line changes no request and no line.
LEMMA CheckedWithin ==
  ASSUME ReturnsInv, ReturnsInv', WithinInv,
         NEW t \in Tab, NEW o \in Order, NEW v \in Variant,
         NEW n \in 1 .. basket[o][v], AskReturn(t, o, v, n)
  PROVE  WithinInv'
<1>1. /\ Already(o, v) + n <= basket[o][v]
      /\ asking' = [asking EXCEPT ![t] = [order |-> o, variant |-> v, quantity |-> n]]
      /\ UNCHANGED <<basket, line, return_status>>
  BY DEF AskReturn, vars, orderVars, requestRows
<1>2. \A p \in Order, w \in Variant : Already(p, w)' = Already(p, w)
  BY <1>1 DEF Already, ReturnsOf, Made
<1>3. ReturnsWithinPurchase'
  BY <1>1, <1>2 DEF WithinInv, ReturnsWithinPurchase
<1>4. ASSUME NEW u \in Tab, asking'[u] # NoLine
      PROVE  (Already(asking[u].order, asking[u].variant) + asking[u].quantity
                <= basket[asking[u].order][asking[u].variant])'
  <2>1. CASE u = t
    <3>1. asking'[u] = [order |-> o, variant |-> v, quantity |-> n]
      BY <1>1, <2>1 DEF ReturnsInv, ReturnsTypeOK
    <3>2. Already(o, v)' + n <= basket'[o][v]
      BY <1>1, <1>2
    <3>. QED
      BY <3>1, <3>2
  <2>2. CASE u # t
    <3>1. asking'[u] = asking[u] /\ asking[u] # NoLine
      BY <1>1, <1>4, <2>2 DEF ReturnsInv, ReturnsTypeOK
    <3>2. PICK p \in Order, w \in Variant, k \in Nat :
            asking[u].order = p /\ asking[u].variant = w /\ asking[u].quantity = k
      BY <3>1 DEF ReturnsInv, ReturnsTypeOK, Line
    <3>3. Already(p, w) + k <= basket[p][w]
      BY <3>1, <3>2 DEF WithinInv
    <3>4. Already(p, w)' + k <= basket'[p][w]
      BY <1>1, <1>2, <3>3
    <3>. QED
      BY <3>1, <3>2, <3>4
  <2>. QED
    BY <2>1, <2>2
<1>. QED
  BY <1>3, <1>4 DEF WithinInv

\* Every step, where submits are apart and rejections stand.
LEMMA WithinStep ==
  ASSUME ReturnsInv, ReturnsInv', WithinInv, SubmitsApart, [ReturnsNext]_allVars,
         [\A r \in Return : return_status[r] = "rejected"
                              => return_status'[r] = "rejected"]_allVars
  PROVE  WithinInv'
<1>1. \A r \in Return : return_status[r] = "rejected"
                          => return_status'[r] = "rejected"
  BY DEF allVars, returnVars, requestRows
<1>2. ASSUME UNCHANGED line, \A r \in Return : Made(r)' <=> Made(r),
             \A t \in Tab : asking'[t] \in {asking[t], NoLine},
             \A o \in Order : commits[o] > 0 => basket'[o] = basket[o]
      PROVE  WithinInv'
  BY <1>1, <1>2, NothingMoreAsked
<1>3. CASE UNCHANGED allVars
  BY <1>2, <1>3 DEF allVars, vars, orderVars, returnVars, requestRows, Made
<1>4. ASSUME NEW o \in Order, OrderStep(o) PROVE WithinInv'
  <2>1. [Next]_vars /\ UNCHANGED <<line, return_status, asking>>
    BY <1>4, ReturnsAssumption DEF OrderStep, Next, returnVars, requestRows
  <2>2. ASSUME NEW p \in Order, commits[p] > 0 PROVE basket'[p] = basket[p]
    <3>1. Placed(p)
      BY <2>2 DEF ReturnsInv, SaleInv, NothingBeforePlacement, TypeOK
    <3>. QED
      BY <2>1, <3>1, LinesKept DEF ReturnsInv, SaleInv
  <2>. QED
    BY <1>2, <2>1, <2>2 DEF Made
<1>5. ASSUME NEW t \in Tab, Customer(t) PROVE WithinInv'
  <2>1. CASE LoseReturn(t)
    <3>1. /\ UNCHANGED <<line, return_status, basket>>
          /\ asking' = [asking EXCEPT ![t] = NoLine]
      BY <2>1 DEF LoseReturn, requestRows, vars, orderVars
    <3>. QED
      BY <1>2, <3>1 DEF Made, ReturnsInv, ReturnsTypeOK
  <2>. QED
    BY <1>5, <2>1, InsertedWithin, CheckedWithin DEF Customer
<1>6. ASSUME NEW s \in Staff, Desk(s) PROVE WithinInv'
  <2>1. UNCHANGED <<line, asking, basket>>
    BY <1>6 DEF Desk, OpenBatch, TakeReturn, ApproveReturn, RejectReturn,
                CompleteReturn, DropBatch, requestRows, vars, orderVars
  <2>2. ASSUME NEW r \in Return,
               ApproveReturn(s, r) \/ RejectReturn(s, r) \/ CompleteReturn(s, r)
        PROVE  \A q \in Return : Made(q)' <=> Made(q)
    <3>1. Made(r)
      BY <2>2, HandKnown DEF ApproveReturn, RejectReturn, CompleteReturn
    <3>. QED
      BY <2>2, <3>1 DEF ApproveReturn, RejectReturn, CompleteReturn, Made,
                        ReturnsInv, ReturnsTypeOK
  <2>3. ASSUME ~\E r \in Return : \/ ApproveReturn(s, r) \/ RejectReturn(s, r)
                                  \/ CompleteReturn(s, r)
        PROVE  UNCHANGED return_status
    BY <1>6, <2>3 DEF Desk, OpenBatch, TakeReturn, DropBatch, requestRows
  <2>. QED
    BY <1>2, <2>1, <2>2, <2>3 DEF Made
<1>7. ASSUME NEW r \in Return, NEW new \in FormStatuses, EditReturn(r, new)
      PROVE  WithinInv'
  <2>1. /\ UNCHANGED <<line, asking, basket>>
        /\ \A q \in Return : Made(q)' <=> Made(q)
    BY <1>7, ReturnsAssumption
    DEF EditReturn, vars, orderVars, Made, ReturnStatus, ReturnsInv, ReturnsTypeOK
  <2>. QED
    BY <1>2, <2>1
<1>. QED
  BY <1>3, <1>4, <1>5, <1>6, <1>7 DEF ReturnsNext

\* No more units of a line are asked back than were bought, as
\* orders/tests/test_orders.py:470 has it, unless two submits for the line
\* overlap or a request that was rejected is taken up again.
THEOREM ReturnsWithinUndisturbed ==
  ReturnsSpec /\ []SubmitsApart /\ RejectionsStand => []ReturnsWithinPurchase
<1>1. ReturnsInit => WithinInv
  <2> SUFFICES ASSUME ReturnsInit PROVE WithinInv
    OBVIOUS
  <2>1. AskedIsSum /\ ReturnsInv
    BY InitReturnsInv, AlreadyAsSum
  <2>2. ASSUME NEW o \in Order, NEW v \in Variant
        PROVE  Already(o, v) <= basket[o][v]
    <3>1. AskedBack(o, v) = {}
      BY DEF ReturnsInit, AskedBack, ReturnsOf, Made
    <3>2. Already(o, v) = 0
      BY <2>1, <3>1, TotalOfNone DEF AskedIsSum
    <3>3. basket[o][v] \in Nat
      BY <2>1 DEF ReturnsInv, ReturnsTypeOK, TypeOK
    <3>. QED
      BY <3>2, <3>3
  <2>. QED
    BY <2>2 DEF WithinInv, ReturnsWithinPurchase, ReturnsInit
<1>2. ReturnsInv /\ ReturnsInv' /\ WithinInv /\ SubmitsApart /\ [ReturnsNext]_allVars
        /\ [\A r \in Return : return_status[r] = "rejected"
                                => return_status'[r] = "rejected"]_allVars
      => WithinInv'
  BY WithinStep
<1>3. WithinInv => ReturnsWithinPurchase
  BY DEF WithinInv
<1>. QED
  BY <1>1, <1>2, <1>3, ReturnsInvariance, PTL DEF ReturnsSpec, RejectionsStand

=============================================================================
