------------------------------ MODULE Returns ------------------------------
(***************************************************************************)
(* Returns: request_return and process_return of                           *)
(* src/apps/orders/services.py and the return desk of                      *)
(* src/apps/orders/admin.py, around the order handlers of module Orders.   *)
(*                                                                         *)
(* Neither function locks the order.  request_return reads the order and   *)
(* the earlier requests without any lock and then inserts; process_return  *)
(* locks only the request, asks whether the order's other requests are all *)
(* rejected, and then overwrites the order's status.  The desk works       *)
(* through a list it read before: each entry may have been dealt with      *)
(* since, by another member of staff or through the edit form.             *)
(*                                                                         *)
(* A request is for one line of an order, that is, one variant of it.      *)
(* Left out: the item statuses and the amounts, which no guard reads.      *)
(***************************************************************************)
EXTENDS Orders

CONSTANTS
  MaxReturns,     \* bound: return requests
  MaxCompletions, \* bound: completions of one request
  Tab,            \* the browser tabs that submit requests
  Staff,          \* the members of staff at the return desk
  Methods,        \* bound: the payment methods of the orders placed
  DeskStatuses,   \* bound: the statuses the order desk moves an order to
  FormStatuses,   \* bound: the statuses given through the edit form
  NoLine,         \* the line of a request not made yet
  NoBatch         \* what a member of staff without a list is working on

\* Requests, numbered as they are created.
Return == 1 .. MaxReturns

\* ReturnRequest.Status.
ReturnStatus ==
  {"requested", "approved", "rejected", "picked_up", "completed", "refunded"}

Line == [order : Order, variant : Variant, quantity : Nat \ {0}]

\* An admin action under way: the status it gives, the requests still to be
\* processed, the one in hand, and what was found about its order.
Batch == [new : {"approved", "rejected", "completed"},
          todo : SUBSET Return, hand : SUBSET Return, last : BOOLEAN]

ASSUME ReturnsAssumption ==
  /\ MaxReturns \in Nat /\ MaxCompletions \in Nat
  /\ Methods \subseteq {"cod", "online"}
  /\ DeskStatuses \subseteq Status /\ FormStatuses \subseteq ReturnStatus
  /\ NoLine \notin Line
  /\ NoBatch \notin Batch

VARIABLES
  line,           \* the line each request is for
  return_status,  \* ReturnRequest.status, "none" before the request is made
  asking,         \* what each tab has had checked and not yet inserted
  batch,          \* what each member of staff is working through
  completions     \* history: times a request's units were put back

requestRows == <<line, return_status>>
deskVars == <<batch, completions>>
returnVars == <<requestRows, asking, deskVars>>
allVars == <<vars, returnVars>>

ReturnsTypeOK ==
  /\ TypeOK
  /\ line \in [Return -> Line \cup {NoLine}]
  /\ return_status \in [Return -> ReturnStatus \cup {"none"}]
  /\ asking \in [Tab -> Line \cup {NoLine}]
  /\ batch \in [Staff -> Batch \cup {NoBatch}]
  /\ completions \in [Return -> Nat]

ReturnsInit ==
  /\ Init
  /\ line = [r \in Return |-> NoLine]
  /\ return_status = [r \in Return |-> "none"]
  /\ asking = [t \in Tab |-> NoLine]
  /\ batch = [s \in Staff |-> NoBatch]
  /\ completions = [r \in Return |-> 0]

Made(r) == return_status[r] # "none"

ReturnsOf(o) == {r \in Return : Made(r) /\ line[r].order = o}

-----------------------------------------------------------------------------
(* The customer.                                                           *)

\* The units of a line that its requests ask for, the rejected ones aside.
Already(o, v) ==
  LET asked == {r \in ReturnsOf(o) :
                  line[r].variant = v /\ return_status[r] # "rejected"}
  IN  TotalOver([r \in asked |-> line[r].quantity], asked)

\* Mutant: a return is taken for any order that was placed.
AskAnytime(t, o, v, n) ==
  /\ asking[t] = NoLine
  /\ Placed(o)
  /\ n > 0 /\ Already(o, v) + n <= basket[o][v]
  /\ asking' = [asking EXCEPT ![t] = [order |-> o, variant |-> v,
                                      quantity |-> n]]
  /\ UNCHANGED <<vars, requestRows, deskVars>>

\* request_return up to its insert: everything is read and nothing locked.
AskReturn(t, o, v, n) ==
  /\ asking[t] = NoLine
  /\ status[o] = "delivered"
  /\ n > 0 /\ Already(o, v) + n <= basket[o][v]
  /\ asking' = [asking EXCEPT ![t] = [order |-> o, variant |-> v,
                                      quantity |-> n]]
  /\ UNCHANGED <<vars, requestRows, deskVars>>

\* The rest of request_return: the order read as delivered becomes
\* return_requested, whatever it is by now.
InsertReturn(t, r) ==
  /\ asking[t] # NoLine
  /\ ~Made(r) /\ \A q \in 1 .. r - 1 : Made(q)
  /\ line' = [line EXCEPT ![r] = asking[t]]
  /\ return_status' = [return_status EXCEPT ![r] = "requested"]
  /\ status' = [status EXCEPT ![asking[t].order] = "return_requested"]
  /\ asking' = [asking EXCEPT ![t] = NoLine]
  /\ UNCHANGED <<payment_status, payment_method, basket, stockVars,
                 couponVars, requestVars, deskVars>>

\* The request dies before its insert.
LoseReturn(t) ==
  /\ asking[t] # NoLine
  /\ asking' = [asking EXCEPT ![t] = NoLine]
  /\ UNCHANGED <<vars, requestRows, deskVars>>

-----------------------------------------------------------------------------
(* The return desk.                                                        *)

\* The requests each admin action keeps of those selected.
Eligible(new) ==
  {r \in Return :
     /\ Made(r)
     /\ CASE new = "approved"  -> return_status[r] = "requested"
          [] new = "rejected"  -> return_status[r] \notin
                                    {"completed", "refunded"}
          [] new = "completed" -> return_status[r] \notin
                                    {"rejected", "completed"}}

\* An admin action reads its list.
OpenBatch(s, new) ==
  /\ batch[s] = NoBatch
  /\ \E selected \in SUBSET Eligible(new) \ {{}} :
       batch' = [batch EXCEPT ![s] = [new |-> new, todo |-> selected,
                                      hand |-> {}, last |-> FALSE]]
  /\ UNCHANGED <<vars, requestRows, asking, completions>>

Working(s) == batch[s] # NoBatch

\* The row lock process_return takes on the request.
Free(r) == \A s \in Staff : Working(s) => r \notin batch[s].hand

\* process_return up to its commit: the request is locked, and a rejection
\* reads whether the order's other requests are, as committed, all rejected.
TakeReturn(s, r) ==
  /\ Working(s) /\ batch[s].hand = {} /\ r \in batch[s].todo
  /\ Free(r)
  /\ batch' = [batch EXCEPT
       ![s].hand = {r},
       ![s].todo = @ \ {r},
       ![s].last = /\ batch[s].new = "rejected"
                   /\ \A q \in ReturnsOf(line[r].order) \ {r} :
                        return_status[q] = "rejected"]
  /\ UNCHANGED <<vars, requestRows, asking, completions>>

\* The batch after its request in hand.
PutDown(s) ==
  batch' = [batch EXCEPT ![s] =
              IF @.todo = {} THEN NoBatch
              ELSE [@ EXCEPT !.hand = {}, !.last = FALSE]]

InHand(s, r, new) == Working(s) /\ r \in batch[s].hand /\ batch[s].new = new

\* process_return to "approved".
ApproveReturn(s, r) ==
  /\ InHand(s, r, "approved")
  /\ return_status' = [return_status EXCEPT ![r] = "approved"]
  /\ PutDown(s)
  /\ UNCHANGED <<vars, line, asking, completions>>

\* process_return to "rejected": the order was delivered, and is again.
RejectReturn(s, r) ==
  /\ InHand(s, r, "rejected")
  /\ return_status' = [return_status EXCEPT ![r] = "rejected"]
  /\ status' = IF batch[s].last
               THEN [status EXCEPT ![line[r].order] = "delivered"]
               ELSE status
  /\ PutDown(s)
  /\ UNCHANGED <<payment_status, payment_method, basket, stockVars,
                 couponVars, requestVars, line, asking, completions>>

\* process_return to "completed": the units are back on the shelf and the
\* money is owed.
CompleteReturn(s, r) ==
  /\ InHand(s, r, "completed")
  /\ completions[r] < MaxCompletions
  /\ return_status' = [return_status EXCEPT ![r] = "completed"]
  /\ inventory' = [inventory EXCEPT ![line[r].variant] =
                     RestoreReturned(@, line[r].quantity)]
  /\ status' = [status EXCEPT ![line[r].order] = "returned"]
  /\ payment_status' =
       [payment_status EXCEPT ![line[r].order] = "refund_pending"]
  /\ completions' = [completions EXCEPT ![r] = @ + 1]
  /\ PutDown(s)
  /\ UNCHANGED <<payment_method, basket, stock_committed, commits, restores,
                 couponVars, requestVars, line, asking>>

\* The admin action dies: what it committed stays.
DropBatch(s) ==
  /\ Working(s)
  /\ batch' = [batch EXCEPT ![s] = NoBatch]
  /\ UNCHANGED <<vars, requestRows, asking, completions>>

\* The edit form writes the status and nothing else.
EditReturn(r, new) ==
  /\ Made(r)
  /\ Free(r)
  /\ return_status' = [return_status EXCEPT ![r] = new]
  /\ UNCHANGED <<vars, line, asking, deskVars>>

-----------------------------------------------------------------------------

Customer(t) ==
  \/ \E o \in Order, v \in Variant :
       \E n \in 1 .. basket[o][v] : AskReturn(t, o, v, n)
  \/ \E r \in Return : InsertReturn(t, r)
  \/ LoseReturn(t)

Desk(s) ==
  \/ \E new \in {"approved", "rejected", "completed"} : OpenBatch(s, new)
  \/ \E r \in Return :
       \/ TakeReturn(s, r)
       \/ ApproveReturn(s, r)
       \/ RejectReturn(s, r)
       \/ CompleteReturn(s, r)
  \/ DropBatch(s)

\* What the rest of the shop does to an order.
OrderStep(o) ==
  /\ \/ \E lines \in Baskets, method \in Methods,
           withCoupon \in BOOLEAN : PlaceOrder(o, lines, method, withCoupon)
     \/ ConfirmCod(o)
     \/ LoseCodRequest(o)
     \/ StartPayment(o)
     \/ MarkPaid(o)
     \/ MarkPaymentFailed(o)
     \/ \E new \in DeskStatuses : TransitionOrder(o, new)
     \/ \E staff_override \in BOOLEAN : CancelOrder(o, staff_override)
  /\ UNCHANGED returnVars

ReturnsNext ==
  \/ \E o \in Order : OrderStep(o)
  \/ \E t \in Tab : Customer(t)
  \/ \E s \in Staff : Desk(s)
  \/ \E r \in Return, new \in FormStatuses : EditReturn(r, new)

ReturnsSpec == ReturnsInit /\ [][ReturnsNext]_allVars

-----------------------------------------------------------------------------
(* Properties.                                                             *)

\* The units of v put back by returns.
UnitsReturned(v) ==
  LET back == {r \in Return : Made(r) /\ line[r].variant = v}
  IN  TotalOver([r \in back |-> completions[r] * line[r].quantity], back)

\* The sold figure never falls below what standing sales bought less what
\* returns put back, although a staff cancellation and a return may both put
\* back the same units.
SoldCoversSales ==
  \A v \in Variant :
    inventory[v].sold + UnitsReturned(v)
      >= UnitsOf(v, {o \in Order : stock_committed[o]})

\* No unit is lost: what was on the shelf at the start is on it or sold.
\* (The floors of the decrements may only invent units.)
NoUnitLost ==
  \A v \in Variant : inventory[v].available + inventory[v].sold >= Stock[v]

\* A return is only ever open for an order whose units were sold: delivery
\* comes after the sale, and a rejection takes back to delivered only an
\* order that had got there.
ReturnsOnlyOfSoldOrders ==
  \A r \in Return : Made(r) => commits[line[r].order] > 0

\* orders/tests/test_orders.py: "cannot return twice beyond the quantity".
ReturnsWithinPurchase ==
  \A o \in Order, v \in Variant : Already(o, v) <= basket[o][v]
=============================================================================
