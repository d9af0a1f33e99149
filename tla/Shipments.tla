----------------------------- MODULE Shipments -----------------------------
(***************************************************************************)
(* Parcels: src/apps/shipping/fulfilment.py around the order handlers of   *)
(* module Orders.                                                          *)
(*                                                                         *)
(* create_shipment counts what is left to ship without a lock, then        *)
(* inserts the parcel.  record_event writes the parcel's status and then   *)
(* moves the order: it reads the order and its parcels, works out a route  *)
(* through TRANSITIONS, and calls transition_order for each step.  Until   *)
(* its commit no other transaction sees the parcel's new status, and the   *)
(* order is locked only from the first transition on: between the reading  *)
(* and that lock the order may change.                                     *)
(*                                                                         *)
(* Carriers repeat, reorder and delay their updates, so any update may     *)
(* arrive for any parcel.  Left out: weights, numbers, tracking texts and  *)
(* the admin's inline forms, which edit a parcel's lines.                  *)
(***************************************************************************)
EXTENDS Orders, FiniteSetsExt, Sequences

CONSTANTS
  MaxParcels,     \* bound: parcels
  Packer,         \* the members of staff who pack
  Handler,        \* the workers that record carrier updates
  Updates,        \* bound: the statuses carriers report
  Methods,        \* bound: the payment methods of the orders placed
  DeskStatuses,   \* bound: the statuses the order desk moves an order to
  Nothing         \* what an idle packer or handler has in hand

Parcel == 1 .. MaxParcels

\* Shipment.Status.
ParcelStatus ==
  {"pending", "dispatched", "in_transit", "out_for_delivery", "delivered",
   "failed", "returned"}

\* The order statuses a parcel may move an order through.
Safe ==
  {"pending", "confirmed", "processing", "shipped", "out_for_delivery",
   "delivered"}

Box == [order : Order, items : [Variant -> Nat]]

\* An update being recorded: the parcel's status as the handler loaded it,
\* and the route worked out for its order.
Handling == [parcel : Parcel, seen : ParcelStatus, new : ParcelStatus,
             step : {"loaded", "routed"}, route : Seq(Safe)]

ASSUME ShipmentsAssumption ==
  /\ MaxParcels \in Nat
  /\ Updates \subseteq ParcelStatus
  /\ Methods \subseteq {"cod", "online"}
  /\ DeskStatuses \subseteq Status
  /\ Nothing \notin Box \cup Handling

VARIABLES
  box,            \* order and contents of each parcel
  parcel_status,  \* Shipment.status, "none" before the parcel exists
  packing,        \* what each packer has had checked and not yet inserted
  handling,       \* what each handler is recording
  arrived         \* history: the parcels that were delivered at some time

parcelVars == <<box, parcel_status, arrived>>
shipmentVars == <<parcelVars, packing, handling>>
allVars == <<vars, shipmentVars>>

ShipmentsTypeOK ==
  /\ TypeOK
  /\ box \in [Parcel -> Box \cup {Nothing}]
  /\ parcel_status \in [Parcel -> ParcelStatus \cup {"none"}]
  /\ packing \in [Packer -> Box \cup {Nothing}]
  /\ handling \in [Handler -> Handling \cup {Nothing}]
  /\ arrived \subseteq Parcel

ShipmentsInit ==
  /\ Init
  /\ box = [n \in Parcel |-> Nothing]
  /\ parcel_status = [n \in Parcel |-> "none"]
  /\ packing = [p \in Packer |-> Nothing]
  /\ handling = [h \in Handler |-> Nothing]
  /\ arrived = {}

ParcelsOf(o) == {n \in Parcel : box[n] # Nothing /\ box[n].order = o}

\* Units of v of order o in the parcels of S.
UnitsIn(S, v) == TotalOver([n \in S |-> box[n].items[v]], S)

-----------------------------------------------------------------------------
(* Packing.                                                                *)

\* remaining_to_ship: zero for a line that is packed, or packed too often.
Remaining(o) ==
  [v \in Variant |-> Monus(basket[o][v], UnitsIn(ParcelsOf(o), v))]

Outstanding(o) == \E v \in Variant : Remaining(o)[v] > 0

\* create_shipment up to its insert: nothing is locked, and the order's
\* status is not asked.
StartPacking(p, o, items) ==
  /\ packing[p] = Nothing
  /\ Placed(o) /\ Outstanding(o)
  /\ \E v \in Variant : items[v] > 0
  /\ \A v \in Variant : items[v] <= Remaining(o)[v]
  /\ packing' = [packing EXCEPT ![p] = [order |-> o, items |-> items]]
  /\ UNCHANGED <<vars, parcelVars, handling>>

FinishPacking(p, n) ==
  /\ packing[p] # Nothing
  /\ box[n] = Nothing /\ \A m \in 1 .. n - 1 : box[m] # Nothing
  /\ box' = [box EXCEPT ![n] = packing[p]]
  /\ parcel_status' = [parcel_status EXCEPT ![n] = "pending"]
  /\ packing' = [packing EXCEPT ![p] = Nothing]
  /\ UNCHANGED <<vars, handling, arrived>>

LosePacking(p) ==
  /\ packing[p] # Nothing
  /\ packing' = [packing EXCEPT ![p] = Nothing]
  /\ UNCHANGED <<vars, parcelVars, handling>>

-----------------------------------------------------------------------------
(* Carrier updates.                                                        *)

\* The legal routes of n steps from a status to a safe one, through safe ones.
Routes(from, target, n) ==
  {route \in [1 .. n -> Safe] :
     /\ route[1] \in TRANSITIONS[from]
     /\ \A i \in 2 .. n : route[i] \in TRANSITIONS[route[i - 1]]
     /\ route[n] = target}

\* _fulfilment_path: a shortest one, or none.  A shortest route has at most
\* four steps, from pending to delivered.
FulfilmentPath(from, target) ==
  LET lengths == {n \in 1 .. 4 : Routes(from, target, n) # {}}
  IN  IF from = target \/ lengths = {} THEN <<>>
      ELSE CHOOSE route \in Routes(from, target, Min(lengths)) : TRUE

\* The routes to the three statuses that parcels ask for.
Route ==
  [s \in Status |-> [t \in {"shipped", "out_for_delivery", "delivered"} |->
     FulfilmentPath(s, t)]]

\* Where parcels that are still under way want the order: its own status
\* when nowhere.
TargetUnderWay(o, statuses) ==
  CASE "out_for_delivery" \in statuses -> "out_for_delivery"
    [] "out_for_delivery" \notin statuses
         /\ statuses \cap {"dispatched", "in_transit"} # {} -> "shipped"
    [] OTHER -> status[o]

\* Mutant: the boxes that exist are taken for all there will be.
TargetPacked(o, statuses) ==
  IF statuses = {"delivered"} THEN "delivered" ELSE TargetUnderWay(o, statuses)

\* Where the parcels want the order.
Target(o, statuses) ==
  IF statuses = {"delivered"} /\ ~Outstanding(o)
  THEN "delivered"
  ELSE TargetUnderWay(o, statuses)

\* The route of an order to where its parcels want it.
RouteTo(o, target) ==
  IF target = status[o] THEN <<>> ELSE Route[status[o]][target]

\* A handler loads the parcel an update is about.
LoadParcel(h, n, new) ==
  /\ handling[h] = Nothing
  /\ box[n] # Nothing
  /\ handling' = [handling EXCEPT ![h] =
       [parcel |-> n, seen |-> parcel_status[n], new |-> new,
        step |-> "loaded", route |-> <<>>]]
  /\ UNCHANGED <<vars, parcelVars, packing>>

At(h, step) == handling[h] # Nothing /\ handling[h].step = step

\* The parcel row is locked from the write of its status on.
ParcelFree(n) ==
  \A h \in Handler : At(h, "routed") => handling[h].parcel # n

\* The update repeats the status the handler loaded: only the event is kept.
RepeatUpdate(h) ==
  /\ At(h, "loaded")
  /\ handling[h].seen = handling[h].new
  /\ handling' = [handling EXCEPT ![h] = Nothing]
  /\ UNCHANGED <<vars, parcelVars, packing>>

\* record_event writes the status, and _sync_order reads the order, the
\* order's other parcels as committed and this one as just written.
RouteOrder(h) ==
  LET n == handling[h].parcel
      o == box[n].order
      seen == {parcel_status[m] : m \in ParcelsOf(o) \ {n}}
  IN  /\ At(h, "loaded")
      /\ handling[h].seen # handling[h].new
      /\ ParcelFree(n)
      /\ handling' = [handling EXCEPT
           ![h].step = "routed",
           ![h].route = RouteTo(o, Target(o, seen \cup {handling[h].new}))]
      /\ UNCHANGED <<vars, parcelVars, packing>>

\* The parcel's new status is committed.
ParcelMoved(h) ==
  /\ parcel_status' =
       [parcel_status EXCEPT ![handling[h].parcel] = handling[h].new]
  /\ arrived' = IF handling[h].new = "delivered"
                THEN arrived \cup {handling[h].parcel} ELSE arrived
  /\ handling' = [handling EXCEPT ![h] = Nothing]
  /\ UNCHANGED <<box, packing>>

\* transition_order will take the first step.
Legal(route, from) ==
  IF route = <<>> THEN FALSE ELSE route[1] \in TRANSITIONS[from]

\* Mutant: the route is followed without asking TRANSITIONS again.
WalkStale(h) ==
  LET o == box[handling[h].parcel].order
      route == handling[h].route
  IN  /\ At(h, "routed")
      /\ route # <<>>
      /\ CommitStock(o)
      /\ status' = [status EXCEPT ![o] = route[Len(route)]]
      /\ ParcelMoved(h)
      /\ UNCHANGED <<payment_status, payment_method, basket, restores,
                     couponVars, requestVars>>

\* Mutant: the last step is written without the steps before it.
WalkJumps(h) ==
  LET o == box[handling[h].parcel].order
      route == handling[h].route
  IN  /\ At(h, "routed")
      /\ Legal(route, status[o])
      /\ status' = [status EXCEPT ![o] = route[Len(route)]]
      /\ ParcelMoved(h)
      /\ UNCHANGED <<payment_status, payment_method, basket, stockVars,
                     couponVars, requestVars>>

\* transition_order for each step of the route and the commit.  The first
\* step takes the order's lock, so that the others cannot be refused.
Walk(h) ==
  LET o == box[handling[h].parcel].order
      route == handling[h].route
  IN  /\ At(h, "routed")
      /\ Legal(route, status[o])
      /\ status' = [status EXCEPT ![o] = route[Len(route)]]
      /\ IF \E i \in DOMAIN route : route[i] = "confirmed"
         THEN CommitStock(o)
         ELSE UNCHANGED <<inventory, stock_committed, commits>>
      /\ payment_status' =
           IF route[Len(route)] = "delivered" /\ payment_method[o] = "cod"
           THEN [payment_status EXCEPT ![o] = "paid"]
           ELSE payment_status
      /\ ParcelMoved(h)
      /\ UNCHANGED <<payment_method, basket, restores, couponVars,
                     requestVars>>

\* No route, or its first step is refused by now: the parcel moves alone.
Stay(h) ==
  LET o == box[handling[h].parcel].order
      route == handling[h].route
  IN  /\ At(h, "routed")
      /\ ~Legal(route, status[o])
      /\ ParcelMoved(h)
      /\ UNCHANGED vars

\* The worker dies: the transaction is rolled back.
LoseUpdate(h) ==
  /\ handling[h] # Nothing
  /\ handling' = [handling EXCEPT ![h] = Nothing]
  /\ UNCHANGED <<vars, parcelVars, packing>>

-----------------------------------------------------------------------------

Pack(p) ==
  \/ \E o \in Order : \E items \in [Variant -> 0 .. 2] :
       StartPacking(p, o, items)
  \/ \E n \in Parcel : FinishPacking(p, n)
  \/ LosePacking(p)

Record(h) == RepeatUpdate(h) \/ RouteOrder(h) \/ Walk(h) \/ Stay(h)

\* What the rest of the shop does to an order.
OrderStep(o) ==
  /\ \/ \E lines \in Baskets, method \in Methods,
           withCoupon \in BOOLEAN : PlaceOrder(o, lines, method, withCoupon)
     \/ ConfirmCod(o)
     \/ LoseCodRequest(o)
     \/ StartPayment(o)
     \/ MarkPaid(o)
     \/ MarkPaymentFailed(o)
     \/ \E new \in DeskStatuses : TransitionOrder(o, new)
     \/ \E staff_override \in BOOLEAN : CancelOrder(o, staff_override)
  /\ UNCHANGED shipmentVars

ShipmentsNext ==
  \/ \E o \in Order : OrderStep(o)
  \/ \E p \in Packer : Pack(p)
  \/ \E h \in Handler :
       \/ \E n \in Parcel, new \in Updates : LoadParcel(h, n, new)
       \/ Record(h)
       \/ LoseUpdate(h)

ShipmentsSpec == ShipmentsInit /\ [][ShipmentsNext]_allVars

-----------------------------------------------------------------------------
(* Properties.                                                             *)

\* A step of the parcels: some parcel's status is committed.
ParcelStep == \E n \in Parcel : parcel_status[n] # "none"
                                  /\ parcel_status'[n] # parcel_status[n]

\* The parcels deliver an order only when every unit of it is in a parcel
\* that arrived: not when one box of two did, not when a box is still to be
\* packed, and whatever other updates are being recorded meanwhile.
DeliveredComplete ==
  [][\A o \in Order :
       ParcelStep /\ status[o] # "delivered" /\ status'[o] = "delivered" =>
         \A v \in Variant :
           UnitsIn(ParcelsOf(o) \cap arrived', v) >= basket[o][v]]_allVars

\* A parcel never takes an order out of cancellation, return or refund, even
\* on a route worked out before the order got there; it only closes an
\* unprocessed return request.
ParcelsReopenNothing ==
  [][\A o \in Order :
       ParcelStep /\ status[o] \notin Safe \cup {"none"} =>
         \/ status'[o] = status[o]
         \/ status[o] = "return_requested" /\ status'[o] = "delivered"]_allVars
=============================================================================
