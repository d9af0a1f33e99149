-------------------------- MODULE ShipmentsProofs --------------------------
(* Proofs about Shipments: what carrier updates, recorded by workers that  *)
(* read before they lock, can and cannot do to the orders, for any number  *)
(* of orders, parcels, packers and workers.                                *)
EXTENDS Shipments, OrdersProofs

-----------------------------------------------------------------------------
(* The inductive invariant.                                                *)

\* What is packed, or being packed, belongs to a placed order, so that its
\* lines do not change any more.
BoxesKnow ==
  /\ \A n \in Parcel : box[n] # Nothing => Placed(box[n].order)
  /\ \A p \in Packer : packing[p] # Nothing => Placed(packing[p].order)

\* A parcel has a status from its insert on; that of a delivered one is known.
StatusesKnown ==
  \A n \in Parcel :
    /\ box[n] = Nothing <=> parcel_status[n] = "none"
    /\ parcel_status[n] = "delivered" => n \in arrived

\* Every unit of an order is in a parcel of S.
Covered(o, S) == \A v \in Variant : UnitsIn(ParcelsOf(o) \cap S, v) >= basket[o][v]

\* A worked out route keeps to the table, whatever happens to its order
\* before it is walked.
FollowsTable(route) ==
  \A i \in 2 .. Len(route) : route[i] \in TRANSITIONS[route[i - 1]]

\* A route that ends in delivery is one for an order all of whose units had
\* arrived when it was worked out, those of the parcel itself among them.
EndsInDelivery(route) == route # <<>> /\ route[Len(route)] = "delivered"

CallKnows(call) ==
  /\ box[call.parcel] # Nothing
  /\ FollowsTable(call.route)
  /\ EndsInDelivery(call.route) =>
       /\ call.new = "delivered"
       /\ Covered(box[call.parcel].order, arrived \cup {call.parcel})

CallsKnow == \A h \in Handler : handling[h] # Nothing => CallKnows(handling[h])

ShipmentsInv ==
  /\ ShipmentsTypeOK
  /\ FulfilmentOnlyAfterSale
  /\ BoxesKnow
  /\ StatusesKnown
  /\ CallsKnow

-----------------------------------------------------------------------------
(* Routes and sums.                                                        *)

LEMMA LeastOfFour ==
  ASSUME NEW L, L \subseteq 1 .. 4, L # {}
  PROVE  \E n \in L : \A m \in L : n =< m
<1>1. CASE 1 \in L
  BY <1>1
<1>2. CASE 1 \notin L /\ 2 \in L
  BY <1>2
<1>3. CASE 1 \notin L /\ 2 \notin L /\ 3 \in L
  BY <1>3
<1>4. CASE 1 \notin L /\ 2 \notin L /\ 3 \notin L
  <2>1. \A m \in L : m = 4
    BY <1>4
  <2>2. PICK n \in L : TRUE
    OBVIOUS
  <2>. QED
    BY <2>1, <2>2
<1>. QED
  BY <1>1, <1>2, <1>3, <1>4

\* _fulfilment_path finds a legal route through the safe statuses, or none.
LEMMA RouteIsLegal ==
  ASSUME NEW s \in Status, NEW t \in {"shipped", "out_for_delivery", "delivered"},
         Route[s][t] # <<>>
  PROVE  \E n \in 1 .. 4 : Route[s][t] \in Routes(s, t, n)
<1> DEFINE lengths == {n \in 1 .. 4 : Routes(s, t, n) # {}}
<1>1. Route[s][t] = FulfilmentPath(s, t)
  BY DEF Route
<1>2. /\ lengths # {}
      /\ Route[s][t] = CHOOSE route \in Routes(s, t, Min(lengths)) : TRUE
  BY <1>1 DEF FulfilmentPath
<1>3. \E n \in lengths : \A m \in lengths : n =< m
  <2>1. lengths \subseteq 1 .. 4
    OBVIOUS
  <2>. HIDE DEF lengths
  <2>. QED
    BY <1>2, <2>1, LeastOfFour
<1>4. Min(lengths) \in lengths
  <2>. HIDE DEF lengths
  <2>. QED
    BY <1>3 DEF Min
<1>5. /\ Min(lengths) \in 1 .. 4
      /\ Routes(s, t, Min(lengths)) # {}
  BY <1>4
<1>6. Route[s][t] \in Routes(s, t, Min(lengths))
  <2>. HIDE DEF lengths
  <2>. QED
    BY <1>2, <1>5
<1>. QED
  BY <1>5, <1>6

LEMMA RouteSteps ==
  ASSUME NEW s \in Status, NEW t \in {"shipped", "out_for_delivery", "delivered"},
         NEW route, route = Route[s][t]
  PROVE  /\ route \in Seq(Safe)
         /\ \A i \in 2 .. Len(route) : route[i] \in TRANSITIONS[route[i - 1]]
         /\ route # <<>> => route[Len(route)] = t
<1>1. CASE route = <<>>
  BY <1>1
<1>2. CASE route # <<>>
  <2>1. PICK n \in 1 .. 4 : route \in Routes(s, t, n)
    BY <1>2, RouteIsLegal
  <2>2. route \in [1 .. n -> Safe]
    BY <2>1 DEF Routes
  <2>3. route \in Seq(Safe) /\ Len(route) = n
    <3>1. n \in Nat
      OBVIOUS
    <3>. QED
      BY <2>2, <3>1
  <2>. QED
    BY <2>1, <2>3 DEF Routes
<1>. QED
  BY <1>1, <1>2

LEMMA ParcelFinite == IsFiniteSet(Parcel)
BY ShipmentsAssumption, FS_Interval DEF Parcel

\* More parcels hold more units.
LEMMA MoreParcels ==
  ASSUME NEW b, NEW c, NEW v \in Variant, NEW T \in SUBSET Parcel, NEW S \in SUBSET T,
         \A n \in T : c[n].items[v] \in Nat,
         \A n \in S : b[n] = c[n]
  PROVE  /\ TotalOver([n \in S |-> b[n].items[v]], S)
              <= TotalOver([n \in T |-> c[n].items[v]], T)
         /\ TotalOver([n \in S |-> b[n].items[v]], S) \in Nat
         /\ TotalOver([n \in T |-> c[n].items[v]], T) \in Nat
<1> DEFINE before == [n \in S |-> b[n].items[v]]
           after == [n \in T |-> c[n].items[v]]
<1>1. IsFiniteSet(T) /\ IsFiniteSet(S)
  BY ParcelFinite, FS_Subset
<1>2. \A n \in T : after[n] \in Nat
  OBVIOUS
<1>3. \A n \in S : before[n] = after[n] /\ before[n] \in Nat
  OBVIOUS
<1>. HIDE DEF before, after
<1>4. TotalOver(before, S) = TotalOver(after, S)
  BY <1>3, TotalOfSame
<1>5. TotalOver(after, S) <= TotalOver(after, T)
  BY <1>1, <1>2, TotalOfFewer
<1>6. TotalOver(before, S) \in Nat /\ TotalOver(after, T) \in Nat
  BY <1>1, <1>2, <1>3, UnitsFinite
<1>7. TotalOver(before, S) <= TotalOver(after, T)
  BY <1>4, <1>5
<1>. QED
  BY <1>6, <1>7 DEF before, after

\* What covers an order goes on to cover it, as parcels are only added and
\* stay as they were packed.
LEMMA CoveredKept ==
  ASSUME ShipmentsInv, ShipmentsTypeOK', NEW o \in Order, NEW S, NEW T, S \subseteq T,
         Covered(o, S), basket'[o] = basket[o],
         \A n \in Parcel : box[n] # Nothing => box'[n] = box[n]
  PROVE  Covered(o, T)'
<1>. SUFFICES ASSUME NEW v \in Variant
              PROVE  UnitsIn(ParcelsOf(o) \cap T, v)' >= basket'[o][v]
  BY DEF Covered
<1> DEFINE few == ParcelsOf(o) \cap S
           more == (ParcelsOf(o))' \cap T
<1>1. few \in SUBSET more /\ more \in SUBSET Parcel
  BY DEF ParcelsOf
<1>2. \A n \in few : box[n] = box'[n]
  BY DEF ParcelsOf
<1>3. \A n \in more : box'[n].items[v] \in Nat
  BY DEF ParcelsOf, ShipmentsTypeOK, Box
<1>4. /\ UnitsIn(few, v) = TotalOver([n \in few |-> box[n].items[v]], few)
      /\ UnitsIn(ParcelsOf(o) \cap T, v)'
           = TotalOver([n \in more |-> box'[n].items[v]], more)
  BY DEF UnitsIn
<1>5. UnitsIn(few, v) >= basket[o][v]
  BY DEF Covered
<1>6. basket[o][v] \in Nat
  BY DEF ShipmentsInv, ShipmentsTypeOK, TypeOK
<1>. HIDE DEF few, more
<1>7. /\ TotalOver([n \in few |-> box[n].items[v]], few)
           <= TotalOver([n \in more |-> box'[n].items[v]], more)
      /\ TotalOver([n \in few |-> box[n].items[v]], few) \in Nat
      /\ TotalOver([n \in more |-> box'[n].items[v]], more) \in Nat
  BY <1>1, <1>2, <1>3, MoreParcels
<1>8. /\ UnitsIn(ParcelsOf(o) \cap T, v)' >= UnitsIn(few, v)
      /\ UnitsIn(few, v) \in Nat /\ UnitsIn(ParcelsOf(o) \cap T, v)' \in Nat
  BY <1>4, <1>7
<1>. QED
  BY <1>5, <1>6, <1>8

-----------------------------------------------------------------------------
(* Every step keeps the invariant.                                         *)

\* What a worker knows of its update stays true while parcels are added,
\* arrive, and the lines of placed orders stay.
LEMMA CallKept ==
  ASSUME ShipmentsInv, ShipmentsTypeOK', NEW call \in Handling, CallKnows(call),
         \A o \in Order : Placed(o) => basket'[o] = basket[o],
         \A n \in Parcel : box[n] # Nothing => box'[n] = box[n],
         arrived \subseteq arrived'
  PROVE  CallKnows(call)'
<1>1. call.parcel \in Parcel /\ box[call.parcel] # Nothing
  BY DEF CallKnows, Handling
<1>2. box'[call.parcel] = box[call.parcel]
  BY <1>1
<1>3. box[call.parcel].order \in Order /\ Placed(box[call.parcel].order)
  BY <1>1 DEF ShipmentsInv, ShipmentsTypeOK, BoxesKnow, Box
<1>4. PICK o \in Order, S \in SUBSET Parcel, T \in SUBSET Parcel :
        /\ o = box[call.parcel].order
        /\ S = arrived \cup {call.parcel}
        /\ T = arrived' \cup {call.parcel}
  BY <1>1, <1>3 DEF ShipmentsInv, ShipmentsTypeOK
<1>5. Covered(o, S) => Covered(o, T)'
  <2>1. S \subseteq T /\ basket'[o] = basket[o]
    BY <1>3, <1>4
  <2>. QED
    BY <2>1, CoveredKept
<1>6. EndsInDelivery(call.route) =>
        /\ call.new = "delivered"
        /\ Covered(o, T)'
  BY <1>4, <1>5 DEF CallKnows
<1>7. FollowsTable(call.route)
  BY DEF CallKnows
<1>. QED
  BY <1>1, <1>2, <1>4, <1>6, <1>7 DEF CallKnows

\* The part of the invariant that is about the workers.
LEMMA CallsKept ==
  ASSUME ShipmentsInv, ShipmentsTypeOK',
         \A o \in Order : Placed(o) => basket'[o] = basket[o],
         \A n \in Parcel : box[n] # Nothing => box'[n] = box[n],
         arrived \subseteq arrived',
         \A h \in Handler :
           \/ handling'[h] \in {handling[h], Nothing}
           \/ handling'[h] \in Handling /\ CallKnows(handling'[h])
  PROVE  CallsKnow'
<1>. SUFFICES ASSUME NEW h \in Handler, handling'[h] # Nothing
              PROVE  CallKnows(handling[h])'
  BY DEF CallsKnow
<1>1. handling'[h] \in Handling /\ CallKnows(handling'[h])
  <2>1. CASE handling'[h] = handling[h]
    <3>1. handling[h] # Nothing /\ handling[h] \in Handling
      BY <2>1 DEF ShipmentsInv, ShipmentsTypeOK
    <3>. QED
      BY <2>1, <3>1 DEF ShipmentsInv, CallsKnow
  <2>. QED
    BY <2>1
<1>2. PICK call \in Handling : call = handling'[h]
  BY <1>1
<1>3. CallKnows(call)'
  BY <1>1, <1>2, CallKept
<1>. QED
  BY <1>2, <1>3 DEF CallKnows

\* A handler of module Orders leaves the parcels alone, and neither the lines
\* nor the placement of a placed order.
LEMMA OrderStepShipments ==
  ASSUME ShipmentsInv, [Next]_vars, UNCHANGED shipmentVars
  PROVE  ShipmentsInv'
<1>1. TypeOK' /\ FulfilmentOnlyAfterSale'
  BY TypeOKStep, FulfilmentOnlyAfterSaleStep DEF ShipmentsInv, ShipmentsTypeOK
<1>2. UNCHANGED <<box, parcel_status, packing, handling, arrived>>
  BY DEF shipmentVars, parcelVars
<1>3. ShipmentsTypeOK'
  BY <1>1, <1>2 DEF ShipmentsInv, ShipmentsTypeOK
<1>4. \A o \in Order : Placed(o) => Placed(o)' /\ basket'[o] = basket[o]
  BY LinesKept DEF ShipmentsInv, ShipmentsTypeOK
<1>5. /\ \A n \in Parcel : box[n] # Nothing => box[n].order \in Order
      /\ \A p \in Packer : packing[p] # Nothing => packing[p].order \in Order
  BY DEF ShipmentsInv, ShipmentsTypeOK, Box
<1>6. BoxesKnow'
  BY <1>2, <1>4, <1>5 DEF ShipmentsInv, BoxesKnow
<1>7. StatusesKnown'
  BY <1>2 DEF ShipmentsInv, StatusesKnown
<1>8. CallsKnow'
  BY <1>2, <1>3, <1>4, CallsKept
<1>. QED
  BY <1>1, <1>3, <1>6, <1>7, <1>8 DEF ShipmentsInv

\* create_shipment.
LEMMA PackStep ==
  ASSUME ShipmentsInv, NEW p \in Packer, Pack(p)
  PROVE  ShipmentsInv'
<1>1. UNCHANGED vars /\ UNCHANGED handling /\ UNCHANGED arrived
  BY DEF Pack, StartPacking, FinishPacking, LosePacking, parcelVars
<1>2. UNCHANGED basket /\ FulfilmentOnlyAfterSale' /\ TypeOK'
      /\ \A o \in Order : Placed(o)' = Placed(o)
  <2>1. UNCHANGED <<status, stock_committed, basket>>
    BY <1>1 DEF vars, orderVars, stockVars
  <2>2. TypeOK'
    BY <1>1, TypeOKStep DEF ShipmentsInv, ShipmentsTypeOK
  <2>. QED
    BY <2>1, <2>2 DEF ShipmentsInv, FulfilmentOnlyAfterSale, Placed
<1>3. ASSUME NEW o \in Order, NEW items \in [Variant -> 0 .. 2],
             StartPacking(p, o, items)
      PROVE  ShipmentsInv'
  <2>1. [order |-> o, items |-> items] \in Box /\ Placed(o)
    BY <1>3 DEF StartPacking, Box
  <2>2. ShipmentsTypeOK' /\ BoxesKnow' /\ StatusesKnown' /\ UNCHANGED box
    <3>1. ShipmentsTypeOK' /\ UNCHANGED <<box, parcel_status, arrived>>
      BY <1>1, <1>2, <1>3, <2>1
      DEF StartPacking, parcelVars, ShipmentsInv, ShipmentsTypeOK
    <3>2. BoxesKnow'
      BY <1>2, <1>3, <2>1, <3>1
      DEF StartPacking, ShipmentsInv, ShipmentsTypeOK, BoxesKnow, Box
    <3>. QED
      BY <3>1, <3>2 DEF ShipmentsInv, StatusesKnown
  <2>3. CallsKnow'
    BY <1>1, <1>2, <2>2, CallsKept
  <2>. QED
    BY <1>2, <2>2, <2>3 DEF ShipmentsInv
<1>4. ASSUME NEW n \in Parcel, FinishPacking(p, n)
      PROVE  ShipmentsInv'
  <2>1. packing[p] \in Box /\ Placed(packing[p].order) /\ packing[p].order \in Order
    BY <1>4 DEF FinishPacking, ShipmentsInv, ShipmentsTypeOK, BoxesKnow, Box
  <2>2. ShipmentsTypeOK'
    BY <1>1, <1>2, <1>4, <2>1
    DEF FinishPacking, ShipmentsInv, ShipmentsTypeOK, ParcelStatus
  <2>3. BoxesKnow'
    BY <1>2, <1>4, <2>1
    DEF FinishPacking, ShipmentsInv, ShipmentsTypeOK, BoxesKnow, Box
  <2>4. StatusesKnown'
    BY <1>1, <1>4 DEF FinishPacking, ShipmentsInv, ShipmentsTypeOK, StatusesKnown
  <2>5. \A m \in Parcel : box[m] # Nothing => box'[m] = box[m]
    BY <1>4 DEF FinishPacking, ShipmentsInv, ShipmentsTypeOK
  <2>6. CallsKnow'
    BY <1>1, <1>2, <2>2, <2>5, CallsKept
  <2>. QED
    BY <1>2, <2>2, <2>3, <2>4, <2>6 DEF ShipmentsInv
<1>5. ASSUME LosePacking(p)
      PROVE  ShipmentsInv'
  <2>1. ShipmentsTypeOK' /\ UNCHANGED <<box, parcel_status>>
    BY <1>1, <1>2, <1>5
    DEF LosePacking, parcelVars, ShipmentsInv, ShipmentsTypeOK
  <2>2. BoxesKnow' /\ StatusesKnown'
    BY <1>1, <1>2, <1>5, <2>1
    DEF LosePacking, ShipmentsInv, ShipmentsTypeOK, BoxesKnow, StatusesKnown, Box
  <2>3. CallsKnow'
    BY <1>1, <1>2, <2>1, CallsKept
  <2>. QED
    BY <1>2, <2>1, <2>2, <2>3 DEF ShipmentsInv
<1>. QED
  BY <1>3, <1>4, <1>5 DEF Pack

\* The steps of a worker that change nothing but what it has in hand.
LEMMA HandlingStep ==
  ASSUME ShipmentsInv, UNCHANGED <<vars, parcelVars, packing>>, NEW h \in Handler,
         NEW call \in Handling \cup {Nothing}, call # Nothing => CallKnows(call),
         handling' = [handling EXCEPT ![h] = call]
  PROVE  ShipmentsInv'
<1>1. TypeOK' /\ UNCHANGED <<basket, status, stock_committed>>
  BY TypeOKStep DEF ShipmentsInv, ShipmentsTypeOK, vars, orderVars, stockVars
<1>2. UNCHANGED <<box, parcel_status, arrived, packing>>
  BY DEF parcelVars
<1>3. ShipmentsTypeOK'
  BY <1>1, <1>2 DEF ShipmentsInv, ShipmentsTypeOK
<1>4. FulfilmentOnlyAfterSale' /\ BoxesKnow' /\ StatusesKnown'
  BY <1>1, <1>2
  DEF ShipmentsInv, FulfilmentOnlyAfterSale, BoxesKnow, StatusesKnown, Placed
<1>5. \A g \in Handler :
        \/ handling'[g] \in {handling[g], Nothing}
        \/ handling'[g] \in Handling /\ CallKnows(handling'[g])
  <2>. SUFFICES ASSUME NEW g \in Handler
                PROVE  \/ handling'[g] \in {handling[g], Nothing}
                       \/ handling'[g] \in Handling /\ CallKnows(handling'[g])
    OBVIOUS
  <2>1. handling'[g] = handling[g] \/ handling'[g] = call
    BY DEF ShipmentsInv, ShipmentsTypeOK
  <2>2. CASE handling'[g] = handling[g]
    BY <2>2
  <2>3. CASE handling'[g] = call
    BY <2>3
  <2>. QED
    BY <2>1, <2>2, <2>3
<1>6. CallsKnow'
  BY <1>1, <1>2, <1>3, <1>5, CallsKept
<1>. QED
  BY <1>3, <1>4, <1>6 DEF ShipmentsInv

\* _sync_order finds the way only for an order it may deliver.
LEMMA RoutedCall ==
  ASSUME ShipmentsInv, NEW h \in Handler, RouteOrder(h)
  PROVE  /\ handling[h] \in Handling
         /\ \E call \in Handling :
              /\ handling' = [handling EXCEPT ![h] = call]
              /\ call.parcel = handling[h].parcel /\ call.new = handling[h].new
              /\ CallKnows(call)
<1> DEFINE n == handling[h].parcel
           o == box[n].order
           statuses == {parcel_status[m] : m \in ParcelsOf(o) \ {n}}
                         \cup {handling[h].new}
           target == Target(o, statuses)
           route == RouteTo(o, target)
           call == [handling[h] EXCEPT !.step = "routed", !.route = route]
<1>1. /\ handling[h] \in Handling /\ box[n] # Nothing /\ n \in Parcel
      /\ handling' = [handling EXCEPT ![h] = call]
  BY DEF RouteOrder, At, ShipmentsInv, ShipmentsTypeOK, CallsKnow, CallKnows,
         Handling
<1>2. o \in Order /\ status[o] \in Status
  BY <1>1 DEF ShipmentsInv, ShipmentsTypeOK, BoxesKnow, Box, Placed, TypeOK
<1>3. target \in {"shipped", "out_for_delivery", "delivered", status[o]}
  BY DEF Target, TargetUnderWay
<1>4. /\ route \in Seq(Safe)
      /\ FollowsTable(route)
      /\ route # <<>> => target # status[o] /\ route[Len(route)] = target
  <2>. HIDE DEF o, target
  <2>1. CASE target = status[o]
    <3>1. route = <<>>
      BY <2>1 DEF RouteTo
    <3>. QED
      BY <3>1 DEF FollowsTable
  <2>2. CASE target # status[o]
    <3>1. /\ route = Route[status[o]][target]
          /\ target \in {"shipped", "out_for_delivery", "delivered"}
      BY <1>3, <2>2 DEF RouteTo
    <3>. HIDE DEF route
    <3>2. /\ route \in Seq(Safe)
          /\ \A i \in 2 .. Len(route) : route[i] \in TRANSITIONS[route[i - 1]]
          /\ route # <<>> => route[Len(route)] = target
      BY <1>2, <3>1, RouteSteps
    <3>. QED
      BY <2>2, <3>2 DEF FollowsTable
  <2>. QED
    BY <2>1, <2>2
<1>5. /\ call \in Handling /\ call.parcel = n /\ call.new = handling[h].new
      /\ call.route = route
  <2>. HIDE DEF route
  <2>. QED
    BY <1>1, <1>4 DEF Handling
<1>6. ASSUME EndsInDelivery(route)
      PROVE  handling[h].new = "delivered" /\ Covered(o, arrived \cup {n})
  <2>1. target = "delivered" /\ target # status[o]
    BY <1>4, <1>6 DEF EndsInDelivery
  <2>2. statuses = {"delivered"} /\ ~Outstanding(o)
    <3>. HIDE DEF o, statuses
    <3>. QED
      BY <2>1 DEF target, Target, TargetUnderWay
  <2>3. handling[h].new = "delivered"
    BY <2>2
  <2>4. \A m \in ParcelsOf(o) : m \in arrived \cup {n}
    <3>1. \A m \in ParcelsOf(o) \ {n} : parcel_status[m] = "delivered"
      BY <2>2
    <3>. QED
      BY <3>1 DEF ShipmentsInv, StatusesKnown, ParcelsOf
  <2>5. ParcelsOf(o) \cap (arrived \cup {n}) = ParcelsOf(o)
    BY <2>4
  <2>6. \A v \in Variant : UnitsIn(ParcelsOf(o), v) >= basket[o][v]
    <3>. HIDE DEF o
    <3>. SUFFICES ASSUME NEW v \in Variant
                  PROVE  UnitsIn(ParcelsOf(o), v) >= basket[o][v]
      OBVIOUS
    <3>1. ~(Monus(basket[o][v], UnitsIn(ParcelsOf(o), v)) > 0)
      BY <2>2 DEF Outstanding, Remaining
    <3>2. basket[o][v] \in Nat
      BY <1>2 DEF ShipmentsInv, ShipmentsTypeOK, TypeOK
    <3>3. UnitsIn(ParcelsOf(o), v) \in Nat
      <4>1. ParcelsOf(o) \in SUBSET Parcel
        BY DEF ParcelsOf
      <4>2. \A m \in ParcelsOf(o) : box[m].items[v] \in Nat
        BY DEF ParcelsOf, ShipmentsInv, ShipmentsTypeOK, Box
      <4>. QED
        BY <4>1, <4>2, MoreParcels DEF UnitsIn
    <3>. QED
      BY <3>1, <3>2, <3>3 DEF Monus
  <2>. QED
    BY <2>3, <2>5, <2>6 DEF Covered
<1>7. CallKnows(call)
  <2>. HIDE DEF call, route, n
  <2>. QED
    BY <1>1, <1>4, <1>5, <1>6 DEF CallKnows
<1>. QED
  BY <1>1, <1>5, <1>7

\* The commit of an update: its parcel has the new status.
LEMMA CommitUpdate ==
  ASSUME ShipmentsInv, NEW h \in Handler, At(h, "routed"), ParcelMoved(h),
         TypeOK', FulfilmentOnlyAfterSale', UNCHANGED basket,
         \A o \in Order : Placed(o) => Placed(o)'
  PROVE  ShipmentsInv'
<1>1. handling[h] \in Handling
  BY DEF At, ShipmentsInv, ShipmentsTypeOK
<1>2. /\ handling[h].parcel \in Parcel /\ handling[h].new \in ParcelStatus
      /\ arrived \subseteq arrived' /\ arrived' \subseteq Parcel
      /\ handling' = [handling EXCEPT ![h] = Nothing]
      /\ UNCHANGED <<box, packing>>
  BY <1>1 DEF ParcelMoved, Handling, ShipmentsInv, ShipmentsTypeOK
<1>3. ShipmentsTypeOK'
  BY <1>2 DEF ParcelMoved, ShipmentsInv, ShipmentsTypeOK
<1>4. StatusesKnown'
  <2>1. handling[h].new # "none" /\ box[handling[h].parcel] # Nothing
    BY <1>2 DEF At, ShipmentsInv, CallsKnow, CallKnows, ParcelStatus
  <2>. QED
    BY <1>2, <2>1 DEF ParcelMoved, ShipmentsInv, ShipmentsTypeOK, StatusesKnown
<1>5. BoxesKnow'
  BY <1>2 DEF ShipmentsInv, ShipmentsTypeOK, BoxesKnow, Box
<1>6. CallsKnow'
  <2>1. \A g \in Handler : handling'[g] \in {handling[g], Nothing}
    BY <1>2 DEF ShipmentsInv, ShipmentsTypeOK
  <2>. QED
    BY <1>2, <1>3, <2>1, CallsKept
<1>. QED
  BY <1>3, <1>4, <1>5, <1>6 DEF ShipmentsInv

\* The walk starts where the table allows it and keeps to the safe statuses:
\* it confirms the order on the way, or the order was in fulfilment.
LEMMA WalkFacts ==
  ASSUME ShipmentsInv, NEW h \in Handler, Walk(h)
  PROVE  LET o == box[handling[h].parcel].order
             route == handling[h].route
         IN  /\ handling[h] \in Handling /\ CallKnows(handling[h])
             /\ o \in Order /\ status[o] \in Status
             /\ route \in Seq(Safe) /\ route # <<>>
             /\ route[Len(route)] \in Safe
             /\ route[1] \in TRANSITIONS[status[o]] \cap Safe
<1>1. /\ handling[h] \in Handling /\ CallKnows(handling[h])
      /\ handling[h].route # <<>>
      /\ handling[h].route[1] \in
           TRANSITIONS[status[box[handling[h].parcel].order]]
  BY DEF Walk, At, Legal, ShipmentsInv, ShipmentsTypeOK, CallsKnow
<1>2. handling[h].parcel \in Parcel /\ box[handling[h].parcel] # Nothing
  BY <1>1 DEF Handling, CallKnows
<1>3. /\ box[handling[h].parcel].order \in Order
      /\ status[box[handling[h].parcel].order] \in Status
  BY <1>2 DEF ShipmentsInv, ShipmentsTypeOK, BoxesKnow, Box, Placed, TypeOK
<1>4. handling[h].route \in Seq(Safe)
  BY <1>1 DEF Handling
<1>5. handling[h].route[Len(handling[h].route)] \in Safe /\ handling[h].route[1] \in Safe
  BY <1>1, <1>4
<1>. QED
  BY <1>1, <1>3, <1>4, <1>5

LEMMA WalkStep ==
  ASSUME ShipmentsInv, NEW h \in Handler, Walk(h)
  PROVE  ShipmentsInv'
<1> DEFINE o == box[handling[h].parcel].order
           route == handling[h].route
           last == route[Len(route)]
           confirms == \E i \in DOMAIN route : route[i] = "confirmed"
<1>1. /\ o \in Order /\ status[o] \in Status
      /\ route \in Seq(Safe) /\ route # <<>>
      /\ last \in Safe
      /\ route[1] \in TRANSITIONS[status[o]] \cap Safe
  BY WalkFacts
<1>2. /\ status' = [status EXCEPT ![o] = last]
      /\ IF confirms THEN CommitStock(o)
                     ELSE UNCHANGED <<inventory, stock_committed, commits>>
      /\ payment_status' =
           IF last = "delivered" /\ payment_method[o] = "cod"
           THEN [payment_status EXCEPT ![o] = "paid"] ELSE payment_status
      /\ UNCHANGED <<payment_method, basket, restores, couponVars, requestVars>>
      /\ At(h, "routed") /\ ParcelMoved(h)
  BY DEF Walk
<1>3. ~confirms => status[o] \in Fulfilling
  <2>1. ~confirms => route[1] # "confirmed"
    BY <1>1
  <2>. HIDE DEF o, route, last, confirms
  <2>. QED
    BY <1>1, <2>1 DEF TRANSITIONS, Safe, Status, Fulfilling
<1>4. Safe \subseteq Status /\ "none" \notin Safe
  BY DEF Safe, Status
<1>. HIDE DEF o, route, last, confirms
<1>5. TypeOK'
  <2>1. status' \in [Order -> Status \cup {"none"}]
    BY <1>1, <1>2, <1>4 DEF ShipmentsInv, ShipmentsTypeOK, TypeOK
  <2>2. payment_status' \in [Order -> PaymentStatus]
    BY <1>1, <1>2 DEF ShipmentsInv, ShipmentsTypeOK, TypeOK, PaymentStatus
  <2>3. /\ inventory' \in [Variant -> Row]
        /\ stock_committed' \in [Order -> BOOLEAN] /\ commits' \in [Order -> Nat]
    BY <1>1, <1>2, CommitStockType DEF ShipmentsInv, ShipmentsTypeOK, TypeOK
  <2>. QED
    BY <1>2, <2>1, <2>2, <2>3
    DEF ShipmentsInv, ShipmentsTypeOK, TypeOK, couponVars, requestVars
<1>6. FulfilmentOnlyAfterSale'
  <2>1. CASE confirms
    BY <1>1, <1>2, <2>1
    DEF CommitStock, ShipmentsInv, ShipmentsTypeOK, TypeOK, FulfilmentOnlyAfterSale
  <2>2. CASE ~confirms
    BY <1>1, <1>2, <1>3, <2>2
    DEF ShipmentsInv, ShipmentsTypeOK, TypeOK, FulfilmentOnlyAfterSale
  <2>. QED
    BY <2>1, <2>2
<1>7. \A p \in Order : Placed(p) => Placed(p)'
  BY <1>1, <1>2, <1>4 DEF ShipmentsInv, ShipmentsTypeOK, TypeOK, Placed
<1>. QED
  BY <1>2, <1>5, <1>6, <1>7, CommitUpdate

LEMMA ShipmentsInvStep == ShipmentsInv /\ [ShipmentsNext]_allVars => ShipmentsInv'
<1>. SUFFICES ASSUME ShipmentsInv, [ShipmentsNext]_allVars
              PROVE  ShipmentsInv'
  OBVIOUS
<1>1. ASSUME NEW o \in Order, OrderStep(o)
      PROVE  ShipmentsInv'
  <2>1. Next /\ UNCHANGED shipmentVars
    BY <1>1, ShipmentsAssumption DEF OrderStep, Next
  <2>. QED
    BY <2>1, OrderStepShipments
<1>2. ASSUME NEW h \in Handler, NEW n \in Parcel, NEW new \in Updates,
             LoadParcel(h, n, new)
      PROVE  ShipmentsInv'
  <2> DEFINE call == [parcel |-> n, seen |-> parcel_status[n], new |-> new,
                      step |-> "loaded", route |-> <<>>]
  <2>1. box[n] # Nothing /\ handling' = [handling EXCEPT ![h] = call]
        /\ UNCHANGED <<vars, parcelVars, packing>>
    BY <1>2 DEF LoadParcel
  <2>2. parcel_status[n] \in ParcelStatus
    BY <2>1 DEF ShipmentsInv, ShipmentsTypeOK, StatusesKnown
  <2>3. call \in Handling /\ CallKnows(call)
    BY <2>1, <2>2, ShipmentsAssumption
    DEF Handling, CallKnows, FollowsTable, EndsInDelivery
  <2>. QED
    BY <2>1, <2>3, HandlingStep
<1>3. ASSUME NEW h \in Handler, RepeatUpdate(h) \/ LoseUpdate(h)
      PROVE  ShipmentsInv'
  BY <1>3, HandlingStep DEF RepeatUpdate, LoseUpdate
<1>4. ASSUME NEW h \in Handler, RouteOrder(h)
      PROVE  ShipmentsInv'
  <2>1. UNCHANGED <<vars, parcelVars, packing>>
    BY <1>4 DEF RouteOrder
  <2>. QED
    BY <1>4, <2>1, RoutedCall, HandlingStep
<1>5. ASSUME NEW h \in Handler, Stay(h)
      PROVE  ShipmentsInv'
  <2>1. TypeOK' /\ FulfilmentOnlyAfterSale'
    BY <1>5, TypeOKStep, FulfilmentOnlyAfterSaleStep
    DEF Stay, ShipmentsInv, ShipmentsTypeOK
  <2>2. UNCHANGED <<basket, status>>
    BY <1>5 DEF Stay, vars, orderVars
  <2>. QED
    BY <1>5, <2>1, <2>2, CommitUpdate DEF Stay, Placed
<1>6. CASE UNCHANGED allVars
  BY <1>6, OrderStepShipments DEF allVars
<1>. QED
  BY <1>1, <1>2, <1>3, <1>4, <1>5, <1>6, WalkStep, PackStep DEF ShipmentsNext, Record

LEMMA InitShipmentsInv == ShipmentsInit => ShipmentsInv
<1>. SUFFICES ASSUME ShipmentsInit PROVE ShipmentsInv
  OBVIOUS
<1>1. ShipmentsTypeOK
  BY InitTypeOK DEF ShipmentsInit, ShipmentsTypeOK
<1>2. FulfilmentOnlyAfterSale
  BY DEF ShipmentsInit, Init, FulfilmentOnlyAfterSale, Fulfilling
<1>3. BoxesKnow /\ StatusesKnown /\ CallsKnow
  BY DEF ShipmentsInit, BoxesKnow, StatusesKnown, CallsKnow
<1>. QED
  BY <1>1, <1>2, <1>3 DEF ShipmentsInv

LEMMA ShipmentsInvariance == ShipmentsSpec => []ShipmentsInv
BY InitShipmentsInv, ShipmentsInvStep, PTL DEF ShipmentsSpec

\* Every value the orders and the parcels take is one the code can write.
THEOREM ShipmentsTypeCorrect == ShipmentsSpec => []ShipmentsTypeOK
<1>1. ShipmentsInv => ShipmentsTypeOK
  BY DEF ShipmentsInv
<1>. QED
  BY <1>1, ShipmentsInvariance, PTL

\* No parcel takes an order into fulfilment past its sale: a route worked out
\* without the order's lock either confirms the order on its way, which sells
\* its units, or starts at an order already in fulfilment when it is walked.
THEOREM ParcelsFollowSales == ShipmentsSpec => []FulfilmentOnlyAfterSale
<1>1. ShipmentsInv => FulfilmentOnlyAfterSale
  BY DEF ShipmentsInv
<1>. QED
  BY <1>1, ShipmentsInvariance, PTL

-----------------------------------------------------------------------------
(* What a parcel may do to its order.                                      *)

\* Only the commit of an update is a step of the parcels.
LEMMA ParcelStepCommits ==
  ASSUME ShipmentsInv, [ShipmentsNext]_allVars, ParcelStep
  PROVE  \E h \in Handler : Walk(h) \/ Stay(h)
<1>1. ~UNCHANGED parcel_status
  BY DEF ParcelStep
<1>2. ASSUME NEW p \in Packer, NEW n \in Parcel, FinishPacking(p, n)
      PROVE  FALSE
  <2>1. parcel_status[n] = "none"
    BY <1>2 DEF FinishPacking, ShipmentsInv, StatusesKnown
  <2>. QED
    BY <1>2, <2>1 DEF FinishPacking, ParcelStep, ShipmentsInv, ShipmentsTypeOK
<1>. QED
  BY <1>1, <1>2
  DEF ShipmentsNext, OrderStep, Pack, StartPacking, LosePacking, LoadParcel,
      Record, RepeatUpdate, RouteOrder, LoseUpdate, allVars, shipmentVars,
      parcelVars

\* Neither the parcels nor anything else takes an order back from where it
\* was closed: the way from a return request leads to delivery only.
LEMMA WalkReopensNothing ==
  ASSUME ShipmentsInv, NEW h \in Handler, Walk(h), NEW o \in Order,
         status[o] \notin Safe \cup {"none"}
  PROVE  \/ status'[o] = status[o]
         \/ status[o] = "return_requested" /\ status'[o] = "delivered"
<1> DEFINE route == handling[h].route
           mine == box[handling[h].parcel].order
<1>1. /\ mine \in Order /\ status[mine] \in Status
      /\ route \in Seq(Safe) /\ route # <<>>
      /\ route[1] \in TRANSITIONS[status[mine]] \cap Safe
      /\ FollowsTable(route)
  BY WalkFacts DEF CallKnows
<1>2. status' = [status EXCEPT ![mine] = route[Len(route)]]
  BY DEF Walk
<1>. HIDE DEF route, mine
<1>3. CASE o # mine
  BY <1>1, <1>2, <1>3 DEF ShipmentsInv, ShipmentsTypeOK, TypeOK
<1>4. CASE o = mine
  <2>1. status[o] = "return_requested" /\ route[1] = "delivered"
    BY <1>1, <1>4 DEF TRANSITIONS, Safe, Status
  <2>2. ASSUME Len(route) > 1
        PROVE  FALSE
    <3>1. route[2] \in TRANSITIONS["delivered"] /\ route[2] \in Safe
      BY <1>1, <2>1, <2>2 DEF FollowsTable
    <3>. QED
      BY <3>1 DEF TRANSITIONS, Status, Safe
  <2>3. Len(route) = 1
    <3>1. Len(route) \in Nat /\ Len(route) # 0
      BY <1>1
    <3>2. PICK k \in Nat : k = Len(route)
      BY <3>1
    <3>3. ~(k > 1)
      BY <2>2, <3>2
    <3>4. k = 1
      BY <3>1, <3>2, <3>3
    <3>. QED
      BY <3>2, <3>4
  <2>. QED
    BY <1>1, <1>2, <1>4, <2>1, <2>3 DEF ShipmentsInv, ShipmentsTypeOK, TypeOK
<1>. QED
  BY <1>3, <1>4

\* A carrier's update never takes an order out of cancellation, return or
\* refund, even on a route worked out before the order got there: every step
\* is looked up in TRANSITIONS again, and none leads from there to a safe
\* status but the one that closes a return request.
THEOREM NothingReopened == ShipmentsSpec => ParcelsReopenNothing
<1>1. ShipmentsInv /\ [ShipmentsNext]_allVars =>
        (\A o \in Order :
           ParcelStep /\ status[o] \notin Safe \cup {"none"} =>
             \/ status'[o] = status[o]
             \/ status[o] = "return_requested" /\ status'[o] = "delivered")
  <2>. SUFFICES ASSUME ShipmentsInv, [ShipmentsNext]_allVars, NEW o \in Order,
                       ParcelStep, status[o] \notin Safe \cup {"none"}
                PROVE  \/ status'[o] = status[o]
                       \/ /\ status[o] = "return_requested"
                          /\ status'[o] = "delivered"
    OBVIOUS
  <2>1. PICK h \in Handler : Walk(h) \/ Stay(h)
    BY ParcelStepCommits
  <2>2. CASE Stay(h)
    BY <2>2 DEF Stay, vars, orderVars
  <2>. QED
    BY <2>1, <2>2, WalkReopensNothing
<1>. QED
  BY <1>1, ShipmentsInvariance, PTL DEF ShipmentsSpec, ParcelsReopenNothing

\* The parcels deliver an order only when all of its units arrived: what
\* remaining_to_ship and the other parcels' statuses said when the route was
\* worked out, without any lock, still holds when it is walked.
THEOREM DeliveredWhenAllArrived == ShipmentsSpec => DeliveredComplete
<1>1. ASSUME ShipmentsInv, NEW h \in Handler, Walk(h), NEW o \in Order,
             status[o] # "delivered", status'[o] = "delivered"
      PROVE  \A v \in Variant :
               UnitsIn(ParcelsOf(o) \cap arrived', v) >= basket[o][v]
  <2> DEFINE call == handling[h]
             mine == box[call.parcel].order
  <2>1. /\ mine \in Order /\ CallKnows(call) /\ call.route # <<>>
        /\ status' = [status EXCEPT ![mine] = call.route[Len(call.route)]]
    BY <1>1, WalkFacts DEF Walk
  <2>2. o = mine
    BY <1>1, <2>1 DEF ShipmentsInv, ShipmentsTypeOK, TypeOK
  <2>3. call.route[Len(call.route)] = "delivered"
    BY <1>1, <2>1, <2>2 DEF ShipmentsInv, ShipmentsTypeOK, TypeOK
  <2>4. call.new = "delivered" /\ Covered(o, arrived \cup {call.parcel})
    BY <2>1, <2>2, <2>3 DEF CallKnows, EndsInDelivery
  <2>5. arrived' = arrived \cup {call.parcel}
    BY <1>1, <2>4 DEF Walk, ParcelMoved
  <2>. QED
    BY <2>4, <2>5 DEF Covered
<1>2. ShipmentsInv /\ [ShipmentsNext]_allVars =>
        (\A o \in Order :
           ParcelStep /\ status[o] # "delivered" /\ status'[o] = "delivered" =>
             \A v \in Variant :
               UnitsIn(ParcelsOf(o) \cap arrived', v) >= basket[o][v])
  <2>. SUFFICES ASSUME ShipmentsInv, [ShipmentsNext]_allVars, NEW o \in Order,
                       ParcelStep, status[o] # "delivered",
                       status'[o] = "delivered"
                PROVE  \A v \in Variant :
                         UnitsIn(ParcelsOf(o) \cap arrived', v) >= basket[o][v]
    OBVIOUS
  <2>1. PICK h \in Handler : Walk(h) \/ Stay(h)
    BY ParcelStepCommits
  <2>2. ~Stay(h)
    BY DEF Stay, vars, orderVars
  <2>. QED
    BY <1>1, <2>1, <2>2
<1>. QED
  BY <1>2, ShipmentsInvariance, PTL DEF ShipmentsSpec, DeliveredComplete
=============================================================================
