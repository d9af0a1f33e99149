------------------------------- MODULE Carts -------------------------------
(***************************************************************************)
(* A customer's carts: the guest cart of the session, the cart of the      *)
(* account it is folded into after signing in, and the wishlist whose      *)
(* items move into the cart (src/apps/cart/services.py, cart/views.py,     *)
(* cart/middleware.py, wishlist/views.py).                                 *)
(*                                                                         *)
(* add_to_cart, update_quantity and merge_carts are transactions that lock *)
(* the rows they change; rows they create are unique, so the second of two *)
(* that create the same row fails and changes nothing.  The buttons of the *)
(* cart page read a row first and set it later, and a wish is read, its    *)
(* ware put into the cart and the wish deleted in three steps.  The cart   *)
(* page and the checkout read all rows and then trim them one by one, with *)
(* no lock.  Requests of one session read the session when they begin and  *)
(* store it when they end.                                                 *)
(***************************************************************************)
EXTENDS Integers

CONSTANTS
  Ware,       \* what can be put into a cart
  Shelves,    \* bound: what may be sellable of each
  CartLimit,  \* MAX_CART_QUANTITY_PER_ITEM
  Visit,      \* requests of the session under way
  MaxPut,     \* bound: units put into carts
  NoVoucher

ASSUME CartsAssumption == Shelves \subseteq Nat /\ CartLimit \in Nat /\ MaxPut \in Nat

VARIABLES
  shelf,      \* sellable units
  signed,     \* signed in
  guest,      \* the guest cart's rows; zero is no row
  guestThere, \* the guest cart exists
  owned,      \* the account's cart
  vouchers,   \* the coupon on each cart: [guest, owned]
  pending,    \* the session names a guest cart to merge
  request,    \* what each request is at
  put,        \* units the customer has put into the carts, ever
  wished      \* the wares on the wishlist

cartVars == <<shelf, signed, guest, guestThere, owned, vouchers, pending,
              request, put, wished>>
sessionVars == <<signed, pending, guestThere, vouchers>>

RequestAt == {"idle", "pressed", "moving", "moved", "trimmingGuest", "trimming",
              "merging", "ending"}

\* A request: the row it read, or the wishes it read and those still theirs,
\* or the rows it found over what was sellable, and what that was.
CartRequest ==
  [at : RequestAt, ware : Ware \cup {NoVoucher}, quantity : Int,
   wishes : SUBSET Ware, rows : SUBSET Ware,
   over : SUBSET Ware, ceiling : [Ware -> 0 .. CartLimit]]

NoRequest == [at |-> "idle", ware |-> NoVoucher, quantity |-> 0,
              wishes |-> {}, rows |-> {},
              over |-> {}, ceiling |-> [w \in Ware |-> 0]]

CartsInit ==
  /\ shelf \in [Ware -> Shelves]
  /\ signed = FALSE /\ pending = FALSE /\ guestThere = FALSE
  /\ guest = [w \in Ware |-> 0] /\ owned = [w \in Ware |-> 0]
  /\ vouchers = [guest |-> NoVoucher, owned |-> NoVoucher]
  /\ request = [r \in Visit |-> NoRequest]
  /\ put = [w \in Ware |-> 0]
  /\ wished = {}

Ceil(w) == IF shelf[w] < CartLimit THEN shelf[w] ELSE CartLimit

AtMost(n, most) == IF n < most THEN n ELSE most

\* add_to_cart as a guest; get_cart notes the cart in the session.
AddAsGuest(w, n) ==
  LET final == AtMost(guest[w] + n, Ceil(w))
  IN  /\ ~signed
      /\ shelf[w] > 0 /\ final > guest[w]
      /\ put[w] + n <= MaxPut
      /\ guest' = [guest EXCEPT ![w] = final]
      /\ put' = [put EXCEPT ![w] = @ + final - guest[w]]
      /\ guestThere' = TRUE /\ pending' = TRUE
      /\ UNCHANGED <<shelf, signed, owned, vouchers, request, wished>>

\* add_to_cart finds something to sell, and room in the row for more of it.
Takes(w) == shelf[w] > 0 /\ owned[w] < Ceil(w)

PutIn(w, n) ==
  LET final == AtMost(owned[w] + n, Ceil(w))
  IN  /\ put[w] + n <= MaxPut
      /\ owned' = [owned EXCEPT ![w] = final]
      /\ put' = [put EXCEPT ![w] = @ + final - owned[w]]

AddAsOwner(w, n) ==
  /\ signed /\ Takes(w)
  /\ PutIn(w, n)
  /\ UNCHANGED <<shelf, guest, sessionVars, request, wished>>

\* What update_quantity makes of a row.  Nothing left to sell is an error,
\* and the error undoes the removal it reports.
Updated(w, n) ==
  IF n <= 0 THEN 0
  ELSE IF Ceil(w) = 0 THEN owned[w]
  ELSE AtMost(n, Ceil(w))

SetRow(w, n) ==
  /\ owned[w] > 0
  /\ owned' = [owned EXCEPT ![w] = Updated(w, n)]
  /\ put' = [put EXCEPT ![w] = @ + IF owned'[w] > owned[w]
                                   THEN owned'[w] - owned[w] ELSE 0]
  /\ put'[w] <= MaxPut

UpdateQuantity(w, n) ==
  /\ signed
  /\ SetRow(w, n)
  /\ UNCHANGED <<shelf, guest, sessionVars, request, wished>>

\* increment and decrement: the row is read ...
PressButton(r, w, step) ==
  /\ signed /\ request[r].at = "idle"
  /\ request' = [request EXCEPT ![r] = [NoRequest EXCEPT
       !.at = "pressed", !.ware = w, !.quantity = owned[w] + step]]
  /\ UNCHANGED <<shelf, guest, owned, sessionVars, put, wished>>

\* ... and set to one more or less than it was, if it is still there.
FinishButton(r) ==
  LET w == request[r].ware
  IN  /\ request[r].at = "pressed"
      /\ IF owned[w] > 0 THEN SetRow(w, request[r].quantity)
                         ELSE UNCHANGED <<owned, put>>
      /\ request' = [request EXCEPT ![r] = NoRequest]
      /\ UNCHANGED <<shelf, guest, sessionVars, wished>>

RemoveRow(w) ==
  /\ signed /\ owned[w] > 0
  /\ owned' = [owned EXCEPT ![w] = 0]
  /\ UNCHANGED <<shelf, guest, sessionVars, request, put, wished>>

-----------------------------------------------------------------------------
(* The wishlist, for the signed in.                                        *)

\* toggle saves what is not on the list.
Wish(w) ==
  /\ signed /\ w \notin wished
  /\ wished' = wished \cup {w}
  /\ UNCHANGED <<shelf, guest, owned, sessionVars, request, put>>

\* toggle and remove take one away, clear all of them, whoever has read them.
DropWishes(W) ==
  /\ signed /\ W # {}
  /\ wished' = wished \ W
  /\ request' = [r \in Visit |-> [request[r] EXCEPT !.rows = @ \ W]]
  /\ UNCHANGED <<shelf, guest, owned, sessionVars, put>>

\* move_to_cart reads one wish, move_all_to_cart the list ...
ReadWishes(r, W) ==
  /\ signed /\ request[r].at = "idle" /\ W # {}
  /\ request' = [request EXCEPT ![r] = [NoRequest EXCEPT
                                         !.at = "moving", !.wishes = W, !.rows = W]]
  /\ UNCHANGED <<shelf, guest, owned, sessionVars, put, wished>>

\* ... then each is put into the cart, whether or not the wish is still there ...
MoveToCart(r, w) ==
  /\ request[r].at = "moving" /\ w \in request[r].wishes
  /\ Takes(w) /\ PutIn(w, 1)
  /\ request' = [request EXCEPT
       ![r].at = "moved", ![r].ware = w, ![r].wishes = @ \ {w}]
  /\ UNCHANGED <<shelf, guest, sessionVars, wished>>

\* ... or stays on the list when the cart does not take it ...
KeepWish(r, w) ==
  /\ request[r].at = "moving" /\ w \in request[r].wishes
  /\ ~Takes(w)
  /\ request' = [request EXCEPT ![r].wishes = @ \ {w}]
  /\ UNCHANGED <<shelf, guest, owned, sessionVars, put, wished>>

\* ... and the wish is deleted, if it is still the one that was read.
DeleteWish(r) ==
  LET W == {request[r].ware} \cap request[r].rows
  IN  /\ request[r].at = "moved"
      /\ wished' = wished \ W
      /\ request' = [v \in Visit |->
           [request[v] EXCEPT !.rows = @ \ W,
                              !.at = IF v = r THEN "moving" ELSE @]]
      /\ UNCHANGED <<shelf, guest, owned, sessionVars, put>>

FinishMoving(r) ==
  /\ request[r].at = "moving" /\ request[r].wishes = {}
  /\ request' = [request EXCEPT ![r] = NoRequest]
  /\ UNCHANGED <<shelf, guest, owned, sessionVars, put, wished>>

-----------------------------------------------------------------------------
(* Coupons, stock and signing in.                                          *)

\* A valid coupon is attached to the cart of the moment.
Attach(code) ==
  /\ vouchers' = IF signed THEN [vouchers EXCEPT !.owned = code]
                           ELSE [vouchers EXCEPT !.guest = code]
  /\ signed \/ guestThere
  /\ UNCHANGED <<shelf, signed, guest, guestThere, owned, pending, request, put, wished>>

\* clamp_cart_to_stock, when checkout or the cart page opens: the rows of the
\* cart are read, with what is sellable of each ...
ReadForClamp(r) ==
  LET cart == IF signed THEN owned ELSE guest
      over == {w \in Ware : cart[w] > Ceil(w)}
  IN  /\ request[r].at = "idle" /\ over # {}
      /\ request' = [request EXCEPT ![r] = [NoRequest EXCEPT
           !.at = IF signed THEN "trimming" ELSE "trimmingGuest",
           !.over = over, !.ceiling = [w \in Ware |-> Ceil(w)]]]
      /\ UNCHANGED <<shelf, guest, owned, sessionVars, put, wished>>

\* ... and those over it are cut to that, or deleted, one after the other,
\* whatever they hold by now.  A row that is gone cannot be saved: the request
\* ends there, with an error.
ClampRow(r, w) ==
  LET account == request[r].at = "trimming"
      cart == IF account THEN owned ELSE guest
      most == request[r].ceiling[w]
      cut == IF cart[w] = 0 THEN cart ELSE [cart EXCEPT ![w] = most]
      left == request[r].over \ {w}
  IN  /\ request[r].at \in {"trimming", "trimmingGuest"} /\ w \in request[r].over
      /\ owned' = IF account THEN cut ELSE owned
      /\ guest' = IF account THEN guest ELSE cut
      /\ request' = [request EXCEPT
           ![r] = IF left = {} \/ (cart[w] = 0 /\ most > 0)
                  THEN NoRequest ELSE [@ EXCEPT !.over = left]]
      /\ UNCHANGED <<shelf, sessionVars, put, wished>>

SignIn ==
  /\ ~signed
  /\ signed' = TRUE
  /\ UNCHANGED <<shelf, guest, guestThere, owned, vouchers, pending, request, put, wished>>

\* CartMergeMiddleware: the session's note is taken, the guest cart found.
FindGuestCart(r) ==
  /\ signed /\ pending /\ request[r].at = "idle"
  /\ request' = [request EXCEPT
                   ![r].at = IF guestThere THEN "merging" ELSE "ending"]
  /\ UNCHANGED <<shelf, guest, owned, sessionVars, put, wished>>

\* The rows of the guest cart that can still be bought go over.
Folded(w) ==
  IF guest[w] = 0 \/ Ceil(w) = 0 THEN owned[w]
  ELSE AtMost(owned[w] + guest[w], Ceil(w))

\* Mutant: the guest cart is left where it is.
MergeCartsKeepsGuest(r) ==
  /\ request[r].at = "merging"
  /\ owned' = [w \in Ware |-> Folded(w)]
  /\ request' = [request EXCEPT ![r].at = "ending"]
  /\ UNCHANGED <<shelf, guest, sessionVars, put, wished>>

\* merge_carts: a second request finds the guest cart's rows gone.
MergeCarts(r) ==
  /\ request[r].at = "merging"
  /\ owned' = [w \in Ware |-> Folded(w)]
  /\ vouchers' = [guest |-> NoVoucher,
                  owned |-> IF vouchers.owned = NoVoucher THEN vouchers.guest
                                                          ELSE vouchers.owned]
  /\ guest' = [w \in Ware |-> 0] /\ guestThere' = FALSE
  /\ request' = [request EXCEPT ![r].at = "ending"]
  /\ UNCHANGED <<shelf, signed, pending, put, wished>>

\* A merge that fails is logged and not tried again.
MergeFails(r) ==
  /\ request[r].at = "merging"
  /\ request' = [request EXCEPT ![r].at = "ending"]
  /\ UNCHANGED <<shelf, guest, owned, sessionVars, put, wished>>

\* The session is stored without its note.
EndRequest(r) ==
  /\ request[r].at = "ending"
  /\ pending' = FALSE
  /\ request' = [request EXCEPT ![r] = NoRequest]
  /\ UNCHANGED <<shelf, signed, guest, guestThere, owned, vouchers, put, wished>>

\* Others buy, or the shelf is filled.
ShelfChanges(w, n) ==
  /\ shelf' = [shelf EXCEPT ![w] = n]
  /\ UNCHANGED <<guest, owned, sessionVars, request, put, wished>>

CartsNext ==
  \/ \E w \in Ware, n \in 1 .. 2 :
       AddAsGuest(w, n) \/ AddAsOwner(w, n) \/ UpdateQuantity(w, n - 1)
  \/ \E w \in Ware : RemoveRow(w) \/ \E n \in Shelves : ShelfChanges(w, n)
  \/ \E w \in Ware : Wish(w)
  \/ \E W \in {{w} : w \in wished} \cup {wished} :
       DropWishes(W) \/ \E r \in Visit : ReadWishes(r, W)
  \/ Attach("code") \/ SignIn
  \/ \E r \in Visit :
       \/ \E w \in Ware, step \in {-1, 1} : PressButton(r, w, step)
       \/ \E w \in Ware : MoveToCart(r, w) \/ KeepWish(r, w) \/ ClampRow(r, w)
       \/ ReadForClamp(r)
       \/ DeleteWish(r) \/ FinishMoving(r)
       \/ FinishButton(r) \/ FindGuestCart(r) \/ MergeCarts(r) \/ MergeFails(r)
       \/ EndRequest(r)

CartsSpec == CartsInit /\ [][CartsNext]_cartVars

-----------------------------------------------------------------------------
(* Properties.                                                             *)

\* Types; a button pressed and a ware moved are about a ware.
CartsTypeOK ==
  /\ shelf \in [Ware -> Shelves] /\ wished \subseteq Ware
  /\ guest \in [Ware -> 0 .. CartLimit] /\ owned \in [Ware -> 0 .. CartLimit]
  /\ put \in [Ware -> 0 .. MaxPut]
  /\ ~guestThere => \A w \in Ware : guest[w] = 0
  /\ request \in [Visit -> CartRequest]
  /\ \A r \in Visit :
       request[r].at \in {"pressed", "moved"} => request[r].ware \in Ware

\* No unit is in the carts that the customer did not put there: the guest cart
\* is folded in once, although two requests after signing in both find it
\* (cart/services.py:146: "deleted afterwards so it cannot be merged twice"),
\* and a row that is trimmed late, to more than it has come to hold since
\* (cart/services.py:184), gets no more than was once put into it.
NothingMergedTwice ==
  \A w \in Ware : guest[w] + owned[w] <= put[w]
=============================================================================
