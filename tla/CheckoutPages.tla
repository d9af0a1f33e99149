--------------------------- MODULE CheckoutPages ---------------------------
(***************************************************************************)
(* The two pages of the checkout and the session between them              *)
(* (src/apps/orders/views.py), with what changes under an open page: the   *)
(* country and currency selectors (geo/views.py, geo/locale_context.py),   *)
(* the address book (accounts/views.py), the cart, the exchange rates, and *)
(* orders placed over the API (api/views.py).                              *)
(*                                                                         *)
(* One customer has several windows open, and their requests run side by   *)
(* side.  A request loads the session when it begins; one that changes it  *)
(* stores all of it when it ends, over whatever others have stored.  The   *)
(* payment page shows an address, a currency and the cart; its form posts  *)
(* none of them, so the order is made of what is then in the session, the  *)
(* address book and the cart.  Each page notes, in since, what has         *)
(* happened from the moment its request loaded the session.                *)
(*                                                                         *)
(* The cart is a number of units here, all of them sellable: stock is in   *)
(* Checkout and Carts, amounts are in Quoting.                             *)
(***************************************************************************)
EXTENDS Integers

CONSTANTS
  Place,       \* the customer's saved addresses
  Nation,      \* where one can shop from
  Tender,      \* the currencies
  TenderOf,    \* the currency of each country
  BaseTender,  \* the base currency, which needs no rate
  HomeNation,  \* what is detected of a visitor who has chosen nothing
  Screen,      \* windows
  Call,        \* requests under way
  UnitLimit,   \* MAX_CART_QUANTITY_PER_ITEM
  MaxChanges,  \* bound: changes to the session, the book, the rates, the cart
  MaxWording,  \* bound: edits of an address
  Nothing

ASSUME PagesAssumption ==
  /\ TenderOf \in [Nation -> Tender] /\ BaseTender \in Tender /\ HomeNation \in Nation
  /\ Nothing \notin Place \cup Tender
  /\ UnitLimit \in Nat /\ MaxWording \in Nat /\ MaxChanges \in Nat

VARIABLES
  stored,   \* the session as stored
  wording,  \* what each address row says; Gone when it is deleted
  rated,    \* the currencies that have an exchange rate
  units,    \* units in the cart
  screen,   \* the payment page each window shows
  call,     \* what each request is at
  due,      \* units put into the cart, and neither taken out nor ordered
  changes   \* changes made, for the bound

pagesVars == <<stored, wording, rated, units, screen, call, due, changes>>

Gone == -1

Happening == {"choice", "switch", "overlap", "edit", "rate", "cart"}

\* What the session holds of the checkout and of the selectors.
SessionData == [address : Place \cup {Nothing}, nation : Nation,
                tender : Tender \cup {Nothing}]

\* resolve: the currency chosen, else the country's; without a rate, the base.
TenderIn(session) ==
  LET t == IF session.tender = Nothing THEN TenderOf[session.nation]
                                       ELSE session.tender
  IN  IF t \in rated THEN t ELSE BaseTender

\* An address, a currency and a cart, as on a page or in an order.
PageData == [place : Place \cup {Nothing}, wording : Int, tender : Tender,
          units : Nat, since : SUBSET Happening]

BlankPage == [place |-> Nothing, wording |-> 0, tender |-> BaseTender,
           units |-> 0, since |-> {}]

\* A request: the session it loaded, the page it is posted from, and what it
\* has read.  What happens matters to it until it has read what that changes.
CallAt == {"idle", "saving", "showing", "posted", "found", "placing", "answering"}

Hears(at) == IF at = "showing" THEN Happening
             ELSE IF at = "posted" THEN {"edit", "rate", "cart"}
             ELSE IF at = "found" THEN {"rate", "cart"}
             ELSE {}

CallData == [at : CallAt, session : SessionData, window : Screen \cup {Nothing},
             from : PageData, read : PageData, crossed : BOOLEAN]

IdleCall == [at |-> "idle",
         session |-> [address |-> Nothing, nation |-> HomeNation, tender |-> Nothing],
         window |-> Nothing, from |-> BlankPage, read |-> BlankPage, crossed |-> FALSE]

PagesInit ==
  /\ stored = [address |-> Nothing, nation |-> HomeNation, tender |-> Nothing]
  /\ wording = [p \in Place |-> 0]
  /\ rated = Tender
  /\ units = 0
  /\ screen = [s \in Screen |-> BlankPage]
  /\ call = [c \in Call |-> IdleCall]
  /\ due = 0 /\ changes = 0

-----------------------------------------------------------------------------
(* Something happens, and open pages and requests under way are marked.    *)

Noted(k, happenings) ==
  [k EXCEPT !.read.since = @ \cup (happenings \cap Hears(k.at)),
            !.crossed = @ \/ (k.at = "placing" /\ "cart" \in happenings)]

\* Every page and request is told, and those of calls go on as they should.
Happen(happenings, calls) ==
  /\ screen' = [s \in Screen |->
       IF screen[s] = BlankPage THEN BlankPage
                                ELSE [screen[s] EXCEPT !.since = @ \cup happenings]]
  /\ call' = [c \in Call |-> Noted(calls[c], happenings)]

GoesOn(c, k) == call' = [call EXCEPT ![c] = k]

Change == changes < MaxChanges /\ changes' = changes + 1

-----------------------------------------------------------------------------
(* The session.                                                            *)

\* A request that will change the session loads it.
Load(c) ==
  /\ call[c].at = "idle"
  /\ GoesOn(c, [IdleCall EXCEPT !.at = "saving", !.session = stored])
  /\ UNCHANGED <<stored, wording, rated, units, screen, due, changes>>

\* What is stored is what was loaded with the change made to it.
Store(c, session, happening) ==
  /\ Change
  /\ stored' = session
  /\ Happen({happening} \cup IF stored = call[c].session THEN {} ELSE {"overlap"},
            [call EXCEPT ![c] = IdleCall])
  /\ UNCHANGED <<wording, rated, units, due>>

\* CheckoutAddressView.post: an address of the customer's is chosen.
ChooseAddress(c, p) ==
  /\ call[c].at = "saving" /\ units > 0 /\ wording[p] # Gone
  /\ Store(c, [call[c].session EXCEPT !.address = p], "choice")

\* set_currency: only a currency that has a rate.
SetSessionCurrency(c, t) ==
  /\ call[c].at = "saving" /\ t \in rated
  /\ Store(c, [call[c].session EXCEPT !.tender = t], "switch")

\* set_country brings its currency along, unless one has been chosen.
SetSessionCountry(c, n) ==
  /\ call[c].at = "saving"
  /\ Store(c, [call[c].session EXCEPT !.nation = n,
                 !.tender = IF @ = Nothing THEN TenderOf[n] ELSE @], "switch")

-----------------------------------------------------------------------------
(* The payment page.                                                       *)

\* A window asks for the page ...
OpenPayment(c, s) ==
  /\ call[c].at = "idle"
  /\ GoesOn(c, [IdleCall EXCEPT !.at = "showing", !.session = stored, !.window = s])
  /\ screen' = [screen EXCEPT ![s] = BlankPage]
  /\ UNCHANGED <<stored, wording, rated, units, due, changes>>

\* Mutant: when no address is chosen, or it is gone, another is taken.
FindsAny(session) ==
  LET book == {p \in Place : wording[p] # Gone}
  IN  IF session.address \in book THEN {session.address} ELSE book

\* get_address: the chosen address, while it is in the book.
Finds(session) == {p \in Place : p = session.address /\ wording[p] # Gone}

\* ... and gets it, all it shows read at once, unless the cart is empty or no
\* address is chosen.
ShowPaymentPage(c) ==
  LET k == call[c]
  IN  /\ k.at = "showing"
      /\ IF units = 0 THEN UNCHANGED screen
         ELSE \/ Finds(k.session) = {} /\ UNCHANGED screen
              \/ \E p \in Finds(k.session) :
                   screen' = [screen EXCEPT ![k.window] =
                     [place |-> p, wording |-> wording[p],
                      tender |-> TenderIn(k.session), units |-> units,
                      since |-> k.read.since]]
      /\ GoesOn(c, IdleCall)
      /\ UNCHANGED <<stored, wording, rated, units, due, changes>>

\* The form of a page is sent, perhaps more than once.
PostPayment(c, s) ==
  /\ call[c].at = "idle" /\ screen[s].units > 0
  /\ GoesOn(c, [IdleCall EXCEPT !.at = "posted", !.session = stored,
                             !.from = [screen[s] EXCEPT !.since = {}],
                             !.read.since = screen[s].since])
  /\ UNCHANGED <<stored, wording, rated, units, screen, due, changes>>

\* The post reads its address, which may send it back to an earlier page.
FindAddress(c) ==
  LET k == call[c]
  IN  /\ k.at = "posted"
      /\ \/ (units = 0 \/ Finds(k.session) = {}) /\ GoesOn(c, IdleCall)
         \/ units > 0 /\ \E p \in Finds(k.session) :
              GoesOn(c, [k EXCEPT !.at = "found", !.read.place = p,
                                  !.read.wording = wording[p]])
      /\ UNCHANGED <<stored, wording, rated, units, screen, due, changes>>

\* OrderViewSet.create: the request names the address; no page was shown.
CreateOrder(c, p) ==
  /\ call[c].at = "idle" /\ wording[p] # Gone
  /\ GoesOn(c, [IdleCall EXCEPT
                          !.at = "found", !.session = stored, !.read.place = p,
                          !.read.wording = wording[p]])
  /\ UNCHANGED <<stored, wording, rated, units, screen, due, changes>>

\* place_order is called with the currency, and reads the cart; an empty one
\* is an OrderError.
ReadUnits(c) ==
  LET k == call[c]
  IN  /\ k.at = "found"
      /\ GoesOn(c, IF units = 0 THEN IdleCall
                 ELSE [k EXCEPT !.at = "placing", !.read.units = units,
                                !.read.tender = TenderIn(k.session)])
      /\ UNCHANGED <<stored, wording, rated, units, screen, due, changes>>

\* What is still due after an order.  One of a cart that was changed after
\* place_order read it settles nothing: what is in the cart is due.
Due(k, left) == IF k.crossed THEN left ELSE due - k.read.units

\* Mutant: the cart is left as it is.
CommitKeepsUnits(c) ==
  LET k == call[c]
  IN  /\ k.at = "placing"
      /\ due' = Due(k, units)
      /\ GoesOn(c, IF k.from = BlankPage THEN IdleCall ELSE [k EXCEPT !.at = "answering"])
      /\ UNCHANGED <<stored, wording, rated, units, screen, changes>>

\* The order, and the cart emptied of whatever is in it by now.
CommitPlacement(c) ==
  LET k == call[c]
  IN  /\ k.at = "placing"
      /\ units' = 0
      /\ due' = Due(k, 0)
      /\ Happen({"cart"}, [call EXCEPT ![c] =
           IF k.from = BlankPage THEN IdleCall ELSE [k EXCEPT !.at = "answering"]])
      /\ UNCHANGED <<stored, wording, rated, changes>>

\* The session is stored without its address.
Answered(c) ==
  LET k == call[c]
  IN  /\ k.at = "answering"
      /\ stored' = [k.session EXCEPT !.address = Nothing]
      /\ Happen(IF stored = k.session THEN {} ELSE {"overlap"},
                [call EXCEPT ![c] = IdleCall])
      /\ UNCHANGED <<wording, rated, units, due, changes>>

\* An OrderError, an exception or a worker lost: the session is not stored.
GiveUp(c) ==
  /\ call[c].at \in {"found", "placing", "answering"}
  /\ GoesOn(c, IdleCall)
  /\ UNCHANGED <<stored, wording, rated, units, screen, due, changes>>

-----------------------------------------------------------------------------
(* What else happens.                                                      *)

\* AddressUpdateView and AddressDeleteView.
EditAddress(p) ==
  /\ wording[p] \in 0 .. MaxWording - 1
  /\ Change
  /\ wording' = [wording EXCEPT ![p] = @ + 1]
  /\ Happen({"edit"}, call)
  /\ UNCHANGED <<stored, rated, units, due>>

DropAddress(p) ==
  /\ wording[p] # Gone
  /\ Change
  /\ wording' = [wording EXCEPT ![p] = Gone]
  /\ UNCHANGED <<stored, rated, units, screen, call, due>>

\* The last rate of a currency goes, or its first comes.
ChangeRates(t) ==
  /\ t # BaseTender
  /\ Change
  /\ rated' = IF t \in rated THEN rated \ {t} ELSE rated \cup {t}
  /\ Happen({"rate"}, call)
  /\ UNCHANGED <<stored, wording, units, due>>

\* add_to_cart, from a product or, by reorder, with the units of an order.
PutUnits(n) ==
  LET final == IF units + n < UnitLimit THEN units + n ELSE UnitLimit
  IN  /\ final > units
      /\ Change
      /\ units' = final /\ due' = due + final - units
      /\ Happen({"cart"}, call)
      /\ UNCHANGED <<stored, wording, rated>>

\* update_quantity to fewer, or none.
TakeUnits(n) ==
  /\ n < units
  /\ Change
  /\ units' = n /\ due' = due - (units - n)
  /\ Happen({"cart"}, call)
  /\ UNCHANGED <<stored, wording, rated>>

PagesNext ==
  \/ \E c \in Call :
       \/ Load(c) \/ ShowPaymentPage(c) \/ FindAddress(c) \/ ReadUnits(c)
       \/ CommitPlacement(c) \/ Answered(c) \/ GiveUp(c)
       \/ \E p \in Place : ChooseAddress(c, p) \/ CreateOrder(c, p)
       \/ \E t \in Tender : SetSessionCurrency(c, t)
       \/ \E n \in Nation : SetSessionCountry(c, n)
       \/ \E s \in Screen : OpenPayment(c, s) \/ PostPayment(c, s)
  \/ \E p \in Place : EditAddress(p) \/ DropAddress(p)
  \/ \E t \in Tender : ChangeRates(t)
  \/ \E n \in 1 .. UnitLimit : PutUnits(n) \/ TakeUnits(n - 1)

PagesSpec == PagesInit /\ [][PagesNext]_pagesVars

-----------------------------------------------------------------------------
(* Properties.                                                             *)

\* Types: the cart keeps within its limit, and no order is of nothing.
PagesTypeOK ==
  /\ stored \in SessionData /\ wording \in [Place -> Gone .. MaxWording]
  /\ rated \subseteq Tender /\ units \in 0 .. UnitLimit /\ due \in Int
  /\ screen \in [Screen -> PageData] /\ call \in [Call -> CallData]
  /\ \A c \in Call : call[c].at \in {"placing", "answering"} => call[c].read.units > 0

\* The requests that have placed an order from a page.
PlacedFromPage == {call[c] : c \in {c \in Call : call[c].at = "answering"}}

\* An order posted from a page is what the page showed, or one of these came
\* between: another address was chosen, the one shown was edited, a currency
\* or country was chosen, a rate came or went, the cart was changed, or a
\* request stored a session that was not the one it had loaded.  What comes
\* after the post has read the session, the address or the cart is no excuse
\* (orders/views.py:150-154, 190-228, geo/locale_context.py:99-126).
OrderedAsShown ==
  \A k \in PlacedFromPage :
    LET page == k.from
        order == k.read
        Since(happenings) == order.since \cap happenings # {}
    IN  /\ order.place # page.place => Since({"choice", "overlap"})
        /\ order.place = page.place /\ order.wording # page.wording => Since({"edit"})
        /\ order.tender # page.tender => Since({"switch", "rate", "overlap"})
        /\ order.units # page.units => Since({"cart"})

\* What is in the cart is what the customer put into it, less what was taken
\* out and what was ordered: no unit is ordered twice when a form is sent
\* twice, an answer is lost or the API is called as well, and none is dropped
\* with the cart, as long as the cart does not change between place_order's
\* read of it and its clear (orders/services.py:98, 286, cart/models.py:175-179).
OrderedOnce == units = due
=============================================================================
