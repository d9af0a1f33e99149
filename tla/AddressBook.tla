---------------------------- MODULE AddressBook ----------------------------
(***************************************************************************)
(* One customer's saved addresses and the default among them               *)
(* (src/apps/accounts/models.py, accounts/views.py).                       *)
(*                                                                         *)
(* Nothing here is a transaction: clearing the old default and writing the *)
(* new one are two statements, and another tab may come between.  The      *)
(* database refuses a second default.  What an address says is left out.   *)
(***************************************************************************)
EXTENDS Integers, FiniteSets

CONSTANTS
  Address,   \* addresses, named before they are saved
  Tab,       \* requests of the customer
  NoAddress

ASSUME AddressBookAssumption == NoAddress \notin Address

VARIABLES
  book,      \* the addresses saved
  default,   \* those with is_default
  edit,      \* what each tab's request is at
  forgone    \* the default was deleted or unticked and not chosen again

bookVars == <<book, default, edit, forgone>>

NoEdit == [at |-> "idle", address |-> NoAddress]

BookInit ==
  /\ book = {} /\ default = {} /\ forgone = FALSE
  /\ edit = [t \in Tab |-> NoEdit]

\* Mutant: the first address is like any other.
SaveAddressPlain(t, a, ticked) ==
  /\ edit[t].at = "idle"
  /\ edit' = [edit EXCEPT ![t] = [at |-> IF ticked THEN "clearing" ELSE "writing",
                                  address |-> a]]
  /\ UNCHANGED <<book, default, forgone>>

\* Address.save begins: a new address is the default when there is no other.
SaveAddress(t, a, ticked) ==
  /\ edit[t].at = "idle"
  /\ LET first == a \notin book /\ book = {}
     IN  edit' = [edit EXCEPT ![t] = [at |-> IF ticked \/ first THEN "clearing"
                                             ELSE "writing",
                                      address |-> a]]
  /\ UNCHANGED <<book, default, forgone>>

\* A default in the making takes the mark from the others.
ClearOthers(t) ==
  /\ edit[t].at = "clearing"
  /\ default' = default \cap {edit[t].address}
  /\ edit' = [edit EXCEPT ![t].at = "crowning"]
  /\ UNCHANGED <<book, forgone>>

\* The row is written as the default; the database refuses it when another
\* one has become the default since.
WriteDefault(t) ==
  LET a == edit[t].address
  IN  /\ edit[t].at = "crowning"
      /\ IF default \subseteq {a}
           THEN book' = book \cup {a} /\ default' = {a} /\ forgone' = FALSE
           ELSE UNCHANGED <<book, default, forgone>>
      /\ edit' = [edit EXCEPT ![t] = NoEdit]

\* The row is written unmarked, new or not, deleted meanwhile or not.
WritePlain(t) ==
  LET a == edit[t].address
  IN  /\ edit[t].at = "writing"
      /\ book' = book \cup {a}
      /\ default' = default \ {a}
      /\ forgone' = (forgone \/ a \in default)
      /\ edit' = [edit EXCEPT ![t] = NoEdit]

\* make_default: everything is cleared ...
ClearAll(t, a) ==
  /\ edit[t].at = "idle" /\ a \in book
  /\ default' = {}
  /\ edit' = [edit EXCEPT ![t] = [at |-> "marking", address |-> a]]
  /\ UNCHANGED <<book, forgone>>

\* ... and one is marked, if it is still there and no other is.
MarkDefault(t) ==
  LET a == edit[t].address
  IN  /\ edit[t].at = "marking"
      /\ default' = IF a \in book /\ default = {} THEN {a} ELSE default
      /\ forgone' = IF a \in book THEN FALSE ELSE forgone \/ default = {}
      /\ edit' = [edit EXCEPT ![t] = NoEdit]
      /\ UNCHANGED book

DeleteAddress(t, a) ==
  /\ edit[t].at = "idle" /\ a \in book
  /\ book' = book \ {a}
  /\ default' = default \ {a}
  /\ forgone' = (forgone \/ a \in default)
  /\ UNCHANGED edit

\* The worker dies between two statements.
DropRequest(t) ==
  /\ edit[t].at # "idle"
  /\ edit' = [edit EXCEPT ![t] = NoEdit]
  /\ forgone' = (forgone \/ edit[t].at \in {"crowning", "marking"})
  /\ UNCHANGED <<book, default>>

BookNext ==
  \E t \in Tab :
    \/ \E a \in Address :
         \/ \E ticked \in BOOLEAN : SaveAddress(t, a, ticked)
         \/ ClearAll(t, a) \/ DeleteAddress(t, a)
    \/ ClearOthers(t) \/ WriteDefault(t) \/ WritePlain(t) \/ MarkDefault(t)
    \/ DropRequest(t)

BookSpec == BookInit /\ [][BookNext]_bookVars

-----------------------------------------------------------------------------
(* Properties.                                                             *)

\* Types; the database sees to a single default.
BookTypeOK ==
  /\ book \subseteq Address
  /\ default \subseteq book /\ Cardinality(default) <= 1
  /\ edit \in [Tab ->
       [at : {"idle", "clearing", "crowning", "writing", "marking"},
        address : Address \cup {NoAddress}]]
  /\ \A t \in Tab : edit[t].at # "idle" => edit[t].address \in Address
  /\ forgone \in BOOLEAN

\* Between requests a customer with addresses has a default, unless the
\* default was deleted or unticked or a request died halfway: the two
\* statements of two tabs never leave everything cleared
\* (accounts/models.py:162, :172).
DefaultKept ==
  (\A t \in Tab : edit[t].at = "idle") /\ book # {} /\ ~forgone
    => default # {}
=============================================================================
