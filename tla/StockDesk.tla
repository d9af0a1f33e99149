----------------------------- MODULE StockDesk -----------------------------
(***************************************************************************)
(* Everything that writes a row of the inventory table, side by side: the  *)
(* service functions orders call, the stocktake functions of the same      *)
(* layer (src/apps/inventory/services.py), the admin's inventory form      *)
(* (inventory/admin.py), the catalogue import (catalog/importer.py), the   *)
(* movement log and the low-stock alert every save raises                  *)
(* (notifications/signals.py).                                             *)
(*                                                                         *)
(* A service function holds the row lock from its read to the end of its   *)
(* transaction and is one step.  The form holds no lock: the page is shown,*)
(* later the row is read again, and the whole row is saved.  The import    *)
(* reads the rows of a file one by one, without a lock, saves one column   *)
(* of each and lets go of them together when its transaction ends.  The    *)
(* log is kept as the total each reason has moved.  Order lines stand for  *)
(* the order handlers, which module Orders models.                         *)
(***************************************************************************)
EXTENDS StockRow, Counting

CONSTANTS
  Stocked,         \* what is stocked
  Stock,           \* opening figures
  AllowBackorder,  \* variants sold without stock
  FirstThreshold,  \* LOW_STOCK_THRESHOLD
  Longer,          \* variants whose SKU begins with this one's, itself too
  Staff,           \* who is alerted: active staff, ten at most
  Line,            \* order lines: [variant, quantity]
  Quantities,      \* bound: figures typed at the desk
  MaxDeskMoves,    \* bound: what the desk does in all
  NoFormPage       \* no form open

ASSUME StockDeskAssumption ==
  /\ Stock \in [Stocked -> Nat] /\ AllowBackorder \subseteq Stocked
  /\ FirstThreshold \in Nat /\ MaxDeskMoves \in Nat /\ Quantities \subseteq Nat
  /\ \A v \in Stocked : v \in Longer[v] /\ Longer[v] \subseteq Stocked
  /\ IsFiniteSet(DOMAIN Line)
  /\ \A l \in DOMAIN Line : Line[l].variant \in Stocked /\ Line[l].quantity \in Nat

\* The page: the row it was filled from, and the row its post read.
FormPage == [variant : Stocked, shown : Row, read : Row \cup {NoFormPage}]

\* A row of the imported file: the figure it gives, and the copy of the
\* inventory row and of its threshold the importer made.
ImportCopy == [figure : Nat, copy : Row, level : Nat]

\* No import is under way, or it has read nothing yet.
NoSheet == [v \in {} |-> {}]

ASSUME FormPageAssumption == NoFormPage \notin FormPage \cup Row

Reason == {"purchase", "sale", "reservation", "release", "cancellation",
           "return", "adjustment", "damage"}

VARIABLES
  row,        \* the row of each variant
  threshold,  \* low_stock_threshold
  moved,      \* the movement log: total quantity for each reason
  phase,      \* what became of each order line
  formPage,   \* the inventory form: NoFormPage, shown, or read for saving
  sheet,      \* what the running import has read: a ImportCopy for a variant
  alerts,     \* unread low-stock notifications: <<staff, variant>>
  moves,      \* things done at the desk so far
  unlogged,   \* change of the shelf that no movement tells of
  uncovered,  \* units sold that were not on the shelf
  raced       \* variants the form saved over a change it had not read

stockVars == <<row, threshold, moved, phase, formPage, sheet, alerts, moves,
              unlogged, uncovered, raced>>
ghosts == <<unlogged, uncovered, raced>>
desk == <<formPage, sheet, moves, ghosts>>

StockDeskInit ==
  /\ row = [v \in Stocked |-> FullShelf(Stock[v])]
  /\ threshold = [v \in Stocked |-> FirstThreshold]
  /\ moved = [v \in Stocked |-> [r \in Reason |-> 0]]
  /\ phase = [l \in DOMAIN Line |-> "wanted"]
  /\ formPage = NoFormPage /\ sheet = NoSheet /\ alerts = {} /\ moves = 0
  /\ unlogged = [v \in Stocked |-> 0] /\ uncovered = [v \in Stocked |-> 0]
  /\ raced = {}

-----------------------------------------------------------------------------
(* What every save does besides saving.                                    *)

\* Mutant: the last unit above the threshold is the first that alerts.
NeedsReorderBelow(r, level) == Sellable(r) < level

\* needs_reorder
NeedsReorder(r, level) == Sellable(r) <= level

\* on_low_stock: an alert for each of the staff who has no unread one whose
\* title begins with this SKU.  Nothing is said once nothing is left.
Alerted(rows, levels, changed) ==
  alerts \cup
    {a \in Staff \X changed :
       LET v == a[2]
       IN  /\ NeedsReorder(rows[v], levels[v]) /\ Sellable(rows[v]) > 0
           /\ ~\E w \in Longer[v] : <<a[1], w>> \in alerts}

Log(v, reason, quantity) ==
  moved' = [moved EXCEPT ![v][reason] = @ + quantity]

\* A service function has changed the row under its lock.
Save(v, new) ==
  /\ row' = [row EXCEPT ![v] = new]
  /\ alerts' = Alerted(row', threshold, {v})
  /\ UNCHANGED threshold

-----------------------------------------------------------------------------
(* Order lines.                                                            *)

Becomes(l, from, to) ==
  /\ phase[l] = from
  /\ phase' = [phase EXCEPT ![l] = to]

ReserveLine(l) ==
  LET v == Line[l].variant
      n == Line[l].quantity
  IN  /\ CanReserve(row[v], n, v \in AllowBackorder)
      /\ Becomes(l, "wanted", "reserved")
      /\ Save(v, Reserve(row[v], n))
      /\ Log(v, "reservation", -n)
      /\ UNCHANGED desk

ReleaseLine(l) ==
  LET v == Line[l].variant
      n == Line[l].quantity
  IN  /\ Becomes(l, "reserved", "released")
      /\ Save(v, Release(row[v], n))
      /\ Log(v, "release", n)
      /\ UNCHANGED desk

\* commit logs the quantity sold, whatever the shelf could give.
CommitLine(l) ==
  LET v == Line[l].variant
      n == Line[l].quantity
  IN  /\ Becomes(l, "reserved", "sold")
      /\ Save(v, Commit(row[v], n))
      /\ Log(v, "sale", -n)
      /\ uncovered' = [uncovered EXCEPT ![v] = @ + Monus(n, row[v].available)]
      /\ UNCHANGED <<formPage, sheet, moves, unlogged, raced>>

RestoreLine(l, reason) ==
  LET v == Line[l].variant
      n == Line[l].quantity
  IN  /\ Becomes(l, "sold", "back")
      /\ Save(v, IF reason = "return" THEN RestoreReturned(row[v], n)
                 ELSE Restore(row[v], n))
      /\ Log(v, reason, n)
      /\ UNCHANGED desk

-----------------------------------------------------------------------------
(* The stock desk.                                                         *)

DeskMove ==
  /\ moves < MaxDeskMoves
  /\ moves' = moves + 1

\* Mutant: the log is told what was asked for, not what was there.
WriteOffAsked(v, n) ==
  /\ DeskMove
  /\ row[v].available > 0
  /\ Save(v, [row[v] EXCEPT !.available = Monus(@, n), !.damaged = @ + n])
  /\ Log(v, "damage", -n)
  /\ UNCHANGED <<phase, formPage, sheet, ghosts>>

\* write_off: no more than the shelf holds; nothing when it is empty.
WriteOff(v, n) ==
  LET removable == IF n < row[v].available THEN n ELSE row[v].available
  IN  /\ DeskMove
      /\ removable > 0
      /\ Save(v, [row[v] EXCEPT !.available = @ - removable,
                                !.damaged = @ + removable])
      /\ Log(v, "damage", -removable)
      /\ UNCHANGED <<phase, formPage, sheet, ghosts>>

\* adjust: a stocktake sets the shelf, promised or not.
Adjust(v, n) ==
  /\ DeskMove
  /\ Save(v, [row[v] EXCEPT !.available = n])
  /\ Log(v, "adjustment", n - row[v].available)
  /\ UNCHANGED <<phase, formPage, sheet, ghosts>>

\* restock, once per row of bulk_restock.
Restock(v, n) ==
  /\ DeskMove
  /\ n > 0
  /\ Save(v, [row[v] EXCEPT !.available = @ + n])
  /\ Log(v, "purchase", n)
  /\ UNCHANGED <<phase, formPage, sheet, ghosts>>

-----------------------------------------------------------------------------
(* The catalogue import: one transaction for the file.                     *)

\* A row of the file gives a stock figure other than zero: the inventory row
\* is read, without a lock.
ReadForImport(v, n) ==
  /\ DeskMove
  /\ n > 0 /\ v \notin DOMAIN sheet
  /\ sheet' = [u \in DOMAIN sheet \cup {v} |->
                 IF u = v THEN [figure |-> n, copy |-> row[v], level |-> threshold[v]]
                 ELSE sheet[u]]
  /\ UNCHANGED <<row, threshold, moved, phase, formPage, alerts, ghosts>>

\* The copies as saved: what the alert is decided on.
Imported == [v \in DOMAIN sheet |->
               [sheet[v].copy EXCEPT !.available = sheet[v].figure]]

\* The figures are saved, quantity_available alone, and no movement is logged.
\* A saved row is locked until the transaction ends, so the saves of a file
\* are one step with its commit.
SaveImport ==
  /\ sheet # NoSheet
  /\ row' = [v \in Stocked |->
               IF v \in DOMAIN sheet
               THEN [row[v] EXCEPT !.available = sheet[v].figure] ELSE row[v]]
  /\ alerts' = Alerted(Imported, [v \in DOMAIN sheet |-> sheet[v].level], DOMAIN sheet)
  /\ unlogged' = [v \in Stocked |->
                    unlogged[v] + row'[v].available - row[v].available]
  /\ sheet' = NoSheet
  /\ UNCHANGED <<threshold, moved, phase, formPage, moves, uncovered, raced>>

\* A row of the file is refused: nothing of it stays.
DropImport ==
  /\ sheet # NoSheet
  /\ sheet' = NoSheet
  /\ UNCHANGED <<row, threshold, moved, phase, formPage, alerts, moves, ghosts>>

-----------------------------------------------------------------------------
(* The inventory form.  available, returned, damaged and the threshold are *)
(* fields of the page; reserved and sold are shown only.                   *)

OpenForm(v) ==
  /\ formPage = NoFormPage
  /\ DeskMove
  /\ formPage' = [variant |-> v, shown |-> row[v], read |-> NoFormPage]
  /\ UNCHANGED <<row, threshold, moved, phase, sheet, alerts, ghosts>>

\* The form is sent: the row is read again.
PostForm ==
  /\ formPage # NoFormPage /\ formPage.read = NoFormPage
  /\ formPage' = [formPage EXCEPT !.read = row[formPage.variant]]
  /\ UNCHANGED <<row, threshold, moved, phase, sheet, alerts, moves, ghosts>>

\* What the form makes of the row: its fields as shown on the page or typed
\* anew, the rest as read when it was sent.
FormWritten(available) ==
  [available |-> available, reserved |-> formPage.read.reserved,
   sold |-> formPage.read.sold, returned |-> formPage.shown.returned,
   damaged |-> formPage.shown.damaged]

\* Mutant: every figure of the page is written back.
SaveFormAsShown(available, level) ==
  /\ formPage # NoFormPage /\ formPage.read # NoFormPage
  /\ LET v == formPage.variant IN
       /\ row' = [row EXCEPT ![v] = [formPage.shown EXCEPT !.available = available]]
       /\ threshold' = [threshold EXCEPT ![v] = level]
       /\ alerts' = Alerted(row', threshold', {v})
       /\ unlogged' = [unlogged EXCEPT ![v] =
                         @ + available - row[v].available]
       /\ raced' = IF row[v] # formPage.read THEN raced \cup {v} ELSE raced
  /\ formPage' = NoFormPage
  /\ UNCHANGED <<moved, phase, sheet, moves, uncovered>>

\* save_model: all columns are written.
SaveForm(available, level) ==
  /\ formPage # NoFormPage /\ formPage.read # NoFormPage
  /\ LET v == formPage.variant IN
       /\ row' = [row EXCEPT ![v] = FormWritten(available)]
       /\ threshold' = [threshold EXCEPT ![v] = level]
       /\ alerts' = Alerted(row', threshold', {v})
       /\ unlogged' = [unlogged EXCEPT ![v] =
                         @ + available - row[v].available]
       /\ raced' = IF row[v] # formPage.read THEN raced \cup {v} ELSE raced
  /\ formPage' = NoFormPage
  /\ UNCHANGED <<moved, phase, sheet, moves, uncovered>>

\* One field of the page is typed anew or all are left as shown.
SaveSomething ==
  \/ SaveForm(formPage.shown.available, threshold[formPage.variant])
  \/ \E n \in Quantities : \/ SaveForm(n, threshold[formPage.variant])
                           \/ SaveForm(formPage.shown.available, n)

\* Notifications are read.
ReadAlerts(s) ==
  /\ \E v \in Stocked : <<s, v>> \in alerts
  /\ alerts' = {a \in alerts : a[1] # s}
  /\ UNCHANGED <<row, threshold, moved, phase, desk>>

StockDeskNext ==
  \/ \E l \in DOMAIN Line :
       \/ ReserveLine(l) \/ ReleaseLine(l) \/ CommitLine(l)
       \/ \E reason \in {"cancellation", "return"} : RestoreLine(l, reason)
  \/ \E v \in Stocked, n \in Quantities :
       WriteOff(v, n) \/ Adjust(v, n) \/ Restock(v, n)
  \/ \E v \in Stocked, n \in Quantities : ReadForImport(v, n)
  \/ SaveImport
  \/ DropImport
  \/ \E v \in Stocked : OpenForm(v)
  \/ PostForm
  \/ formPage # NoFormPage /\ SaveSomething
  \/ \E s \in Staff : ReadAlerts(s)

StockDeskSpec == StockDeskInit /\ [][StockDeskNext]_stockVars

-----------------------------------------------------------------------------
(* Properties.                                                             *)

\* Types.
StockDeskTypeOK ==
  /\ row \in [Stocked -> Row]
  /\ threshold \in [Stocked -> Nat]
  /\ moved \in [Stocked -> [Reason -> Int]]
  /\ phase \in [DOMAIN Line ->
                  {"wanted", "reserved", "sold", "released", "back"}]
  /\ formPage \in {NoFormPage} \cup FormPage
  /\ DOMAIN sheet \subseteq Stocked /\ sheet \in [DOMAIN sheet -> ImportCopy]
  /\ alerts \subseteq Staff \X Stocked
  /\ unlogged \in [Stocked -> Int] /\ uncovered \in [Stocked -> Nat]
  /\ raced \subseteq Stocked

\* What the log says the shelf gained and lost; promises do not move it.
Booked(v) ==
  moved[v]["purchase"] + moved[v]["sale"] + moved[v]["cancellation"]
    + moved[v]["return"] + moved[v]["adjustment"] + moved[v]["damage"]

\* The movement log explains the shelf: opening figure and movements give
\* what is there, but for what the form and the import write past the log and
\* for units sold that were not there (inventory/services.py:46, :110).
LogExplainsShelf ==
  \A v \in Stocked :
    row[v].available = Stock[v] + Booked(v) + unlogged[v] + uncovered[v]

Held(v, in) ==
  TotalOver([l \in DOMAIN Line |-> Line[l].quantity],
            {l \in DOMAIN Line : Line[l].variant = v /\ phase[l] = in})

\* The desk, the import and the form leave what is promised and what is sold
\* as the order lines have it; only a form that was sent before another write
\* of the row and saved after it does not (inventory/admin.py:81).
DeskKeepsPromises ==
  \A v \in Stocked \ raced : /\ row[v].reserved = Held(v, "reserved")
                             /\ row[v].sold = Held(v, "sold")

\* The import saves v, and what it copied of it was overtaken since: someone
\* else's promise, or another threshold.
CopyOvertaken(v) ==
  /\ v \in DOMAIN sheet /\ sheet' = NoSheet
  /\ \/ sheet[v].copy.reserved # row[v].reserved
     \/ sheet[v].level # threshold[v]

\* Whichever handler leaves a variant low but sellable, each of the staff has
\* something unread about it or about a variant with a longer SKU
\* (notifications/signals.py:64; "below" includes the threshold itself).  The
\* one who may leave it unannounced is an import whose copy of the row was
\* overtaken before it saved (catalog/importer.py:303, :306).
LowStockAnnounced ==
  [][\A v \in Stocked, s \in Staff :
       /\ row'[v] # row[v]
       /\ Sellable(row'[v]) \in 1 .. threshold'[v]
       /\ ~CopyOvertaken(v)
       => \E w \in Longer[v] : <<s, w>> \in alerts']_stockVars
=============================================================================
