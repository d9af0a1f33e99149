------------------------------ MODULE StockRow ------------------------------
(***************************************************************************)
(* One row of the inventory table (src/apps/inventory/models.py) and the   *)
(* arithmetic of the stock service layer (src/apps/inventory/services.py). *)
(*                                                                         *)
(* Each service function locks the row, changes it and logs a movement     *)
(* inside one transaction.  This module holds what the function does to    *)
(* the row; the modules that use it say which handler calls it and under   *)
(* which locks.  The movement log, the timestamps and the five reporting   *)
(* figures nobody reads back are left out.  A quantity of zero or less     *)
(* makes every function return without touching the row: here a quantity   *)
(* is a natural number and zero leaves the row as it is.                   *)
(***************************************************************************)
EXTENDS Integers

\* quantity_available, quantity_reserved, quantity_sold, quantity_returned
\* and quantity_damaged.
Row == [available : Nat, reserved : Nat, sold : Nat,
        returned : Nat, damaged : Nat]

\* Mutant: a decrement that forgets the floor at zero.
MonusNoFloor(a, b) == a - b

\* max(a - b, 0): how every PositiveIntegerField is decremented.
Monus(a, b) == IF a >= b THEN a - b ELSE 0

FullShelf(n) == [available |-> n, reserved |-> 0, sold |-> 0,
                 returned |-> 0, damaged |-> 0]

\* What a shopper may still buy.
Sellable(row) == Monus(row.available, row.reserved)

\* Mutant: the check looks at the shelf and not at what is already promised.
CanReserveFromShelf(row, n, backorder) == n <= row.available \/ backorder

\* The check reserve() makes under the row lock.
CanReserve(row, n, backorder) == n <= Sellable(row) \/ backorder

\* Mutant: the promise overwrites the promises made before it.
ReserveOverwrites(row, n) == [row EXCEPT !.reserved = n]

Reserve(row, n) == [row EXCEPT !.reserved = @ + n]

Release(row, n) == [row EXCEPT !.reserved = Monus(@, n)]

\* Mutant: the sale leaves its reservation behind.
CommitKeepsReservation(row, n) == [row EXCEPT !.available = Monus(@, n),
                                              !.sold      = @ + n]

Commit(row, n) == [row EXCEPT !.reserved  = Monus(@, n),
                              !.available = Monus(@, n),
                              !.sold      = @ + n]

\* Mutant: units come back to the shelf and still count as sold.
RestoreKeepsSold(row, n) == [row EXCEPT !.available = @ + n]

\* Mutant: every unit that comes back counts as returned.
RestoreCountsReturn(row, n) == [row EXCEPT !.available = @ + n,
                                           !.sold      = Monus(@, n),
                                           !.returned  = @ + n]

\* restore() for a cancellation ...
Restore(row, n) == [row EXCEPT !.available = @ + n,
                               !.sold      = Monus(@, n)]

\* ... and for an accepted return, whose units are counted once more.
RestoreReturned(row, n) == [Restore(row, n) EXCEPT !.returned = @ + n]
=============================================================================
