--------------------------- MODULE BackOfficeProofs ---------------------------
(* Proofs about what staff work with: the inventory desk (StockDesk), the  *)
(* papers (Paperwork), the ticket desk (Helpdesk), the edit form of an     *)
(* order (OrderDesk), the dashboard (Reports) and the bulk upload          *)
(* (Importer), for any number of variants, orders, lines, rows and staff.  *)
EXTENDS StockDesk, Paperwork, Helpdesk, OrderDesk, Reports, Importer, CountingProofs

-----------------------------------------------------------------------------
(* The inventory desk: what the figures of a row do.                       *)

\* What each stock function does to the figures a row is judged by.
LEMMA RowFigures ==
  ASSUME NEW r \in Row, NEW n \in Nat
  PROVE  /\ Reserve(r, n) \in Row
         /\ Reserve(r, n).available = r.available
         /\ Reserve(r, n).reserved = r.reserved + n
         /\ Reserve(r, n).sold = r.sold
         /\ Release(r, n) \in Row
         /\ Release(r, n).available = r.available
         /\ Release(r, n).reserved = Monus(r.reserved, n)
         /\ Release(r, n).sold = r.sold
         /\ Commit(r, n) \in Row
         /\ Commit(r, n).available = Monus(r.available, n)
         /\ Commit(r, n).reserved = Monus(r.reserved, n)
         /\ Commit(r, n).sold = r.sold + n
<1>1. /\ r.available \in Nat /\ r.reserved \in Nat /\ r.sold \in Nat
      /\ r.reserved + n \in Nat /\ r.sold + n \in Nat
      /\ Monus(r.reserved, n) \in Nat /\ Monus(r.available, n) \in Nat
  BY DEF Row, Monus
<1>2. /\ Reserve(r, n) \in Row /\ Reserve(r, n).available = r.available
      /\ Reserve(r, n).reserved = r.reserved + n /\ Reserve(r, n).sold = r.sold
  BY <1>1 DEF Reserve, Row
<1>3. /\ Release(r, n) \in Row /\ Release(r, n).available = r.available
      /\ Release(r, n).reserved = Monus(r.reserved, n)
      /\ Release(r, n).sold = r.sold
  BY <1>1 DEF Release, Row
<1>4. /\ Commit(r, n) \in Row /\ Commit(r, n).available = Monus(r.available, n)
      /\ Commit(r, n).reserved = Monus(r.reserved, n)
      /\ Commit(r, n).sold = r.sold + n
  BY <1>1 DEF Commit, Row
<1>. QED
  BY <1>2, <1>3, <1>4

LEMMA RestoreFigures ==
  ASSUME NEW r \in Row, NEW n \in Nat,
         NEW new \in {Restore(r, n), RestoreReturned(r, n)}
  PROVE  /\ new \in Row /\ new.available = r.available + n
         /\ new.reserved = r.reserved /\ new.sold = Monus(r.sold, n)
<1>1. /\ r.available + n \in Nat /\ Monus(r.sold, n) \in Nat
      /\ r.returned + n \in Nat
  BY DEF Row, Monus
<1>2. /\ Restore(r, n) \in Row /\ Restore(r, n).available = r.available + n
      /\ Restore(r, n).reserved = r.reserved
      /\ Restore(r, n).sold = Monus(r.sold, n)
      /\ Restore(r, n).returned = r.returned
  BY <1>1 DEF Restore, Row
<1>3. /\ RestoreReturned(r, n) \in Row
      /\ RestoreReturned(r, n).available = Restore(r, n).available
      /\ RestoreReturned(r, n).reserved = Restore(r, n).reserved
      /\ RestoreReturned(r, n).sold = Restore(r, n).sold
  <2>. HIDE DEF Restore
  <2>. QED
    BY <1>1, <1>2 DEF RestoreReturned, Row
<1>. QED
  BY <1>2, <1>3

Phases == {"wanted", "reserved", "sold", "released", "back"}

\* What every step keeps.
StockInv == StockDeskTypeOK /\ LogExplainsShelf /\ DeskKeepsPromises

\* An order line that moves on is counted where it goes and no longer where
\* it was.
LEMMA LineMoves ==
  ASSUME StockDeskTypeOK, NEW l \in DOMAIN Line, NEW from, NEW to, from # to,
         Becomes(l, from, to), NEW u \in Stocked, NEW in
  PROVE  LET n == Line[l].quantity
             v == Line[l].variant
         IN  /\ Held(u, in) \in Nat
             /\ u = v /\ in = from =>
                  Held(u, in)' = Held(u, in) - n /\ Held(u, in) >= n
             /\ u = v /\ in = to => Held(u, in)' = Held(u, in) + n
             /\ u # v \/ in \notin {from, to} => Held(u, in)' = Held(u, in)
<1> DEFINE Q == [k \in DOMAIN Line |-> Line[k].quantity]
           S == {k \in DOMAIN Line : Line[k].variant = u /\ phase[k] = in}
           T == {k \in DOMAIN Line : Line[k].variant = u /\ phase'[k] = in}
<1>1. Held(u, in) = TotalOver(Q, S) /\ Held(u, in)' = TotalOver(Q, T)
  BY DEF Held
<1>2. /\ IsFiniteSet(S) /\ IsFiniteSet(T)
      /\ \A k \in DOMAIN Line : Q[k] = Line[k].quantity /\ Q[k] \in Nat
      /\ S \subseteq DOMAIN Line /\ T \subseteq DOMAIN Line
  BY StockDeskAssumption, FS_Subset
<1>3. phase[l] = from /\ phase' = [phase EXCEPT ![l] = to]
  BY DEF Becomes
<1>4. CASE u = Line[l].variant /\ in = from
  <2>1. l \in S /\ T = S \ {l}
    BY <1>3, <1>4 DEF StockDeskTypeOK
  <2>. HIDE DEF Q, S, T
  <2>2. TotalOver(Q, S \ {l}) = TotalOver(Q, S) - Q[l] /\ TotalOver(Q, S) >= Q[l]
    BY <1>2, <2>1, TotalOfOneLess
  <2>3. TotalOver(Q, S) \in Nat
    BY <1>2, UnitsFinite
  <2>. QED
    BY <1>1, <1>2, <1>4, <2>1, <2>2, <2>3
<1>5. CASE u = Line[l].variant /\ in = to
  <2>1. l \notin S /\ T = S \cup {l}
    BY <1>3, <1>5 DEF StockDeskTypeOK
  <2>. HIDE DEF Q, S, T
  <2>2. TotalOver(Q, S \cup {l}) = TotalOver(Q, S) + Q[l]
    BY <1>2, <2>1, TotalOfOneMore
  <2>3. TotalOver(Q, S) \in Nat
    BY <1>2, UnitsFinite
  <2>. QED
    BY <1>1, <1>2, <1>5, <2>1, <2>2, <2>3
<1>6. CASE u # Line[l].variant \/ in \notin {from, to}
  <2>1. S = T
    BY <1>3, <1>6 DEF StockDeskTypeOK
  <2>. HIDE DEF Q, S, T
  <2>2. TotalOver(Q, S) \in Nat
    BY <1>2, UnitsFinite
  <2>. QED
    BY <1>1, <1>6, <2>1, <2>2
<1>. QED
  BY <1>4, <1>5, <1>6

\* What a movement adds to the log.
LEMMA LogBooks ==
  ASSUME StockDeskTypeOK, NEW v \in Stocked, NEW reason \in Reason, NEW q \in Int,
         Log(v, reason, q)
  PROVE  /\ moved' \in [Stocked -> [Reason -> Int]]
         /\ \A u \in Stocked : Booked(u) \in Int
         /\ \A u \in Stocked \ {v} : Booked(u)' = Booked(u)
         /\ reason \in {"reservation", "release"} => Booked(v)' = Booked(v)
         /\ reason \notin {"reservation", "release"} => Booked(v)' = Booked(v) + q
<1>1. \A u \in Stocked, r \in Reason :
        /\ moved[u][r] \in Int
        /\ u # v \/ r # reason => moved'[u][r] = moved[u][r]
        /\ moved'[v][reason] = moved[v][reason] + q
  BY DEF StockDeskTypeOK, Log
<1>2. moved' \in [Stocked -> [Reason -> Int]]
  BY DEF StockDeskTypeOK, Log
<1>3. {"purchase", "sale", "reservation", "release", "cancellation", "return",
       "adjustment", "damage"} = Reason
  BY DEF Reason
<1>4. \A u \in Stocked : Booked(u) \in Int
  BY <1>1, <1>3 DEF Booked
<1>5. \A u \in Stocked \ {v} : Booked(u)' = Booked(u)
  BY <1>1, <1>3 DEF Booked
<1>6. /\ reason \in {"reservation", "release"} => Booked(v)' = Booked(v)
      /\ reason \notin {"reservation", "release"} => Booked(v)' = Booked(v) + q
  BY <1>1, <1>3 DEF Booked
<1>. QED
  BY <1>2, <1>4, <1>5, <1>6

-----------------------------------------------------------------------------
(* The inventory desk: every step keeps the log and the promises.          *)

\* A service function that logs the movement it makes, of units that were on
\* the shelf or counted as uncovered.
LEMMA ServiceStep ==
  ASSUME StockInv, NEW v \in Stocked, NEW new \in Row, Save(v, new),
         NEW reason \in Reason, NEW q \in Int, Log(v, reason, q),
         NEW k \in Nat, uncovered' \in [Stocked -> Nat],
         \A u \in Stocked :
           uncovered'[u] = uncovered[u] + (IF u = v THEN k ELSE 0),
         new.available = row[v].available + k
           + (IF reason \in {"reservation", "release"} THEN 0 ELSE q),
         phase' \in [DOMAIN Line -> Phases],
         formPage' \in {NoFormPage} \cup FormPage,
         UNCHANGED <<sheet, unlogged, raced>>,
         \A u \in Stocked \ {v}, in \in {"reserved", "sold"} :
           Held(u, in)' = Held(u, in),
         v \notin raced => /\ new.reserved = Held(v, "reserved")'
                           /\ new.sold = Held(v, "sold")'
  PROVE  StockInv'
<1>1. /\ row' = [row EXCEPT ![v] = new] /\ row \in [Stocked -> Row]
      /\ UNCHANGED threshold
      /\ alerts' \subseteq Staff \X Stocked
  BY DEF Save, Alerted, StockInv, StockDeskTypeOK
<1>2. StockDeskTypeOK'
  BY <1>1, LogBooks DEF StockInv, StockDeskTypeOK, Phases
<1>3. LogExplainsShelf'
  <2>. SUFFICES ASSUME NEW u \in Stocked
                PROVE  row'[u].available
                         = Stock[u] + Booked(u)' + unlogged[u] + uncovered'[u]
    BY DEF LogExplainsShelf
  <2>1. /\ row[u].available = Stock[u] + Booked(u) + unlogged[u] + uncovered[u]
        /\ row[u].available \in Nat /\ row[v].available \in Nat
        /\ Stock[u] \in Nat /\ Booked(u) \in Int
        /\ unlogged[u] \in Int /\ uncovered[u] \in Nat
    BY <1>1, LogBooks, StockDeskAssumption
    DEF StockInv, LogExplainsShelf, StockDeskTypeOK, Row
  <2>2. CASE u # v
    <3>1. row'[u] = row[u] /\ Booked(u)' = Booked(u) /\ uncovered'[u] = uncovered[u]
      BY <1>1, <2>1, <2>2, LogBooks DEF StockInv
    <3>. QED
      BY <2>1, <3>1
  <2>3. CASE u = v
    <3>1. row'[u] = new /\ uncovered'[u] = uncovered[u] + k
      BY <1>1, <2>3
    <3>2. CASE reason \in {"reservation", "release"}
      <4>1. Booked(u)' = Booked(u) /\ new.available = row[v].available + k
        BY <2>1, <2>3, <3>2, LogBooks DEF StockInv
      <4>. QED
        BY <2>1, <2>3, <3>1, <4>1
    <3>3. CASE reason \notin {"reservation", "release"}
      <4>1. Booked(u)' = Booked(u) + q /\ new.available = row[v].available + k + q
        BY <2>3, <3>3, LogBooks DEF StockInv
      <4>. QED
        BY <2>1, <2>3, <3>1, <4>1
    <3>. QED
      BY <3>2, <3>3
  <2>. QED
    BY <2>2, <2>3
<1>4. DeskKeepsPromises'
  <2>. SUFFICES ASSUME NEW u \in Stocked, u \notin raced
                PROVE  /\ row'[u].reserved = Held(u, "reserved")'
                       /\ row'[u].sold = Held(u, "sold")'
    BY DEF DeskKeepsPromises
  <2>1. CASE u = v
    BY <1>1, <2>1
  <2>2. CASE u # v
    BY <1>1, <2>2 DEF StockInv, DeskKeepsPromises
  <2>. QED
    BY <2>1, <2>2
<1>. QED
  BY <1>2, <1>3, <1>4 DEF StockInv

\* An order line moves on and its variant's row with it.
LEMMA LineService ==
  ASSUME StockInv, NEW l \in DOMAIN Line, NEW v \in Stocked, v = Line[l].variant,
         NEW n \in Nat, n = Line[l].quantity,
         NEW from \in Phases, NEW to \in Phases, from # to, Becomes(l, from, to),
         NEW new \in Row, Save(v, new),
         NEW reason \in Reason, NEW q \in Int, Log(v, reason, q),
         NEW k \in Nat, uncovered' \in [Stocked -> Nat],
         \A u \in Stocked :
           uncovered'[u] = uncovered[u] + (IF u = v THEN k ELSE 0),
         UNCHANGED <<formPage, sheet, unlogged, raced>>,
         new.available = row[v].available + k
           + (IF reason \in {"reservation", "release"} THEN 0 ELSE q),
         from # "reserved" \/ row[v].reserved >= n =>
           new.reserved = row[v].reserved - (IF from = "reserved" THEN n ELSE 0)
                            + (IF to = "reserved" THEN n ELSE 0),
         from # "sold" \/ row[v].sold >= n =>
           new.sold = row[v].sold - (IF from = "sold" THEN n ELSE 0)
                        + (IF to = "sold" THEN n ELSE 0)
  PROVE  StockInv'
<1>1. StockDeskTypeOK
  BY DEF StockInv
<1>2. phase' \in [DOMAIN Line -> Phases] /\ formPage' \in {NoFormPage} \cup FormPage
  BY <1>1 DEF Becomes, StockDeskTypeOK, Phases
<1>3. \A u \in Stocked \ {v}, in \in {"reserved", "sold"} :
        Held(u, in)' = Held(u, in)
  BY <1>1, LineMoves
<1>4. ASSUME v \notin raced
      PROVE  /\ new.reserved = Held(v, "reserved")'
             /\ new.sold = Held(v, "sold")'
  <2>1. /\ row[v].reserved = Held(v, "reserved") /\ row[v].sold = Held(v, "sold")
        /\ row[v].reserved \in Nat /\ row[v].sold \in Nat
    BY <1>1, <1>4 DEF StockInv, DeskKeepsPromises, StockDeskTypeOK, Row
  <2>2. /\ "reserved" = from =>
             Held(v, "reserved")' = Held(v, "reserved") - n /\ Held(v, "reserved") >= n
        /\ "reserved" = to => Held(v, "reserved")' = Held(v, "reserved") + n
        /\ "reserved" \notin {from, to} => Held(v, "reserved")' = Held(v, "reserved")
    BY <1>1, LineMoves
  <2>3. /\ "sold" = from =>
             Held(v, "sold")' = Held(v, "sold") - n /\ Held(v, "sold") >= n
        /\ "sold" = to => Held(v, "sold")' = Held(v, "sold") + n
        /\ "sold" \notin {from, to} => Held(v, "sold")' = Held(v, "sold")
    BY <1>1, LineMoves
  <2>4. new.reserved = Held(v, "reserved")'
    BY <2>1, <2>2
  <2>5. new.sold = Held(v, "sold")'
    BY <2>1, <2>3
  <2>. QED
    BY <2>4, <2>5
<1>. QED
  BY <1>2, <1>3, <1>4, ServiceStep DEF Phases

LEMMA LineStep ==
  ASSUME StockInv, NEW l \in DOMAIN Line,
         \/ ReserveLine(l) \/ ReleaseLine(l) \/ CommitLine(l)
         \/ \E reason \in {"cancellation", "return"} : RestoreLine(l, reason)
  PROVE  StockInv'
<1>1. PICK v \in Stocked, n \in Nat : v = Line[l].variant /\ n = Line[l].quantity
  BY StockDeskAssumption
<1>2. /\ row[v] \in Row /\ uncovered \in [Stocked -> Nat] /\ -n \in Int /\ n \in Int
      /\ row[v].available \in Nat /\ row[v].reserved \in Nat /\ row[v].sold \in Nat
      /\ \A u \in Stocked : uncovered[u] = uncovered[u] + (IF u = v THEN 0 ELSE 0)
  BY DEF StockInv, StockDeskTypeOK, Row
<1>3. /\ {"wanted", "reserved", "sold", "released", "back"} \subseteq Phases
      /\ {"sale", "reservation", "release", "cancellation", "return"} \subseteq Reason
  BY DEF Reason, Phases
<1>4. ASSUME ReserveLine(l) PROVE StockInv'
  <2>1. /\ Becomes(l, "wanted", "reserved") /\ Save(v, Reserve(row[v], n))
        /\ Log(v, "reservation", -n)
        /\ UNCHANGED <<formPage, sheet, unlogged, uncovered, raced>>
    BY <1>1, <1>4 DEF ReserveLine, desk, ghosts
  <2>2. PICK new \in Row : new = Reserve(row[v], n)
    BY <1>2, RowFigures
  <2>3. /\ new.available = row[v].available /\ new.reserved = row[v].reserved + n
        /\ new.sold = row[v].sold
    BY <1>2, <2>2, RowFigures
  <2>4. Save(v, new)
    BY <2>1, <2>2
  <2>. QED
    BY <1>1, <1>2, <1>3, <2>1, <2>3, <2>4, LineService
<1>5. ASSUME ReleaseLine(l) PROVE StockInv'
  <2>1. /\ Becomes(l, "reserved", "released") /\ Save(v, Release(row[v], n))
        /\ Log(v, "release", n)
        /\ UNCHANGED <<formPage, sheet, unlogged, uncovered, raced>>
    BY <1>1, <1>5 DEF ReleaseLine, desk, ghosts
  <2>2. PICK new \in Row : new = Release(row[v], n)
    BY <1>2, RowFigures
  <2>3. /\ new.available = row[v].available /\ new.sold = row[v].sold
        /\ row[v].reserved >= n => new.reserved = row[v].reserved - n
    BY <1>2, <2>2, RowFigures DEF Monus
  <2>4. Save(v, new)
    BY <2>1, <2>2
  <2>. QED
    BY <1>1, <1>2, <1>3, <2>1, <2>3, <2>4, LineService
<1>6. ASSUME CommitLine(l) PROVE StockInv'
  <2>1. /\ Becomes(l, "reserved", "sold") /\ Save(v, Commit(row[v], n))
        /\ Log(v, "sale", -n)
        /\ uncovered' = [uncovered EXCEPT ![v] = @ + Monus(n, row[v].available)]
        /\ UNCHANGED <<formPage, sheet, unlogged, raced>>
    BY <1>1, <1>6 DEF CommitLine
  <2>2. PICK new \in Row : new = Commit(row[v], n)
    BY <1>2, RowFigures
  <2>3. PICK k \in Nat : k = Monus(n, row[v].available)
    BY <1>2 DEF Monus
  <2>4. /\ new.available = Monus(row[v].available, n) /\ new.sold = row[v].sold + n
        /\ new.reserved = Monus(row[v].reserved, n)
    BY <1>2, <2>2, RowFigures
  <2>5. /\ new.available = row[v].available + k + -n
        /\ row[v].reserved >= n => new.reserved = row[v].reserved - n
    BY <1>2, <2>3, <2>4 DEF Monus
  <2>6. /\ uncovered' \in [Stocked -> Nat]
        /\ \A u \in Stocked :
             uncovered'[u] = uncovered[u] + (IF u = v THEN k ELSE 0)
    BY <1>2, <2>1, <2>3
  <2>7. Save(v, new)
    BY <2>1, <2>2
  <2>. QED
    BY <1>1, <1>2, <1>3, <2>1, <2>4, <2>5, <2>6, <2>7, LineService
<1>7. ASSUME NEW reason \in {"cancellation", "return"}, RestoreLine(l, reason)
      PROVE  StockInv'
  <2>1. PICK new \in {Restore(row[v], n), RestoreReturned(row[v], n)} :
          /\ Becomes(l, "sold", "back") /\ Save(v, new)
          /\ Log(v, reason, n)
          /\ UNCHANGED <<formPage, sheet, unlogged, uncovered, raced>>
    BY <1>1, <1>7 DEF RestoreLine, desk, ghosts
  <2>2. /\ new \in Row /\ new.available = row[v].available + n
        /\ new.reserved = row[v].reserved
        /\ row[v].sold >= n => new.sold = row[v].sold - n
    BY <1>2, RestoreFigures DEF Monus
  <2>. QED
    BY <1>1, <1>2, <1>3, <2>1, <2>2, LineService
<1>. QED
  BY <1>4, <1>5, <1>6, <1>7

\* The order lines of a variant do not move: what the desk does.
LEMMA HeldStays ==
  ASSUME UNCHANGED phase
  PROVE  \A v, in : Held(v, in)' = Held(v, in)
BY DEF Held

\* write_off, adjust and restock.
LEMMA DeskStep ==
  ASSUME StockInv, NEW v \in Stocked, NEW n \in Quantities,
         WriteOff(v, n) \/ Adjust(v, n) \/ Restock(v, n)
  PROVE  StockInv'
<1>1. /\ row[v] \in Row /\ uncovered \in [Stocked -> Nat] /\ n \in Nat
      /\ row[v].available \in Nat /\ row[v].reserved \in Nat /\ row[v].sold \in Nat
      /\ row[v].damaged \in Nat
      /\ \A u \in Stocked : uncovered[u] = uncovered[u] + (IF u = v THEN 0 ELSE 0)
      /\ phase \in [DOMAIN Line -> Phases]
      /\ formPage \in {NoFormPage} \cup FormPage
      /\ v \notin raced => /\ row[v].reserved = Held(v, "reserved")
                           /\ row[v].sold = Held(v, "sold")
  BY StockDeskAssumption
  DEF StockInv, StockDeskTypeOK, DeskKeepsPromises, Row, Phases
<1>2. {"damage", "adjustment", "purchase"} \subseteq Reason
  BY DEF Reason
<1>3. UNCHANGED <<phase, formPage, sheet, unlogged, uncovered, raced>>
  BY DEF WriteOff, Adjust, Restock, ghosts
<1>4. \A u \in Stocked, in \in {"reserved", "sold"} : Held(u, in)' = Held(u, in)
  BY <1>3, HeldStays
<1>5. PICK new \in Row, reason \in {"damage", "adjustment", "purchase"}, q \in Int :
        /\ Save(v, new) /\ Log(v, reason, q)
        /\ new.available = row[v].available + q
        /\ new.reserved = row[v].reserved /\ new.sold = row[v].sold
  <2>1. ASSUME WriteOff(v, n)
        PROVE  \E new \in Row, q \in Int :
                 /\ Save(v, new) /\ Log(v, "damage", q)
                 /\ new.available = row[v].available + q
                 /\ new.reserved = row[v].reserved /\ new.sold = row[v].sold
    <3> DEFINE removable == IF n < row[v].available THEN n ELSE row[v].available
    <3>8. removable \in Nat /\ removable <= row[v].available
      BY <1>1
    <3>9. /\ Save(v, [row[v] EXCEPT !.available = @ - removable,
                                   !.damaged = @ + removable])
          /\ Log(v, "damage", -removable)
      BY <2>1 DEF WriteOff
    <3>. HIDE DEF removable
    <3>7. PICK k \in Nat : k = removable
      BY <3>8
    <3>1. /\ k <= row[v].available /\ Log(v, "damage", -k)
          /\ Save(v, [row[v] EXCEPT !.available = @ - k, !.damaged = @ + k])
      BY <3>7, <3>8, <3>9
    <3>2. PICK new : new = [row[v] EXCEPT !.available = @ - k, !.damaged = @ + k]
      OBVIOUS
    <3>3. row[v].available - k \in Nat /\ row[v].damaged + k \in Nat
      BY <1>1, <3>1
    <3>4. /\ new \in Row /\ new.available = row[v].available - k
          /\ new.reserved = row[v].reserved /\ new.sold = row[v].sold
      BY <1>1, <3>2, <3>3 DEF Row
    <3>5. -k \in Int /\ row[v].available - k = row[v].available + -k
      BY <1>1
    <3>. QED
      BY <3>1, <3>2, <3>4, <3>5
  <2>2. ASSUME Adjust(v, n)
        PROVE  \E new \in Row, q \in Int :
                 /\ Save(v, new) /\ Log(v, "adjustment", q)
                 /\ new.available = row[v].available + q
                 /\ new.reserved = row[v].reserved /\ new.sold = row[v].sold
    <3>1. PICK new : new = [row[v] EXCEPT !.available = n]
      OBVIOUS
    <3>2. /\ new \in Row /\ new.available = n
          /\ new.reserved = row[v].reserved /\ new.sold = row[v].sold
      BY <1>1, <3>1 DEF Row
    <3>3. n - row[v].available \in Int
          /\ n = row[v].available + (n - row[v].available)
      BY <1>1
    <3>. QED
      BY <2>2, <3>1, <3>2, <3>3 DEF Adjust
  <2>3. ASSUME Restock(v, n)
        PROVE  \E new \in Row, q \in Int :
                 /\ Save(v, new) /\ Log(v, "purchase", q)
                 /\ new.available = row[v].available + q
                 /\ new.reserved = row[v].reserved /\ new.sold = row[v].sold
    <3>1. PICK new : new = [row[v] EXCEPT !.available = @ + n]
      OBVIOUS
    <3>2. row[v].available + n \in Nat /\ n \in Int
      BY <1>1
    <3>3. /\ new \in Row /\ new.available = row[v].available + n
          /\ new.reserved = row[v].reserved /\ new.sold = row[v].sold
      BY <1>1, <3>1, <3>2 DEF Row
    <3>. QED
      BY <2>3, <3>1, <3>2, <3>3 DEF Restock
  <2>. QED
    BY <2>1, <2>2, <2>3
<1>. QED
  BY <1>1, <1>2, <1>3, <1>4, <1>5, ServiceStep

\* An import writes the shelf past the log and keeps the account of it.
LEMMA ImportStep ==
  ASSUME StockInv, SaveImport
  PROVE  StockInv'
<1>1. /\ UNCHANGED <<threshold, moved, phase, formPage, uncovered, raced>>
      /\ unlogged' = [v \in Stocked |->
                        unlogged[v] + row'[v].available - row[v].available]
      /\ sheet' = NoSheet
  BY DEF SaveImport
<1>2. \A v \in DOMAIN sheet : sheet[v].figure \in Nat
  BY DEF StockInv, StockDeskTypeOK, ImportCopy
<1>3. \A v \in Stocked : /\ row[v] \in Row
                         /\ row[v].available \in Nat
  BY DEF StockInv, StockDeskTypeOK, Row
<1>4. \A v \in Stocked :
        \/ v \in DOMAIN sheet /\ row'[v] = [row[v] EXCEPT !.available = sheet[v].figure]
        \/ row'[v] = row[v]
  BY DEF SaveImport
<1>5. row' = [v \in Stocked |-> row'[v]]
  BY DEF SaveImport
<1>6. \A v \in Stocked :
        /\ row'[v] \in Row /\ row'[v].available \in Nat
        /\ row'[v].reserved = row[v].reserved /\ row'[v].sold = row[v].sold
  BY <1>2, <1>3, <1>4 DEF Row
<1>7. \A v \in Stocked :
        /\ unlogged[v] \in Int /\ unlogged'[v] \in Int
        /\ unlogged'[v] = unlogged[v] + row'[v].available - row[v].available
  BY <1>1, <1>3, <1>6 DEF StockInv, StockDeskTypeOK
<1>8. unlogged' \in [Stocked -> Int] /\ row' \in [Stocked -> Row]
  BY <1>1, <1>5, <1>6, <1>7
<1>9. alerts' \subseteq Staff \X Stocked
  BY DEF SaveImport, Alerted, StockInv, StockDeskTypeOK
<1>10. StockDeskTypeOK'
  <2>1. DOMAIN sheet' \subseteq Stocked /\ sheet' \in [DOMAIN sheet' -> ImportCopy]
    BY <1>1 DEF NoSheet
  <2>. QED
    BY <1>1, <1>8, <1>9, <2>1 DEF StockInv, StockDeskTypeOK
<1>11. LogExplainsShelf'
  <2>. SUFFICES ASSUME NEW v \in Stocked
                PROVE  row'[v].available
                         = Stock[v] + Booked(v)' + unlogged'[v] + uncovered[v]
    BY <1>1 DEF LogExplainsShelf
  <2>1. Booked(v)' = Booked(v) /\ Booked(v) \in Int
    BY <1>1 DEF Booked, StockInv, StockDeskTypeOK, Reason
  <2>2. /\ row[v].available = Stock[v] + Booked(v) + unlogged[v] + uncovered[v]
        /\ Stock[v] \in Nat /\ uncovered[v] \in Nat
    BY StockDeskAssumption DEF StockInv, LogExplainsShelf, StockDeskTypeOK
  <2>. QED
    BY <1>3, <1>6, <1>7, <2>1, <2>2
<1>12. DeskKeepsPromises'
  BY <1>1, <1>6, HeldStays DEF StockInv, DeskKeepsPromises
<1>. QED
  BY <1>10, <1>11, <1>12 DEF StockInv

\* The form: what it read when it was sent is what it writes over, unless
\* someone wrote the row in between.
LEMMA FormStep ==
  ASSUME StockInv, formPage # NoFormPage,
         NEW available \in Nat, NEW level \in Nat, SaveForm(available, level)
  PROVE  StockInv'
<1>1. PICK v \in Stocked : v = formPage.variant
  BY DEF StockInv, StockDeskTypeOK, FormPage
<1>2. /\ formPage.read \in Row /\ formPage.shown \in Row
      /\ row[v] \in Row /\ row[v].available \in Nat
      /\ unlogged[v] \in Int
  BY <1>1 DEF StockInv, StockDeskTypeOK, FormPage, SaveForm, Row
<1>3. PICK new \in Row :
        /\ new = FormWritten(available) /\ new.available = available
        /\ new.reserved = formPage.read.reserved
        /\ new.sold = formPage.read.sold
  <2>. PICK new : new = FormWritten(available)
    OBVIOUS
  <2>. QED
    BY <1>2 DEF FormWritten, Row
<1>4. /\ row' = [row EXCEPT ![v] = new]
      /\ threshold' = [threshold EXCEPT ![v] = level]
      /\ alerts' = Alerted(row', threshold', {v})
      /\ unlogged' = [unlogged EXCEPT ![v] = @ + available - row[v].available]
      /\ raced' = IF row[v] # formPage.read THEN raced \cup {v} ELSE raced
      /\ formPage' = NoFormPage
      /\ UNCHANGED <<moved, phase, sheet, moves, uncovered>>
  BY <1>1, <1>3 DEF SaveForm
<1>5. alerts' \subseteq Staff \X Stocked
  BY <1>4 DEF Alerted, StockInv, StockDeskTypeOK
<1>6. StockDeskTypeOK'
  <2>1. row' \in [Stocked -> Row] /\ threshold' \in [Stocked -> Nat]
    BY <1>4 DEF StockInv, StockDeskTypeOK
  <2>2. unlogged' \in [Stocked -> Int]
    <3>. PICK gap \in Int : gap = unlogged[v] + available - row[v].available
      BY <1>2
    <3>. QED
      BY <1>4 DEF StockInv, StockDeskTypeOK
  <2>3. /\ raced' \subseteq Stocked
        /\ moved' \in [Stocked -> [Reason -> Int]]
        /\ uncovered' \in [Stocked -> Nat]
        /\ formPage' \in {NoFormPage} \cup FormPage
        /\ DOMAIN sheet' \subseteq Stocked /\ sheet' \in [DOMAIN sheet' -> ImportCopy]
    BY <1>4 DEF StockInv, StockDeskTypeOK
  <2>4. phase' = phase
    BY DEF SaveForm
  <2>. QED
    BY <1>5, <2>1, <2>2, <2>3, <2>4 DEF StockInv, StockDeskTypeOK
<1>7. LogExplainsShelf'
  <2>. SUFFICES ASSUME NEW u \in Stocked
                PROVE  row'[u].available
                         = Stock[u] + Booked(u)' + unlogged'[u] + uncovered[u]
    BY <1>4 DEF LogExplainsShelf
  <2>1. Booked(u)' = Booked(u) /\ Booked(u) \in Int
    BY <1>4 DEF Booked, StockInv, StockDeskTypeOK, Reason
  <2>2. /\ row[u].available = Stock[u] + Booked(u) + unlogged[u] + uncovered[u]
        /\ Stock[u] \in Nat /\ uncovered[u] \in Nat /\ unlogged[u] \in Int
        /\ row[u].available \in Nat
    BY StockDeskAssumption DEF StockInv, LogExplainsShelf, StockDeskTypeOK, Row
  <2>3. u = v => /\ row'[u].available = available
                 /\ unlogged'[u] = unlogged[u] + available - row[u].available
    BY <1>3, <1>4 DEF StockInv, StockDeskTypeOK
  <2>4. u # v => row'[u] = row[u] /\ unlogged'[u] = unlogged[u]
    BY <1>4 DEF StockInv, StockDeskTypeOK
  <2>. QED
    BY <2>1, <2>2, <2>3, <2>4
<1>8. DeskKeepsPromises'
  <2>. SUFFICES ASSUME NEW u \in Stocked, u \notin raced'
                PROVE  /\ row'[u].reserved = Held(u, "reserved")
                       /\ row'[u].sold = Held(u, "sold")
    BY <1>4, HeldStays DEF DeskKeepsPromises
  <2>1. u \notin raced
    BY <1>4
  <2>2. /\ row[u].reserved = Held(u, "reserved")
        /\ row[u].sold = Held(u, "sold")
    BY <2>1 DEF StockInv, DeskKeepsPromises
  <2>3. /\ row'[u].reserved = row[u].reserved
        /\ row'[u].sold = row[u].sold
    BY <1>3, <1>4 DEF StockInv, StockDeskTypeOK
  <2>. QED
    BY <2>2, <2>3
<1>. QED
  BY <1>6, <1>7, <1>8 DEF StockInv

LEMMA SaveStep ==
  ASSUME StockInv, formPage # NoFormPage, SaveSomething
  PROVE  StockInv'
<1>1. PICK available \in Nat, level \in Nat : SaveForm(available, level)
  <2>1. /\ formPage.shown.available \in Nat
        /\ threshold[formPage.variant] \in Nat
    BY DEF StockInv, StockDeskTypeOK, FormPage, Row
  <2>. QED
    BY <2>1, StockDeskAssumption DEF SaveSomething
<1>. QED
  BY <1>1, FormStep

\* What only looks: the page shown, the row read again, a row read for the
\* import or the import given up, notifications read.
LEMMA LookStep ==
  ASSUME StockInv,
         \/ \E v \in Stocked : OpenForm(v)
         \/ PostForm
         \/ \E v \in Stocked, n \in Quantities : ReadForImport(v, n)
         \/ DropImport
         \/ \E s \in Staff : ReadAlerts(s)
         \/ UNCHANGED stockVars
  PROVE  StockInv'
<1>1. UNCHANGED <<row, threshold, moved, phase, unlogged, uncovered, raced>>
  BY DEF OpenForm, PostForm, ReadForImport, DropImport, ReadAlerts, stockVars,
         ghosts, desk
<1>2. formPage' \in {NoFormPage} \cup FormPage
  <2>1. CASE \E v \in Stocked : OpenForm(v)
    BY <2>1 DEF OpenForm, FormPage, StockInv, StockDeskTypeOK
  <2>2. CASE PostForm
    BY <2>2 DEF PostForm, FormPage, StockInv, StockDeskTypeOK
  <2>3. CASE UNCHANGED formPage
    BY <2>3 DEF StockInv, StockDeskTypeOK
  <2>. QED
    BY <2>1, <2>2, <2>3 DEF ReadForImport, DropImport, ReadAlerts, stockVars, desk
<1>3. alerts' \subseteq Staff \X Stocked
  BY DEF OpenForm, PostForm, ReadForImport, DropImport, ReadAlerts, stockVars,
         StockInv, StockDeskTypeOK
<1>8. DOMAIN sheet' \subseteq Stocked /\ sheet' \in [DOMAIN sheet' -> ImportCopy]
  <2>1. ASSUME NEW v \in Stocked, NEW n \in Quantities, ReadForImport(v, n)
        PROVE  DOMAIN sheet' \subseteq Stocked /\ sheet' \in [DOMAIN sheet' -> ImportCopy]
    <3>1. [figure |-> n, copy |-> row[v], level |-> threshold[v]] \in ImportCopy
      BY StockDeskAssumption DEF ImportCopy, StockInv, StockDeskTypeOK
    <3>. QED
      BY <2>1, <3>1 DEF ReadForImport, StockInv, StockDeskTypeOK
  <2>2. CASE DropImport
    BY <2>2 DEF DropImport, NoSheet
  <2>3. CASE UNCHANGED sheet
    BY <2>3 DEF StockInv, StockDeskTypeOK
  <2>. QED
    BY <2>1, <2>2, <2>3 DEF OpenForm, PostForm, ReadAlerts, stockVars, desk
<1>4. StockDeskTypeOK'
  BY <1>1, <1>2, <1>3, <1>8 DEF StockInv, StockDeskTypeOK
<1>5. \A v \in Stocked : Booked(v)' = Booked(v)
  BY <1>1 DEF Booked
<1>6. LogExplainsShelf'
  BY <1>1, <1>5 DEF StockInv, LogExplainsShelf
<1>7. DeskKeepsPromises'
  BY <1>1, HeldStays DEF StockInv, DeskKeepsPromises
<1>. QED
  BY <1>4, <1>6, <1>7 DEF StockInv

LEMMA StockInvInit == StockDeskInit => StockInv
<1>. SUFFICES ASSUME StockDeskInit PROVE StockInv
  OBVIOUS
<1>1. \A v \in Stocked : /\ row[v] = FullShelf(Stock[v])
                         /\ Stock[v] \in Nat
  BY StockDeskAssumption DEF StockDeskInit
<1>2. \A v \in Stocked : /\ row[v] \in Row /\ row[v].available = Stock[v]
                         /\ row[v].reserved = 0 /\ row[v].sold = 0
  <2>. SUFFICES ASSUME NEW v \in Stocked
                PROVE  /\ row[v] \in Row /\ row[v].available = Stock[v]
                       /\ row[v].reserved = 0 /\ row[v].sold = 0
    OBVIOUS
  <2>. PICK n \in Nat : n = Stock[v] /\ row[v] = FullShelf(n)
    BY <1>1
  <2>. QED
    BY DEF FullShelf, Row
<1>3. StockDeskTypeOK
  BY <1>2, StockDeskAssumption DEF StockDeskInit, StockDeskTypeOK, NoSheet
<1>4. LogExplainsShelf
  BY <1>1, <1>2 DEF StockDeskInit, LogExplainsShelf, Booked, Reason
<1>5. DeskKeepsPromises
  <2>1. ASSUME NEW v \in Stocked, NEW in \in {"reserved", "sold"}
        PROVE  Held(v, in) = 0
    <3>1. {l \in DOMAIN Line : Line[l].variant = v /\ phase[l] = in} = {}
      BY DEF StockDeskInit
    <3>. QED
      BY <3>1, TotalOfNone DEF Held
  <2>. QED
    BY <1>2, <2>1 DEF DeskKeepsPromises
<1>. QED
  BY <1>3, <1>4, <1>5 DEF StockInv

LEMMA StockInvStep == StockInv /\ [StockDeskNext]_stockVars => StockInv'
BY LineStep, DeskStep, ImportStep, SaveStep, LookStep DEF StockDeskNext

LEMMA StockInvAlways == StockDeskSpec => []StockInv
<1>. QED
  BY StockInvInit, StockInvStep, PTL DEF StockDeskSpec

\* The desk's state keeps its types whatever handlers, forms, imports and
\* alerts write it (inventory/services.py, inventory/admin.py,
\* catalog/importer.py, notifications/signals.py).
THEOREM StockDeskTypeCorrect == StockDeskSpec => []StockDeskTypeOK
<1>1. StockInv => StockDeskTypeOK
  BY DEF StockInv
<1>. QED
  BY <1>1, StockInvAlways, PTL

\* What is on the shelf is the opening figure, the movements of the log, what
\* the form and the import wrote past it and what was sold uncovered, for
\* any number of handlers (inventory/services.py:46, :110).
THEOREM LogIsComplete == StockDeskSpec => []LogExplainsShelf
<1>1. StockInv => LogExplainsShelf
  BY DEF StockInv
<1>. QED
  BY <1>1, StockInvAlways, PTL

\* Nothing done at the desk changes what orders reserved and bought, but for
\* a form saved over a change it had not read (inventory/admin.py:81).
THEOREM DeskKeepsOrdersPromises == StockDeskSpec => []DeskKeepsPromises
<1>1. StockInv => DeskKeepsPromises
  BY DEF StockInv
<1>. QED
  BY <1>1, StockInvAlways, PTL

\* Whoever saves a row tells the staff of it, if the figures it decides by
\* are those of the row.
LEMMA SaveTells ==
  ASSUME StockInv', NEW changed, NEW seen, NEW levels,
         alerts' = Alerted(seen, levels, changed),
         NEW v \in Stocked, v \in changed, NEW s \in Staff,
         levels[v] = threshold'[v], Sellable(seen[v]) = Sellable(row'[v]),
         Sellable(row'[v]) \in 1 .. threshold'[v]
  PROVE  \E w \in Longer[v] : <<s, w>> \in alerts'
<1>1. threshold'[v] \in Nat
  BY DEF StockInv, StockDeskTypeOK
<1>2. NeedsReorder(seen[v], levels[v]) /\ Sellable(seen[v]) > 0
  <2>. PICK left : left = Sellable(seen[v])
    OBVIOUS
  <2>. QED
    BY <1>1 DEF NeedsReorder
<1>3. v \in Longer[v]
  BY StockDeskAssumption
<1>4. CASE \E w \in Longer[v] : <<s, w>> \in alerts
  BY <1>4 DEF Alerted
<1>5. CASE ~\E w \in Longer[v] : <<s, w>> \in alerts
  <2>1. /\ <<s, v>> \in Staff \X changed
        /\ <<s, v>>[1] = s /\ <<s, v>>[2] = v
    OBVIOUS
  <2>2. <<s, v>> \in Alerted(seen, levels, changed)
    BY <1>2, <1>5, <2>1 DEF Alerted
  <2>. QED
    BY <1>3, <2>2
<1>. QED
  BY <1>4, <1>5

\* A step that changes a variant's row saves it, and what it decides the
\* alert by is the row, unless it is an import whose copy was overtaken.
LEMMA ChangesAreSaves ==
  ASSUME StockInv, StockDeskNext, NEW v \in Stocked, row'[v] # row[v],
         ~CopyOvertaken(v)
  PROVE  \E changed, seen, levels :
           /\ alerts' = Alerted(seen, levels, changed) /\ v \in changed
           /\ levels[v] = threshold'[v] /\ Sellable(seen[v]) = Sellable(row'[v])
<1> DEFINE Told == \E changed, seen, levels :
             /\ alerts' = Alerted(seen, levels, changed) /\ v \in changed
             /\ levels[v] = threshold'[v] /\ Sellable(seen[v]) = Sellable(row'[v])
<1>1. ASSUME NEW u, NEW new, Save(u, new) PROVE Told
  BY <1>1 DEF Save, StockInv, StockDeskTypeOK
<1>2. ASSUME NEW l \in DOMAIN Line,
             \/ ReserveLine(l) \/ ReleaseLine(l) \/ CommitLine(l)
             \/ \E reason \in {"cancellation", "return"} : RestoreLine(l, reason)
      PROVE  Told
  <2>. HIDE DEF Told
  <2>. QED
    BY <1>1, <1>2 DEF ReserveLine, ReleaseLine, CommitLine, RestoreLine
<1>3. ASSUME NEW u \in Stocked, NEW n \in Quantities,
             WriteOff(u, n) \/ Adjust(u, n) \/ Restock(u, n)
      PROVE  Told
  <2>. HIDE DEF Told
  <2>. QED
    BY <1>1, <1>3 DEF WriteOff, Adjust, Restock
<1>4. ASSUME SaveImport PROVE Told
  <2>1. v \in DOMAIN sheet /\ UNCHANGED threshold /\ sheet' = NoSheet
    BY <1>4 DEF SaveImport
  <2>2. /\ sheet[v].copy.reserved = row[v].reserved
        /\ sheet[v].level = threshold[v]
    BY <2>1 DEF CopyOvertaken
  <2>3. /\ row'[v] = [row[v] EXCEPT !.available = sheet[v].figure]
        /\ Imported[v] = [sheet[v].copy EXCEPT !.available = sheet[v].figure]
        /\ row[v] \in Row /\ sheet[v].copy \in Row
    BY <1>4, <2>1 DEF SaveImport, Imported, StockInv, StockDeskTypeOK, ImportCopy
  <2>4. Sellable(Imported[v]) = Sellable(row'[v])
    BY <2>2, <2>3 DEF Sellable, Row
  <2>5. alerts' = Alerted(Imported, [u \in DOMAIN sheet |-> sheet[u].level], DOMAIN sheet)
    BY <1>4 DEF SaveImport
  <2>. QED
    BY <2>1, <2>2, <2>4, <2>5
<1>5. ASSUME formPage # NoFormPage, NEW available, NEW level,
             SaveForm(available, level)
      PROVE  Told
  BY <1>5 DEF SaveForm, StockInv, StockDeskTypeOK
<1>6. ASSUME UNCHANGED row PROVE FALSE
  BY <1>6
<1>. HIDE DEF Told
<1>7. Told
  BY <1>2, <1>3, <1>4, <1>5, <1>6
  DEF StockDeskNext, SaveSomething, OpenForm, PostForm, ReadForImport, DropImport,
      ReadAlerts
<1>. QED
  BY <1>7 DEF Told

\* Whichever handler leaves a variant low but sellable, each of the staff has
\* something unread about it, whatever reads and saves interleave; only an
\* import whose copy of the row was overtaken may say nothing
\* (notifications/signals.py:64, catalog/importer.py:303).
THEOREM StaffAreTold == StockDeskSpec => LowStockAnnounced
<1> DEFINE Announced == \A v \in Stocked, s \in Staff :
                          /\ row'[v] # row[v]
                          /\ Sellable(row'[v]) \in 1 .. threshold'[v]
                          /\ ~CopyOvertaken(v)
                          => \E w \in Longer[v] : <<s, w>> \in alerts'
<1>1. StockInv /\ StockInv' /\ StockDeskNext => Announced
  BY SaveTells, ChangesAreSaves
<1>2. StockInv /\ StockInv' /\ [StockDeskNext]_stockVars
        => [Announced]_stockVars
  BY <1>1
<1>. QED
  BY <1>2, StockInvAlways, PTL DEF StockDeskSpec, LowStockAnnounced

-----------------------------------------------------------------------------
(* Numbered documents.                                                     *)

\* No two workers are at one paper.
PapersApart ==
  \A w \in Clerk :
    /\ job[w].at = "idle" => job[w].paper = NoOne /\ job[w].number = NoNumber
    /\ job[w].at # "idle" => job[w].paper \in Paper
    /\ \A v \in Clerk : job[v].paper = job[w].paper /\ job[w].paper # NoOne
                         => v = w

\* Who holds the row of a series is about to commit its next number, on a
\* paper that has none.
HoldersKnow ==
  \A w \in Clerk, s \in SeriesNames :
    series_lock[s] = w => /\ job[w].at \in {"mailing", "committing"}
                          /\ SeriesOf[job[w].paper] = s
                          /\ job[w].number = last_number[s] + 1
                          /\ number_of[job[w].paper] = NoNumber

\* A number nobody holds the row for is the one the paper has already; a
\* reference of another form never replaces a number.
NumbersKnown ==
  \A w \in Clerk :
    /\ job[w].number > 0 => \/ series_lock[SeriesOf[job[w].paper]] = w
                            \/ number_of[job[w].paper] = job[w].number
    /\ job[w].number = Timestamp => ~(number_of[job[w].paper] > 0)

\* What is mailed and not committed was not mailed before.
MailsKnown ==
  \A w \in Clerk : job[w].mailed => /\ job[w].at = "committing"
                                    /\ job[w].paper \notin emailed

\* A paper's mails, without the counting.
MailsTold ==
  \A p \in Paper :
    mails[p] = undone[p]
      + (IF \E w \in Clerk : job[w].paper = p /\ job[w].mailed THEN 1 ELSE 0)
      + (IF p \in emailed THEN 1 ELSE 0)

PaperInv ==
  /\ PaperworkTypeOK /\ NumbersWithoutGaps
  /\ PapersApart /\ HoldersKnow /\ NumbersKnown /\ MailsKnown /\ MailsTold

LEMMA PaperInvInit == PaperworkInit => PaperInv
<1>. SUFFICES ASSUME PaperworkInit PROVE PaperInv
  OBVIOUS
<1>1. \A w \in Clerk : job[w] = Idle /\ Idle \in Job
  BY DEF PaperworkInit, Idle, Job, NoNumber
<1>2. PaperworkTypeOK
  BY <1>1, PaperworkAssumption DEF PaperworkInit, PaperworkTypeOK, NoNumber
<1>3. NumbersWithoutGaps
  <2>. SUFFICES ASSUME NEW s \in SeriesNames
                PROVE  {p \in Paper : SeriesOf[p] = s /\ number_of[p] > 0} = {}
                       /\ last_number[s] = 0
    BY DEF NumbersWithoutGaps
  <2>. QED
    BY DEF PaperworkInit, NoNumber
<1>4. PapersApart /\ NumbersKnown /\ MailsKnown
  BY <1>1, PaperworkAssumption
  DEF PapersApart, NumbersKnown, MailsKnown, Idle, NoNumber, Timestamp
<1>5. HoldersKnow
  BY PaperworkAssumption DEF PaperworkInit, HoldersKnow
<1>6. MailsTold
  BY <1>1 DEF PaperworkInit, MailsTold, Idle
<1>. QED
  BY <1>2, <1>3, <1>4, <1>5, <1>6 DEF PaperInv

\* A step that mails nothing and ends no transaction that mailed.
LEMMA MailsUntouched ==
  ASSUME MailsTold, UNCHANGED <<mails, undone, emailed>>,
         \A v \in Clerk : /\ job'[v].mailed <=> job[v].mailed
                          /\ job[v].mailed => job'[v].paper = job[v].paper
  PROVE  MailsTold'
<1>1. \A p \in Paper : (\E v \in Clerk : job'[v].paper = p /\ job'[v].mailed)
                     <=> (\E v \in Clerk : job[v].paper = p /\ job[v].mailed)
  OBVIOUS
<1>2. \A p \in Paper :
        (IF \E v \in Clerk : job'[v].paper = p /\ job'[v].mailed THEN 1 ELSE 0)
          = (IF \E v \in Clerk : job[v].paper = p /\ job[v].mailed THEN 1 ELSE 0)
  BY <1>1
<1>. QED
  BY <1>2 DEF MailsTold

\* A worker takes up a paper, or finds its number.
LEMMA BeginStep ==
  ASSUME PaperInv, NEW w \in Clerk,
         \/ \E p \in Paper : \E way \in Ways(p) : Begin(w, p, way)
         \/ ExistingInvoice(w)
  PROVE  PaperInv'
<1>1. /\ UNCHANGED <<last_number, series_lock, number_of, emailed, mails, undone,
                     failures>>
      /\ job[w] \in Job /\ ~job[w].mailed /\ series_lock \in [SeriesNames -> Clerk \cup {NoOne}]
      /\ \A s \in SeriesNames : series_lock[s] # w
  BY DEF Begin, ExistingInvoice, sending, PaperInv, PaperworkTypeOK, HoldersKnow,
         MailsKnown
<1>2. PICK new \in Job :
        /\ job' = [job EXCEPT ![w] = new]
        /\ new.at # "idle" /\ new.paper \in Paper /\ ~new.mailed
        /\ \A v \in Clerk \ {w} : job[v].paper # new.paper
        /\ new.number = NoNumber \/ new.number = number_of[new.paper]
  <2>1. ASSUME NEW p \in Paper, NEW way \in Ways(p), Begin(w, p, way)
        PROVE  \E new \in Job :
                 /\ job' = [job EXCEPT ![w] = new]
                 /\ new.at # "idle" /\ new.paper \in Paper /\ ~new.mailed
                 /\ \A v \in Clerk \ {w} : job[v].paper # new.paper
                 /\ new.number = NoNumber
    <3>. DEFINE new == [Idle EXCEPT !.at = "numbering", !.paper = p, !.way = way]
    <3>1. /\ new \in Job /\ new.at = "numbering" /\ new.paper = p
          /\ ~new.mailed /\ new.number = NoNumber
      BY <2>1 DEF Idle, Job, Ways, NoNumber
    <3>2. job' = [job EXCEPT ![w] = new] /\ \A v \in Clerk : job[v].paper # p
      BY <2>1 DEF Begin
    <3>. HIDE DEF new
    <3>. QED
      BY <3>1, <3>2
  <2>2. ASSUME ExistingInvoice(w)
        PROVE  \E new \in Job :
                 /\ job' = [job EXCEPT ![w] = new]
                 /\ new.at # "idle" /\ new.paper \in Paper /\ ~new.mailed
                 /\ \A v \in Clerk \ {w} : job[v].paper # new.paper
                 /\ new.number = number_of[new.paper]
    <3>. DEFINE new == [job[w] EXCEPT !.at = "mailing",
                                     !.number = number_of[job[w].paper]]
    <3>1. job[w].at = "numbering" /\ job[w].paper \in Paper
      BY <2>2 DEF ExistingInvoice, PaperInv, PapersApart
    <3>2. number_of[job[w].paper] \in Nat \cup {Timestamp}
      BY <3>1 DEF PaperInv, PaperworkTypeOK
    <3>3. /\ new \in Job /\ new.at = "mailing" /\ new.paper = job[w].paper
          /\ ~new.mailed /\ new.number = number_of[job[w].paper]
      BY <1>1, <3>2 DEF Job
    <3>4. job' = [job EXCEPT ![w] = new]
      BY <2>2 DEF ExistingInvoice
    <3>5. \A v \in Clerk \ {w} : job[v].paper # job[w].paper
      BY <3>1, PaperworkAssumption DEF PaperInv, PapersApart
    <3>. HIDE DEF new
    <3>. QED
      BY <3>1, <3>3, <3>4, <3>5
  <2>. QED
    BY <2>1, <2>2
<1>3. /\ job'[w] = new
      /\ \A v \in Clerk \ {w} : job'[v] = job[v]
  BY <1>2 DEF PaperInv, PaperworkTypeOK
<1>4. PaperworkTypeOK'
  BY <1>1, <1>2 DEF PaperInv, PaperworkTypeOK
<1>5. NumbersWithoutGaps'
  BY <1>1 DEF PaperInv, NumbersWithoutGaps
<1>6. PapersApart'
  BY <1>2, <1>3 DEF PaperInv, PapersApart
<1>7. HoldersKnow'
  BY <1>1, <1>3 DEF PaperInv, HoldersKnow
<1>8. NumbersKnown'
  BY <1>1, <1>2, <1>3 DEF PaperInv, NumbersKnown, NoNumber, Timestamp
<1>9. MailsKnown'
  BY <1>1, <1>2, <1>3 DEF PaperInv, MailsKnown
<1>10. MailsTold'
  <2>1. \A v \in Clerk : /\ job'[v].mailed <=> job[v].mailed
                         /\ job[v].mailed => job'[v].paper = job[v].paper
    BY <1>1, <1>2, <1>3
  <2>. QED
    BY <1>1, <2>1, MailsUntouched DEF PaperInv
<1>. QED
  BY <1>4, <1>5, <1>6, <1>7, <1>8, <1>9, <1>10 DEF PaperInv

\* The next number of the series, while nobody else holds its row.
LEMMA AllocateStep ==
  ASSUME PaperInv, NEW w \in Clerk, Allocate(w)
  PROVE  PaperInv'
<1>1. PICK p \in Paper : p = job[w].paper
  BY DEF Allocate, PaperInv, PapersApart
<1>2. PICK s \in SeriesNames : s = SeriesOf[p]
  BY DEF SeriesNames
<1>3. /\ job[w].at = "numbering" /\ number_of[p] = NoNumber
      /\ series_lock[s] = NoOne /\ series_lock' = [series_lock EXCEPT ![s] = w]
      /\ job' = [job EXCEPT ![w].at = "mailing", ![w].number = last_number[s] + 1]
      /\ UNCHANGED <<last_number, number_of, emailed, mails, undone, failures>>
  BY <1>1, <1>2 DEF Allocate, sending
<1>4. /\ last_number[s] + 1 \in Nat /\ last_number[s] + 1 > 0
      /\ job[w] \in Job /\ ~job[w].mailed
  BY <1>3 DEF PaperInv, PaperworkTypeOK, MailsKnown
<1>5. PICK new \in Job :
        /\ job' = [job EXCEPT ![w] = new] /\ new.at = "mailing"
        /\ new.paper = p /\ new.number = last_number[s] + 1 /\ ~new.mailed
  <2>. DEFINE new == [job[w] EXCEPT !.at = "mailing", !.number = last_number[s] + 1]
  <2>1. /\ new \in Job /\ new.at = "mailing" /\ new.paper = p
        /\ new.number = last_number[s] + 1 /\ ~new.mailed
    BY <1>1, <1>4 DEF Job
  <2>2. job' = [job EXCEPT ![w] = new]
    BY <1>3
  <2>. HIDE DEF new
  <2>. QED
    BY <2>1, <2>2
<1>6. /\ job'[w] = new
      /\ \A v \in Clerk \ {w} : job'[v] = job[v]
      /\ series_lock'[s] = w
      /\ \A r \in SeriesNames \ {s} : series_lock'[r] = series_lock[r]
  BY <1>3, <1>5 DEF PaperInv, PaperworkTypeOK
<1>7. \A r \in SeriesNames : series_lock[r] # w
  BY <1>3 DEF PaperInv, HoldersKnow
<1>8. PaperworkTypeOK'
  BY <1>3, <1>5 DEF PaperInv, PaperworkTypeOK
<1>9. NumbersWithoutGaps'
  BY <1>3 DEF PaperInv, NumbersWithoutGaps
<1>10. PapersApart'
  BY <1>1, <1>5, <1>6, PaperworkAssumption DEF PaperInv, PapersApart
<1>11. HoldersKnow'
  <2>. SUFFICES ASSUME NEW v \in Clerk, NEW r \in SeriesNames, series_lock'[r] = v
                PROVE  /\ job'[v].at \in {"mailing", "committing"}
                       /\ SeriesOf[job'[v].paper] = r
                       /\ job'[v].number = last_number'[r] + 1
                       /\ number_of'[job'[v].paper] = NoNumber
    BY DEF HoldersKnow
  <2>1. CASE r = s
    BY <1>2, <1>3, <1>5, <1>6, <2>1
  <2>2. CASE r # s
    <3>1. series_lock[r] = v /\ v # w
      BY <1>6, <1>7, <2>2
    <3>2. job'[v] = job[v]
      BY <1>6, <3>1
    <3>. QED
      BY <1>3, <3>1, <3>2 DEF PaperInv, HoldersKnow
  <2>. QED
    BY <2>1, <2>2
<1>12. NumbersKnown'
  <2>. SUFFICES ASSUME NEW v \in Clerk
                PROVE  /\ job'[v].number > 0 =>
                            \/ series_lock'[SeriesOf[job'[v].paper]] = v
                            \/ number_of[job'[v].paper] = job'[v].number
                       /\ job'[v].number = Timestamp => ~(number_of[job'[v].paper] > 0)
    BY <1>3 DEF NumbersKnown
  <2>1. CASE v = w
    BY <1>2, <1>4, <1>5, <1>6, <2>1 DEF Timestamp
  <2>2. CASE v # w
    <3>1. job'[v] = job[v] /\ job[v] \in Job
      BY <1>6, <2>2 DEF PaperInv, PaperworkTypeOK
    <3>2. /\ job[v].number > 0 =>
               \/ series_lock[SeriesOf[job[v].paper]] = v
               \/ number_of[job[v].paper] = job[v].number
          /\ job[v].number = Timestamp => ~(number_of[job[v].paper] > 0)
      BY DEF PaperInv, NumbersKnown
    <3>3. job[v].number > 0 => job[v].paper \in Paper
      BY DEF PaperInv, PapersApart, NoNumber
    <3>4. job[v].paper \in Paper => SeriesOf[job[v].paper] \in SeriesNames
      BY DEF SeriesNames
    <3>5. v # NoOne
      BY PaperworkAssumption
    <3>. QED
      BY <1>3, <1>6, <3>1, <3>2, <3>3, <3>4, <3>5
  <2>. QED
    BY <2>1, <2>2
<1>13. MailsKnown'
  BY <1>3, <1>5, <1>6 DEF PaperInv, MailsKnown
<1>14. MailsTold'
  <2>1. \A v \in Clerk : /\ job'[v].mailed <=> job[v].mailed
                         /\ job[v].mailed => job'[v].paper = job[v].paper
    BY <1>4, <1>5, <1>6
  <2>. QED
    BY <1>3, <2>1, MailsUntouched DEF PaperInv
<1>. QED
  BY <1>8, <1>9, <1>10, <1>11, <1>12, <1>13, <1>14 DEF PaperInv

\* A step of a worker who keeps its paper and number and lets go of no row,
\* or has no number.
LEMMA LetGoKeeps ==
  ASSUME PaperInv, NEW w \in Clerk, LetGo(w)
  PROVE  /\ series_lock' \in [SeriesNames -> Clerk \cup {NoOne}]
         /\ \A s \in SeriesNames : /\ series_lock'[s] # w
                                  /\ \A v \in Clerk \ {w} :
                                       series_lock'[s] = v <=> series_lock[s] = v
BY PaperworkAssumption DEF LetGo, PaperInv, PaperworkTypeOK

\* The numbering fails: the transaction goes on without a number of the
\* series.
LEMMA NumberingFailsStep ==
  ASSUME PaperInv, NEW w \in Clerk, NumberingFails(w)
  PROVE  PaperInv'
<1>1. PICK new \in Job :
        /\ job' = [job EXCEPT ![w] = new] /\ new.at = "committing"
        /\ new.paper = job[w].paper /\ new.number \in {NoNumber, Timestamp}
        /\ ~new.mailed
  <2>. PICK number \in {NoNumber, Timestamp} :
         number = IF job[w].paper \in Fallback THEN Timestamp ELSE NoNumber
    OBVIOUS
  <2>. DEFINE new == [job[w] EXCEPT !.at = "committing", !.number = number]
  <2>1. job' = [job EXCEPT ![w] = new] /\ ~job[w].mailed
    BY DEF NumberingFails
  <2>2. /\ new \in Job /\ new.at = "committing" /\ new.paper = job[w].paper
        /\ new.number = number /\ ~new.mailed
    BY <2>1 DEF Job, PaperInv, PaperworkTypeOK, NoNumber
  <2>. HIDE DEF new
  <2>. QED
    BY <2>1, <2>2
<1>2. /\ UNCHANGED <<last_number, number_of, emailed, mails, undone>>
      /\ failures < MaxFailures /\ failures' = failures + 1
      /\ job[w].at # "idle" /\ ~job[w].mailed /\ LetGo(w)
      /\ number_of[job[w].paper] = NoNumber
  BY DEF NumberingFails, sending
<1>3. /\ job'[w] = new
      /\ \A v \in Clerk \ {w} : job'[v] = job[v]
  BY <1>1 DEF PaperInv, PaperworkTypeOK
<1>4. PaperworkTypeOK'
  <2>1. failures' \in 0 .. MaxFailures
    BY <1>2, PaperworkAssumption DEF PaperInv, PaperworkTypeOK
  <2>. QED
    BY <1>1, <1>2, <2>1, LetGoKeeps DEF PaperInv, PaperworkTypeOK
<1>5. NumbersWithoutGaps'
  BY <1>2 DEF PaperInv, NumbersWithoutGaps
<1>6. PapersApart'
  BY <1>1, <1>2, <1>3 DEF PaperInv, PapersApart
<1>7. HoldersKnow'
  BY <1>2, <1>3, LetGoKeeps DEF PaperInv, HoldersKnow
<1>8. NumbersKnown'
  <2>. SUFFICES ASSUME NEW v \in Clerk
                PROVE  /\ job'[v].number > 0 =>
                            \/ series_lock'[SeriesOf[job'[v].paper]] = v
                            \/ number_of[job'[v].paper] = job'[v].number
                       /\ job'[v].number = Timestamp => ~(number_of[job'[v].paper] > 0)
    BY <1>2 DEF NumbersKnown
  <2>1. CASE v = w
    BY <1>1, <1>2, <1>3, <2>1 DEF NoNumber, Timestamp
  <2>2. CASE v # w
    <3>1. job'[v] = job[v]
      BY <1>3, <2>2
    <3>2. /\ job[v].number > 0 =>
               \/ series_lock[SeriesOf[job[v].paper]] = v
               \/ number_of[job[v].paper] = job[v].number
          /\ job[v].number = Timestamp => ~(number_of[job[v].paper] > 0)
      BY DEF PaperInv, NumbersKnown
    <3>3. job[v].number > 0 => SeriesOf[job[v].paper] \in SeriesNames
      BY DEF PaperInv, PapersApart, NoNumber, SeriesNames
    <3>. QED
      BY <1>2, <2>2, <3>1, <3>2, <3>3, LetGoKeeps
  <2>. QED
    BY <2>1, <2>2
<1>9. MailsKnown'
  BY <1>1, <1>2, <1>3 DEF PaperInv, MailsKnown
<1>10. MailsTold'
  <2>1. \A v \in Clerk : /\ job'[v].mailed <=> job[v].mailed
                         /\ job[v].mailed => job'[v].paper = job[v].paper
    BY <1>1, <1>2, <1>3
  <2>. QED
    BY <1>2, <2>1, MailsUntouched DEF PaperInv
<1>. QED
  BY <1>4, <1>5, <1>6, <1>7, <1>8, <1>9, <1>10 DEF PaperInv

\* The invoice is mailed, is not due, or the mail server refuses.
LEMMA MailStep ==
  ASSUME PaperInv, NEW w \in Clerk, MailInvoice(w) \/ MailFails(w)
  PROVE  PaperInv'
<1>1. PICK p \in Paper : p = job[w].paper
  BY DEF MailInvoice, MailFails, PaperInv, PapersApart
<1>2. /\ UNCHANGED <<last_number, series_lock, number_of, emailed, undone>>
      /\ job[w].at = "mailing" /\ ~job[w].mailed
      /\ failures' \in 0 .. MaxFailures
  BY PaperworkAssumption
  DEF MailInvoice, MailFails, PaperInv, PaperworkTypeOK, MailsKnown, sending
<1>3. PICK due \in BOOLEAN :
        /\ due => p \notin emailed
        /\ mails' = IF due THEN [mails EXCEPT ![p] = @ + 1] ELSE mails
        /\ job' = [job EXCEPT ![w] = [job[w] EXCEPT !.at = "committing",
                                                  !.mailed = due]]
  <2>1. CASE MailInvoice(w)
    <3>1. PICK due \in BOOLEAN : due = (p \notin Fallback /\ p \notin emailed)
      OBVIOUS
    <3>. QED
      BY <1>1, <2>1, <3>1 DEF MailInvoice
  <2>2. CASE MailFails(w)
    <3>1. job[w] = [job[w] EXCEPT !.mailed = FALSE]
      BY <1>2 DEF PaperInv, PaperworkTypeOK, Job
    <3>2. job' = [job EXCEPT ![w].at = "committing"] /\ mails' = mails
      BY <2>2 DEF MailFails, Goes, sending
    <3>3. [job[w] EXCEPT !.at = "committing"]
            = [job[w] EXCEPT !.at = "committing", !.mailed = FALSE]
      BY <3>1
    <3>. QED
      BY <3>2, <3>3
  <2>. QED
    BY <2>1, <2>2
<1>4. PICK new \in Job :
        /\ job' = [job EXCEPT ![w] = new] /\ new.at = "committing"
        /\ new.paper = p /\ new.number = job[w].number /\ new.mailed = due
  <2>. DEFINE new == [job[w] EXCEPT !.at = "committing", !.mailed = due]
  <2>1. /\ new \in Job /\ new.at = "committing" /\ new.paper = p
        /\ new.number = job[w].number /\ new.mailed = due
    BY <1>1 DEF Job, PaperInv, PaperworkTypeOK
  <2>. HIDE DEF new
  <2>. QED
    BY <1>3, <2>1 DEF new
<1>5. /\ job'[w] = new
      /\ \A v \in Clerk \ {w} : job'[v] = job[v]
  BY <1>4 DEF PaperInv, PaperworkTypeOK
<1>6. PaperworkTypeOK'
  <2>1. mails' \in [Paper -> Nat]
    BY <1>3 DEF PaperInv, PaperworkTypeOK
  <2>. QED
    BY <1>2, <1>4, <2>1 DEF PaperInv, PaperworkTypeOK
<1>7. NumbersWithoutGaps'
  BY <1>2 DEF PaperInv, NumbersWithoutGaps
<1>8. PapersApart'
  BY <1>1, <1>2, <1>4, <1>5 DEF PaperInv, PapersApart
<1>9. HoldersKnow'
  BY <1>1, <1>2, <1>4, <1>5 DEF PaperInv, HoldersKnow
<1>10. NumbersKnown'
  BY <1>1, <1>2, <1>4, <1>5 DEF PaperInv, NumbersKnown
<1>11. MailsKnown'
  BY <1>2, <1>3, <1>4, <1>5 DEF PaperInv, MailsKnown
<1>12. \A v \in Clerk \ {w} : job[v].paper # p
  BY <1>1, PaperworkAssumption DEF PaperInv, PapersApart
<1>13. MailsTold'
  <2>. SUFFICES ASSUME NEW q \in Paper
                PROVE  mails'[q] = undone[q]
                         + (IF \E v \in Clerk : job'[v].paper = q /\ job'[v].mailed
                            THEN 1 ELSE 0)
                         + (IF q \in emailed THEN 1 ELSE 0)
    BY <1>2 DEF MailsTold
  <2>1. mails[q] = undone[q]
          + (IF \E v \in Clerk : job[v].paper = q /\ job[v].mailed THEN 1 ELSE 0)
          + (IF q \in emailed THEN 1 ELSE 0)
        /\ undone[q] \in Nat
    BY DEF PaperInv, MailsTold, PaperworkTypeOK
  <2>2. CASE q = p /\ due
    <3>1. ~\E v \in Clerk : job[v].paper = q /\ job[v].mailed
      BY <1>2, <1>12, <2>2
    <3>2. \E v \in Clerk : job'[v].paper = q /\ job'[v].mailed
      BY <1>4, <1>5, <2>2
    <3>3. mails'[q] = mails[q] + 1
      BY <1>3, <2>2 DEF PaperInv, PaperworkTypeOK
    <3>. QED
      BY <1>3, <2>1, <2>2, <3>1, <3>2, <3>3
  <2>3. CASE ~(q = p /\ due)
    <3>1. (\E v \in Clerk : job'[v].paper = q /\ job'[v].mailed)
            <=> (\E v \in Clerk : job[v].paper = q /\ job[v].mailed)
      BY <1>1, <1>2, <1>4, <1>5, <2>3
    <3>2. mails'[q] = mails[q]
      BY <1>3, <2>3 DEF PaperInv, PaperworkTypeOK
    <3>. QED
      BY <2>1, <3>1, <3>2
  <2>. QED
    BY <2>2, <2>3
<1>. QED
  BY <1>6, <1>7, <1>8, <1>9, <1>10, <1>11, <1>13 DEF PaperInv

\* What a commit makes of the numbers: the paper has the number its worker
\* was given, and the row of the series says so if the worker held it.
LEMMA CommitNumbers ==
  ASSUME PaperInv, NEW w \in Clerk, CommitPaper(w), NEW p \in Paper,
         p = job[w].paper
  PROVE  LET s == SeriesOf[p]
         IN  \/ /\ series_lock[s] = w /\ number_of[p] = NoNumber
                /\ number_of' = [number_of EXCEPT ![p] = last_number[s] + 1]
                /\ last_number' = [last_number EXCEPT ![s] = @ + 1]
             \/ /\ series_lock[s] # w /\ last_number' = last_number
                /\ \/ number_of' = number_of
                   \/ /\ number_of' = [number_of EXCEPT ![p] = Timestamp]
                      /\ ~(number_of[p] > 0)
<1>1. PICK s \in SeriesNames : s = SeriesOf[p]
  BY DEF SeriesNames
<1>2. CASE series_lock[s] = w
  <2>1. /\ job[w].number = last_number[s] + 1 /\ number_of[p] = NoNumber
        /\ last_number[s] \in Nat
    BY <1>2 DEF PaperInv, HoldersKnow, PaperworkTypeOK
  <2>2. job[w].number # NoNumber
    BY <2>1 DEF NoNumber
  <2>. QED
    BY <1>1, <1>2, <2>1, <2>2 DEF CommitPaper
<1>3. CASE series_lock[s] # w
  <2>1. last_number' = last_number
    BY <1>1, <1>3 DEF CommitPaper
  <2>2. /\ job[w].number > 0 => number_of[p] = job[w].number
        /\ job[w].number = Timestamp => ~(number_of[p] > 0)
        /\ job[w].number \in Nat \cup {Timestamp}
    BY <1>1, <1>3 DEF PaperInv, NumbersKnown, PaperworkTypeOK, Job
  <2>3. CASE job[w].number = NoNumber
    BY <1>1, <1>3, <2>1, <2>3 DEF CommitPaper
  <2>4. CASE job[w].number = Timestamp
    <3>1. Timestamp # NoNumber
      BY DEF Timestamp, NoNumber
    <3>. QED
      BY <1>1, <1>3, <2>1, <2>2, <2>4, <3>1 DEF CommitPaper
  <2>5. CASE job[w].number > 0
    <3>1. job[w].number # NoNumber
      BY <2>2, <2>5 DEF NoNumber
    <3>2. number_of' = [number_of EXCEPT ![p] = number_of[p]]
      BY <2>2, <2>5, <3>1 DEF CommitPaper
    <3>3. number_of' = number_of
      BY <3>2 DEF PaperInv, PaperworkTypeOK
    <3>. QED
      BY <1>1, <1>3, <2>1, <3>3
  <2>. QED
    BY <2>2, <2>3, <2>4, <2>5 DEF NoNumber
<1>. QED
  BY <1>1, <1>2, <1>3

\* A new number is the next of its series, on a paper that had none.
LEMMA CommitKeepsSeries ==
  ASSUME PaperInv, NEW w \in Clerk, CommitPaper(w)
  PROVE  NumbersWithoutGaps'
<1>1. PICK p \in Paper : p = job[w].paper
  BY DEF CommitPaper, PaperInv, PapersApart
<1>2. PICK s \in SeriesNames : s = SeriesOf[p]
  BY DEF SeriesNames
<1> DEFINE N(t) == {q \in Paper : SeriesOf[q] = t /\ number_of[q] > 0}
           M(t) == {q \in Paper : SeriesOf[q] = t /\ number_of'[q] > 0}
<1>3. ASSUME NEW t \in SeriesNames
      PROVE  /\ {number_of[q] : q \in N(t)} = 1 .. last_number[t]
             /\ \A q, r \in N(t) : number_of[q] = number_of[r] => q = r
             /\ last_number[t] \in Nat
  BY DEF PaperInv, NumbersWithoutGaps, PaperworkTypeOK
<1>4. SUFFICES ASSUME NEW t \in SeriesNames
               PROVE  /\ {number_of'[q] : q \in M(t)} = 1 .. last_number'[t]
                      /\ \A q, r \in M(t) : number_of'[q] = number_of'[r] => q = r
  BY DEF NumbersWithoutGaps
<1>5. number_of \in [Paper -> Nat \cup {Timestamp}] /\ last_number \in [SeriesNames -> Nat]
  BY DEF PaperInv, PaperworkTypeOK
<1>6. ASSUME series_lock[s] = w, number_of[p] = NoNumber,
             number_of' = [number_of EXCEPT ![p] = last_number[s] + 1],
             last_number' = [last_number EXCEPT ![s] = @ + 1]
      PROVE  /\ {number_of'[q] : q \in M(t)} = 1 .. last_number'[t]
             /\ \A q, r \in M(t) : number_of'[q] = number_of'[r] => q = r
  <2>1. CASE t = s
    <3>1. PICK n \in Nat : n = last_number[t]
      BY <1>5
    <3>2. last_number'[t] = n + 1 /\ number_of'[p] = n + 1
      BY <1>5, <1>6, <2>1, <3>1
    <3>3. p \notin N(t) /\ M(t) = N(t) \cup {p}
      BY <1>2, <1>5, <1>6, <2>1, <3>1, <3>2 DEF NoNumber
    <3>4. \A q \in N(t) : number_of'[q] = number_of[q] /\ number_of[q] \in 1 .. n
      BY <1>3, <1>5, <1>6, <3>1, <3>3
    <3>5. \A k \in 1 .. n : \E q \in N(t) : number_of[q] = k
      BY <1>3, <3>1
    <3>. HIDE DEF M, N
    <3>6. {number_of'[q] : q \in M(t)} = 1 .. n + 1
      <4>1. \A q \in M(t) : number_of'[q] \in 1 .. n + 1
        BY <3>2, <3>3, <3>4
      <4>2. \A k \in 1 .. n + 1 : \E q \in M(t) : number_of'[q] = k
        <5>. SUFFICES ASSUME NEW k \in 1 .. n + 1
                      PROVE  \E q \in M(t) : number_of'[q] = k
          OBVIOUS
        <5>1. k \in 1 .. n \/ k = n + 1
          OBVIOUS
        <5>. QED
          BY <3>2, <3>3, <3>4, <3>5, <5>1
      <4>. QED
        BY <4>1, <4>2
    <3>7. \A q, r \in M(t) : number_of'[q] = number_of'[r] => q = r
      BY <1>3, <3>2, <3>3, <3>4
    <3>. QED
      BY <3>2, <3>6, <3>7
  <2>2. CASE t # s
    <3>1. last_number'[t] = last_number[t]
      BY <1>5, <1>6, <2>2
    <3>2. M(t) = N(t) /\ \A q \in N(t) : number_of'[q] = number_of[q]
      BY <1>2, <1>5, <1>6, <2>2
    <3>. QED
      BY <1>3, <3>1, <3>2
  <2>. QED
    BY <2>1, <2>2
<1>7. ASSUME last_number' = last_number,
             \/ number_of' = number_of
             \/ /\ number_of' = [number_of EXCEPT ![p] = Timestamp]
                /\ ~(number_of[p] > 0)
      PROVE  /\ {number_of'[q] : q \in M(t)} = 1 .. last_number'[t]
             /\ \A q, r \in M(t) : number_of'[q] = number_of'[r] => q = r
  <2>1. M(t) = N(t) /\ \A q \in N(t) : number_of'[q] = number_of[q]
    BY <1>5, <1>7 DEF Timestamp
  <2>. QED
    BY <1>3, <1>7, <2>1
<1>. HIDE DEF M, N
<1>. QED
  BY <1>1, <1>2, <1>6, <1>7, CommitNumbers

\* The transaction ends, and its worker is free again.
LEMMA EndStep ==
  ASSUME PaperInv, NEW w \in Clerk, CommitPaper(w) \/ RollBack(w)
  PROVE  PaperInv'
<1>1. PICK p \in Paper : p = job[w].paper
  BY DEF CommitPaper, RollBack, PaperInv, PapersApart
<1>2. PICK s \in SeriesNames : s = SeriesOf[p]
  BY DEF SeriesNames
<1>3. /\ job' = [job EXCEPT ![w] = Idle] /\ LetGo(w)
      /\ failures' \in 0 .. MaxFailures
  BY PaperworkAssumption DEF CommitPaper, RollBack, PaperInv, PaperworkTypeOK
<1>4. /\ job'[w] = Idle /\ Idle \in Job /\ Idle.at = "idle"
      /\ Idle.paper = NoOne /\ Idle.number = NoNumber /\ ~Idle.mailed
      /\ \A v \in Clerk \ {w} : job'[v] = job[v] /\ job[v].paper # p
  BY <1>1, <1>3, PaperworkAssumption
  DEF Idle, Job, NoNumber, PaperInv, PaperworkTypeOK, PapersApart
<1>5. \/ /\ series_lock[s] = w /\ number_of[p] = NoNumber
         /\ number_of' = [number_of EXCEPT ![p] = last_number[s] + 1]
         /\ last_number' = [last_number EXCEPT ![s] = @ + 1]
      \/ /\ last_number' = last_number
         /\ \/ number_of' = number_of
            \/ /\ number_of' = [number_of EXCEPT ![p] = Timestamp]
               /\ ~(number_of[p] > 0)
  BY <1>1, <1>2, CommitNumbers DEF RollBack
<1>6. /\ \A q \in Paper \ {p} : number_of'[q] = number_of[q]
      /\ \A r \in SeriesNames, v \in Clerk \ {w} :
           series_lock[r] = v => last_number'[r] = last_number[r]
  BY <1>5 DEF PaperInv, PaperworkTypeOK
<1>7. PICK mailed \in BOOLEAN : mailed = job[w].mailed
  BY DEF PaperInv, PaperworkTypeOK, Job
<1>8. /\ mails' = mails
      /\ mailed => p \notin emailed
      /\ \/ /\ emailed' = IF mailed THEN emailed \cup {p} ELSE emailed
            /\ undone' = undone
         \/ /\ undone' = IF mailed THEN [undone EXCEPT ![p] = @ + 1] ELSE undone
            /\ emailed' = emailed
  BY <1>1, <1>7 DEF CommitPaper, RollBack, sending, PaperInv, MailsKnown
<1>9. PaperworkTypeOK'
  <2>1. number_of' \in [Paper -> Nat \cup {Timestamp}]
        /\ last_number' \in [SeriesNames -> Nat]
    BY <1>5 DEF PaperInv, PaperworkTypeOK
  <2>2. emailed' \subseteq Paper /\ undone' \in [Paper -> Nat]
    BY <1>8 DEF PaperInv, PaperworkTypeOK
  <2>3. job' \in [Clerk -> Job]
    BY <1>3, <1>4 DEF PaperInv, PaperworkTypeOK
  <2>. QED
    BY <1>3, <1>8, <2>1, <2>2, <2>3, LetGoKeeps DEF PaperInv, PaperworkTypeOK
<1>10. NumbersWithoutGaps'
  BY CommitKeepsSeries DEF RollBack, PaperInv, NumbersWithoutGaps
<1>11. PapersApart'
  BY <1>4 DEF PaperInv, PapersApart
<1>12. HoldersKnow'
  <2>. SUFFICES ASSUME NEW v \in Clerk, NEW r \in SeriesNames, series_lock'[r] = v
                PROVE  /\ job'[v].at \in {"mailing", "committing"}
                       /\ SeriesOf[job'[v].paper] = r
                       /\ job'[v].number = last_number'[r] + 1
                       /\ number_of'[job'[v].paper] = NoNumber
    BY DEF HoldersKnow
  <2>1. v # w /\ series_lock[r] = v
    BY <1>3, LetGoKeeps
  <2>2. job[v].paper \in Paper
    BY <2>1 DEF PaperInv, HoldersKnow, PapersApart
  <2>3. job'[v] = job[v] /\ job[v].paper # p
    BY <1>4, <2>1
  <2>4. last_number'[r] = last_number[r]
        /\ number_of'[job[v].paper] = number_of[job[v].paper]
    BY <1>6, <2>1, <2>2, <2>3
  <2>. QED
    BY <2>1, <2>3, <2>4 DEF PaperInv, HoldersKnow
<1>13. NumbersKnown'
  <2>. SUFFICES ASSUME NEW v \in Clerk
                PROVE  /\ job'[v].number > 0 =>
                            \/ series_lock'[SeriesOf[job'[v].paper]] = v
                            \/ number_of'[job'[v].paper] = job'[v].number
                       /\ job'[v].number = Timestamp
                            => ~(number_of'[job'[v].paper] > 0)
    BY DEF NumbersKnown
  <2>1. CASE v = w
    BY <1>4, <2>1 DEF NoNumber, Timestamp
  <2>2. CASE v # w
    <3>1. job'[v] = job[v] /\ job[v].paper # p
      BY <1>4, <2>2
    <3>2. job[v].number > 0 \/ job[v].number = Timestamp
            => job[v].paper \in Paper /\ SeriesOf[job[v].paper] \in SeriesNames
      BY DEF PaperInv, PapersApart, NoNumber, Timestamp, SeriesNames
    <3>3. /\ job[v].number > 0 =>
               \/ series_lock[SeriesOf[job[v].paper]] = v
               \/ number_of[job[v].paper] = job[v].number
          /\ job[v].number = Timestamp => ~(number_of[job[v].paper] > 0)
      BY DEF PaperInv, NumbersKnown
    <3>. QED
      BY <1>3, <1>6, <2>2, <3>1, <3>2, <3>3, LetGoKeeps
  <2>. QED
    BY <2>1, <2>2
<1>14. MailsKnown'
  <2>. SUFFICES ASSUME NEW v \in Clerk, job'[v].mailed
                PROVE  /\ job'[v].at = "committing"
                       /\ job'[v].paper \notin emailed'
    BY DEF MailsKnown
  <2>1. v # w /\ job'[v] = job[v] /\ job[v].paper # p
    BY <1>4
  <2>2. job[v].at = "committing" /\ job[v].paper \notin emailed
    BY <2>1 DEF PaperInv, MailsKnown
  <2>. QED
    BY <1>8, <2>1, <2>2
<1>15. MailsTold'
  <2>. SUFFICES ASSUME NEW q \in Paper
                PROVE  mails'[q] = undone'[q]
                         + (IF \E v \in Clerk : job'[v].paper = q /\ job'[v].mailed
                            THEN 1 ELSE 0)
                         + (IF q \in emailed' THEN 1 ELSE 0)
    BY DEF MailsTold
  <2>1. mails[q] = undone[q]
          + (IF \E v \in Clerk : job[v].paper = q /\ job[v].mailed THEN 1 ELSE 0)
          + (IF q \in emailed THEN 1 ELSE 0)
        /\ undone[q] \in Nat
    BY DEF PaperInv, MailsTold, PaperworkTypeOK
  <2>2. CASE q = p /\ mailed
    <3>1. \E v \in Clerk : job[v].paper = q /\ job[v].mailed
      BY <1>1, <1>7, <2>2
    <3>2. ~\E v \in Clerk : job'[v].paper = q /\ job'[v].mailed
      BY <1>4, <2>2
    <3>3. q \notin emailed
      BY <1>8, <2>2
    <3>4. CASE emailed' = emailed \cup {p} /\ undone' = undone
      BY <1>8, <2>1, <2>2, <3>1, <3>2, <3>3, <3>4
    <3>5. CASE emailed' = emailed /\ undone' = [undone EXCEPT ![p] = @ + 1]
      <4>1. undone'[q] = undone[q] + 1
        BY <2>2, <3>5 DEF PaperInv, PaperworkTypeOK
      <4>. QED
        BY <1>8, <2>1, <3>1, <3>2, <3>3, <3>5, <4>1
    <3>. QED
      BY <1>8, <2>2, <3>4, <3>5
  <2>3. CASE ~(q = p /\ mailed)
    <3>1. (\E v \in Clerk : job'[v].paper = q /\ job'[v].mailed)
            <=> (\E v \in Clerk : job[v].paper = q /\ job[v].mailed)
      <4>1. job[w].paper = q /\ job[w].mailed => FALSE
        BY <1>1, <1>7, <2>3
      <4>2. ~job'[w].mailed
        BY <1>4
      <4>. QED
        BY <1>4, <4>1, <4>2
    <3>2. (q \in emailed' <=> q \in emailed) /\ undone'[q] = undone[q]
      BY <1>8, <2>3 DEF PaperInv, PaperworkTypeOK
    <3>. QED
      BY <1>8, <2>1, <3>1, <3>2
  <2>. QED
    BY <2>2, <2>3
<1>. QED
  BY <1>9, <1>10, <1>11, <1>12, <1>13, <1>14, <1>15 DEF PaperInv

LEMMA PaperInvStep == PaperInv /\ [PaperworkNext]_paperVars => PaperInv'
<1>1. ASSUME PaperInv, UNCHANGED paperVars PROVE PaperInv'
  BY <1>1
  DEF paperVars, PaperInv, PaperworkTypeOK, NumbersWithoutGaps, PapersApart,
      HoldersKnow, NumbersKnown, MailsKnown, MailsTold
<1>. QED
  BY <1>1, BeginStep, AllocateStep, NumberingFailsStep, MailStep, EndStep
  DEF PaperworkNext

LEMMA PaperInvAlways == PaperworkSpec => []PaperInv
<1>. QED
  BY PaperInvInit, PaperInvStep, PTL DEF PaperworkSpec

\* What workers, their transactions and the papers are at keeps its types
\* (invoices/models.py, invoices/services.py).
THEOREM PaperworkTypeCorrect == PaperworkSpec => []PaperworkTypeOK
<1>1. PaperInv => PaperworkTypeOK
  BY DEF PaperInv
<1>. QED
  BY <1>1, PaperInvAlways, PTL

\* However many workers allocate, fail and roll back, the committed numbers
\* of each series run from one to the last, each on one paper
\* (invoices/models.py:31).
THEOREM NumbersRunOn == PaperworkSpec => []NumbersWithoutGaps
<1>1. PaperInv => NumbersWithoutGaps
  BY DEF PaperInv
<1>. QED
  BY <1>1, PaperInvAlways, PTL

\* An invoice is mailed once, but for the mails of transactions that were
\* rolled back after sending (invoices/services.py:146).
THEOREM InvoicesMailedOnce == PaperworkSpec => []InvoiceMailedOnce
<1>1. PaperInv => InvoiceMailedOnce
  <2>. SUFFICES ASSUME PaperInv, NEW p \in Paper
                PROVE  mails[p] = undone[p]
                         + Cardinality({w \in Clerk : job[w].paper = p /\ job[w].mailed})
                         + (IF p \in emailed THEN 1 ELSE 0)
    BY DEF InvoiceMailedOnce
  <2> DEFINE sent == {w \in Clerk : job[w].paper = p /\ job[w].mailed}
  <2>1. Cardinality(sent)
          = IF \E w \in Clerk : job[w].paper = p /\ job[w].mailed THEN 1 ELSE 0
    <3>1. CASE \E w \in Clerk : job[w].paper = p /\ job[w].mailed
      <4>1. PICK w \in Clerk : job[w].paper = p /\ job[w].mailed
        BY <3>1
      <4>2. sent = {w}
        BY <4>1, PaperworkAssumption DEF PaperInv, PapersApart
      <4>3. Cardinality(sent) = 1
        BY <4>2, FS_Singleton
      <4>. QED
        BY <3>1, <4>3
    <3>2. CASE ~\E w \in Clerk : job[w].paper = p /\ job[w].mailed
      <4>1. Cardinality(sent) = 0
        BY <3>2, FS_EmptySet
      <4>. QED
        BY <3>2, <4>1
    <3>. QED
      BY <3>1, <3>2
  <2>. HIDE DEF sent
  <2>2. mails[p] = undone[p] + Cardinality(sent) + (IF p \in emailed THEN 1 ELSE 0)
    BY <2>1 DEF PaperInv, MailsTold
  <2>. QED
    BY <2>2 DEF sent
<1>. QED
  BY <1>1, PaperInvAlways, PTL

-----------------------------------------------------------------------------
(* The helpdesk.                                                           *)

\* The last entry of a thread that has a say, if it is entry i.
SaysLast(i) ==
  /\ i \in DOMAIN thread /\ thread[i].by # "note"
  /\ \A j \in DOMAIN thread : thread[j].by # "note" => j <= i

\* Those whose reply is written and has not yet passed the turn.
Owing == {a \in Agent : page[a].at = "written" /\ page[a].voice # "note"}

\* A reader of the ticket has not seen the reply of a request half done.
UnfinishedUnread ==
  \A a, b \in Agent :
    page[a].at = "reading" /\ b \in Owing
      => \E j \in page[a].since + 1 .. Len(thread) : thread[j].by # "note"

\* What the last say leaves to do, when its author had read all before it.
LastSayRules ==
  \A i \in DOMAIN thread :
    SaysLast(i) /\ ReadAll(i)
      => /\ \A a \in Agent : a \in Owing => page[a].voice = thread[i].by
         /\ \/ \E a \in Agent : a \in Owing
            \/ ticketStatus = IF thread[i].by = "hand" THEN thread[i].sets
                              ELSE Turn(thread[i].by)

HelpInv ==
  /\ HelpTypeOK
  /\ thread[1].by = "customer"
  /\ \E i \in DOMAIN thread : SaysLast(i)
  /\ \A a \in Agent : page[a].since <= Len(thread)
  /\ UnfinishedUnread /\ LastSayRules

LEMMA SaysLastIsLastSay ==
  ASSUME HelpTypeOK, NEW i \in DOMAIN thread, SaysLast(i)
  PROVE  LastSay = i
<1> DEFINE says == {k \in DOMAIN thread : thread[k].by # "note"}
<1>1. DOMAIN thread = 1 .. Len(thread) /\ Len(thread) \in Nat
  BY DEF HelpTypeOK
<1>2. i \in says /\ \A j \in says : j <= i
  BY DEF SaysLast
<1>3. \A k \in says : (\A j \in says : j <= k) => k = i
  BY <1>1, <1>2
<1>. QED
  BY <1>2, <1>3 DEF LastSay

LEMMA HelpInvInit == HelpInit => HelpInv
<1>. SUFFICES ASSUME HelpInit PROVE HelpInv
  OBVIOUS
<1>1. PICK e \in Entry : /\ e.by = "customer" /\ e.sets = "awaiting_staff"
                        /\ e.since = 0 /\ thread = <<e>>
  BY HelpdeskAssumption DEF HelpInit, OpenTicket, Entry, Voice, TicketStatus
<1>2. Len(thread) = 1 /\ thread \in Seq(Entry) /\ thread[1] = e /\ DOMAIN thread = {1}
  BY <1>1
<1>3. \A a \in Agent : page[a] = NoPage
  BY DEF HelpInit
<1>4. HelpTypeOK
  <2>1. NoPage \in [at : {"idle", "reading", "written"}, voice : Voice,
                    copy : TicketStatus, since : 0 .. MaxThread]
    BY HelpdeskAssumption DEF NoPage, Voice, TicketStatus
  <2>2. Len(thread) \in 1 .. MaxThread /\ thread \in Seq(Entry)
    BY <1>2, HelpdeskAssumption
  <2>3. ticketStatus \in TicketStatus /\ resolvedAt \in BOOLEAN
    BY DEF HelpInit, OpenTicket, TicketStatus
  <2>. QED
    BY <2>1, <2>2, <2>3 DEF HelpInit, HelpTypeOK
<1>5. SaysLast(1)
  BY <1>1, <1>2 DEF SaysLast
<1>6. LastSayRules
  BY <1>1, <1>2, <1>3 DEF LastSayRules, HelpInit, OpenTicket, Turn, Owing, NoPage
<1>. QED
  BY <1>1, <1>2, <1>3, <1>4, <1>5, <1>6 DEF HelpInv, UnfinishedUnread, NoPage

\* The thread gets an entry: what of it was so before stays so.
LEMMA ThreadGrows ==
  ASSUME HelpInv, NEW e \in Entry, thread' = Append(thread, e),
         Len(thread) < MaxThread
  PROVE  LET n == Len(thread) + 1
         IN  /\ thread' \in Seq(Entry) /\ Len(thread') = n
             /\ Len(thread') \in 1 .. MaxThread
             /\ DOMAIN thread = 1 .. Len(thread) /\ DOMAIN thread' = 1 .. n
             /\ thread'[n] = e
             /\ \A i \in 1 .. Len(thread) : thread'[i] = thread[i]
             /\ thread'[1].by = "customer"
             /\ \E i \in DOMAIN thread' : SaysLast(i)'
             /\ e.by # "note" => \A i \in DOMAIN thread' : SaysLast(i)' => i = n
             /\ e.by = "note" => \A i \in DOMAIN thread' :
                  SaysLast(i)' => i \in DOMAIN thread /\ SaysLast(i)
<1>1. PICK n \in Nat : n = Len(thread) + 1 /\ Len(thread) = n - 1 /\ n >= 2
  BY DEF HelpInv, HelpTypeOK
<1>2. /\ thread' \in Seq(Entry) /\ Len(thread') = n /\ n \in 1 .. MaxThread
      /\ DOMAIN thread = 1 .. n - 1 /\ DOMAIN thread' = 1 .. n
      /\ thread'[n] = e
      /\ \A i \in 1 .. n - 1 : thread'[i] = thread[i]
  BY <1>1, HelpdeskAssumption DEF HelpInv, HelpTypeOK
<1>3. thread'[1].by = "customer"
  BY <1>1, <1>2 DEF HelpInv
<1>4. e.by # "note" => SaysLast(n)' /\ \A i \in DOMAIN thread' : SaysLast(i)' => i = n
  BY <1>1, <1>2 DEF SaysLast
<1>5. e.by = "note" => \A i \in DOMAIN thread' :
        /\ SaysLast(i)' => i \in DOMAIN thread /\ SaysLast(i)
        /\ i \in DOMAIN thread /\ SaysLast(i) => SaysLast(i)'
  BY <1>1, <1>2 DEF SaysLast
<1>6. \E i \in DOMAIN thread' : SaysLast(i)'
  <2>1. PICK i \in DOMAIN thread : SaysLast(i)
    BY DEF HelpInv
  <2>. QED
    BY <1>1, <1>2, <1>4, <1>5, <2>1
<1>. QED
  BY <1>1, <1>2, <1>3, <1>4, <1>5, <1>6

\* A reader opens the ticket.
LEMMA LoadStep ==
  ASSUME HelpInv, NEW a \in Agent, NEW voice \in Voice, LoadTicket(a, voice)
  PROVE  HelpInv'
<1>1. /\ Len(thread) \in 1 .. MaxThread /\ MaxThread \in Nat
      /\ DOMAIN thread = 1 .. Len(thread)
  BY HelpdeskAssumption DEF HelpInv, HelpTypeOK
<1>2. PICK n \in 0 .. MaxThread :
        /\ n = Seen /\ n <= Len(thread)
        /\ (\E b \in Agent : page[b].at = "written") => n = 0
  <2>1. CASE \E b \in Agent : page[b].at = "written"
    <3>1. Seen = 0
      BY <2>1 DEF Seen
    <3>2. 0 \in 0 .. MaxThread /\ 0 <= Len(thread)
      BY <1>1
    <3>. QED
      BY <3>1, <3>2
  <2>2. CASE ~\E b \in Agent : page[b].at = "written"
    <3>1. Seen = Len(thread)
      BY <2>2 DEF Seen
    <3>2. Len(thread) \in 0 .. MaxThread /\ Len(thread) <= Len(thread)
      BY <1>1
    <3>. QED
      BY <2>2, <3>1, <3>2
  <2>. QED
    BY <2>1, <2>2
<1>3. /\ UNCHANGED <<ticketStatus, resolvedAt, thread>>
      /\ page' = [page EXCEPT ![a] = [at |-> "reading", voice |-> voice,
                                     copy |-> ticketStatus, since |-> n]]
      /\ page[a].at = "idle"
  BY <1>2 DEF LoadTicket
<1>4. HelpTypeOK'
  BY <1>3 DEF HelpInv, HelpTypeOK
<1>5. /\ page'[a].at = "reading" /\ page'[a].since = n
      /\ \A b \in Agent \ {a} : page'[b] = page[b]
      /\ Owing' = Owing
  BY <1>3 DEF HelpInv, HelpTypeOK, Owing
<1>6. UnfinishedUnread'
  <2>. SUFFICES ASSUME NEW r \in Agent, NEW b \in Agent,
                       page'[r].at = "reading", b \in Owing
                PROVE  \E j \in page'[r].since + 1 .. Len(thread) :
                         thread[j].by # "note"
    BY <1>3, <1>5 DEF UnfinishedUnread
  <2>1. CASE r = a
    <3>1. n = 0
      BY <1>2 DEF Owing
    <3>. QED
      BY <1>1, <1>5, <2>1, <3>1 DEF HelpInv
  <2>2. CASE r # a
    BY <1>5, <2>2 DEF HelpInv, UnfinishedUnread
  <2>. QED
    BY <2>1, <2>2
<1>7. LastSayRules'
  <2>1. \A b \in Agent : b \in Owing => page'[b] = page[b]
    BY <1>3, <1>5 DEF Owing
  <2>2. \A i : SaysLast(i)' = SaysLast(i) /\ ReadAll(i)' = ReadAll(i)
    BY <1>3 DEF SaysLast, ReadAll
  <2>. QED
    BY <1>3, <1>5, <2>1, <2>2 DEF HelpInv, LastSayRules
<1>8. \E i \in DOMAIN thread' : SaysLast(i)'
  BY <1>3 DEF HelpInv, SaysLast
<1>9. \A b \in Agent : page'[b].since <= Len(thread')
  BY <1>2, <1>3, <1>5 DEF HelpInv
<1>. QED
  BY <1>3, <1>4, <1>6, <1>7, <1>8, <1>9 DEF HelpInv

\* Nothing more is said: a refused reply, a turn passed.
LEMMA QuietStep ==
  ASSUME HelpInv, NEW a \in Agent, UNCHANGED thread,
         page' = [page EXCEPT ![a] = NoPage],
         \/ page[a].at = "reading" /\ UNCHANGED <<ticketStatus, resolvedAt>>
         \/ PassTurn(a)
  PROVE  HelpInv'
<1>1. /\ page'[a] = NoPage
      /\ \A b \in Agent \ {a} : page'[b] = page[b]
      /\ Owing' = Owing \ {a}
  BY DEF HelpInv, HelpTypeOK, Owing, NoPage
<1>2. ticketStatus' \in TicketStatus /\ resolvedAt' \in BOOLEAN
  BY DEF PassTurn, HelpInv, HelpTypeOK, Turn, TicketStatus
<1>3. NoPage \in [at : {"idle", "reading", "written"}, voice : Voice,
                  copy : TicketStatus, since : 0 .. MaxThread]
  BY HelpdeskAssumption DEF NoPage, Voice, TicketStatus
<1>4. HelpTypeOK'
  BY <1>2, <1>3 DEF HelpInv, HelpTypeOK
<1>5. UnfinishedUnread'
  BY <1>1 DEF HelpInv, UnfinishedUnread, NoPage
<1>6. \A i : SaysLast(i)' = SaysLast(i) /\ ReadAll(i)' = ReadAll(i)
  BY DEF SaysLast, ReadAll
<1>7. LastSayRules'
  <2>. SUFFICES ASSUME NEW i \in DOMAIN thread, SaysLast(i), ReadAll(i)
                PROVE  /\ \A b \in Agent : b \in Owing' => page'[b].voice = thread[i].by
                       /\ \/ \E b \in Agent : b \in Owing'
                          \/ ticketStatus' = IF thread[i].by = "hand"
                                             THEN thread[i].sets
                                             ELSE Turn(thread[i].by)
    BY <1>6 DEF LastSayRules
  <2>1. /\ \A b \in Agent : b \in Owing => page[b].voice = thread[i].by
        /\ \/ \E b \in Agent : b \in Owing
           \/ ticketStatus = IF thread[i].by = "hand" THEN thread[i].sets
                             ELSE Turn(thread[i].by)
    BY DEF HelpInv, LastSayRules
  <2>2. CASE a \in Owing
    <3>1. ticketStatus' = Turn(page[a].voice) /\ page[a].voice # "hand"
      BY <2>2 DEF Owing, PassTurn, HelpInv, HelpTypeOK, Voice
    <3>. QED
      BY <1>1, <2>1, <2>2, <3>1
  <2>3. CASE a \notin Owing
    <3>1. ticketStatus' = ticketStatus
      BY <2>3 DEF Owing, PassTurn
    <3>. QED
      BY <1>1, <2>1, <2>3, <3>1
  <2>. QED
    BY <2>2, <2>3
<1>8. \A b \in Agent : page'[b].since <= Len(thread)
  BY <1>1 DEF HelpInv, HelpTypeOK, NoPage
<1>. QED
  BY <1>4, <1>5, <1>6, <1>7, <1>8 DEF HelpInv

\* Something is said: a reply or a note is written, or the status is set by
\* hand.
LEMMA SayStep ==
  ASSUME HelpInv, NEW e \in Entry, thread' = Append(thread, e),
         Len(thread) < MaxThread,
         ticketStatus' \in TicketStatus, resolvedAt' \in BOOLEAN,
         e.since <= Len(thread),
         (\E b \in Agent : b \in Owing) =>
            \E j \in e.since + 1 .. Len(thread) : thread[j].by # "note",
         \/ /\ e.by # "hand" /\ UNCHANGED ticketStatus
            /\ \E a \in Agent : /\ page' = [page EXCEPT ![a].at = "written"]
                               /\ page[a].at = "reading" /\ page[a].voice = e.by
         \/ /\ e.by = "hand" /\ ticketStatus' = e.sets
            /\ \/ UNCHANGED page
               \/ \E a \in Agent : /\ page' = [page EXCEPT ![a] = NoPage]
                                  /\ page[a].at = "reading"
  PROVE  HelpInv'
<1>1. PICK n \in Nat : n = Len(thread) + 1 /\ Len(thread) = n - 1
  BY DEF HelpInv, HelpTypeOK
<1>2. /\ thread' \in Seq(Entry) /\ Len(thread') = n
      /\ Len(thread') \in 1 .. MaxThread
      /\ DOMAIN thread = 1 .. n - 1 /\ DOMAIN thread' = 1 .. n
      /\ thread'[n] = e
      /\ \A i \in 1 .. n - 1 : thread'[i] = thread[i]
      /\ thread'[1].by = "customer"
      /\ \E i \in DOMAIN thread' : SaysLast(i)'
      /\ e.by # "note" => \A i \in DOMAIN thread' : SaysLast(i)' => i = n
      /\ e.by = "note" => \A i \in DOMAIN thread' :
           SaysLast(i)' => i \in DOMAIN thread /\ SaysLast(i)
  BY <1>1, ThreadGrows
<1>3. NoPage \in [at : {"idle", "reading", "written"}, voice : Voice,
                  copy : TicketStatus, since : 0 .. MaxThread]
  BY HelpdeskAssumption DEF NoPage, Voice, TicketStatus
<1>4. page' \in [Agent -> [at : {"idle", "reading", "written"}, voice : Voice,
                           copy : TicketStatus, since : 0 .. MaxThread]]
  BY <1>3 DEF HelpInv, HelpTypeOK
<1>5. HelpTypeOK'
  BY <1>2, <1>4 DEF HelpTypeOK
<1>6. \/ e.by = "hand" /\ UNCHANGED page
      \/ \E a \in Agent :
           /\ page[a].at = "reading"
           /\ \A b \in Agent \ {a} : page'[b] = page[b]
           /\ \/ /\ e.by = "hand"
                 /\ page'[a].at = "idle" /\ page'[a].since = 0
              \/ /\ e.by # "hand" /\ page'[a].voice = e.by
                 /\ page'[a].at = "written" /\ page'[a].since = page[a].since
  <2>1. ASSUME NEW a \in Agent, e.by # "hand", page[a].at = "reading",
               page[a].voice = e.by, page' = [page EXCEPT ![a].at = "written"]
        PROVE  /\ \A b \in Agent \ {a} : page'[b] = page[b]
               /\ page'[a].voice = e.by /\ page'[a].at = "written"
               /\ page'[a].since = page[a].since
    BY <2>1 DEF HelpInv, HelpTypeOK
  <2>2. ASSUME NEW a \in Agent, page' = [page EXCEPT ![a] = NoPage]
        PROVE  /\ \A b \in Agent \ {a} : page'[b] = page[b]
               /\ page'[a].at = "idle" /\ page'[a].since = 0
    BY <2>2 DEF HelpInv, HelpTypeOK, NoPage
  <2>. QED
    BY <2>1, <2>2
<1>7. \A b \in Agent : /\ page[b].since \in Nat /\ page[b].since <= n - 1
                        /\ page[b] \in [at : {"idle", "reading", "written"},
                             voice : Voice, copy : TicketStatus, since : 0 .. MaxThread]
  BY <1>1 DEF HelpInv, HelpTypeOK
<1>8. 0 <= n - 1
  BY <1>1 DEF HelpInv, HelpTypeOK
<1>9. \A b \in Agent :
        /\ page'[b].at = "reading" => /\ page[b].at = "reading"
                                      /\ page'[b].since = page[b].since
        /\ page'[b].since <= n - 1
  BY <1>6, <1>7, <1>8
<1>10. /\ e.by # "note" => \A b \in Owing' :
            b \in Owing \/ (page'[b].voice = e.by /\ e.by # "hand")
       /\ e.by # "note" /\ e.by # "hand" => \E b \in Agent : b \in Owing'
       /\ e.by = "note" => /\ Owing' = Owing
                           /\ \A b \in Owing : page'[b] = page[b]
  BY <1>6, <1>7 DEF Owing
<1>11. UnfinishedUnread'
  <2>. SUFFICES ASSUME NEW r \in Agent, NEW b \in Agent,
                       page'[r].at = "reading", b \in Owing'
                PROVE  \E j \in page'[r].since + 1 .. n : thread'[j].by # "note"
    BY <1>2 DEF UnfinishedUnread
  <2>1. /\ page[r].at = "reading" /\ page'[r].since = page[r].since
        /\ page[r].since \in 0 .. n - 1
    BY <1>1, <1>9 DEF HelpInv, HelpTypeOK
  <2>2. CASE e.by # "note"
    <3>1. n \in page'[r].since + 1 .. n
      BY <2>1
    <3>. QED
      BY <1>2, <2>2, <3>1
  <2>3. CASE e.by = "note"
    <3>1. b \in Owing
      BY <1>10, <2>3
    <3>2. PICK j \in page[r].since + 1 .. n - 1 : thread[j].by # "note"
      BY <1>1, <2>1, <3>1 DEF HelpInv, UnfinishedUnread
    <3>3. j \in page'[r].since + 1 .. n /\ thread'[j] = thread[j]
      BY <1>2, <2>1
    <3>. QED
      BY <3>2, <3>3
  <2>. QED
    BY <2>2, <2>3
<1>12. LastSayRules'
  <2>. SUFFICES ASSUME NEW i \in 1 .. n, SaysLast(i)', ReadAll(i)'
                PROVE  /\ \A b \in Agent : b \in Owing' => page'[b].voice = thread'[i].by
                       /\ \/ \E b \in Agent : b \in Owing'
                          \/ ticketStatus' = IF thread'[i].by = "hand"
                                             THEN thread'[i].sets
                                             ELSE Turn(thread'[i].by)
    BY <1>2 DEF LastSayRules
  <2>1. CASE e.by # "note"
    <3>1. i = n /\ thread'[i] = e
      BY <1>2, <2>1
    <3>2. ~\E b \in Agent : b \in Owing
      <4>. SUFFICES ASSUME \E b \in Agent : b \in Owing PROVE FALSE
        OBVIOUS
      <4>1. PICK j \in e.since + 1 .. n - 1 : thread[j].by # "note"
        BY <1>1
      <4>2. j \in 1 .. n - 1 /\ thread'[j] = thread[j]
        BY <1>2 DEF Entry
      <4>. QED
        BY <3>1, <4>1, <4>2 DEF ReadAll
    <3>. QED
      BY <1>10, <2>1, <3>1, <3>2
  <2>2. CASE e.by = "note"
    <3>1. i \in 1 .. n - 1 /\ SaysLast(i) /\ thread'[i] = thread[i]
      BY <1>2, <2>2
    <3>2. ReadAll(i)
      <4>. SUFFICES ASSUME NEW j \in thread[i].since + 1 .. i - 1
                    PROVE  thread[j].by = "note"
        BY DEF ReadAll
      <4>1. thread[i].since \in Nat
        <5>1. thread[i] \in Entry
          BY <1>2, <3>1 DEF HelpInv, HelpTypeOK
        <5>. QED
          BY <5>1, HelpdeskAssumption DEF Entry
      <4>2. j \in 1 .. n - 1 /\ thread'[j] = thread[j]
        BY <1>2, <3>1, <4>1
      <4>. QED
        BY <3>1, <4>2 DEF ReadAll
    <3>3. ticketStatus' = ticketStatus
      BY <2>2
    <3>4. /\ \A b \in Agent : b \in Owing => page[b].voice = thread[i].by
          /\ \/ \E b \in Agent : b \in Owing
             \/ ticketStatus = IF thread[i].by = "hand" THEN thread[i].sets
                               ELSE Turn(thread[i].by)
      BY <1>2, <3>1, <3>2 DEF HelpInv, LastSayRules
    <3>. QED
      BY <1>10, <2>2, <3>1, <3>3, <3>4
  <2>. QED
    BY <2>1, <2>2
<1>13. \A b \in Agent : page'[b].since <= Len(thread')
  BY <1>2, <1>4, <1>9
<1>. QED
  BY <1>2, <1>5, <1>11, <1>12, <1>13 DEF HelpInv

LEMMA HelpInvStep == HelpInv /\ [HelpNext]_helpVars => HelpInv'
<1>. SUFFICES ASSUME HelpInv, [HelpNext]_helpVars PROVE HelpInv'
  OBVIOUS
<1>1. /\ Len(thread) \in Nat
      /\ page \in [Agent -> [at : {"idle", "reading", "written"}, voice : Voice,
                             copy : TicketStatus, since : 0 .. MaxThread]]
      /\ \A a \in Agent : page[a].since <= Len(thread)
  BY DEF HelpInv, HelpTypeOK
<1>2. \A a, b \in Agent : page[a].at = "reading" /\ b \in Owing =>
        \E j \in page[a].since + 1 .. Len(thread) : thread[j].by # "note"
  BY DEF HelpInv, UnfinishedUnread
<1>3. ASSUME NEW a \in Agent, WriteMessage(a) PROVE HelpInv'
  <2>1. CASE CanReply(page[a].copy)
    <3>. DEFINE e == [by |-> page[a].voice, sets |-> "none",
                      since |-> page[a].since]
    <3>1. /\ e \in Entry /\ e.by = page[a].voice /\ e.since = page[a].since
          /\ e.by # "hand"
      BY <1>1 DEF Entry, Voice
    <3>2. /\ thread' = Append(thread, e) /\ Len(thread) < MaxThread
          /\ page' = [page EXCEPT ![a].at = "written"]
          /\ page[a].at = "reading" /\ UNCHANGED <<ticketStatus, resolvedAt>>
      BY <1>3, <2>1 DEF WriteMessage
    <3>3. ticketStatus \in TicketStatus /\ resolvedAt \in BOOLEAN
      BY DEF HelpInv, HelpTypeOK
    <3>. HIDE DEF e
    <3>. QED
      BY <1>1, <1>2, <3>1, <3>2, <3>3, SayStep
  <2>2. CASE ~CanReply(page[a].copy)
    BY <1>3, <2>2, QuietStep DEF WriteMessage
  <2>. QED
    BY <2>1, <2>2
<1>4. ASSUME NEW a \in Agent,
             NEW set \in {"resolved", "closed", page[a].copy},
             EditStatus(a, set)
      PROVE  HelpInv'
  <2>. DEFINE e == [by |-> "hand", sets |-> set, since |-> page[a].since]
  <2>1. set \in TicketStatus /\ resolvedAt \in BOOLEAN
    BY <1>1 DEF TicketStatus, HelpInv, HelpTypeOK
  <2>2. /\ e \in Entry /\ e.by = "hand" /\ e.since = page[a].since
        /\ e.sets = set
    BY <1>1, <2>1 DEF Entry
  <2>3. /\ thread' = Append(thread, e) /\ Len(thread) < MaxThread
        /\ page' = [page EXCEPT ![a] = NoPage]
        /\ page[a].at = "reading" /\ ticketStatus' = set
        /\ resolvedAt' = resolvedAt
    BY <1>4 DEF EditStatus
  <2>. HIDE DEF e
  <2>. QED
    BY <1>1, <1>2, <2>1, <2>2, <2>3, SayStep
<1>5. ASSUME NEW set \in {"resolved", "closed"}, SetStatus(set)
      PROVE  HelpInv'
  <2>1. PICK n \in 0 .. MaxThread : n = Seen /\ n <= Len(thread)
                                  /\ (Owing # {} => n = 0)
    <3>1. CASE \E b \in Agent : page[b].at = "written"
      <4>1. Seen = 0 /\ 0 \in 0 .. MaxThread /\ 0 <= Len(thread)
        BY <1>1, <3>1, HelpdeskAssumption DEF Seen
      <4>. QED
        BY <4>1
    <3>2. CASE ~\E b \in Agent : page[b].at = "written"
      <4>1. Seen = Len(thread) /\ Owing = {}
        BY <3>2 DEF Seen, Owing
      <4>2. Len(thread) \in 0 .. MaxThread /\ Len(thread) <= Len(thread)
        BY DEF HelpInv, HelpTypeOK
      <4>. QED
        BY <4>1, <4>2
    <3>. QED
      BY <3>1, <3>2
  <2>. DEFINE e == [by |-> "hand", sets |-> set, since |-> n]
  <2>2. set \in TicketStatus /\ resolvedAt' \in BOOLEAN
    BY <1>5 DEF TicketStatus, SetStatus
  <2>3. /\ e \in Entry /\ e.by = "hand" /\ e.since = n /\ e.sets = set
    BY <2>2 DEF Entry
  <2>4. /\ thread' = Append(thread, e) /\ Len(thread) < MaxThread
        /\ page' = page /\ ticketStatus' = set
    BY <1>5, <2>1 DEF SetStatus
  <2>5. (\E b \in Agent : b \in Owing) =>
           \E j \in n + 1 .. Len(thread) : thread[j].by # "note"
    <3>1. thread[1].by # "note" /\ 1 \in 0 + 1 .. Len(thread)
      BY DEF HelpInv, HelpTypeOK
    <3>. QED
      BY <2>1, <3>1
  <2>. HIDE DEF e
  <2>. QED
    BY <2>1, <2>2, <2>3, <2>4, <2>5, SayStep
<1>6. ASSUME NEW a \in Agent, PassTurn(a) PROVE HelpInv'
  BY <1>6, QuietStep DEF PassTurn
<1>7. CASE UNCHANGED helpVars
  BY <1>7
  DEF helpVars, HelpInv, HelpTypeOK, SaysLast, ReadAll, UnfinishedUnread,
      LastSayRules, Owing
<1>. QED
  BY <1>3, <1>4, <1>5, <1>6, <1>7, LoadStep DEF HelpNext

LEMMA HelpInvAlways == HelpSpec => []HelpInv
<1>. QED
  BY HelpInvInit, HelpInvStep, PTL DEF HelpSpec

\* The ticket, its thread and the pages open on it keep their types
\* (support/services.py).
THEOREM HelpdeskTypeCorrect == HelpSpec => []HelpTypeOK
<1>1. HelpInv => HelpTypeOK
  BY DEF HelpInv
<1>. QED
  BY <1>1, HelpInvAlways, PTL

\* However many pages are open on a ticket, it waits for the other side of the
\* last reply whose author had read all the thread (support/services.py:90).
THEOREM TurnIsTold == HelpSpec => []TicketTellsWhoseTurn
<1>1. HelpInv => TicketTellsWhoseTurn
  <2>. SUFFICES ASSUME HelpInv, \A a \in Agent : page[a].at # "written",
                       ReadAll(LastSay)
                PROVE  ticketStatus = IF thread[LastSay].by = "hand"
                                      THEN thread[LastSay].sets
                                      ELSE Turn(thread[LastSay].by)
    BY DEF TicketTellsWhoseTurn
  <2>1. PICK i \in DOMAIN thread : SaysLast(i)
    BY DEF HelpInv
  <2>2. LastSay = i
    BY <2>1, SaysLastIsLastSay DEF HelpInv
  <2>3. Owing = {}
    BY DEF Owing
  <2>. QED
    BY <2>1, <2>2, <2>3 DEF HelpInv, LastSayRules
<1>. QED
  BY <1>1, HelpInvAlways, PTL

-----------------------------------------------------------------------------
(* The edit form of an order, among the handlers of Orders.                *)

\* What is proved of the handlers, of the orders the form edits.
Facts == INSTANCE OrdersProofs
  WITH Order <- Bill, Variant <- Shopped, Baskets <- Bought, Stock <- Shelved,
       AllowBackorder <- {}, UsageLimit <- 1, MaxRestores <- MaxCancelled

LEMMA FactsApply ==
  /\ Facts!IsFiniteSet(Bill) /\ Bought \subseteq [Shopped -> Nat]
  /\ Shelved \in [Shopped -> Nat] /\ {} \subseteq Shopped
  /\ 1 \in Nat /\ MaxCancelled \in Nat
BY OrderDeskAssumption DEF Facts!IsFiniteSet, IsFiniteSet

\* Proofs and model speak of the same sums.
LEMMA SameSums ==
  ASSUME NEW quantity, NEW S
  PROVE  Facts!TotalOver(quantity, S) = Service!TotalOver(quantity, S)
BY DEF Facts!TotalOver, Service!TotalOver, Facts!UnitsOn, Service!UnitsOn,
   Facts!Cardinality, Service!Cardinality

LEMMA SameStates ==
  /\ Service!Init <=> Facts!Init
  /\ Service!TypeOK <=> Facts!TypeOK
  /\ \A o \in Bill : Service!Placed(o) <=> Facts!Placed(o)
BY DEF Service!Init, Facts!Init, Service!TypeOK, Facts!TypeOK, Service!Status,
   Facts!Status, Service!PaymentStatus, Facts!PaymentStatus, Service!Row, Facts!Row,
   Service!FullShelf, Facts!FullShelf, Service!Placed, Facts!Placed

LEMMA SamePromises ==
  /\ Service!CommittedExactlyOnce <=> Facts!CommittedExactlyOnce
  /\ Service!SoldMatchesOrders <=> Facts!SoldMatchesOrders
  /\ Service!ReservedWithinShelf <=> Facts!ReservedWithinShelf
  /\ Service!CouponCountMatchesUsages <=> Facts!CouponCountMatchesUsages
<1>1. Service!SoldMatchesOrders <=> Facts!SoldMatchesOrders
  BY SameSums DEF Service!SoldMatchesOrders, Facts!SoldMatchesOrders,
     Service!UnitsOf, Facts!UnitsOf
<1>2. Service!CouponCountMatchesUsages <=> Facts!CouponCountMatchesUsages
  BY DEF Service!CouponCountMatchesUsages, Facts!CouponCountMatchesUsages,
     Service!Cardinality, Facts!Cardinality
<1>. QED
  BY <1>1, <1>2 DEF Service!CommittedExactlyOnce, Facts!CommittedExactlyOnce,
     Service!ReservedWithinShelf, Facts!ReservedWithinShelf

\* A handler of the model is a handler of the proofs.
LEMMA SameHandlers ==
  ASSUME NEW o \in Bill, HandlerStep(o)
  PROVE  Facts!Next
<1>1. ASSUME NEW lines \in Bought, NEW method \in {"cod", "online"},
             NEW coupon \in BOOLEAN, Service!PlaceOrder(o, lines, method, coupon)
      PROVE  Facts!PlaceOrder(o, lines, method, coupon)
  BY <1>1 DEF Service!PlaceOrder, Facts!PlaceOrder, Service!Placed, Facts!Placed,
     Service!CanReserve, Facts!CanReserve, Service!Sellable, Facts!Sellable,
     Service!ReserveStock, Facts!ReserveStock, Service!Reserve, Facts!Reserve,
     Service!Redeem, Facts!Redeem, Service!Monus, Facts!Monus,
     Service!couponVars, Facts!couponVars
<1>2. ASSUME Service!ConfirmCod(o) PROVE Facts!ConfirmCod(o)
  BY <1>2 DEF Service!ConfirmCod, Facts!ConfirmCod, Service!CommitStock,
     Facts!CommitStock, Service!Commit, Facts!Commit, Service!Monus, Facts!Monus,
     Service!couponVars, Facts!couponVars
<1>3. ASSUME Service!LoseCodRequest(o) PROVE Facts!LoseCodRequest(o)
  BY <1>3 DEF Service!LoseCodRequest, Facts!LoseCodRequest, Service!orderVars,
     Facts!orderVars, Service!stockVars, Facts!stockVars, Service!couponVars,
     Facts!couponVars
<1>4. ASSUME Service!StartPayment(o) PROVE Facts!StartPayment(o)
  BY <1>4 DEF Service!StartPayment, Facts!StartPayment, Service!Placed, Facts!Placed,
     Service!orderVars, Facts!orderVars, Service!stockVars, Facts!stockVars,
     Service!couponVars, Facts!couponVars
<1>5. ASSUME Service!MarkPaid(o) PROVE Facts!MarkPaid(o)
  BY <1>5 DEF Service!MarkPaid, Facts!MarkPaid, Service!CommitStock,
     Facts!CommitStock, Service!Commit, Facts!Commit, Service!Monus, Facts!Monus,
     Service!couponVars, Facts!couponVars
<1>6. ASSUME Service!MarkPaymentFailed(o) PROVE Facts!MarkPaymentFailed(o)
  BY <1>6 DEF Service!MarkPaymentFailed, Facts!MarkPaymentFailed, Service!Placed,
     Facts!Placed, Service!ReleaseStock, Facts!ReleaseStock, Service!Release,
     Facts!Release, Service!Monus, Facts!Monus, Service!couponVars, Facts!couponVars
<1>7. ASSUME NEW new \in Service!Status, Service!TransitionOrder(o, new)
      PROVE  Facts!TransitionOrder(o, new)
  BY <1>7 DEF Service!TransitionOrder, Facts!TransitionOrder, Service!Placed,
     Facts!Placed, Service!TRANSITIONS, Facts!TRANSITIONS, Service!Status,
     Facts!Status, Service!CommitStock, Facts!CommitStock, Service!Commit,
     Facts!Commit, Service!Monus, Facts!Monus, Service!couponVars,
     Facts!couponVars, Service!requestVars, Facts!requestVars
<1>8. ASSUME NEW staff_override \in BOOLEAN, Service!CancelOrder(o, staff_override)
      PROVE  Facts!CancelOrder(o, staff_override)
  BY <1>8 DEF Service!CancelOrder, Facts!CancelOrder, Service!Placed, Facts!Placed,
     Service!Restore, Facts!Restore, Service!ReleaseStock, Facts!ReleaseStock,
     Service!Release, Facts!Release, Service!Revoke, Facts!Revoke, Service!Monus,
     Facts!Monus, Service!couponVars, Facts!couponVars, Service!requestVars,
     Facts!requestVars
<1>9. Service!Status = Facts!Status
  BY DEF Service!Status, Facts!Status
<1>. QED
  BY <1>1, <1>2, <1>3, <1>4, <1>5, <1>6, <1>7, <1>8, <1>9
     DEF HandlerStep, Silent, Logged, Facts!Next

\* A handler writes the status of its own order, and of none that it does
\* not tell.
LEMMA HandlerStatus ==
  ASSUME Service!TypeOK, NEW o \in Bill, HandlerStep(o)
  PROVE  /\ \A p \in Bill \ {o} : status'[p] = status[p]
         /\ Silent(o) => status' = status
         /\ \A p \in Bill : Service!Placed(p) => status'[p] # "none"
<1>1. status \in [Bill -> Service!Status \cup {"none"}]
  BY DEF Service!TypeOK
<1>2. ASSUME Silent(o) PROVE status' = status
  BY <1>2 DEF Silent, Service!LoseCodRequest, Service!StartPayment,
     Service!ConfirmCod, Service!MarkPaid, Service!MarkPaymentFailed,
     Service!orderVars
<1>3. ASSUME Logged(o)
      PROVE  \/ status' = status
             \/ \E new \in Service!Status : status' = [status EXCEPT ![o] = new]
  <2>1. {"pending", "confirmed", "cancelled"} \subseteq Service!Status
    BY DEF Service!Status
  <2>. QED
    BY <1>3, <2>1 DEF Logged, Service!PlaceOrder, Service!ConfirmCod,
       Service!MarkPaid, Service!MarkPaymentFailed, Service!TransitionOrder,
       Service!CancelOrder
<1>4. "none" \notin Service!Status
  BY DEF Service!Status
<1>. QED
  BY <1>1, <1>2, <1>3, <1>4 DEF HandlerStep, Service!Placed

\* A page that was compared with its order, and not crossed since, was
\* compared with the status the order still has.
PagesTell ==
  \A u \in FormUser :
    orderPage[u] # NoOrderPage /\ orderPage[u].at = "compared"
      /\ ~orderPage[u].crossed
        => orderPage[u].before = status[orderPage[u].order]

\* What the handlers keep of the stock and of the coupon.
HandlersKeep ==
  /\ Facts!CommittedExactlyOnce /\ Facts!ReservedWithinShelf
  /\ Facts!CouponInv /\ Facts!FiguresInv

\* The strengthening the trail and the sales need.
FormsInv ==
  /\ OrderDeskTypeOK /\ PagesTell /\ TrailTellsStatus
  /\ savedOver = {} => HandlersKeep

\* A placed order has a status.
LEMMA PlacedStatus ==
  ASSUME Service!TypeOK, NEW o \in Bill, Service!Placed(o)
  PROVE  status[o] \in Service!Status
BY DEF Service!TypeOK, Service!Placed

\* Marking the pages of an order changes nothing else on them, and leaves
\* none unmarked that compared with a status the order no longer has.
LEMMA CrossedPages ==
  ASSUME OrderDeskTypeOK, NEW o \in Bill
  PROVE  /\ Crossed(o) \in [FormUser -> OrderPage \cup {NoOrderPage}]
         /\ \A u \in FormUser : orderPage[u] = NoOrderPage
                                  => Crossed(o)[u] = NoOrderPage
         /\ \A u \in FormUser : orderPage[u] # NoOrderPage =>
              /\ Crossed(o)[u].at = orderPage[u].at
              /\ Crossed(o)[u].order = orderPage[u].order
              /\ Crossed(o)[u].before = orderPage[u].before
              /\ ~Crossed(o)[u].crossed =>
                   /\ ~orderPage[u].crossed
                   /\ orderPage[u].at = "compared" /\ orderPage[u].order = o
                        => status'[o] = status[o]
<1>1. ASSUME NEW u \in FormUser, orderPage[u] # NoOrderPage
      PROVE  /\ Crossed(o)[u] \in OrderPage
             /\ Crossed(o)[u].at = orderPage[u].at
             /\ Crossed(o)[u].order = orderPage[u].order
             /\ Crossed(o)[u].before = orderPage[u].before
             /\ ~Crossed(o)[u].crossed =>
                  /\ ~orderPage[u].crossed
                  /\ orderPage[u].at = "compared" /\ orderPage[u].order = o
                       => status'[o] = status[o]
  <2>. DEFINE form == orderPage[u]
  <2>1. form \in OrderPage
    BY <1>1 DEF OrderDeskTypeOK
  <2>2. CASE /\ form.at = "compared" /\ form.order = o
             /\ status'[o] # status[o]
    <3>1. Crossed(o)[u] = [form EXCEPT !.crossed = TRUE]
      BY <1>1, <2>2 DEF Crossed
    <3>. QED
      BY <2>1, <2>2, <3>1 DEF OrderPage
  <2>3. CASE ~(/\ form.at = "compared" /\ form.order = o
               /\ status'[o] # status[o])
    <3>1. Crossed(o)[u] = form
      BY <1>1, <2>3 DEF Crossed
    <3>. QED
      BY <2>1, <2>3, <3>1
  <2>. QED
    BY <2>2, <2>3
<1>2. \A u \in FormUser : orderPage[u] = NoOrderPage => Crossed(o)[u] = NoOrderPage
  BY DEF Crossed
<1>3. Crossed(o) = [u \in FormUser |-> Crossed(o)[u]]
  BY DEF Crossed
<1>. QED
  BY <1>1, <1>2, <1>3

\* The handlers keep what they promise, whatever the form wrote before them.
LEMMA HandlersStillKeep ==
  ASSUME FormsInv, NEW o \in Bill, HandlerStep(o)
  PROVE  /\ Service!TypeOK'
         /\ savedOver' = {} => HandlersKeep'
<1>1. Facts!TypeOK /\ [Facts!Next]_(Facts!vars)
  BY SameStates, SameHandlers DEF FormsInv, OrderDeskTypeOK
<1>2. Facts!TypeOK'
  BY <1>1, FactsApply, Facts!TypeOKStep
<1>3. Service!TypeOK' <=> Facts!TypeOK'
  BY DEF Service!TypeOK, Facts!TypeOK, Service!Status, Facts!Status,
     Service!PaymentStatus, Facts!PaymentStatus, Service!Row, Facts!Row
<1>4. ASSUME savedOver' = {} PROVE HandlersKeep'
  <2>1. HandlersKeep
    BY <1>4 DEF HandlerStep, FormsInv
  <2>2. Facts!CommittedExactlyOnce'
    BY <1>1, <2>1, FactsApply, Facts!CommittedExactlyOnceStep DEF HandlersKeep
  <2>3. Facts!ReservedWithinShelf'
    BY <1>1, <2>1, FactsApply, Facts!ReservedWithinShelfStep DEF HandlersKeep
  <2>4. Facts!CouponInv'
    BY <1>1, <2>1, FactsApply, Facts!CouponInvStep DEF HandlersKeep
  <2>5. Facts!FiguresInv'
    BY <1>1, <2>1, FactsApply, Facts!FiguresInvStep DEF HandlersKeep
  <2>. QED
    BY <2>2, <2>3, <2>4, <2>5 DEF HandlersKeep
<1>. QED
  BY <1>2, <1>3, <1>4

\* A handler keeps the types and the trail.
LEMMA HandlerFormsStep ==
  ASSUME FormsInv, NEW o \in Bill, HandlerStep(o)
  PROVE  FormsInv'
<1>1. OrderDeskTypeOK /\ Service!TypeOK
  BY DEF FormsInv, OrderDeskTypeOK
<1>2. Service!TypeOK' /\ (savedOver' = {} => HandlersKeep')
  BY HandlersStillKeep
<1>3. /\ \A p \in Bill \ {o} : status'[p] = status[p]
      /\ Silent(o) => status' = status
      /\ \A p \in Bill : Service!Placed(p) => status'[p] # "none"
  BY <1>1, HandlerStatus
<1>4. /\ orderPage' = Crossed(o) /\ savedOver' = savedOver
      /\ Silent(o) \/ Logged(o)
  BY DEF HandlerStep
<1>5. /\ lastTold' \in [Bill -> Service!Status \cup {"none"}]
      /\ unheard' \subseteq Bill /\ TrailTellsStatus'
  <2>1. CASE Silent(o)
    BY <1>1, <1>3, <2>1 DEF Silent, trailVars, OrderDeskTypeOK, FormsInv,
                            TrailTellsStatus
  <2>2. CASE Logged(o)
    <3>1. status'[o] \in Service!Status \cup {"none"}
      BY <1>2 DEF Service!TypeOK
    <3>. QED
      BY <1>1, <1>3, <2>2, <3>1 DEF Logged, Tell, OrderDeskTypeOK, FormsInv,
                                    TrailTellsStatus
  <2>. QED
    BY <1>4, <2>1, <2>2
<1>6. /\ orderPage' \in [FormUser -> OrderPage \cup {NoOrderPage}]
      /\ \A u \in FormUser : orderPage'[u] # NoOrderPage =>
           /\ orderPage[u] # NoOrderPage
           /\ orderPage'[u].at = orderPage[u].at
           /\ orderPage'[u].order = orderPage[u].order
           /\ orderPage'[u].before = orderPage[u].before
           /\ ~orderPage'[u].crossed =>
                /\ ~orderPage[u].crossed
                /\ orderPage[u].at = "compared" /\ orderPage[u].order = o
                     => status'[o] = status[o]
           /\ orderPage[u].order \in Bill /\ Service!Placed(orderPage[u].order)
  <2>1. \A u \in FormUser : orderPage[u] # NoOrderPage =>
          orderPage[u] \in OrderPage /\ orderPage[u].order \in Bill
    BY <1>1 DEF OrderDeskTypeOK, OrderPage
  <2>. QED
    BY <1>1, <1>4, <2>1, CrossedPages DEF OrderDeskTypeOK
<1>7. \A u \in FormUser :
        orderPage'[u] # NoOrderPage => status'[orderPage'[u].order] # "none"
  BY <1>3, <1>6
<1>8. PagesTell'
  BY <1>3, <1>6 DEF PagesTell, FormsInv
<1>9. OrderDeskTypeOK'
  BY <1>1, <1>2, <1>4, <1>5, <1>6, <1>7 DEF OrderDeskTypeOK, Service!Placed
<1>. QED
  BY <1>2, <1>5, <1>8, <1>9 DEF FormsInv

\* What leaves the orders and the trail alone keeps all but the pages.
LEMMA OrdersAtRest ==
  ASSUME FormsInv, UNCHANGED <<serviceVars, trailVars, savedOver>>
  PROVE  /\ Service!TypeOK' /\ TrailTellsStatus'
         /\ savedOver' = {} => HandlersKeep'
         /\ lastTold' \in [Bill -> Service!Status \cup {"none"}]
         /\ savedOver' \subseteq Bill /\ unheard' \subseteq Bill
<1>1. Facts!TypeOK /\ [Facts!Next]_(Facts!vars)
  BY SameStates DEF FormsInv, OrderDeskTypeOK, serviceVars, Facts!vars,
     Facts!orderVars, Facts!stockVars, Facts!couponVars, Facts!requestVars
<1>2. Service!TypeOK' /\ TrailTellsStatus'
  BY DEF FormsInv, OrderDeskTypeOK, Service!TypeOK, TrailTellsStatus, serviceVars,
         trailVars
<1>3. ASSUME savedOver' = {} PROVE HandlersKeep'
  <2>1. HandlersKeep
    BY <1>3 DEF FormsInv
  <2>2. Facts!CommittedExactlyOnce'
    BY <1>1, <2>1, FactsApply, Facts!CommittedExactlyOnceStep DEF HandlersKeep
  <2>3. Facts!ReservedWithinShelf'
    BY <1>1, <2>1, FactsApply, Facts!ReservedWithinShelfStep DEF HandlersKeep
  <2>4. Facts!CouponInv'
    BY <1>1, <2>1, FactsApply, Facts!CouponInvStep DEF HandlersKeep
  <2>5. Facts!FiguresInv'
    BY <1>1, <2>1, FactsApply, Facts!FiguresInvStep DEF HandlersKeep
  <2>. QED
    BY <2>2, <2>3, <2>4, <2>5 DEF HandlersKeep
<1>4. lastTold' = lastTold /\ savedOver' = savedOver /\ unheard' = unheard
  BY DEF trailVars
<1>. QED
  BY <1>2, <1>3, <1>4 DEF FormsInv, OrderDeskTypeOK

\* A page is shown, or moves on, while the orders are at rest.
LEMMA PageStep ==
  ASSUME FormsInv, UNCHANGED <<serviceVars, trailVars, savedOver>>,
         NEW u \in FormUser, NEW form \in OrderPage, Service!Placed(form.order),
         form.at = "compared" => form.before = status[form.order],
         orderPage' = [orderPage EXCEPT ![u] = form]
  PROVE  FormsInv'
<1>1. OrderDeskTypeOK /\ PagesTell
  BY DEF FormsInv
<1>2. status' = status
  BY DEF serviceVars
<1>3. orderPage' \in [FormUser -> OrderPage \cup {NoOrderPage}]
  BY <1>1 DEF OrderDeskTypeOK
<1>4. \A w \in FormUser : orderPage'[w] = IF w = u THEN form ELSE orderPage[w]
  BY <1>1 DEF OrderDeskTypeOK
<1>5. \A w \in FormUser :
        orderPage'[w] # NoOrderPage => status'[orderPage'[w].order] # "none"
  BY <1>1, <1>2, <1>4 DEF OrderDeskTypeOK, Service!Placed
<1>6. PagesTell'
  BY <1>1, <1>2, <1>4 DEF PagesTell
<1>7. OrderDeskTypeOK'
  BY <1>3, <1>5, OrdersAtRest DEF OrderDeskTypeOK, Service!Placed
<1>. QED
  BY <1>6, <1>7, OrdersAtRest DEF FormsInv

LEMMA OpenOrderStep ==
  ASSUME FormsInv, NEW u \in FormUser, NEW o \in Bill, OpenOrder(u, o)
  PROVE  FormsInv'
<1>. DEFINE form == [at |-> "shown", order |-> o, status |-> status[o],
                     payment_status |-> payment_status[o],
                     payment_method |-> payment_method[o],
                     loaded |-> stock_committed[o], before |-> status[o],
                     crossed |-> FALSE]
<1>1. Service!TypeOK /\ Service!Placed(o)
  BY DEF FormsInv, OrderDeskTypeOK, OpenOrder
<1>2. status[o] \in Service!Status
  BY <1>1, PlacedStatus
<1>3. /\ payment_status[o] \in Service!PaymentStatus
      /\ payment_method[o] \in {"cod", "online"} /\ stock_committed[o] \in BOOLEAN
  BY <1>1 DEF Service!TypeOK
<1>4. form \in OrderPage
  BY <1>2, <1>3 DEF OrderPage
<1>5. form.order = o /\ form.at # "compared"
  OBVIOUS
<1>6. orderPage' = [orderPage EXCEPT ![u] = form]
  BY DEF OpenOrder
<1>7. UNCHANGED <<serviceVars, trailVars, savedOver>>
  BY DEF OpenOrder
<1>. HIDE DEF form
<1>. QED
  BY <1>1, <1>4, <1>5, <1>6, <1>7, PageStep

\* What staff post is a page of the same order.
LEMMA PostedPages ==
  ASSUME NEW shown \in OrderPage, NEW typed \in Posted(shown)
  PROVE  typed \in OrderPage /\ typed.order = shown.order
<1>1. CASE typed = shown
  BY <1>1
<1>2. ASSUME NEW s \in TypedStatuses, typed = [shown EXCEPT !.status = s]
      PROVE  typed \in OrderPage /\ typed.order = shown.order
  <2>1. s \in Service!Status
    BY OrderDeskAssumption
  <2>. QED
    BY <1>2, <2>1 DEF OrderPage
<1>3. CASE typed = [shown EXCEPT !.payment_status = "paid"]
  BY <1>3 DEF OrderPage, Service!PaymentStatus
<1>. QED
  BY <1>1, <1>2, <1>3 DEF Posted

LEMMA PostOrderStep ==
  ASSUME FormsInv, NEW u \in FormUser, PostOrder(u)
  PROVE  FormsInv'
<1>1. PICK typed \in Posted(orderPage[u]) :
        orderPage' = [orderPage EXCEPT ![u] =
          [typed EXCEPT !.at = "posted", !.loaded = stock_committed[typed.order],
                        !.before = status[typed.order]]]
  BY DEF PostOrder
<1>2. orderPage[u] \in OrderPage /\ Service!Placed(orderPage[u].order)
  BY DEF PostOrder, FormsInv, OrderDeskTypeOK
<1>3. typed \in OrderPage /\ Service!Placed(typed.order) /\ typed.order \in Bill
  <2>1. typed \in OrderPage /\ typed.order = orderPage[u].order
    BY <1>2, PostedPages
  <2>. QED
    BY <1>2, <2>1 DEF OrderPage
<1>4. /\ status[typed.order] \in Service!Status
      /\ stock_committed[typed.order] \in BOOLEAN
  BY <1>3, PlacedStatus DEF FormsInv, OrderDeskTypeOK, Service!TypeOK
<1>. DEFINE form == [typed EXCEPT !.at = "posted",
                                  !.loaded = stock_committed[typed.order],
                                  !.before = status[typed.order]]
<1>5. form \in OrderPage /\ form.order = typed.order /\ form.at # "compared"
  BY <1>3, <1>4 DEF OrderPage
<1>6. UNCHANGED <<serviceVars, trailVars, savedOver>>
  BY DEF PostOrder
<1>7. orderPage' = [orderPage EXCEPT ![u] = form]
  BY <1>1
<1>8. Service!Placed(form.order)
  BY <1>3, <1>5
<1>. HIDE DEF form
<1>. QED
  BY <1>5, <1>6, <1>7, <1>8, PageStep

LEMMA ReadBackStep ==
  ASSUME FormsInv, NEW u \in FormUser, ReadBack(u)
  PROVE  FormsInv'
<1>. DEFINE shown == orderPage[u]
            form == [shown EXCEPT !.at = "compared",
                                  !.before = status[shown.order]]
<1>1. shown \in OrderPage /\ Service!Placed(shown.order) /\ shown.order \in Bill
  BY DEF ReadBack, FormsInv, OrderDeskTypeOK, OrderPage
<1>2. status[shown.order] \in Service!Status
  BY <1>1, PlacedStatus DEF FormsInv, OrderDeskTypeOK
<1>3. /\ form \in OrderPage /\ form.order = shown.order
      /\ form.before = status[form.order]
  BY <1>1, <1>2 DEF OrderPage
<1>4. orderPage' = [orderPage EXCEPT ![u] = form]
  BY DEF ReadBack, FormsInv, OrderDeskTypeOK
<1>5. UNCHANGED <<serviceVars, trailVars, savedOver>>
  BY DEF ReadBack
<1>6. Service!Placed(form.order)
  BY <1>1, <1>3
<1>. HIDE DEF form
<1>. QED
  BY <1>3, <1>4, <1>5, <1>6, PageStep

\* A form that finds the sale as its post found it changes nothing that the
\* stock and the coupon depend on: not the lines, not the sales made and
\* undone, not which orders are placed.
LEMMA SavedFormKeeps ==
  ASSUME FormsInv, HandlersKeep, NEW o \in Bill, Service!Placed(o),
         NEW new \in Service!Status, status' = [status EXCEPT ![o] = new],
         UNCHANGED <<basket, inventory, usages, used_count, confirming, attempted,
                     commits, restores, stock_committed>>
  PROVE  HandlersKeep'
<1>1. \A p \in Bill : status'[p] # "none" <=> status[p] # "none"
  BY DEF FormsInv, OrderDeskTypeOK, Service!TypeOK, Service!Placed, Service!Status
<1>2. Facts!CommittedExactlyOnce' /\ Facts!ReservedWithinShelf'
  BY DEF HandlersKeep, Facts!CommittedExactlyOnce, Facts!ReservedWithinShelf
<1>3. Facts!CouponInv'
  <2>1. Facts!CouponCountMatchesUsages'
    BY DEF HandlersKeep, Facts!CouponInv, Facts!CouponCountMatchesUsages,
           Facts!Cardinality
  <2>2. usages \subseteq Bill
    BY DEF FormsInv, OrderDeskTypeOK, Service!TypeOK
  <2>. QED
    BY <1>1, <2>1, <2>2 DEF HandlersKeep, Facts!CouponInv, Facts!Placed
<1>4. Facts!NothingBeforePlacement'
  BY <1>1 DEF HandlersKeep, Facts!FiguresInv, Facts!NothingBeforePlacement,
              Facts!Placed
<1>5. Facts!SoldMatchesOrders'
  <2>. DEFINE S == {p \in Bill : stock_committed[p]}
              T == {p \in Bill : stock_committed'[p]}
  <2>1. T = S
    OBVIOUS
  <2>2. \A v \in Shopped :
          inventory[v].sold = Facts!TotalOver([p \in Bill |-> basket[p][v]], S)
    BY DEF HandlersKeep, Facts!FiguresInv, Facts!SoldMatchesOrders, Facts!UnitsOf
  <2>. HIDE DEF S, T
  <2>3. \A v \in Shopped :
          inventory'[v].sold
            = Facts!TotalOver([p \in Bill |-> basket'[p][v]], T)
    BY <2>1, <2>2
  <2>. QED
    BY <2>3 DEF T, Facts!SoldMatchesOrders, Facts!UnitsOf, Facts!TotalOver,
                Facts!UnitsOn, Facts!Cardinality
<1>6. Facts!NoPhantomReservation'
  <2>. DEFINE S == {p \in Bill : status[p] # "none" /\ commits[p] = 0}
              T == {p \in Bill : status'[p] # "none" /\ commits'[p] = 0}
  <2>1. T = S
    BY <1>1
  <2>2. \A v \in Shopped \ {} :
          inventory[v].reserved
            <= Facts!TotalOver([p \in Bill |-> basket[p][v]], S)
    BY DEF HandlersKeep, Facts!FiguresInv, Facts!NoPhantomReservation,
           Facts!UnitsOf, Facts!Placed
  <2>. HIDE DEF S, T
  <2>3. \A v \in Shopped \ {} :
          inventory'[v].reserved
            <= Facts!TotalOver([p \in Bill |-> basket'[p][v]], T)
    BY <2>1, <2>2
  <2>. QED
    BY <2>3 DEF T, Facts!NoPhantomReservation, Facts!UnitsOf, Facts!Placed,
                Facts!TotalOver, Facts!UnitsOn, Facts!Cardinality
<1>. QED
  BY <1>2, <1>3, <1>4, <1>5, <1>6 DEF HandlersKeep, Facts!FiguresInv

LEMMA SaveOrderStep ==
  ASSUME FormsInv, NEW u \in FormUser, SaveOrder(u)
  PROVE  FormsInv'
<1>. DEFINE form == orderPage[u]
            o == form.order
<1>1. OrderDeskTypeOK /\ Service!TypeOK /\ PagesTell /\ TrailTellsStatus
  BY DEF FormsInv, OrderDeskTypeOK
<1>2. /\ form # NoOrderPage /\ form \in OrderPage /\ form.at = "compared"
      /\ o \in Bill /\ Service!Placed(o)
  BY DEF SaveOrder, FormsInv, OrderDeskTypeOK, OrderPage
<1>3. /\ status' = [status EXCEPT ![o] = form.status]
      /\ payment_status' = [payment_status EXCEPT ![o] = form.payment_status]
      /\ payment_method' = [payment_method EXCEPT ![o] = form.payment_method]
      /\ stock_committed' = [stock_committed EXCEPT ![o] = form.loaded]
      /\ savedOver' = IF stock_committed[o] = form.loaded THEN savedOver
                                                          ELSE savedOver \cup {o}
      /\ RecordChange(form)
      /\ orderPage' = [Crossed(o) EXCEPT ![u] = NoOrderPage]
      /\ UNCHANGED <<basket, inventory, usages, used_count, confirming, attempted,
                     commits, restores>>
  BY DEF SaveOrder
<1>4. /\ form.status \in Service!Status /\ form.before \in Service!Status
      /\ form.payment_status \in Service!PaymentStatus
      /\ form.payment_method \in {"cod", "online"} /\ form.loaded \in BOOLEAN
      /\ form.crossed \in BOOLEAN
  BY <1>2 DEF OrderPage
<1>5. ~form.crossed => form.before = status[o]
  BY <1>1, <1>2 DEF PagesTell
<1>6. RecordChange(form) <=>
        IF form.status # form.before
          THEN /\ lastTold' = [lastTold EXCEPT ![o] = status'[o]]
               /\ unheard' = unheard \ {o}
          ELSE /\ unheard' = IF form.crossed THEN unheard \cup {o} ELSE unheard
               /\ lastTold' = lastTold
  BY DEF RecordChange, Tell
<1>. HIDE DEF form
<1>7. Service!TypeOK'
  BY <1>1, <1>2, <1>3, <1>4 DEF Service!TypeOK
<1>8. \A p \in Bill : status'[p] = IF p = o THEN form.status ELSE status[p]
  BY <1>1, <1>2, <1>3 DEF Service!TypeOK
<1>9. /\ lastTold' \in [Bill -> Service!Status \cup {"none"}]
      /\ unheard' \subseteq Bill /\ TrailTellsStatus'
  <2>1. CASE form.status # form.before
    BY <1>1, <1>2, <1>3, <1>4, <1>6, <1>8, <2>1 DEF OrderDeskTypeOK, TrailTellsStatus
  <2>2. CASE form.status = form.before
    BY <1>1, <1>2, <1>3, <1>4, <1>5, <1>6, <1>8, <2>2
       DEF OrderDeskTypeOK, TrailTellsStatus
  <2>. QED
    BY <2>1, <2>2
<1>10. /\ orderPage' \in [FormUser -> OrderPage \cup {NoOrderPage}]
       /\ \A w \in FormUser : orderPage'[w] # NoOrderPage =>
            /\ orderPage[w] # NoOrderPage
            /\ orderPage'[w].at = orderPage[w].at
            /\ orderPage'[w].order = orderPage[w].order
            /\ orderPage'[w].before = orderPage[w].before
            /\ ~orderPage'[w].crossed =>
                 /\ ~orderPage[w].crossed
                 /\ orderPage[w].at = "compared" /\ orderPage[w].order = o
                      => status'[o] = status[o]
            /\ orderPage[w].order \in Bill /\ status[orderPage[w].order] # "none"
  <2>1. \A w \in FormUser : orderPage[w] # NoOrderPage =>
          orderPage[w].order \in Bill /\ status[orderPage[w].order] # "none"
    BY <1>1 DEF OrderDeskTypeOK, OrderPage, Service!Placed
  <2>2. Crossed(o) \in [FormUser -> OrderPage \cup {NoOrderPage}]
    BY <1>1, <1>2, CrossedPages
  <2>3. \A w \in FormUser :
          orderPage'[w] = IF w = u THEN NoOrderPage ELSE Crossed(o)[w]
    BY <1>3, <2>2
  <2>4. orderPage' \in [FormUser -> OrderPage \cup {NoOrderPage}]
    BY <1>3, <2>2
  <2>. QED
    BY <1>1, <1>2, <2>1, <2>3, <2>4, CrossedPages
<1>11. \A w \in FormUser :
         orderPage'[w] # NoOrderPage => status'[orderPage'[w].order] # "none"
  BY <1>4, <1>8, <1>10 DEF Service!Status
<1>12. PagesTell'
  BY <1>1, <1>8, <1>10 DEF PagesTell
<1>13. savedOver' \subseteq Bill
  BY <1>1, <1>2, <1>3 DEF OrderDeskTypeOK
<1>14. OrderDeskTypeOK'
  BY <1>7, <1>9, <1>10, <1>11, <1>13 DEF OrderDeskTypeOK, Service!Placed
<1>15. ASSUME savedOver' = {} PROVE HandlersKeep'
  <2>1. savedOver = {} /\ stock_committed[o] = form.loaded
    BY <1>3, <1>15
  <2>2. stock_committed' = stock_committed
    BY <1>1, <1>2, <1>3, <2>1 DEF Service!TypeOK
  <2>3. HandlersKeep
    BY <2>1 DEF FormsInv
  <2>. QED
    BY <1>2, <1>3, <1>4, <2>2, <2>3, SavedFormKeeps
<1>. QED
  BY <1>9, <1>12, <1>14, <1>15 DEF FormsInv

LEMMA InitForms == OrderDeskInit => FormsInv
<1>. SUFFICES ASSUME OrderDeskInit PROVE FormsInv
  OBVIOUS
<1>1. Facts!Init /\ Service!Init
  BY SameStates DEF OrderDeskInit
<1>2. Facts!TypeOK /\ Service!TypeOK
  BY <1>1, FactsApply, Facts!InitTypeOK, SameStates
<1>3. Facts!FiguresInv
  BY <1>1, FactsApply, Facts!InitFigures
<1>4. Facts!CommittedExactlyOnce
  BY <1>1 DEF Facts!Init, Facts!CommittedExactlyOnce
<1>5. Facts!ReservedWithinShelf
  BY <1>1, OrderDeskAssumption
     DEF Facts!Init, Facts!ReservedWithinShelf, Facts!FullShelf
<1>6. Facts!CouponInv
  <2>1. usages = {} /\ used_count = 0
    BY <1>1 DEF Facts!Init
  <2>2. Facts!Cardinality({}) = 0
    BY FS_EmptySet DEF Facts!Cardinality, Cardinality
  <2>. QED
    BY <2>1, <2>2 DEF Facts!CouponInv, Facts!CouponCountMatchesUsages
<1>7. OrderDeskTypeOK /\ PagesTell /\ TrailTellsStatus
  BY <1>1, <1>2
     DEF OrderDeskInit, OrderDeskTypeOK, PagesTell, TrailTellsStatus, Service!Init
<1>. QED
  BY <1>3, <1>4, <1>5, <1>6, <1>7 DEF FormsInv, HandlersKeep

LEMMA FormsInvStep == FormsInv /\ [OrderDeskNext]_orderDeskVars => FormsInv'
<1>. SUFFICES ASSUME FormsInv, [OrderDeskNext]_orderDeskVars PROVE FormsInv'
  OBVIOUS
<1>1. CASE UNCHANGED orderDeskVars
  <2>1. /\ UNCHANGED <<serviceVars, trailVars, savedOver>>
        /\ orderPage' = orderPage /\ status' = status
    BY <1>1 DEF orderDeskVars, formVars, serviceVars
  <2>2. OrderDeskTypeOK' /\ PagesTell'
    BY <2>1, OrdersAtRest DEF OrderDeskTypeOK, PagesTell, FormsInv, Service!Placed
  <2>. QED
    BY <2>1, <2>2, OrdersAtRest DEF FormsInv
<1>. QED
  BY <1>1, HandlerFormsStep, OpenOrderStep, PostOrderStep, ReadBackStep,
     SaveOrderStep DEF OrderDeskNext

LEMMA FormsInvAlways == OrderDeskSpec => []FormsInv
BY FormsInvStep, InitForms, PTL DEF OrderDeskSpec

\* Every reachable state is well typed, for any orders, variants, staff and
\* statuses typed into the form: a page that is open is of a placed order.
THEOREM OrderDeskTypeCorrect == OrderDeskSpec => []OrderDeskTypeOK
BY FormsInvAlways, PTL DEF FormsInv

\* History and audit log always tell an order's status, but for the orders
\* whose status a handler changed between a form's reading back and its
\* saving, whatever the form is posted with and however old its page is.
THEOREM TrailIsTrue == OrderDeskSpec => []TrailTellsStatus
BY FormsInvAlways, PTL DEF FormsInv

\* As long as no form was saved over a sale or over the end of one, the
\* handlers sell and give back every order's units once, count its coupon
\* use once and reserve within the shelf, from whatever status and payment
\* status the forms put on the orders.
THEOREM SalesOutliveForms == OrderDeskSpec => []SaleSurvivesForms
<1>1. FormsInv => SaleSurvivesForms
  BY SamePromises DEF FormsInv, HandlersKeep, SaleSurvivesForms,
     Facts!FiguresInv, Facts!CouponInv
<1>. QED
  BY <1>1, FormsInvAlways, PTL

-----------------------------------------------------------------------------
(* The dashboard.                                                          *)

\* Every reachable ledger is well typed, for any sales, buyers, methods and
\* lines: no sale moves or is refunded before it has a buyer, a method and a day.
THEOREM ReportsTypeCorrect == ReportsSpec => []ReportsTypeOK
<1>1. ReportsInit => ReportsTypeOK
  BY ReportsAssumption DEF ReportsInit, ReportsTypeOK
<1>2. ASSUME ReportsTypeOK, [ReportsNext]_reportVars PROVE ReportsTypeOK'
  <2> USE ReportsAssumption
  <2>1. ASSUME NEW o \in Sale, NEW buyer \in Buyer, NEW method \in Method,
               PlaceSale(o, buyer, method)
        PROVE  ReportsTypeOK'
    BY <1>2, <2>1 DEF ReportsTypeOK, PlaceSale
  <2>2. ASSUME NEW o \in Sale, NEW state \in {"delivered", "returned", "cancelled"},
               MoveSale(o, state)
        PROVE  ReportsTypeOK'
    BY <1>2, <2>2 DEF ReportsTypeOK, MoveSale
  <2>3. ASSUME NEW o \in Sale, RefundSale(o) PROVE ReportsTypeOK'
    <3>1. PICK line \in LinesOf[o] : ledger' = [ledger EXCEPT ![o].refunded = line.amount]
      BY <2>3 DEF RefundSale
    <3>2. line.amount \in Nat
      OBVIOUS
    <3>3. ledger[o] # NotPlaced
      BY <2>3 DEF RefundSale, NotPlaced
    <3>. QED
      BY <1>2, <2>3, <3>1, <3>2, <3>3 DEF ReportsTypeOK, RefundSale
  <2>4. CASE DayPasses
    BY <1>2, <2>4 DEF ReportsTypeOK, DayPasses
  <2>5. CASE UNCHANGED reportVars
    BY <1>2, <2>5 DEF ReportsTypeOK, reportVars
  <2>. QED
    BY <1>2, <2>1, <2>2, <2>3, <2>4, <2>5 DEF ReportsNext
<1>. QED
  BY <1>1, <1>2, PTL DEF ReportsSpec

\* What the queries sum is finite and made of natural numbers.
LEMMA SummedOrders ==
  ASSUME ReportsTypeOK
  PROVE  /\ Revenue \subseteq Placed /\ Placed \subseteq Sale
         /\ IsFiniteSet(Revenue) /\ IsFiniteSet(Placed)
         /\ \A o \in Sale : TotalOf[o] \in Nat
         /\ \A o \in Placed : /\ ledger[o].buyer \in Buyer /\ ledger[o].method \in Method
                              /\ ledger[o].day \in 1 .. date
<1>1. Revenue \subseteq Placed /\ Placed \subseteq Sale
  BY DEF Revenue, Placed
<1>2. IsFiniteSet(Revenue) /\ IsFiniteSet(Placed)
  BY <1>1, ReportsAssumption, FS_Subset
<1>3. \A o \in Sale : TotalOf[o] \in Nat
  BY ReportsAssumption DEF TotalOf
<1>4. \A o \in Placed : /\ ledger[o].buyer \in Buyer /\ ledger[o].method \in Method
                        /\ ledger[o].day \in 1 .. date
  BY DEF ReportsTypeOK, Placed
<1>. QED
  BY <1>1, <1>2, <1>3, <1>4

\* The payment methods share out the sales.
LEMMA MethodsAddUp ==
  ASSUME ReportsTypeOK
  PROVE  Column(MethodBreakdown, "revenue") = TotalSales
<1> DEFINE part == [m \in Method |-> PaidBy(m)]
           sums == [m \in DOMAIN MethodBreakdown |-> MethodBreakdown[m]["revenue"]]
<1>1. DOMAIN MethodBreakdown = Method
  BY DEF MethodBreakdown
<1>2. \A o \in Revenue : ledger[o].method \in Method /\ TotalOf[o] \in Nat
  BY SummedOrders
<1>3. \A m \in Method : sums[m] = SumFunctionOnSet(TotalOf, part[m])
  BY <1>1 DEF MethodBreakdown, SumOver
<1>6. /\ \A m \in Method : part[m] \subseteq Revenue
      /\ \A o \in Revenue : \E m \in Method : o \in part[m]
      /\ \A m, n \in Method : m # n => part[m] \cap part[n] = {}
  BY <1>2 DEF PaidBy
<1> HIDE DEF part, sums
<1>4. IsFiniteSet(Revenue) /\ IsFiniteSet(Method)
  BY SummedOrders, ReportsAssumption
<1>5. SumFunctionOnSet(sums, Method) = SumFunctionOnSet(TotalOf, Revenue)
  BY <1>2, <1>3, <1>4, <1>6, SumOfParts
<1>. QED
  BY <1>1, <1>5 DEF SumOver, TotalSales, sums, Column

\* The days of the chart share out what was sold since its first.
LEMMA DaysAddUp ==
  ASSUME ReportsTypeOK
  PROVE  Column(RevenueSeries, "revenue") = SalesSince(date - Window + 1)
<1> DEFINE first == date - Window + 1
           days == first .. date
           sold == {o \in Revenue : ledger[o].day >= first}
           part == [d \in days |-> {o \in Revenue : ledger[o].day = d}]
           sums == [d \in DOMAIN RevenueSeries |-> RevenueSeries[d]["revenue"]]
<1>1. DOMAIN RevenueSeries = days
  BY DEF RevenueSeries
<1>2. first \in Int /\ date \in Int
  BY ReportsAssumption DEF ReportsTypeOK
<1>3. ASSUME NEW o \in sold PROVE ledger[o].day \in days /\ TotalOf[o] \in Nat
  <2>1. ledger[o].day \in 1 .. date /\ TotalOf[o] \in Nat
    BY SummedOrders
  <2>. QED
    BY <1>2, <2>1
<1>4. ASSUME NEW d \in days PROVE sums[d] = SumFunctionOnSet(TotalOf, part[d])
  <2>1. RevenueSeries[d].revenue = SumOver(TotalOf, part[d])
    BY DEF RevenueSeries
  <2>. QED
    BY <1>1, <2>1 DEF SumOver
<1>7. /\ \A d \in days : part[d] \subseteq sold
      /\ \A o \in sold : \E d \in days : o \in part[d]
      /\ \A d, e \in days : d # e => part[d] \cap part[e] = {}
  BY <1>2, <1>3
<1>5. IsFiniteSet(sold) /\ IsFiniteSet(days)
  BY <1>2, SummedOrders, FS_Subset, FS_Interval
<1> HIDE DEF part, sums, sold, days
<1>6. SumFunctionOnSet(sums, days) = SumFunctionOnSet(TotalOf, sold)
  BY <1>3, <1>4, <1>5, <1>7, SumOfParts
<1>. QED
  BY <1>1, <1>6 DEF SumOver, SalesSince, sums, sold, Column

\* The customers share out what was not sold to staff.
LEMMA CustomersAddUp ==
  ASSUME ReportsTypeOK
  PROVE  /\ Column(CustomerRows, "lifetime_value")
              + SumOver(TotalOf, {o \in Revenue : ledger[o].buyer \in Employee})
              = TotalSales
         /\ SumOver(TotalOf, {o \in Revenue : ledger[o].buyer \in Employee}) \in Nat
         /\ IsFiniteSet(DOMAIN CustomerRows)
         /\ \A c \in DOMAIN CustomerRows : CustomerRows[c].lifetime_value \in Nat
<1> DEFINE staffs == {o \in Revenue : ledger[o].buyer \in Employee}
           theirs == Revenue \ staffs
           customers == {b \in Buyer \ Employee : \E o \in Revenue : ledger[o].buyer = b}
           part == [c \in customers |-> {o \in Revenue : ledger[o].buyer = c}]
           sums == [c \in DOMAIN CustomerRows |-> CustomerRows[c]["lifetime_value"]]
<1>1. DOMAIN CustomerRows = customers
  BY DEF CustomerRows
<1>2. \A o \in Revenue : ledger[o].buyer \in Buyer /\ TotalOf[o] \in Nat
  BY SummedOrders
<1>3. /\ \A c \in customers : part[c] \subseteq theirs
      /\ \A o \in theirs : \E c \in customers : o \in part[c]
      /\ \A c, d \in customers : c # d => part[c] \cap part[d] = {}
  BY <1>2
<1>4. ASSUME NEW c \in customers PROVE sums[c] = SumFunctionOnSet(TotalOf, part[c])
  <2>1. CustomerRows[c].lifetime_value = SumOver(TotalOf, part[c])
    BY DEF CustomerRows
  <2>. QED
    BY <1>1, <2>1 DEF SumOver
<1>5. IsFiniteSet(theirs) /\ IsFiniteSet(staffs) /\ IsFiniteSet(customers)
  <2>1. customers \subseteq Buyer
    OBVIOUS
  <2>. QED
    BY <2>1, SummedOrders, ReportsAssumption, FS_Subset
<1>6. Revenue = theirs \cup staffs /\ theirs \cap staffs = {}
  OBVIOUS
<1> HIDE DEF part, sums, theirs, staffs, customers
<1>7. \A o \in theirs \cup staffs : TotalOf[o] \in Nat
  BY <1>2, <1>6
<1>8. SumFunctionOnSet(sums, customers) = SumFunctionOnSet(TotalOf, theirs)
  BY <1>3, <1>4, <1>5, <1>7, SumOfParts
<1>9. SumFunctionOnSet(TotalOf, Revenue)
        = SumFunctionOnSet(TotalOf, theirs) + SumFunctionOnSet(TotalOf, staffs)
  BY <1>5, <1>6, <1>7, SumOfDisjoint
<1>10. \A c \in customers : SumFunctionOnSet(TotalOf, part[c]) \in Nat
  <2>1. ASSUME NEW c \in customers
        PROVE  SumFunctionOnSet(TotalOf, part[c]) \in Nat
    <3>1. IsFiniteSet(part[c]) /\ \A o \in part[c] : TotalOf[o] \in Nat
      BY <1>3, <1>5, <1>7, FS_Subset
    <3>. QED
      BY <3>1, SumType
  <2>. QED
    BY <2>1
<1>11. SumFunctionOnSet(TotalOf, staffs) \in Nat
  BY <1>5, <1>7, SumType
<1>. QED
  BY <1>1, <1>4, <1>5, <1>8, <1>9, <1>10, <1>11
     DEF SumOver, TotalSales, sums, staffs, Column

\* The statuses share out the orders.
LEMMA StatusesAddUp ==
  ASSUME ReportsTypeOK
  PROVE  SumOver(StatusBreakdown, DOMAIN StatusBreakdown) = OrdersTold
<1> DEFINE statuses == {ledger[o].status : o \in Placed}
           part == [s \in statuses |-> {o \in Placed : ledger[o].status = s}]
<1>1. DOMAIN StatusBreakdown = statuses
  BY DEF StatusBreakdown
<1>2. IsFiniteSet(Placed)
  BY SummedOrders
<1>3. IsFiniteSet(statuses)
  <2>1. [o \in Placed |-> ledger[o].status] \in Surjection(Placed, statuses)
    BY DEF Surjection
  <2>. QED
    BY <1>2, <2>1, FS_Surjection
<1>4. /\ \A s \in statuses : part[s] \subseteq Placed
      /\ \A o \in Placed : \E s \in statuses : o \in part[s]
      /\ \A s, t \in statuses : s # t => part[s] \cap part[t] = {}
  OBVIOUS
<1>5. \A s \in statuses : StatusBreakdown[s] = Cardinality(part[s])
  BY DEF StatusBreakdown, InStatus
<1> HIDE DEF part, statuses
<1>6. SumFunctionOnSet(StatusBreakdown, statuses) = Cardinality(Placed)
  BY <1>2, <1>3, <1>4, <1>5, SizesOfParts
<1>. QED
  BY <1>1, <1>6 DEF SumOver, OrdersTold

\* The rows of the orders that count are finitely many, and each names a
\* product there is.
LEMMA SummedRows ==
  ASSUME ReportsTypeOK
  PROVE  /\ IsFiniteSet(RowsOf(Revenue))
         /\ \A r \in RowsOf(Revenue) : /\ r[2].amount \in Nat
                                       /\ r[2].product \in DOMAIN CategoryOf
<1> DEFINE parts == [o \in Revenue |-> {o} \X LinesOf[o]]
           all == {{o} \X LinesOf[o] : o \in Revenue}
<1>1. parts \in Surjection(Revenue, all)
  BY DEF Surjection
<1>2. IsFiniteSet(all)
  BY <1>1, SummedOrders, FS_Surjection
<1>3. ASSUME NEW o \in Revenue
      PROVE  IsFiniteSet({o} \X LinesOf[o])
  <2>1. IsFiniteSet({o}) /\ IsFiniteSet(LinesOf[o])
    BY SummedOrders, ReportsAssumption, FS_Singleton
  <2>. QED
    BY <2>1, FS_Product
<1>4. IsFiniteSet(UNION all)
  BY <1>2, <1>3, FS_UNION
<1>5. ASSUME NEW r \in RowsOf(Revenue)
      PROVE  r[2].amount \in Nat /\ r[2].product \in DOMAIN CategoryOf
  <2>1. PICK o \in Revenue : r \in {o} \X LinesOf[o]
    BY DEF RowsOf
  <2>2. r[2] \in LinesOf[o]
    BY <2>1
  <2>3. r[2] \in [product : DOMAIN CategoryOf, sku : STRING, quantity : Nat, amount : Nat]
    BY <2>2, SummedOrders, ReportsAssumption
  <2>. QED
    BY <2>3
<1>. QED
  BY <1>4, <1>5 DEF RowsOf

\* The products and the categories share out the same rows.
LEMMA ProductsAddUp ==
  ASSUME ReportsTypeOK
  PROVE  LET goods == SumOver(Amount(RowsOf(Revenue)), RowsOf(Revenue))
         IN  /\ Column(ProductRows, "revenue") = goods
             /\ Column(CategoryRows, "revenue") = goods
             /\ IsFiniteSet(DOMAIN ProductRows) /\ IsFiniteSet(DOMAIN CategoryRows)
             /\ \A p \in DOMAIN ProductRows : ProductRows[p].revenue \in Nat
             /\ \A c \in DOMAIN CategoryRows : CategoryRows[c].revenue \in Nat
<1> DEFINE rows == RowsOf(Revenue)
           amount == Amount(rows)
           kindOf == [r \in rows |-> CategoryOf[r[2].product]]
           soldAs == [r \in rows |-> SoldAs(r)]
           goods == {SoldAs(r) : r \in rows}
           kinds == {CategoryOf[r[2].product] : r \in rows}
           ofProduct == [p \in goods |-> {r \in rows : SoldAs(r) = p}]
           ofKind == [c \in kinds |-> {r \in rows : CategoryOf[r[2].product] = c}]
           byProduct == [p \in DOMAIN ProductRows |-> ProductRows[p]["revenue"]]
           byKind == [c \in DOMAIN CategoryRows |-> CategoryRows[c]["revenue"]]
<1>1. DOMAIN ProductRows = goods /\ DOMAIN CategoryRows = kinds
  BY DEF ProductRows, CategoryRows
<1>2. IsFiniteSet(rows) /\ IsFiniteSet(goods) /\ IsFiniteSet(kinds)
  <2>1. kindOf \in Surjection(rows, kinds) /\ soldAs \in Surjection(rows, goods)
    BY DEF Surjection
  <2>2. IsFiniteSet(rows)
    BY SummedRows
  <2>. QED
    BY <2>1, <2>2, FS_Surjection
<1>3. \A r \in rows : amount[r] = r[2].amount /\ amount[r] \in Nat
  BY SummedRows DEF Amount
<1>4. ASSUME NEW T \in SUBSET rows
      PROVE  /\ SumOver(Amount(T), T) = SumFunctionOnSet(amount, T)
             /\ SumFunctionOnSet(amount, T) \in Nat
  <2>1. IsFiniteSet(T)
    BY <1>2, FS_Subset
  <2>2. \A r \in T : Amount(T)[r] \in Nat /\ amount[r] = Amount(T)[r]
    BY <1>3 DEF Amount
  <2>3. \A r \in T : amount[r] \in Nat
    BY <2>2
  <2> HIDE DEF amount
  <2>. QED
    BY <2>1, <2>2, <2>3, SumOfSame, SumType DEF SumOver
<1>5. ASSUME NEW p \in goods
      PROVE  /\ ofProduct[p] \subseteq rows
             /\ byProduct[p] = SumFunctionOnSet(amount, ofProduct[p])
             /\ ProductRows[p].revenue = byProduct[p] /\ byProduct[p] \in Nat
  <2> DEFINE own == ofProduct[p]
  <2>1. ProductRows[p].revenue = SumOver(Amount(own), own)
    BY DEF ProductRows
  <2> HIDE DEF amount
  <2>. QED
    BY <1>1, <1>4, <2>1
<1>6. ASSUME NEW c \in kinds
      PROVE  /\ ofKind[c] \subseteq rows
             /\ byKind[c] = SumFunctionOnSet(amount, ofKind[c])
             /\ CategoryRows[c].revenue = byKind[c] /\ byKind[c] \in Nat
  <2> DEFINE own == ofKind[c]
  <2>1. CategoryRows[c].revenue = SumOver(Amount(own), own)
    BY DEF CategoryRows
  <2> HIDE DEF amount
  <2>. QED
    BY <1>1, <1>4, <2>1
<1>7. /\ \A r \in rows : \E p \in goods : r \in ofProduct[p]
      /\ \A p, q \in goods : p # q => ofProduct[p] \cap ofProduct[q] = {}
  OBVIOUS
<1>8. /\ \A r \in rows : \E c \in kinds : r \in ofKind[c]
      /\ \A c, d \in kinds : c # d => ofKind[c] \cap ofKind[d] = {}
  OBVIOUS
<1> HIDE DEF rows, amount, goods, kinds, ofProduct, ofKind, byProduct, byKind
<1>9. SumFunctionOnSet(byProduct, goods) = SumFunctionOnSet(amount, rows)
  BY <1>2, <1>3, <1>5, <1>7, SumOfParts
<1>10. SumFunctionOnSet(byKind, kinds) = SumFunctionOnSet(amount, rows)
  BY <1>2, <1>3, <1>6, <1>8, SumOfParts
<1>11. /\ SumFunctionOnSet(byProduct, goods) = Column(ProductRows, "revenue")
       /\ SumFunctionOnSet(byKind, kinds) = Column(CategoryRows, "revenue")
       /\ SumFunctionOnSet(amount, rows)
            = SumOver(Amount(RowsOf(Revenue)), RowsOf(Revenue))
  BY <1>1 DEF Column, SumOver, byProduct, byKind, amount, rows
<1>. QED
  BY <1>1, <1>2, <1>5, <1>6, <1>9, <1>10, <1>11

\* What a cut of a table shows of a column is no more than the column, and
\* all of it when nothing is cut off.
LEMMA CutTells ==
  ASSUME NEW table, NEW field, NEW rank, NEW limit \in Nat, NEW staffs \in Nat, NEW sum,
         IsFiniteSet(DOMAIN table),
         \A x \in DOMAIN table : table[x][field] \in Nat,
         Column(table, field) + staffs = sum,
         NEW report \in Cuts(table, rank, limit)
  PROVE  Tells(Column(report, field) + staffs, limit,
               [rows |-> Cardinality(DOMAIN table), sum |-> sum])
<1> DEFINE values == [x \in DOMAIN table |-> table[x][field]]
           all == [rows |-> Cardinality(DOMAIN table), sum |-> sum]
<1>1. PICK K \in SUBSET DOMAIN table :
        /\ report = Restrict(table, K)
        /\ Cardinality(DOMAIN table) <= limit => K = DOMAIN table
  BY DEF Cuts
<1>2. IsFiniteSet(K) /\ \A x \in DOMAIN table : values[x] \in Nat
  BY FS_Subset
<1>3. Column(report, field) = SumFunctionOnSet(values, K)
  <2> DEFINE shown == [x \in K |-> report[x][field]]
  <2>1. DOMAIN report = K /\ \A x \in K : shown[x] = values[x]
    BY <1>1 DEF Restrict
  <2>2. Column(report, field) = SumFunctionOnSet(shown, K)
    BY <2>1 DEF Column, SumOver
  <2>3. \A x \in K : values[x] \in Nat /\ shown[x] = values[x]
    BY <1>2, <2>1
  <2> HIDE DEF shown, values
  <2>. QED
    BY <1>2, <2>2, <2>3, SumOfSame
<1>4. Column(table, field) = SumFunctionOnSet(values, DOMAIN table)
  BY DEF Column, SumOver
<1> HIDE DEF values
<1>5. /\ SumFunctionOnSet(values, K) <= SumFunctionOnSet(values, DOMAIN table)
      /\ SumFunctionOnSet(values, K) \in Nat
      /\ SumFunctionOnSet(values, DOMAIN table) \in Nat
  <2>1. \A x \in K : values[x] \in Nat
    BY <1>2
  <2>. QED
    BY <1>2, <2>1, SumOfFewer, SumType
<1>6. all.sum = sum /\ all.rows = Cardinality(DOMAIN table)
  OBVIOUS
<1>7. Column(report, field) + staffs <= sum
  BY <1>3, <1>4, <1>5
<1>8. Cardinality(DOMAIN table) <= limit => Column(report, field) + staffs = sum
  BY <1>1, <1>3, <1>4
<1>. QED
  BY <1>6, <1>7, <1>8 DEF Tells

\* The pages of the dashboard tell one story, whatever was placed, moved and
\* refunded: every breakdown shares out the same orders, and a cut leaves out
\* of them only.
THEOREM FiguresTellOneStory == ReportsSpec => []FiguresAgree
<1>1. ASSUME ReportsTypeOK PROVE FiguresAgree
  <2> DEFINE staffs == SumOver(TotalOf, {o \in Revenue : ledger[o].buyer \in Employee})
             goods == SumOver(Amount(RowsOf(Revenue)), RowsOf(Revenue))
             all(table, sum) == [rows |-> Cardinality(DOMAIN table), sum |-> sum]
  <2>1. Between(1, LastDay) = Revenue
    <3>1. \A o \in Revenue : ledger[o].day \in 1 .. LastDay
      BY <1>1, SummedOrders, ReportsAssumption DEF ReportsTypeOK
    <3>. QED
      BY <3>1 DEF Between
  <2>2. RevenueReport(1, LastDay).net = TotalSales
    BY <2>1 DEF RevenueReport, TotalSales
  <2>3. \A report \in CustomerReport :
          Tells(Column(report, "lifetime_value") + staffs, TopCustomers,
                all(CustomerRows, TotalSales))
    <3>1. TopCustomers \in Nat
      BY ReportsAssumption
    <3>. QED
      BY <1>1, <3>1, CustomersAddUp, CutTells DEF CustomerReport
  <2>4. ASSUME NEW table, NEW rank, NEW limit \in Nat, NEW report \in Cuts(table, rank, limit),
               IsFiniteSet(DOMAIN table), Column(table, "revenue") = goods,
               \A x \in DOMAIN table : table[x].revenue \in Nat
        PROVE  Tells(Column(report, "revenue"), limit, all(table, goods))
    <3>1. Column(report, "revenue") \in Nat /\ goods \in Nat
      <4>1. PICK K \in SUBSET DOMAIN table : report = Restrict(table, K)
        BY <2>4 DEF Cuts
      <4>2. /\ DOMAIN report = K /\ IsFiniteSet(K)
            /\ \A x \in K : report[x]["revenue"] \in Nat
        BY <2>4, <4>1, FS_Subset DEF Restrict
      <4>. QED
        BY <2>4, <4>2, SumType DEF Column, SumOver
    <3>2. Column(table, "revenue") + 0 = goods
      BY <2>4, <3>1
    <3>3. Tells(Column(report, "revenue") + 0, limit, all(table, goods))
      <4> HIDE DEF goods
      <4>. QED
        BY <2>4, <3>2, CutTells
    <3>. QED
      BY <3>1, <3>3
  <2>5. ASSUME NEW kind \in {"best_sellers", "slow_movers"}, NEW report \in ProductReport(kind)
        PROVE  Tells(Column(report, "revenue"), TopProducts, all(ProductRows, goods))
    <3>1. TopProducts \in Nat /\ \E rank : report \in Cuts(ProductRows, rank, TopProducts)
      BY ReportsAssumption DEF ProductReport
    <3> HIDE DEF goods, all
    <3>. QED
      BY <1>1, <2>4, <3>1, ProductsAddUp DEF goods
  <2>6. ASSUME NEW report \in CategoryPerformance
        PROVE  Tells(Column(report, "revenue"), TopCategories, all(CategoryRows, goods))
    <3>1. TopCategories \in Nat /\ \E rank : report \in Cuts(CategoryRows, rank, TopCategories)
      BY ReportsAssumption DEF CategoryPerformance
    <3> HIDE DEF goods, all
    <3>. QED
      BY <1>1, <2>4, <3>1, ProductsAddUp DEF goods
  <2>. QED
    BY <1>1, <2>2, <2>3, <2>5, <2>6, MethodsAddUp, DaysAddUp, StatusesAddUp
       DEF FiguresAgree
<1>. QED
  BY <1>1, ReportsTypeCorrect, PTL

-----------------------------------------------------------------------------
(* The sales report joins the orders with their lines.                     *)

\* Every order has one line.
OneLineEach == \A o \in Sale : Cardinality(LinesOf[o]) = 1

\* The sales report counts an order, and its money, once for each of its lines.
SalesCountLines ==
  \A first \in 1 .. LastDay :
    LET report == SalesReport(first, LastDay)
        orders == Between(first, LastDay)
    IN  /\ SumOver([b \in DOMAIN report |-> report[b].orders], DOMAIN report)
             = SumOver([o \in orders |-> Cardinality(LinesOf[o])], orders)
        /\ SumOver([b \in DOMAIN report |-> report[b].net], DOMAIN report)
             = SumOver([o \in orders |-> Cardinality(LinesOf[o]) * TotalOf[o]], orders)

\* A figure that is the same everywhere counts the places.
LEMMA SumOfConstant ==
  ASSUME NEW S, IsFiniteSet(S), NEW a \in Nat, NEW h, \A x \in S : h[x] = a
  PROVE  SumFunctionOnSet(h, S) = Cardinality(S) * a
<1> DEFINE one == [x \in S |-> 1]
<1>1. \A x \in S : one[x] \in Nat /\ one[x] = 1 /\ h[x] = a * one[x] + 0 * one[x]
  OBVIOUS
<1>2. SumFunctionOnSet(one, S) = Cardinality(S) /\ Cardinality(S) \in Nat
  BY SumOfOnes, FS_CardinalityType
<1> HIDE DEF one
<1>3. SumFunctionOnSet(h, S)
        = a * SumFunctionOnSet(one, S) + 0 * SumFunctionOnSet(one, S)
  BY <1>1, SumOfSums
<1>4. a * Cardinality(S) + 0 * Cardinality(S) = Cardinality(S) * a
  BY <1>2
<1>. QED
  BY <1>2, <1>3, <1>4

\* The orders of a range of days, and their lines as rows, are finitely many.
LEMMA SoldBetween ==
  ASSUME ReportsTypeOK, NEW first
  PROVE  LET orders == Between(first, LastDay)
         IN  /\ orders \subseteq Sale /\ IsFiniteSet(orders)
             /\ IsFiniteSet(RowsOf(orders))
             /\ \A o \in orders : /\ TotalOf[o] \in Nat
                                  /\ IsFiniteSet({o} \X LinesOf[o])
                                  /\ Cardinality(LinesOf[o]) \in Nat
                                  /\ Cardinality({o} \X LinesOf[o])
                                       = Cardinality(LinesOf[o])
<1> DEFINE orders == Between(first, LastDay)
           all == {{o} \X LinesOf[o] : o \in orders}
<1>1. orders \subseteq Revenue
  BY DEF Between
<1>2. orders \subseteq Sale /\ IsFiniteSet(orders) /\ \A o \in orders : TotalOf[o] \in Nat
  BY <1>1, SummedOrders, FS_Subset
<1> HIDE DEF orders
<1>3. ASSUME NEW o \in orders
      PROVE  /\ IsFiniteSet({o} \X LinesOf[o])
             /\ Cardinality(LinesOf[o]) \in Nat
             /\ Cardinality({o} \X LinesOf[o]) = Cardinality(LinesOf[o])
  <2>1. /\ IsFiniteSet({o}) /\ Cardinality({o}) = 1 /\ IsFiniteSet(LinesOf[o])
        /\ Cardinality(LinesOf[o]) \in Nat
    BY <1>2, ReportsAssumption, FS_Singleton, FS_CardinalityType
  <2>2. /\ IsFiniteSet({o} \X LinesOf[o])
        /\ Cardinality({o} \X LinesOf[o]) = Cardinality({o}) * Cardinality(LinesOf[o])
    BY <2>1, FS_Product
  <2>. QED
    BY <2>1, <2>2
<1>4. [o \in orders |-> {o} \X LinesOf[o]] \in Surjection(orders, all)
  BY DEF Surjection
<1>5. IsFiniteSet(all)
  BY <1>2, <1>4, FS_Surjection
<1>6. IsFiniteSet(UNION all)
  BY <1>3, <1>5, FS_UNION
<1>. QED
  BY <1>2, <1>3, <1>6 DEF RowsOf, orders

\* The periods share out the rows, and so do the orders.
LEMMA PeriodsAddUp ==
  ASSUME ReportsTypeOK
  PROVE  SalesCountLines
<1> SUFFICES ASSUME NEW first \in 1 .. LastDay
             PROVE  LET report == SalesReport(first, LastDay)
                        orders == Between(first, LastDay)
                    IN  /\ SumOver([b \in DOMAIN report |-> report[b].orders], DOMAIN report)
                             = SumOver([o \in orders |-> Cardinality(LinesOf[o])], orders)
                        /\ SumOver([b \in DOMAIN report |-> report[b].net], DOMAIN report)
                             = SumOver([o \in orders |-> Cardinality(LinesOf[o]) * TotalOf[o]],
                                       orders)
  BY DEF SalesCountLines
<1> DEFINE report == SalesReport(first, LastDay)
           orders == Between(first, LastDay)
           rows == RowsOf(orders)
           period(o) == ledger[o].day \div PerPeriod
           periods == {period(o) : o \in orders}
           inPeriod == [b \in periods |-> {r \in rows : period(r[1]) = b}]
           rowsOf == [o \in orders |-> {o} \X LinesOf[o]]
           net == [r \in rows |-> TotalOf[r[1]]]
           counts == [b \in DOMAIN report |-> report[b].orders]
           nets == [b \in DOMAIN report |-> report[b].net]
           lines == [o \in orders |-> Cardinality(LinesOf[o])]
           weighed == [o \in orders |-> Cardinality(LinesOf[o]) * TotalOf[o]]
<1>1. DOMAIN report = periods
  BY DEF SalesReport
<1>2. /\ IsFiniteSet(orders) /\ IsFiniteSet(rows)
      /\ \A o \in orders : /\ TotalOf[o] \in Nat /\ IsFiniteSet(rowsOf[o])
                           /\ Cardinality(LinesOf[o]) \in Nat
                           /\ Cardinality(rowsOf[o]) = Cardinality(LinesOf[o])
  BY SoldBetween
<1>3. IsFiniteSet(periods)
  <2>1. [o \in orders |-> period(o)] \in Surjection(orders, periods)
    BY DEF Surjection
  <2>. QED
    BY <1>2, <2>1, FS_Surjection
<1>4. \A r \in rows : r[1] \in orders /\ r \in rowsOf[r[1]]
  <2>1. ASSUME NEW r \in rows PROVE r[1] \in orders /\ r \in rowsOf[r[1]]
    <3>1. PICK o \in orders : r \in {o} \X LinesOf[o]
      BY DEF RowsOf
    <3>2. r[1] = o
      BY <3>1
    <3> HIDE DEF orders
    <3>. QED
      BY <3>1, <3>2
  <2>. QED
    BY <2>1
<1>5. \A r \in rows : net[r] = TotalOf[r[1]] /\ net[r] \in Nat
  BY <1>2, <1>4
<1>6. /\ \A b \in periods : inPeriod[b] \subseteq rows
      /\ \A r \in rows : \E b \in periods : r \in inPeriod[b]
      /\ \A b, d \in periods : b # d => inPeriod[b] \cap inPeriod[d] = {}
  <2> HIDE DEF rows, orders, period
  <2>. QED
    BY <1>4
<1>7. /\ \A o \in orders : rowsOf[o] \subseteq rows
      /\ \A r \in rows : \E o \in orders : r \in rowsOf[o]
      /\ \A o, p \in orders : o # p => rowsOf[o] \cap rowsOf[p] = {}
  <2>1. \A o \in orders : rowsOf[o] \subseteq rows
    BY DEF RowsOf
  <2> HIDE DEF rows, orders
  <2>. QED
    BY <1>4, <2>1
<1>8. ASSUME NEW b \in periods
      PROVE  /\ counts[b] = Cardinality(inPeriod[b])
             /\ nets[b] = SumFunctionOnSet(net, inPeriod[b])
  <2> DEFINE own == inPeriod[b]
             same == [r \in own |-> TotalOf[r[1]]]
  <2>1. report[b].orders = Cardinality(own) /\ report[b].net = SumOver(same, own)
    BY DEF SalesReport
  <2>2. counts[b] = report[b].orders /\ nets[b] = report[b].net
    BY <1>1
  <2>3. IsFiniteSet(own) /\ \A r \in own : same[r] \in Nat /\ net[r] = same[r]
    <3>1. own \subseteq rows
      BY <1>6
    <3> HIDE DEF rows
    <3>. QED
      BY <1>2, <1>5, <3>1, FS_Subset
  <2> HIDE DEF same, own, net, report, counts, nets
  <2>4. SumFunctionOnSet(same, own) = SumFunctionOnSet(net, own)
    BY <2>3, SumOfSame
  <2>. QED
    BY <2>1, <2>2, <2>4 DEF SumOver, own
<1>9. ASSUME NEW o \in orders
      PROVE  /\ lines[o] = Cardinality(rowsOf[o])
             /\ weighed[o] = SumFunctionOnSet(net, rowsOf[o])
  <2>1. \A r \in rowsOf[o] : r[1] = o
    OBVIOUS
  <2>2. rowsOf[o] \subseteq rows
    BY <1>7
  <2> HIDE DEF rows, orders, rowsOf, net
  <2>3. \A r \in rowsOf[o] : net[r] = TotalOf[o]
    BY <1>5, <2>1, <2>2
  <2>4. SumFunctionOnSet(net, rowsOf[o]) = Cardinality(rowsOf[o]) * TotalOf[o]
    BY <1>2, <2>3, SumOfConstant
  <2>. QED
    BY <1>2, <2>4
<1> HIDE DEF report, orders, rows, periods, inPeriod, rowsOf, net, counts, nets, lines, weighed
<1> HIDE DEF period
<1>10. /\ SumFunctionOnSet(counts, periods) = Cardinality(rows)
       /\ SumFunctionOnSet(lines, orders) = Cardinality(rows)
  <2>1. \A b \in periods : counts[b] = Cardinality(inPeriod[b])
    BY <1>8
  <2>2. SumFunctionOnSet(counts, periods) = Cardinality(rows)
    BY <1>2, <1>3, <1>6, <2>1, SizesOfParts
  <2>3. \A o \in orders : lines[o] = Cardinality(rowsOf[o])
    BY <1>9
  <2>4. SumFunctionOnSet(lines, orders) = Cardinality(rows)
    BY <1>2, <1>7, <2>3, SizesOfParts
  <2>. QED
    BY <2>2, <2>4
<1>11. SumFunctionOnSet(nets, periods) = SumFunctionOnSet(net, rows)
  BY <1>2, <1>3, <1>5, <1>6, <1>8, SumOfParts
<1>12. SumFunctionOnSet(weighed, orders) = SumFunctionOnSet(net, rows)
  BY <1>2, <1>5, <1>7, <1>9, SumOfParts
<1>. QED
  BY <1>1, <1>10, <1>11, <1>12 DEF SumOver, report, orders, counts, nets, lines, weighed

\* The sales report counts every order and its money once for each of its
\* lines (dashboard/reports.py:221); so it tells what the revenue report tells
\* in a shop whose orders have one line each.
THEOREM SalesReportCountsLines ==
  ReportsSpec => [](SalesCountLines /\ (OneLineEach => SalesAgreeWithRevenue))
<1>1. ASSUME ReportsTypeOK, OneLineEach PROVE SalesAgreeWithRevenue
  <2>1. ASSUME NEW first \in 1 .. LastDay
        PROVE  LET orders == Between(first, LastDay)
               IN  /\ SumOver([o \in orders |-> Cardinality(LinesOf[o])], orders)
                        = Cardinality(orders)
                   /\ SumOver([o \in orders |-> Cardinality(LinesOf[o]) * TotalOf[o]], orders)
                        = SumOver(TotalOf, orders)
    <3> DEFINE orders == Between(first, LastDay)
               lines == [o \in orders |-> Cardinality(LinesOf[o])]
               weighed == [o \in orders |-> Cardinality(LinesOf[o]) * TotalOf[o]]
    <3>1. IsFiniteSet(orders) /\ \A o \in orders : o \in Sale /\ TotalOf[o] \in Nat
      BY <1>1, SoldBetween
    <3> HIDE DEF orders
    <3>2. \A o \in orders : lines[o] = 1 /\ TotalOf[o] \in Nat /\ weighed[o] = TotalOf[o]
      BY <1>1, <3>1 DEF OneLineEach
    <3> HIDE DEF lines, weighed
    <3>3. SumFunctionOnSet(lines, orders) = Cardinality(orders) * 1
      BY <3>1, <3>2, SumOfConstant
    <3>4. SumFunctionOnSet(TotalOf, orders) = SumFunctionOnSet(weighed, orders)
      BY <3>1, <3>2, SumOfSame
    <3>5. Cardinality(orders) \in Nat
      BY <3>1, FS_CardinalityType
    <3>. QED
      BY <3>3, <3>4, <3>5 DEF SumOver, orders, lines, weighed
  <2>2. SalesCountLines
    BY <1>1, PeriodsAddUp
  <2>3. \A first \in 1 .. LastDay :
          /\ RevenueReport(first, LastDay).net = SumOver(TotalOf, Between(first, LastDay))
          /\ RevenueReport(first, LastDay).orders = Cardinality(Between(first, LastDay))
    BY DEF RevenueReport
  <2>. QED
    BY <2>1, <2>2, <2>3 DEF SalesCountLines, SalesAgreeWithRevenue
<1>2. ReportsTypeOK => SalesCountLines /\ (OneLineEach => SalesAgreeWithRevenue)
  BY <1>1, PeriodsAddUp
<1>. QED
  BY <1>2, ReportsTypeCorrect, PTL

-----------------------------------------------------------------------------
(* The bulk upload.                                                        *)

\* What a run carries from row to row.
RunState ==
  [report : Report, seenProducts : SUBSET Sku, seenVariants : SUBSET (Sku \X Option),
   products : SUBSET Sku, variants : SUBSET (Sku \X Option),
   shelves : [Sku \X Option -> Nat]]

\* Counting a row touches the report and the products seen.
LEMMA CountedFields ==
  ASSUME NEW run \in RunState, NEW entry \in SheetRow
  PROVE  /\ Counted(run, entry) \in RunState
         /\ Counted(run, entry).report \in Report
         /\ Counted(run, entry).report.errors = run.report.errors
         /\ Counted(run, entry).seenProducts = run.seenProducts \cup {entry.sku}
         /\ Counted(run, entry).seenVariants = run.seenVariants
         /\ Counted(run, entry).products = run.products
         /\ Counted(run, entry).variants = run.variants
         /\ Counted(run, entry).shelves = run.shelves
<1> DEFINE first == entry.sku \notin run.seenProducts
           known == entry.sku \in run.products
           there == Key(entry) \in run.variants
           told == [run.report EXCEPT
                      !.newProducts = @ + IF first /\ ~known THEN 1 ELSE 0,
                      !.oldProducts = @ + IF first /\ known THEN 1 ELSE 0,
                      !.newVariants = @ + IF there THEN 0 ELSE 1,
                      !.oldVariants = @ + IF there THEN 1 ELSE 0]
           marked == run.seenProducts \cup {entry.sku}
<1>1. run.report \in Report
  BY DEF RunState
<1>2. told \in Report /\ told.errors = run.report.errors
  <2> DEFINE a == IF first /\ ~known THEN 1 ELSE 0
             b == IF first /\ known THEN 1 ELSE 0
             c == IF there THEN 0 ELSE 1
             d == IF there THEN 1 ELSE 0
  <2>1. a \in Nat /\ b \in Nat /\ c \in Nat /\ d \in Nat
    OBVIOUS
  <2>2. told = [run.report EXCEPT !.newProducts = @ + a, !.oldProducts = @ + b,
                                  !.newVariants = @ + c, !.oldVariants = @ + d]
    OBVIOUS
  <2> HIDE DEF told, a, b, c, d
  <2> DEFINE p == run.report.newProducts + a
             q == run.report.oldProducts + b
             s == run.report.newVariants + c
             t == run.report.oldVariants + d
  <2>3. p \in Nat /\ q \in Nat /\ s \in Nat /\ t \in Nat
    BY <1>1, <2>1 DEF Report
  <2>4. told = [run.report EXCEPT !.newProducts = p, !.oldProducts = q,
                                  !.newVariants = s, !.oldVariants = t]
    BY <1>1, <2>2 DEF Report
  <2> HIDE DEF p, q, s, t
  <2>. QED
    BY <1>1, <2>3, <2>4 DEF Report
<1>3. marked \in SUBSET Sku
  BY DEF RunState, SheetRow
<1>4. Counted(run, entry) = [run EXCEPT !.seenProducts = marked, !.report = told]
  BY <1>1 DEF Counted, RunState, Report
<1> HIDE DEF told, marked
<1>. QED
  BY <1>2, <1>3, <1>4 DEF RunState, marked

\* It counts alike what it finds alike.
LEMMA CountedAlike ==
  ASSUME NEW run \in RunState, NEW other \in RunState, NEW entry \in SheetRow,
         run.report = other.report, run.seenProducts = other.seenProducts,
         entry.sku \notin run.seenProducts =>
           (entry.sku \in run.products <=> entry.sku \in other.products),
         Key(entry) \in run.variants <=> Key(entry) \in other.variants
  PROVE  Counted(run, entry).report = Counted(other, entry).report
BY DEF Counted, RunState, Report, SheetRow

\* Refusing a row counts an error and touches nothing else.
LEMMA RefuseFields ==
  ASSUME NEW run \in RunState
  PROVE  /\ Refuse(run) \in RunState
         /\ Refuse(run).report.errors = run.report.errors + 1
         /\ Refuse(run).seenProducts = run.seenProducts
         /\ Refuse(run).seenVariants = run.seenVariants
         /\ Refuse(run).products = run.products
         /\ Refuse(run).variants = run.variants
BY DEF Refuse, RunState, Report

\* Writing a row adds its product and its variant, and counts it.
LEMMA WrittenFields ==
  ASSUME NEW run \in RunState, NEW entry \in SheetRow, entry.stock \in Nat
  PROVE  /\ RowWritten(run, entry) \in RunState
         /\ RowWritten(run, entry).report = Counted(run, entry).report
         /\ RowWritten(run, entry).seenProducts = run.seenProducts \cup {entry.sku}
         /\ RowWritten(run, entry).seenVariants = run.seenVariants
         /\ RowWritten(run, entry).products = run.products \cup {entry.sku}
         /\ RowWritten(run, entry).variants = run.variants \cup {Key(entry)}
<1> DEFINE counted == Counted(run, entry)
<1>1. /\ counted \in RunState
      /\ counted.seenProducts = run.seenProducts \cup {entry.sku}
      /\ counted.seenVariants = run.seenVariants
      /\ counted.products = run.products /\ counted.variants = run.variants
      /\ counted.shelves = run.shelves
  BY CountedFields
<1>2. Key(entry) \in Sku \X Option /\ entry.sku \in Sku
  BY DEF Key, SheetRow
<1>3. [counted.shelves EXCEPT ![Key(entry)] = entry.stock] \in [Sku \X Option -> Nat]
  BY <1>1 DEF RunState
<1>4. RowWritten(run, entry) =
        [counted EXCEPT
           !.products = @ \cup {entry.sku}, !.variants = @ \cup {Key(entry)},
           !.shelves = IF entry.stock > 0 THEN [@ EXCEPT ![Key(entry)] = entry.stock] ELSE @]
  BY DEF RowWritten, CountedWritten
<1> DEFINE filled == IF entry.stock > 0 THEN [counted.shelves EXCEPT ![Key(entry)] = entry.stock]
                     ELSE counted.shelves
           more == counted.products \cup {entry.sku}
           wider == counted.variants \cup {Key(entry)}
<1>5. /\ filled \in [Sku \X Option -> Nat] /\ more \in SUBSET Sku
      /\ wider \in SUBSET (Sku \X Option)
  BY <1>1, <1>2, <1>3 DEF RunState
<1>6. RowWritten(run, entry) =
        [counted EXCEPT !.products = more, !.variants = wider, !.shelves = filled]
  BY <1>1, <1>4 DEF RunState
<1> HIDE DEF counted, filled, more, wider
<1>7. /\ RowWritten(run, entry) \in RunState
      /\ RowWritten(run, entry).report = counted.report
      /\ RowWritten(run, entry).seenProducts = counted.seenProducts
      /\ RowWritten(run, entry).seenVariants = counted.seenVariants
      /\ RowWritten(run, entry).products = more
      /\ RowWritten(run, entry).variants = wider
  BY <1>1, <1>5, <1>6 DEF RunState
<1>. QED
  BY <1>1, <1>7 DEF counted, more, wider

\* The variant of the row is seen, whatever becomes of it.
LEMMA SeenFields ==
  ASSUME NEW run \in RunState, NEW entry \in SheetRow
  PROVE  LET seen == [run EXCEPT !.seenVariants = @ \cup {Key(entry)}]
         IN  /\ seen \in RunState
             /\ seen.report = run.report
             /\ seen.seenProducts = run.seenProducts
             /\ seen.seenVariants = run.seenVariants \cup {Key(entry)}
             /\ seen.products = run.products
             /\ seen.variants = run.variants
BY DEF RunState, SheetRow, Key

\* What a row does to a run of either kind, and what it leaves as it was.
LEMMA RowSteps ==
  ASSUME NEW run \in RunState, NEW entry \in SheetRow, NEW write \in BOOLEAN
  PROVE  LET next == RunRow(run, entry, write)
         IN  /\ next \in RunState
             /\ next.report.errors >= run.report.errors
             /\ next.seenVariants = run.seenVariants \cup {Key(entry)}
             /\ \/ next.products = run.products /\ next.variants = run.variants
                \/ /\ write
                   /\ next.products = run.products \cup {entry.sku}
                   /\ next.variants = run.variants \cup {Key(entry)}
<1> DEFINE seen == [run EXCEPT !.seenVariants = @ \cup {Key(entry)}]
           next == RunRow(run, entry, write)
<1>1. /\ seen \in RunState /\ seen.report = run.report
      /\ seen.seenProducts = run.seenProducts
      /\ seen.seenVariants = run.seenVariants \cup {Key(entry)}
      /\ seen.products = run.products /\ seen.variants = run.variants
  BY SeenFields
<1>2. run.report.errors \in Nat
  BY DEF RunState, Report
<1>3. \/ Key(entry) \in run.seenVariants /\ next = Refuse(run)
      \/ next = Refuse(seen)
      \/ next = Counted(seen, entry)
      \/ write /\ entry.stock >= 0 /\ next = RowWritten(seen, entry)
  BY DEF RunRow, Writable
<1> HIDE DEF seen, next
<1>4. CASE Key(entry) \in run.seenVariants /\ next = Refuse(run)
  BY <1>2, <1>4, RefuseFields DEF next
<1>5. CASE next = Refuse(seen)
  BY <1>1, <1>2, <1>5, RefuseFields DEF next
<1>6. CASE next = Counted(seen, entry)
  BY <1>1, <1>2, <1>6, CountedFields DEF next
<1>7. CASE write /\ entry.stock >= 0 /\ next = RowWritten(seen, entry)
  <2>1. entry.stock \in Nat
    <3>1. entry.stock \in Int
      BY ImporterAssumption DEF SheetRow
    <3>2. entry.stock >= 0
      BY <1>7
    <3>. QED
      BY <3>1, <3>2
  <2>2. next.report.errors = run.report.errors
    BY <1>1, <1>7, <2>1, CountedFields, WrittenFields
  <2>3. /\ next \in RunState
        /\ next.seenVariants = seen.seenVariants
        /\ next.products = seen.products \cup {entry.sku}
        /\ next.variants = seen.variants \cup {Key(entry)}
    BY <1>1, <1>7, <2>1, WrittenFields
  <2>4. next.report.errors >= run.report.errors
    BY <1>2, <2>2
  <2>5. /\ next.seenVariants = run.seenVariants \cup {Key(entry)}
        /\ next.products = run.products \cup {entry.sku}
        /\ next.variants = run.variants \cup {Key(entry)}
    BY <1>1, <2>3
  <2>6. write
    BY <1>7
  <2>. QED
    BY <2>3, <2>4, <2>5, <2>6, Zenon DEF next
<1>. QED
  BY <1>3, <1>4, <1>5, <1>6, <1>7

\* A run over the rows is a chain of row steps.
LEMMA RunIsStepwise ==
  ASSUME NEW rows \in File, NEW write \in BOOLEAN
  PROVE  \E after :
           /\ after[0] = Start(rows)
           /\ \A n \in 1 .. Len(rows) : after[n] = RunRow(after[n - 1], rows[n], write)
           /\ Run(rows, write) = after[Len(rows)]
<1> DEFINE top == Len(rows)
           upto(m) == 0 .. m
           Holds(f, m) == /\ DOMAIN f = 0 .. m
                          /\ \A n \in 0 .. m :
                               f[n] = IF n = 0 THEN Start(rows)
                                      ELSE RunRow(f[n - 1], rows[n], write)
           Bad == {m \in Nat : m <= top /\ ~(\E f : Holds(f, m))}
<1>1. top \in Nat
  BY ImporterAssumption DEF File
<1>2. Bad = {}
  <2>1. SUFFICES ASSUME Bad # {} PROVE FALSE
    OBVIOUS
  <2>2. Bad \subseteq Nat
    OBVIOUS
  <2>3. PICK m \in Bad : \A k \in Bad : m <= k
    <3> HIDE DEF Bad
    <3>. QED
      BY <2>1, <2>2, LeastNatural
  <2>4. CASE m = 0
    <3>1. Holds([n \in {0} |-> Start(rows)], 0)
      OBVIOUS
    <3>. QED
      BY <2>3, <2>4, <3>1
  <2>5. CASE m # 0
    <3>1. m \in Nat /\ m <= top /\ m - 1 \in Nat /\ m - 1 <= top /\ m - 1 \notin Bad
      BY <1>1, <2>3, <2>5
    <3>2. PICK f : Holds(f, m - 1)
      BY <3>1
    <3> DEFINE g == [n \in 0 .. m |-> IF n = m THEN RunRow(f[m - 1], rows[m], write)
                                      ELSE f[n]]
    <3>3. \A n \in 0 .. m : n # m => n \in 0 .. (m - 1) /\ g[n] = f[n]
      BY <3>1
    <3>4. g[m] = RunRow(g[m - 1], rows[m], write) /\ m # 0
      BY <2>5, <3>1
    <3>5. \A n \in 0 .. m : g[n] = IF n = 0 THEN Start(rows)
                                   ELSE RunRow(g[n - 1], rows[n], write)
      <4> TAKE n \in 0 .. m
      <4>1. CASE n = m
        BY <3>4, <4>1
      <4>2. CASE n # m
        <5>1. n \in 0 .. (m - 1) /\ g[n] = f[n]
          BY <3>3, <4>2
        <5>2. n # 0 => n - 1 \in 0 .. m /\ n - 1 # m
          BY <3>1, <5>1
        <5>3. n # 0 => g[n - 1] = f[n - 1]
          BY <3>3, <5>2
        <5> HIDE DEF g
        <5>. QED
          BY <3>2, <5>1, <5>3
      <4>. QED
        BY <4>1, <4>2
    <3>6. DOMAIN g = 0 .. m
      OBVIOUS
    <3> HIDE DEF g
    <3>7. Holds(g, m)
      BY <3>5, <3>6
    <3>. QED
      BY <2>3, <3>7
  <2>. QED
    BY <2>4, <2>5
<1>3. PICK f : Holds(f, top)
  BY <1>1, <1>2
<1> DEFINE Recurs(g) == g = [n \in 0 .. Len(rows) |->
                               IF n = 0 THEN Start(rows)
                               ELSE RunRow(g[n - 1], rows[n], write)]
           after == CHOOSE g : Recurs(g)
<1>4. Recurs([n \in 0 .. top |-> f[n]])
  <2>1. \A n \in 0 .. top : n # 0 => n - 1 \in 0 .. top
    BY <1>1
  <2>. QED
    BY <1>3, <2>1
<1>5. Recurs(after)
  <2> HIDE DEF Recurs
  <2>. QED
    BY <1>4
<1>6. Run(rows, write) = after[Len(rows)]
  BY DEF Run
<1> HIDE DEF after
<1>7. /\ after[0] = Start(rows)
      /\ \A n \in 1 .. Len(rows) : after[n] = RunRow(after[n - 1], rows[n], write)
  BY <1>1, <1>5
<1>. QED
  BY <1>6, <1>7

\* The real run and the dry run, row for row: they have seen the same variants,
\* the real one refuses what the dry one refuses, and as long as it has refused
\* nothing its catalogue is the one before it and what it has seen, and it has
\* counted what the dry one counted.
Apace(dry, real) ==
  /\ dry \in RunState /\ real \in RunState
  /\ dry.products = products /\ dry.variants = variants
  /\ dry.seenVariants = real.seenVariants
  /\ dry.report.errors <= real.report.errors
  /\ real.report.errors = 0 =>
       /\ real.report = dry.report
       /\ real.seenProducts = dry.seenProducts
       /\ real.products = products \cup real.seenProducts
       /\ real.variants = variants \cup real.seenVariants

\* They stay apace over a row.
LEMMA ApaceOverARow ==
  ASSUME NEW dry, NEW real, Apace(dry, real), NEW entry \in SheetRow
  PROVE  Apace(RunRow(dry, entry, FALSE), RunRow(real, entry, TRUE))
<1> DEFINE seenD == [dry EXCEPT !.seenVariants = @ \cup {Key(entry)}]
           seenR == [real EXCEPT !.seenVariants = @ \cup {Key(entry)}]
           d == RunRow(dry, entry, FALSE)
           r == RunRow(real, entry, TRUE)
<1>1. dry \in RunState /\ real \in RunState
  BY DEF Apace
<1>2. /\ dry.report.errors \in Nat /\ real.report.errors \in Nat
      /\ dry.report.errors <= real.report.errors
  BY <1>1 DEF RunState, Report, Apace
<1>3. /\ seenD \in RunState /\ seenD.report = dry.report
      /\ seenD.seenProducts = dry.seenProducts
      /\ seenD.products = dry.products /\ seenD.variants = dry.variants
      /\ seenR \in RunState /\ seenR.report = real.report
      /\ seenR.seenProducts = real.seenProducts
      /\ seenR.seenVariants = real.seenVariants \cup {Key(entry)}
      /\ seenR.products = real.products /\ seenR.variants = real.variants
  BY <1>1, SeenFields
<1>4. /\ d \in RunState /\ d.seenVariants = dry.seenVariants \cup {Key(entry)}
      /\ d.products = dry.products /\ d.variants = dry.variants
      /\ r \in RunState /\ r.seenVariants = real.seenVariants \cup {Key(entry)}
      /\ r.report.errors >= real.report.errors
  BY <1>1, RowSteps
<1>5. r.report.errors \in Nat /\ d.report.errors \in Nat
  BY <1>4 DEF RunState, Report
<1>6. /\ d.products = products /\ d.variants = variants
      /\ d.seenVariants = r.seenVariants
  BY <1>4 DEF Apace
<1>7. CASE Key(entry) \in dry.seenVariants \/ ~entry.good
  <2>1. \/ d = Refuse(dry) /\ r = Refuse(real)
        \/ d = Refuse(seenD) /\ r = Refuse(seenR)
    BY <1>7 DEF RunRow, Apace
  <2> HIDE DEF d, r, seenD, seenR
  <2>2. /\ d.report.errors = dry.report.errors + 1
        /\ r.report.errors = real.report.errors + 1
    BY <1>1, <1>3, <2>1, RefuseFields
  <2>3. d.report.errors <= r.report.errors /\ r.report.errors # 0
    BY <1>2, <2>2
  <2>. QED
    BY <1>4, <1>6, <2>3 DEF Apace, d, r
<1>8. CASE Key(entry) \notin dry.seenVariants /\ entry.good
  <2>1. d = Counted(seenD, entry)
    BY <1>8 DEF RunRow
  <2>2. \/ r = Refuse(seenR)
        \/ entry.stock >= 0 /\ r = RowWritten(seenR, entry)
    BY <1>8 DEF RunRow, Writable, Apace
  <2> HIDE DEF d, r, seenD, seenR
  <2>3. d.report.errors = dry.report.errors
    BY <1>3, <2>1, CountedFields
  <2>4. CASE r = Refuse(seenR)
    <3>1. r.report.errors = real.report.errors + 1
      BY <1>3, <2>4, RefuseFields
    <3>2. d.report.errors <= r.report.errors /\ r.report.errors # 0
      BY <1>2, <2>3, <3>1
    <3>. QED
      BY <1>4, <1>6, <3>2 DEF Apace, d, r
  <2>5. CASE entry.stock >= 0 /\ r = RowWritten(seenR, entry)
    <3>1. entry.stock \in Nat
      <4>1. entry.stock \in Int
        BY ImporterAssumption DEF SheetRow
      <4>2. entry.stock >= 0
        BY <2>5
      <4>. QED
        BY <4>1, <4>2
    <3>2. /\ r.report = Counted(seenR, entry).report
          /\ r.report.errors = real.report.errors
          /\ r.seenProducts = real.seenProducts \cup {entry.sku}
          /\ r.seenVariants = real.seenVariants \cup {Key(entry)}
          /\ r.products = real.products \cup {entry.sku}
          /\ r.variants = real.variants \cup {Key(entry)}
      BY <1>3, <2>5, <3>1, WrittenFields, CountedFields
    <3>3. d.report.errors <= r.report.errors
      BY <1>2, <2>3, <3>2
    <3>4. ASSUME r.report.errors = 0
          PROVE  /\ r.report = d.report
                 /\ r.seenProducts = d.seenProducts
                 /\ r.products = products \cup r.seenProducts
                 /\ r.variants = variants \cup r.seenVariants
      <4>1. /\ real.report = dry.report
            /\ real.seenProducts = dry.seenProducts
            /\ real.products = products \cup real.seenProducts
            /\ real.variants = variants \cup real.seenVariants
            /\ dry.products = products /\ dry.variants = variants
            /\ dry.seenVariants = real.seenVariants
        BY <3>2, <3>4 DEF Apace
      <4>2. /\ entry.sku \notin seenD.seenProducts =>
                 (entry.sku \in seenD.products <=> entry.sku \in seenR.products)
            /\ Key(entry) \in seenD.variants <=> Key(entry) \in seenR.variants
        BY <1>3, <1>8, <4>1
      <4>3. Counted(seenD, entry).report = Counted(seenR, entry).report
        BY <1>3, <4>1, <4>2, CountedAlike
      <4>4. d.seenProducts = dry.seenProducts \cup {entry.sku}
        BY <1>3, <2>1, CountedFields
      <4>. QED
        BY <2>1, <3>2, <4>1, <4>3, <4>4
    <3>. QED
      BY <1>4, <1>6, <3>3, <3>4 DEF Apace, d, r
  <2>. QED
    BY <2>2, <2>4, <2>5
<1>9. dry.seenVariants = real.seenVariants
  BY DEF Apace
<1>. QED
  BY <1>7, <1>8

\* A run of either kind ends in the state of a run, and what it has put into
\* the catalogue hangs together.
Sound(run) == run \in RunState /\ run.variants \subseteq run.products \X Option

\* Where the two runs start.
LEMMA BothStart ==
  ASSUME ImporterTypeOK, NEW rows \in File
  PROVE  Sound(Start(rows)) /\ Apace(Start(rows), Start(rows))
<1>1. [Blank EXCEPT !.errors = 1] \in Report /\ Blank \in Report
  BY DEF Blank, Report
<1>2. /\ Start(rows).report \in Report
      /\ Start(rows).seenProducts = {} /\ Start(rows).seenVariants = {}
      /\ Start(rows).products = products /\ Start(rows).variants = variants
      /\ Start(rows).shelves = shelves
      /\ Start(rows) \in RunState
  BY <1>1 DEF Start, RunState, ImporterTypeOK
<1>3. Start(rows).report.errors \in Nat
  BY <1>2 DEF Report
<1>. QED
  BY <1>2, <1>3 DEF Sound, Apace, ImporterTypeOK

\* By the last row: what the two runs tell of each other.
LEMMA RunsStayApace ==
  ASSUME ImporterTypeOK, NEW rows \in File
  PROVE  Apace(Run(rows, FALSE), Run(rows, TRUE)) /\ Sound(Run(rows, TRUE))
<1>1. PICK dry : /\ dry[0] = Start(rows)
                 /\ \A n \in 1 .. Len(rows) : dry[n] = RunRow(dry[n - 1], rows[n], FALSE)
                 /\ Run(rows, FALSE) = dry[Len(rows)]
  BY RunIsStepwise
<1>2. PICK real : /\ real[0] = Start(rows)
                  /\ \A n \in 1 .. Len(rows) : real[n] = RunRow(real[n - 1], rows[n], TRUE)
                  /\ Run(rows, TRUE) = real[Len(rows)]
  BY RunIsStepwise
<1>3. Len(rows) \in Nat /\ \A n \in 1 .. Len(rows) : rows[n] \in SheetRow
  BY ImporterAssumption DEF File
<1> DEFINE Good(n) == Apace(dry[n], real[n]) /\ Sound(real[n])
           Bad == {n \in Nat : n <= Len(rows) /\ ~Good(n)}
<1>4. Good(0)
  BY <1>1, <1>2, BothStart
<1>5. ASSUME NEW n \in 1 .. Len(rows), Good(n - 1) PROVE Good(n)
  <2>1. rows[n] \in SheetRow
    BY <1>3
  <2>2. Apace(dry[n], real[n])
    BY <1>1, <1>2, <1>5, <2>1, ApaceOverARow
  <2>3. real[n] = RunRow(real[n - 1], rows[n], TRUE)
    BY <1>2
  <2>4. Sound(real[n - 1])
    BY <1>5
  <2>5. /\ real[n] \in RunState
        /\ \/ real[n].products = real[n - 1].products
              /\ real[n].variants = real[n - 1].variants
           \/ /\ real[n].products = real[n - 1].products \cup {rows[n].sku}
              /\ real[n].variants = real[n - 1].variants \cup {Key(rows[n])}
    <3> DEFINE run == real[n - 1]
               entry == rows[n]
    <3>1. run \in RunState /\ entry \in SheetRow /\ real[n] = RunRow(run, entry, TRUE)
      BY <2>1, <2>3, <2>4 DEF Sound
    <3> HIDE DEF run, entry
    <3>2. /\ real[n] \in RunState
          /\ \/ real[n].products = run.products /\ real[n].variants = run.variants
             \/ /\ real[n].products = run.products \cup {entry.sku}
                /\ real[n].variants = run.variants \cup {Key(entry)}
      <4>1. /\ RunRow(run, entry, TRUE) \in RunState
            /\ \/ /\ RunRow(run, entry, TRUE).products = run.products
                  /\ RunRow(run, entry, TRUE).variants = run.variants
               \/ /\ RunRow(run, entry, TRUE).products = run.products \cup {entry.sku}
                  /\ RunRow(run, entry, TRUE).variants = run.variants \cup {Key(entry)}
        BY <3>1, RowSteps
      <4>. QED
        BY <3>1, <4>1
    <3>. QED
      BY <3>2 DEF run, entry
  <2>6. Key(rows[n]) \in {rows[n].sku} \X Option
    BY <2>1 DEF Key, SheetRow
  <2>7. Sound(real[n])
    BY <2>4, <2>5, <2>6 DEF Sound
  <2>. QED
    BY <2>2, <2>7
<1>6. Bad = {}
  <2>1. SUFFICES ASSUME Bad # {} PROVE FALSE
    OBVIOUS
  <2>2. Bad \subseteq Nat
    OBVIOUS
  <2>3. PICK m \in Bad : \A k \in Bad : m <= k
    <3> HIDE DEF Bad
    <3>. QED
      BY <2>1, <2>2, LeastNatural
  <2> HIDE DEF Good
  <2>4. m # 0
    BY <1>4, <2>3
  <2>5. m \in 1 .. Len(rows) /\ m - 1 \in Nat /\ m - 1 <= Len(rows) /\ m - 1 \notin Bad
    BY <1>3, <2>3, <2>4
  <2>. QED
    BY <1>5, <2>3, <2>5
<1>7. Good(Len(rows))
  <2> HIDE DEF Good
  <2>. QED
    BY <1>3, <1>6
<1>. QED
  BY <1>1, <1>2, <1>7

\* Before the real run the report announced is the dry run's of the catalogue
\* as it is, unless staff have edited it since; after it, the prediction held.
ImporterInv ==
  /\ ImporterTypeOK
  /\ announced = NoReport => result = NoReport
  /\ announced # NoReport /\ result = NoReport /\ ~edited =>
       announced = Run(file, FALSE).report
  /\ PreviewPredicts

\* No run reports what stands for no report.
LEMMA ReportIsOne == NoReport \notin Report
BY DEF NoReport, Report, Blank

\* A run looks at the catalogue only.
LEMMA RunReadsCatalogue ==
  ASSUME UNCHANGED <<products, variants, shelves, file>>
  PROVE  Run(file, FALSE)' = Run(file, FALSE)
<1>1. Start(file)' = Start(file)
  BY DEF Start
<1>. QED
  BY <1>1 DEF Run

LEMMA ImporterInvInit == ImporterInit => ImporterInv
<1>. SUFFICES ASSUME ImporterInit PROVE ImporterInv
  OBVIOUS
<1>1. <<>> \in File
  BY ImporterAssumption DEF File
<1>2. ImporterTypeOK
  BY <1>1 DEF ImporterInit, ImporterTypeOK
<1>. QED
  BY <1>2 DEF ImporterInv, ImporterInit, PreviewPredicts

LEMMA PreviewKeeps ==
  ASSUME ImporterInv, NEW rows \in File, Preview(rows)
  PROVE  ImporterInv'
<1>1. ImporterTypeOK /\ result = NoReport
  BY DEF ImporterInv, Preview
<1>2. Run(rows, FALSE).report \in Report
  BY <1>1, RunsStayApace DEF Apace, RunState
<1>3. ImporterTypeOK'
  BY <1>1, <1>2 DEF ImporterTypeOK, Preview
<1>4. Run(file, FALSE)' = Run(rows, FALSE)
  <2>1. Start(file)' = Start(rows)
    BY DEF Start, Preview
  <2>. QED
    BY <2>1 DEF Run, Preview
<1>5. (announced = Run(file, FALSE).report)'
  BY <1>4 DEF Preview
<1>. QED
  BY <1>1, <1>3, <1>5 DEF ImporterInv, Preview, PreviewPredicts

LEMMA CommitFileKeeps ==
  ASSUME ImporterInv, CommitFile
  PROVE  ImporterInv'
<1>1. ImporterTypeOK /\ file \in File
  BY DEF ImporterInv, ImporterTypeOK
<1> DEFINE dry == Run(file, FALSE)
           real == Run(file, TRUE)
<1>2. Apace(dry, real) /\ Sound(real)
  BY <1>1, RunsStayApace
<1> HIDE DEF dry, real
<1>3. /\ real \in RunState /\ dry \in RunState
      /\ real.report \in Report /\ dry.report \in Report
      /\ real.variants \subseteq real.products \X Option
      /\ dry.report.errors <= real.report.errors
      /\ real.report.errors = 0 => real.report = dry.report
  BY <1>2 DEF Apace, Sound, RunState
<1>4. /\ announced # NoReport /\ result = NoReport
      /\ result' = real.report
      /\ IF real.report.errors = 0
           THEN /\ products' = real.products /\ variants' = real.variants
                /\ shelves' = real.shelves
           ELSE UNCHANGED <<products, variants, shelves>>
      /\ UNCHANGED <<file, announced, edited>>
  BY DEF CommitFile, real
<1>5. ImporterTypeOK'
  BY <1>1, <1>3, <1>4 DEF ImporterTypeOK, RunState
<1>6. PreviewPredicts'
  <2>1. SUFFICES ASSUME ~edited
                 PROVE  /\ announced.errors > 0 => real.report.errors > 0
                        /\ announced.errors = 0 /\ real.report.errors = 0 =>
                             real.report = announced
    BY <1>4 DEF PreviewPredicts
  <2>2. announced = dry.report
    BY <1>4, <2>1 DEF ImporterInv, dry
  <2>3. dry.report.errors \in Nat /\ real.report.errors \in Nat
    BY <1>3 DEF Report
  <2>. QED
    BY <1>3, <2>2, <2>3
<1>7. result' # NoReport /\ announced' # NoReport
  BY <1>3, <1>4, ReportIsOne
<1>. QED
  BY <1>5, <1>6, <1>7 DEF ImporterInv

LEMMA EditCatalogueKeeps ==
  ASSUME ImporterInv, EditCatalogue
  PROVE  ImporterInv'
<1>1. ImporterTypeOK'
  BY DEF ImporterInv, ImporterTypeOK, EditCatalogue
<1>. QED
  BY <1>1 DEF ImporterInv, EditCatalogue, PreviewPredicts

LEMMA ImporterStutterKeeps ==
  ASSUME ImporterInv, UNCHANGED importVars
  PROVE  ImporterInv'
<1>1. Run(file, FALSE)' = Run(file, FALSE)
  BY RunReadsCatalogue DEF importVars
<1>2. ImporterTypeOK' /\ PreviewPredicts'
  BY DEF ImporterInv, ImporterTypeOK, PreviewPredicts, importVars
<1>. QED
  BY <1>1, <1>2 DEF ImporterInv, importVars

LEMMA ImporterInvariance == ImporterSpec => []ImporterInv
<1>1. ImporterInv /\ [ImporterNext]_importVars => ImporterInv'
  BY PreviewKeeps, CommitFileKeeps, EditCatalogueKeeps, ImporterStutterKeeps
     DEF ImporterNext
<1>. QED
  BY <1>1, ImporterInvInit, PTL DEF ImporterSpec

\* Whatever file is uploaded and whatever staff do in between, the catalogue
\* stays together: every variant is of a product, and no shelf is negative.
THEOREM ImporterTypeCorrect == ImporterSpec => []ImporterTypeOK
<1>1. ImporterInv => ImporterTypeOK
  BY DEF ImporterInv
<1>. QED
  BY <1>1, ImporterInvariance, PTL

\* For any file, any catalogue and any labels: with no edit in between, the
\* real run refuses what the dry run refuses, and what both accept is what was
\* announced, count by count (catalog/importer.py:303).
THEOREM DryRunPredicts == ImporterSpec => []PreviewPredicts
<1>1. ImporterInv => PreviewPredicts
  BY DEF ImporterInv
<1>. QED
  BY <1>1, ImporterInvariance, PTL
=============================================================================
