---------------------------- MODULE ExchangeRates ----------------------------
(***************************************************************************)
(* The price a visitor is shown abroad: the history of one exchange rate,  *)
(* its cached copy, and the currency of each visitor's session             *)
(* (src/apps/geo/services.py, geo/models.py, geo/locale_context.py,        *)
(* geo/views.py, geo/admin.py).                                            *)
(*                                                                         *)
(* A row holds from its date on, and the admin's form takes any date.      *)
(* Reading a rate is a look at the clock and into the cache, a query and a *)
(* store; recording one is an insert and then a delete of the cached copy. *)
(* In the admin both run in a transaction that commits afterwards.         *)
(***************************************************************************)
EXTENDS Integers, Sequences

CONSTANTS
  Visitor,
  Rates,      \* rates that may be recorded, for one unit of the base currency
  Home,       \* the base currency
  Abroad,     \* the other currency
  NoRate,     \* nothing recorded, nothing cached, nothing chosen
  MaxRates,   \* bound: rates recorded
  LastMoment  \* bound: the clock

ASSUME GeoConstants ==
  NoRate \notin Rates /\ Home # Abroad /\ LastMoment \in Nat

Moment == 0 .. LastMoment
RateRow == [from : Moment, rate : Rates]

\* What may have come between the query that found a rate and its use: another
\* save, rows deleted from the list, the date of a row.
Cause == {"overlap", "deletion", "date"}

VARIABLES
  recorded,   \* ExchangeRate rows in the order of their ids
  moment,     \* the clock
  cached,     \* geo:rate:<base>:<quote>
  since,      \* what put the cached copy out of force since its query
  save,       \* the admin's or the service's save under way: [at, rows]
  chosen,     \* the currency in each visitor's session
  lookup,     \* the request of each visitor: [at, moment, rate, since]
  locale      \* what each visitor was last shown: [currency, rate]

geoVars == <<recorded, moment, cached, since, save, chosen, lookup, locale>>

NoSave == [at |-> "idle", rows |-> <<>>]
NoLookup == [at |-> "idle", moment |-> 0, rate |-> NoRate, since |-> {}]

GeoInit ==
  /\ recorded = <<>> /\ moment = 0
  /\ cached = NoRate /\ since = {}
  /\ save = NoSave
  /\ chosen = [v \in Visitor |-> NoRate]
  /\ lookup = [v \in Visitor |-> NoLookup]
  /\ locale = [v \in Visitor |-> [currency |-> Home, rate |-> 1]]

\* The rate in force among these rows at m: that of the latest date reached,
\* the last recorded of that date.
InForceAt(rows, m) ==
  LET reached == {i \in DOMAIN rows : rows[i].from <= m}
      before(i, j) == \/ rows[i].from < rows[j].from
                      \/ rows[i].from = rows[j].from /\ i < j
  IN  {rows[i].rate : i \in {k \in reached : ~\E j \in reached : before(k, j)}}

InForce == InForceAt(recorded, moment)

\* A request has found, or is about to find, the rate these rows give at m.
UpToDate(reader, rows, m) ==
  IF reader.at = "missed" THEN InForceAt(rows, reader.moment) = InForceAt(rows, m)
  ELSE reader.rate \in InForceAt(rows, m)

\* The rows, or the clock, change under the requests that look.
Overtake(rows, m, cause) ==
  lookup' = [v \in Visitor |->
              IF lookup[v].at # "idle" /\ ~UpToDate(lookup[v], rows, m)
              THEN [lookup[v] EXCEPT !.since = @ \cup {cause}] ELSE lookup[v]]

\* ... and under the cached copy.
PutOut(rows, m, cause) ==
  since' = IF cached # NoRate /\ cached \notin InForceAt(rows, m)
           THEN since \cup {cause} ELSE since

ClearCached == cached' = NoRate /\ since' = {}

\* set_country: the first country chosen brings its currency with it, for good.
SetCountry(v, c) ==
  /\ chosen[v] = NoRate
  /\ chosen' = [chosen EXCEPT ![v] = c]
  /\ UNCHANGED <<recorded, moment, cached, since, save, lookup, locale>>

\* resolve: the chosen currency, or that of the country the headers tell.
CurrencyOf(v, told) == IF chosen[v] # NoRate THEN chosen[v] ELSE told

\* What the page and, for set_currency, the session get when a rate is known;
\* without one the page falls back to the base currency.
Show(v, rate) ==
  locale' = [locale EXCEPT
               ![v] = IF rate = NoRate THEN [currency |-> Home, rate |-> 1]
                      ELSE [currency |-> Abroad, rate |-> rate]]

\* rate_for: the clock is read; the base currency needs no rate, and a cached
\* copy is served.
Resolve(v, told) ==
  /\ lookup[v].at = "idle"
  /\ CASE CurrencyOf(v, told) = Home ->
            Show(v, NoRate) /\ UNCHANGED lookup
       [] CurrencyOf(v, told) # Home /\ cached # NoRate ->
            Show(v, cached) /\ UNCHANGED lookup
       [] OTHER ->
            /\ lookup' = [lookup EXCEPT ![v] = [NoLookup EXCEPT !.at = "missed",
                                                                !.moment = moment]]
            /\ UNCHANGED locale
  /\ UNCHANGED <<recorded, moment, cached, since, save, chosen>>

\* ... otherwise the row in force at that moment is read ...
ReadRate(v) ==
  LET found == InForceAt(recorded, lookup[v].moment)
  IN  /\ lookup[v].at = "missed"
      /\ \/ /\ found = {}
            /\ Show(v, NoRate) /\ lookup' = [lookup EXCEPT ![v] = NoLookup]
         \/ \E rate \in found :
              /\ lookup' = [lookup EXCEPT ![v].at = "read", ![v].rate = rate]
              /\ UNCHANGED locale
      /\ UNCHANGED <<recorded, moment, cached, since, save, chosen>>

\* ... and stored, whatever has been recorded since.
StoreRate(v) ==
  /\ lookup[v].at = "read"
  /\ cached' = lookup[v].rate /\ since' = lookup[v].since
  /\ Show(v, lookup[v].rate)
  /\ lookup' = [lookup EXCEPT ![v] = NoLookup]
  /\ UNCHANGED <<recorded, moment, save, chosen>>

\* set_currency: refused while the currency has no rate.  What it reads and
\* stores to find out is a request like any other.
SetCurrency(v, c) ==
  /\ c = Home \/ cached # NoRate \/ InForce # {}
  /\ chosen' = [chosen EXCEPT ![v] = c]
  /\ UNCHANGED <<recorded, moment, cached, since, save, lookup, locale>>

\* set_rate and the commands: the row is there at once, effective now ...
InsertRate(rate) ==
  /\ save.at = "idle" /\ Len(recorded) < MaxRates
  /\ recorded' = Append(recorded, [from |-> moment, rate |-> rate])
  /\ Overtake(recorded', moment, "overlap")
  /\ save' = [at |-> "inserted", rows |-> <<>>]
  /\ UNCHANGED <<moment, cached, since, chosen, locale>>

\* Mutant: save() leaves the cached copy to its callers.
LeaveCached ==
  /\ save.at = "inserted"
  /\ save' = NoSave
  /\ UNCHANGED <<recorded, moment, cached, since, chosen, lookup, locale>>

\* ... and then the copy is thrown away.
DropCached ==
  /\ save.at = "inserted"
  /\ ClearCached
  /\ save' = NoSave
  /\ UNCHANGED <<recorded, moment, chosen, lookup, locale>>

Without(i) == SubSeq(recorded, 1, i - 1) \o SubSeq(recorded, i + 1, Len(recorded))

\* The admin's form adds a row of any date, or its page deletes one: the copy
\* is thrown away before others can see the change.
AdminSave(rows) ==
  /\ save.at = "idle"
  /\ ClearCached
  /\ save' = [at |-> "uncommitted", rows |-> rows]
  /\ UNCHANGED <<recorded, moment, chosen, lookup, locale>>

AdminCommit ==
  /\ save.at = "uncommitted"
  /\ recorded' = save.rows
  /\ Overtake(save.rows, moment, "overlap")
  /\ PutOut(save.rows, moment, "overlap")
  /\ save' = NoSave
  /\ UNCHANGED <<moment, cached, chosen, locale>>

\* The list's "delete selected" deletes a row without calling delete(): nobody
\* throws the copy away.
DeleteSelected(i) ==
  /\ save.at = "idle"
  /\ recorded' = Without(i)
  /\ Overtake(recorded', moment, "deletion")
  /\ PutOut(recorded', moment, "deletion")
  /\ UNCHANGED <<moment, cached, save, chosen, locale>>

\* Time passes, and the date of a row may come: nobody throws the copy away.
PassTime ==
  /\ moment < LastMoment
  /\ moment' = moment + 1
  /\ Overtake(recorded, moment', "date")
  /\ PutOut(recorded, moment', "date")
  /\ UNCHANGED <<recorded, cached, save, chosen, locale>>

\* RATE_CACHE_SECONDS are over.
Expire ==
  /\ cached # NoRate
  /\ ClearCached
  /\ UNCHANGED <<recorded, moment, save, chosen, lookup, locale>>

GeoNext ==
  \/ \E v \in Visitor :
       \/ \E c \in {Home, Abroad} :
            SetCountry(v, c) \/ SetCurrency(v, c) \/ Resolve(v, c)
       \/ ReadRate(v) \/ StoreRate(v)
  \/ \E rate \in Rates : InsertRate(rate)
  \/ \E r \in RateRow : Len(recorded) < MaxRates /\ AdminSave(Append(recorded, r))
  \/ DropCached
  \/ \E i \in DOMAIN recorded : AdminSave(Without(i)) \/ DeleteSelected(i)
  \/ AdminCommit \/ PassTime \/ Expire

GeoSpec == GeoInit /\ [][GeoNext]_geoVars

-----------------------------------------------------------------------------
(* Properties.                                                             *)

\* Types; nobody is shown the other currency at the base currency's rate.
GeoTypeOK ==
  /\ recorded \in Seq(RateRow) /\ moment \in Moment
  /\ cached \in Rates \cup {NoRate} /\ since \subseteq Cause
  /\ save \in [at : {"idle", "inserted", "uncommitted"}, rows : Seq(RateRow)]
  /\ lookup \in [Visitor ->
                   [at : {"idle", "missed"}, moment : Moment, rate : {NoRate},
                    since : SUBSET Cause]
                   \cup [at : {"read"}, moment : Moment, rate : Rates,
                         since : SUBSET Cause]]
  /\ locale \in [Visitor -> [currency : {Home}, rate : {1}]
                             \cup [currency : {Abroad}, rate : Rates]]

\* With no save under way, a rate that is not the one in force is charged from
\* the cache only if, since the query that found it, another save overlapped
\* it, a row was deleted from the list, or the date of a row came; otherwise
\* what is recorded takes effect at once (geo/models.py:196-202).
StaleRateHasCause ==
  save.at = "idle" /\ cached # NoRate /\ since = {} => cached \in InForce
=============================================================================
