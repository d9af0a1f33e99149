------------------------------- MODULE Reports -------------------------------
(***************************************************************************)
(* The figures of the dashboard (src/apps/dashboard/reports.py, shown by   *)
(* dashboard/views.py), over orders that are placed, go on, come back and  *)
(* are refunded while the days pass.                                       *)
(*                                                                         *)
(* A query is a sum over the rows it joins: a query over orders that also  *)
(* sums their lines sees an order once per line.  A report of categories,  *)
(* of products or of customers shows the first rows of an ordering only,   *)
(* and which of two rows that are level is left to the database.           *)
(***************************************************************************)
EXTENDS Integers, FiniteSets, Functions

CONSTANTS
  Sale,         \* orders
  Buyer,        \* accounts
  Employee,     \* accounts of staff
  LinesOf,      \* the lines of an order: [product, sku, quantity, amount]
  CategoryOf,   \* the category of a product
  Money,        \* of an order: [subtotal, discount, delivery, tax]
  Method,       \* payment methods
  Window,       \* days of a chart
  LastDay,      \* bound: days that pass
  PerPeriod,    \* days of a daily, weekly or monthly bucket
  TopCategories,  \* rows of the chart of categories
  TopProducts,    \* rows of a report of products
  TopCustomers    \* rows of a report of customers

\* The tables of a shop: finite, and no coupon takes off more than the goods cost.
ASSUME ReportsAssumption ==
  /\ IsFiniteSet(Sale) /\ IsFiniteSet(Buyer) /\ IsFiniteSet(Method)
  /\ Employee \subseteq Buyer
  /\ IsFiniteSet(DOMAIN CategoryOf)
  /\ \A o \in Sale :
       /\ IsFiniteSet(LinesOf[o])
       /\ LinesOf[o] \subseteq [product : DOMAIN CategoryOf, sku : STRING,
                             quantity : Nat, amount : Nat]
       /\ Money[o] \in [subtotal : Nat, discount : Nat, delivery : Nat, tax : Nat]
       /\ Money[o].discount <= Money[o].subtotal
  /\ Window \in Nat /\ LastDay \in Nat \ {0} /\ PerPeriod \in Nat \ {0}
  /\ TopCategories \in Nat /\ TopProducts \in Nat /\ TopCustomers \in Nat

VARIABLES
  date,
  ledger          \* what is placed: [buyer, day, status, method, refunded]

reportVars == <<date, ledger>>

NotPlaced == [buyer |-> "none", day |-> 0, status |-> "none", method |-> "none",
              refunded |-> 0]

TotalOf ==
  [o \in Sale |-> Money[o].subtotal - Money[o].discount + Money[o].delivery + Money[o].tax]

ReportsInit ==
  /\ date = 1
  /\ ledger = [o \in Sale |-> NotPlaced]

PlaceSale(o, buyer, method) ==
  /\ ledger[o] = NotPlaced
  /\ ledger' = [ledger EXCEPT ![o] = [buyer |-> buyer, day |-> date,
                status |-> "pending", method |-> method, refunded |-> 0]]
  /\ UNCHANGED date

\* The order goes on, or comes back.
MoveSale(o, status) ==
  /\ ledger[o] # NotPlaced /\ ledger[o].status # status
  /\ ledger' = [ledger EXCEPT ![o].status = status]
  /\ UNCHANGED date

\* A return is refunded; the order itself may stay delivered.
RefundSale(o) ==
  /\ ledger[o].status \in {"delivered", "returned"} /\ ledger[o].refunded = 0
  /\ \E line \in LinesOf[o] : ledger' = [ledger EXCEPT ![o].refunded = line.amount]
  /\ UNCHANGED date

DayPasses ==
  /\ date < LastDay
  /\ date' = date + 1
  /\ UNCHANGED ledger

ReportsNext ==
  \/ \E o \in Sale :
       \/ \E buyer \in Buyer, method \in Method : PlaceSale(o, buyer, method)
       \/ \E status \in {"delivered", "returned", "cancelled"} : MoveSale(o, status)
       \/ RefundSale(o)
  \/ DayPasses

ReportsSpec == ReportsInit /\ [][ReportsNext]_reportVars

-----------------------------------------------------------------------------
(* The queries.                                                            *)

Placed == {o \in Sale : ledger[o] # NotPlaced}

NonRevenue == {"cancelled", "returned", "refunded"}

\* revenue_queryset
Revenue == {o \in Placed : ledger[o].status \notin NonRevenue}

SumOver(column, rows) == SumFunctionOnSet(column, rows)

\* live_stats: the tiles.
TotalSales == SumOver(TotalOf, Revenue)
SalesSince(day) == SumOver(TotalOf, {o \in Revenue : ledger[o].day >= day})
OrdersTold == Cardinality(Placed)
InStatus(status) == Cardinality({o \in Placed : ledger[o].status = status})
Refunded == SumOver([o \in Placed |-> ledger[o].refunded], Placed)

\* An account joins its orders once active_customers is asked beside it.
CustomersTold ==
  LET customers == Buyer \ Employee
  IN  SumOver([c \in customers |->
                 IF \E o \in Placed : ledger[o].buyer = c
                   THEN Cardinality({o \in Placed : ledger[o].buyer = c})
                   ELSE 1], customers)

\* revenue_series: a point a day, zero where nothing was sold.
RevenueSeries ==
  [day \in date - Window + 1 .. date |->
     LET sold == {o \in Revenue : ledger[o].day = day}
     IN  [revenue |-> SumOver(TotalOf, sold), orders |-> Cardinality(sold)]]

\* order_status_breakdown
StatusBreakdown ==
  [status \in {ledger[o].status : o \in Placed} |-> InStatus(status)]

\* Mutant: the breakdown asks all orders.
PaidByAll(method) == {o \in Placed : ledger[o].method = method}

PaidBy(method) == {o \in Revenue : ledger[o].method = method}

\* payment_method_breakdown
MethodBreakdown ==
  [method \in Method |-> [count |-> Cardinality(PaidBy(method)),
                          revenue |-> SumOver(TotalOf, PaidBy(method))]]

\* The lines of orders that count, as rows of their own.
RowsOf(orders) == UNION {{o} \X LinesOf[o] : o \in orders}
Amount(rows) == [r \in rows |-> r[2].amount]
Quantity(rows) == [r \in rows |-> r[2].quantity]

\* order_by(...)[:limit]: the tables of the rows ranked first.
Cuts(table, rank, limit) ==
  {Restrict(table, kept) : kept \in
     {K \in SUBSET DOMAIN table :
        /\ \A x \in K, y \in DOMAIN table \ K : rank[x] >= rank[y]
        /\ IF Cardinality(DOMAIN table) <= limit THEN K = DOMAIN table
           ELSE Cardinality(K) = limit}}

RankedBy(table, column) == [x \in DOMAIN table |-> table[x][column]]

\* category_performance, before its cut.
CategoryRows ==
  [c \in {CategoryOf[r[2].product] : r \in RowsOf(Revenue)} |->
     LET rows == {r \in RowsOf(Revenue) : CategoryOf[r[2].product] = c}
     IN  [revenue |-> SumOver(Amount(rows), rows), units |-> SumOver(Quantity(rows), rows)]]

CategoryPerformance ==
  Cuts(CategoryRows, RankedBy(CategoryRows, "revenue"), TopCategories)

\* product_report, before its cut: a row for each SKU a product was sold under.
SoldAs(r) == <<r[2].product, r[2].sku>>
ProductRows ==
  [p \in {SoldAs(r) : r \in RowsOf(Revenue)} |->
     LET rows == {r \in RowsOf(Revenue) : SoldAs(r) = p}
     IN  [revenue |-> SumOver(Amount(rows), rows), units_sold |-> SumOver(Quantity(rows), rows),
          order_count |-> Cardinality({r[1] : r \in rows})]]

\* Best sellers, and slow movers from the other end.
ProductReport(kind) ==
  LET units == RankedBy(ProductRows, "units_sold")
  IN  Cuts(ProductRows,
           IF kind = "best_sellers" THEN units
           ELSE [p \in DOMAIN units |-> -units[p]], TopProducts)

\* customer_report, before its cut: staff are left out.
CustomerRows ==
  [c \in {b \in Buyer \ Employee : \E o \in Revenue : ledger[o].buyer = b} |->
     LET theirs == {o \in Revenue : ledger[o].buyer = c}
     IN  [order_count |-> Cardinality(theirs),
          lifetime_value |-> SumOver(TotalOf, theirs)]]

CustomerReport == Cuts(CustomerRows, RankedBy(CustomerRows, "lifetime_value"), TopCustomers)

Between(first, last) ==
  {o \in Revenue : ledger[o].day \in first .. last}

\* sales_report: a row per period, over the orders joined with their lines.
SalesReport(first, last) ==
  [bucket \in {ledger[o].day \div PerPeriod : o \in Between(first, last)} |->
     LET rows == {r \in RowsOf(Between(first, last)) :
                    ledger[r[1]].day \div PerPeriod = bucket}
     IN  [orders |-> Cardinality(rows),
          gross |-> SumOver([r \in rows |-> Money[r[1]].subtotal], rows),
          discounts |-> SumOver([r \in rows |-> Money[r[1]].discount], rows),
          delivery |-> SumOver([r \in rows |-> Money[r[1]].delivery], rows),
          tax |-> SumOver([r \in rows |-> Money[r[1]].tax], rows),
          net |-> SumOver([r \in rows |-> TotalOf[r[1]]], rows),
          units |-> SumOver(Quantity(rows), rows)]]

\* revenue_report: the refunds are those of all orders and all days.
RevenueReport(first, last) ==
  LET orders == Between(first, last)
      net == SumOver(TotalOf, orders)
  IN  [orders |-> Cardinality(orders),
       gross |-> SumOver([o \in orders |-> Money[o].subtotal], orders),
       discounts |-> SumOver([o \in orders |-> Money[o].discount], orders),
       delivery |-> SumOver([o \in orders |-> Money[o].delivery], orders),
       tax |-> SumOver([o \in orders |-> Money[o].tax], orders),
       net |-> net, refunds |-> Refunded, net_after_refunds |-> net - Refunded]

-----------------------------------------------------------------------------
(* Properties.                                                             *)

\* Types: what is placed has a buyer, a method and a day that has come.
ReportsTypeOK ==
  /\ date \in 1 .. LastDay
  /\ ledger \in [Sale -> {NotPlaced} \cup
       [buyer : Buyer, day : 1 .. date, method : Method, refunded : Nat,
        status : {"pending", "delivered", "returned", "cancelled"}]]

Column(table, field) == SumOver([x \in DOMAIN table |-> table[x][field]], DOMAIN table)

\* A report that may be cut shows no more than there is, and all of it when
\* its rows are fewer than it has room for.
Tells(shown, limit, all) ==
  /\ shown <= all.sum
  /\ all.rows <= limit => shown = all.sum

\* The pages of the dashboard tell one story (dashboard/reports.py:1-5): the
\* payment methods and the days add up to the sales of the tile, the statuses
\* to its orders.  The best customers, staff's own orders apart, add up to the
\* sales, and the products sold best, or worst, and the best categories to the
\* same goods, as long as none is cut off; none of them tells more than that.
FiguresAgree ==
  LET days == date - Window + 1
      staffs == SumOver(TotalOf, {o \in Revenue : ledger[o].buyer \in Employee})
      goods == SumOver(Amount(RowsOf(Revenue)), RowsOf(Revenue))
      all(table, sum) == [rows |-> Cardinality(DOMAIN table), sum |-> sum]
  IN  Placed # {} =>
        /\ Column(MethodBreakdown, "revenue") = TotalSales
        /\ Column(RevenueSeries, "revenue") = SalesSince(days)
        /\ SumOver(StatusBreakdown, DOMAIN StatusBreakdown) = OrdersTold
        /\ RevenueReport(1, LastDay).net = TotalSales
        /\ \A report \in CustomerReport :
             Tells(Column(report, "lifetime_value") + staffs, TopCustomers,
                   all(CustomerRows, TotalSales))
        /\ \A kind \in {"best_sellers", "slow_movers"} :
           \A report \in ProductReport(kind) :
             Tells(Column(report, "revenue"), TopProducts, all(ProductRows, goods))
        /\ \A report \in CategoryPerformance :
             Tells(Column(report, "revenue"), TopCategories, all(CategoryRows, goods))

\* The sales report and the revenue report of one range of days tell the same
\* number of orders and the same net (dashboard/reports.py:221, "Sales grouped
\* by day/week/month.").  An order of two lines is counted twice by the first.
SalesAgreeWithRevenue ==
  \A first \in 1 .. LastDay :
    LET report == SalesReport(first, LastDay)
    IN  /\ SumOver([b \in DOMAIN report |-> report[b].net], DOMAIN report)
             = RevenueReport(first, LastDay).net
        /\ SumOver([b \in DOMAIN report |-> report[b].orders], DOMAIN report)
             = RevenueReport(first, LastDay).orders
=============================================================================
