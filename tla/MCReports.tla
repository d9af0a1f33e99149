----------------------------- MODULE MCReports -----------------------------
(* Two orders, one of two lines: a saree in two sizes and a lamp.          *)
EXTENDS Reports

MCLinesOf == [o1 |-> {[product |-> "saree", sku |-> "S1", quantity |-> 1, amount |-> 100],
                      [product |-> "lamp", sku |-> "L1", quantity |-> 2, amount |-> 40]},
              o2 |-> {[product |-> "saree", sku |-> "S2", quantity |-> 2, amount |-> 200]}]
MCCategoryOf == [saree |-> "women", lamp |-> "home"]
MCMoney == [o1 |-> [subtotal |-> 140, discount |-> 10, delivery |-> 5, tax |-> 7],
            o2 |-> [subtotal |-> 200, discount |-> 0, delivery |-> 0, tax |-> 9]]
=============================================================================
