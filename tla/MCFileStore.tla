---------------------------- MODULE MCFileStore ----------------------------
(* Two tables, one of them seeded; an earlier release may have left a file *)
(* without the seeded table, or with a row of the other one.               *)
EXTENDS FileStore

CONSTANTS categories, orders, a, b

MCTables == {categories, orders}
MCValues == {a, b}
MCSeed == [t \in MCTables |-> IF t = categories THEN 2 ELSE 0]
MCInitialFiles ==
    { [nextIds |-> [t \in MCTables |-> IF t = orders THEN 3 ELSE 1],
       rows    |-> [t \in {orders} |-> {[id |-> 2, val |-> a]}]] }
=============================================================================
