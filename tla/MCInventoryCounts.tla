-------------------------- MODULE MCInventoryCounts --------------------------
(* Instances of StockLedger and InventoryCounts: one product, in warehouses *)
(* with 2 and 0 of it, and two months.                                      *)
EXTENDS InventoryCounts, TLC

CONSTANTS p1, w1, w3

MCRows == {p1} \X Warehouses
MCOpening == [row \in MCRows |-> IF row[2] = w1 THEN 2 ELSE 0]
MCReorderPoint == [p \in {p1} |-> 4]
MCSymmetry == Permutations(Requests) \cup Permutations(Triggers)

=============================================================================
