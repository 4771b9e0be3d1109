---------------------------- MODULE MCStockLedger ----------------------------
(* Instances of StockLedger: one product, in warehouses with 2, 1 and 0 of it. *)
EXTENDS StockLedger, TLC

CONSTANTS p1, w1, w2, w3

MCRows == {p1} \X Warehouses
MCOpening == [row \in MCRows |-> CASE row[2] = w1 -> 2 [] row[2] = w2 -> 1
                                   [] OTHER -> 0]
MCReorderPoint == [p \in {p1} |-> 4]
MCInputs == {-1, 0, 1}
MCInputsSmall == {1, 2}
MCSymmetry == Permutations(Requests)

=============================================================================
