--------------------------- MODULE MCPurchaseOrders ---------------------------
(* Orders of two lines, and of one, under handlers that overlap. *)
EXTENDS PurchaseOrders, TLC

CONSTANTS o1, o2

MCLineCount == [order \in Orders |-> IF order = o1 THEN 2 ELSE 1]
MCSymmetry == Permutations(Handlers)

=============================================================================
