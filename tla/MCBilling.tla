------------------------------ MODULE MCBilling ------------------------------
(* Two sales, one with more discount than amount; requests that may each    *)
(* draw a document, deliver or pay; a chart of two days in a calendar of    *)
(* three.                                                                   *)
EXTENDS Finance, TLC

CONSTANTS s1, s2

MCTotal == [sale \in SaleIds |-> IF sale = s1 THEN 3 ELSE -1]
MCSymmetry == Permutations(Requests)

=============================================================================
