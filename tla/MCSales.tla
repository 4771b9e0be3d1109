------------------------------- MODULE MCSales -------------------------------
(* Two sales of two products, a row each, that take them in opposite orders; *)
(* the second has one product on two of its lines.                           *)
EXTENDS Sales, TLC

CONSTANTS a, b, s1, s2

MCRows == {a, b}
Line(row, quantity) == [row |-> row, quantity |-> quantity]
MCLines == [sale \in {s1, s2} |->
              IF sale = s1 THEN << Line(a, 1), Line(b, 2) >>
                           ELSE << Line(b, 1), Line(a, 1), Line(a, 1) >>]
MCOpening == [row \in MCRows |-> 3]
MCReorderPoint == [row \in MCRows |-> IF row = a THEN 4 ELSE 0]
MCSymmetry == Permutations(Requests)

=============================================================================
