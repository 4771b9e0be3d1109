---------------------------- MODULE MCBackOffice ----------------------------
EXTENDS BackOffice, TLC
CONSTANTS n1, n2, k1
MCGiven == [n \in CategoryNames |-> IF n = n1 THEN 1 ELSE None]
MCRows == << <<n1, k1>>, <<n2, k1>> >>
MCSymmetry == Permutations(Requests)
=============================================================================
