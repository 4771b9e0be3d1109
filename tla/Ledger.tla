-------------------------------- MODULE Ledger --------------------------------
(***************************************************************************)
(* What the stock ledger promises: every operation of a client replaces    *)
(* the effect of ONE journal entry on the balances (recording it,          *)
(* correcting it or removing it), in one step that moves the balances by   *)
(* exactly the difference and leaves none of them below zero.  An entry    *)
(* that is not in the journal is one without effect.                       *)
(***************************************************************************)
EXTENDS Integers, FiniteSetsExt

CONSTANTS Rows, Ids

VARIABLES stock, journal

vars == <<stock, journal>>

\* Every balance is the sum of the effects of the journal.
Init == \A row \in Rows :
            /\ stock[row] >= 0
            /\ stock[row] =
                 SumFunctionOnSet([id \in Ids |-> journal[id][row]], Ids)

Operate(id) ==
    /\ \A other \in Ids \ {id} : journal'[other] = journal[other]
    /\ \A row \in Rows :
          /\ stock'[row] - stock[row] = journal'[id][row] - journal[id][row]
          /\ stock'[row] >= 0

Next == \E id \in Ids : Operate(id)

Spec == Init /\ [][Next]_vars

=============================================================================
