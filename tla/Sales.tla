-------------------------------- MODULE Sales --------------------------------
(***************************************************************************)
(* SalesService: the validation of a draft sale, which takes its lines out *)
(* of stock in one transaction of StockTx, its cancellation, and the       *)
(* company's allowNegativeStock policy the validation reads.  Both         *)
(* handlers read the sale before they write it and never read its status   *)
(* again: the update of the sale and the COMMIT are one step, the reads    *)
(* that precede the transaction are steps of their own.                    *)
(***************************************************************************)
EXTENDS StockTx, FiniteSetsExt

CONSTANTS
    SaleIds,
    Lines,          \* the lines of a sale: a sequence of [row, quantity]
    OpeningStock,
    ReorderPoint    \* Product.reorderPoint, of the product of a row

SaleLine == [row : Rows, quantity : Nat \ {0}]

ASSUME LinesAssumption ==
    /\ Lines \in [SaleIds -> Seq(SaleLine)]
    /\ \A sale \in SaleIds : Lines[sale] # << >>
ASSUME SaleIdsAssumption == IsFiniteSet(SaleIds) /\ SaleIds # {}
ASSUME SaleStockAssumption == /\ OpeningStock \in [Rows -> Nat]
                              /\ ReorderPoint \in [Rows -> Nat]

VARIABLES
    status,         \* Sale.status
    allowNegative,  \* Company.allowNegativeStock
    job,            \* the sale a request is about, and the policy it read
    beforeByProduct,\* the map of that name: the last quantity read of a row
    alerts,         \* the lines <<request, index>> a STOCK_ALERT was sent for
    \* Auxiliary variables:
    exits,          \* how many times the lines of a sale have left the stock
    overlapped      \* the sales two requests have worked on at the same time

saleVars == <<status, allowNegative, job, beforeByProduct, alerts, exits,
              overlapped>>
vars == <<txVars, saleVars>>

SaleStatus == {"ABSENT", "DRAFT", "VALIDATED", "CANCELLED"}
Job == [kind : {"none", "validate", "cancel"}, sale : SaleIds, allow : BOOLEAN]

TypeOK ==
    /\ TxTypeOK
    /\ status \in [SaleIds -> SaleStatus]
    /\ allowNegative \in BOOLEAN
    /\ job \in [Requests -> Job]
    /\ beforeByProduct \in [Requests -> [Rows -> Int]]
    /\ alerts \in SUBSET (Requests \X Nat)
    /\ exits \in [SaleIds -> Nat]
    /\ overlapped \in SUBSET SaleIds

\* resolveStockStatus = "rupture", with CRITICAL_RATIO = 3/10.
IsRupture(quantity, reorderPoint) ==
    IF reorderPoint <= 0 THEN quantity <= 0
                         ELSE 10 * quantity <= 3 * reorderPoint

Crosses(row, from, to) ==
    ~IsRupture(from, ReorderPoint[row]) /\ IsRupture(to, ReorderPoint[row])

\* Mutant: the loop ends one line early.
LinePostingsButLast(sale, allow) ==
    [i \in 1 .. Len(Lines[sale]) - 1 |->
       [row |-> Lines[sale][i].row, delta |-> -Lines[sale][i].quantity,
        guard |-> IF allow THEN "read" ELSE "check"]]

\* Mutant: the policy is not looked at.
LinePostingsUnchecked(sale, allow) ==
    [i \in DOMAIN Lines[sale] |->
       [row |-> Lines[sale][i].row, delta |-> -Lines[sale][i].quantity,
        guard |-> "read"]]

\* One posting per line; the check is skipped under allowNegativeStock.
LinePostings(sale, allow) ==
    [i \in DOMAIN Lines[sale] |->
       [row |-> Lines[sale][i].row, delta |-> -Lines[sale][i].quantity,
        guard |-> IF allow THEN "read" ELSE "check"]]

Init ==
    /\ TxInit(OpeningStock)
    /\ status = [sale \in SaleIds |-> "ABSENT"]
    /\ allowNegative = FALSE
    /\ job = [r \in Requests |-> [kind |-> "none",
                                  sale |-> CHOOSE sale \in SaleIds : TRUE,
                                  allow |-> FALSE]]
    /\ beforeByProduct = [r \in Requests |-> [row \in Rows |-> 0]]
    /\ alerts = {}
    /\ exits = [sale \in SaleIds |-> 0]
    /\ overlapped = {}

\* POST /sales: a draft, without effect on the stock.
Create(sale) ==
    /\ status[sale] = "ABSENT"
    /\ status' = [status EXCEPT ![sale] = "DRAFT"]
    /\ UNCHANGED <<txVars, allowNegative, job, beforeByProduct, alerts, exits,
                   overlapped>>

\* PATCH /companies/:id by a super admin.
SetPolicy ==
    /\ allowNegative' = ~allowNegative
    /\ UNCHANGED <<txVars, status, job, beforeByProduct, alerts, exits,
                   overlapped>>

Working(r) == stage[r] \in InTxStages \cup {"checked"}

\* Mutant: a sale that is not cancelled may be validated.
NotCancelled(sale) == status[sale] \notin {"ABSENT", "CANCELLED"}

\* The check of the status: "DRAFT" only.
Settleable(sale) == status[sale] = "DRAFT"

\* findById and the check of the status: the first statement of validate and
\* of cancel.
ReadSale(r, kind, sale) ==
    /\ stage[r] = "idle"
    /\ Settleable(sale)
    /\ job' = [job EXCEPT ![r] = [kind |-> kind, sale |-> sale,
                                  allow |-> FALSE]]
    /\ stage' = [stage EXCEPT ![r] = "checked"]
    /\ overlapped' =
         IF \E other \in Requests : Working(other) /\ job[other].sale = sale
         THEN overlapped \cup {sale} ELSE overlapped
    /\ UNCHANGED <<balance, present, todo, before, seen, draft, touched, net,
                   dirty, posted, tainted, status, allowNegative,
                   beforeByProduct, alerts, exits>>

\* validate reads the policy of the company and opens its transaction.
ReadPolicy(r) ==
    /\ stage[r] = "checked"
    /\ job[r].kind = "validate"
    /\ job' = [job EXCEPT ![r].allow = allowNegative]
    /\ Begin(r, LinePostings(job[r].sale, allowNegative))
    /\ UNCHANGED <<status, allowNegative, beforeByProduct, alerts, exits,
                   overlapped>>

\* A statement of the loop over the lines; getQuantity also feeds the map.  The
\* EXIT movement of each line is in no row here: it is committed with the sale,
\* which is what exits counts.
LineStep(r) ==
    /\ TxStep(r)
    /\ beforeByProduct' =
         IF stage[r] = "check"
         THEN [beforeByProduct EXCEPT ![r][Head(todo[r]).row] = before'[r]]
         ELSE beforeByProduct
    /\ UNCHANGED <<status, allowNegative, job, alerts, exits, overlapped>>

\* Mutant: a line is announced whenever it leaves its product in rupture.
LinesInRupture(r) ==
    LET lines == Lines[job[r].sale]
    IN  {i \in DOMAIN lines :
           IsRupture(beforeByProduct[r][lines[i].row] - lines[i].quantity,
                     ReorderPoint[lines[i].row])}

\* The lines validate announces, from the map the loop has left.
RupturedLines(r) ==
    LET lines == Lines[job[r].sale]
        quantity(i) == beforeByProduct[r][lines[i].row]
    IN  {i \in DOMAIN lines :
           Crosses(lines[i].row, quantity(i), quantity(i) - lines[i].quantity)}

\* The sale becomes VALIDATED with its stock movements.
CommitValidate(r) ==
    /\ stage[r] = "journal"
    /\ status' = [status EXCEPT ![job[r].sale] = "VALIDATED"]
    /\ exits' = [exits EXCEPT ![job[r].sale] = @ + 1]
    /\ CommitTx(r, "notify", {})
    /\ UNCHANGED <<allowNegative, job, beforeByProduct, alerts, overlapped>>

\* The notifications, after the transaction.
Notify(r) ==
    /\ stage[r] = "notify"
    /\ alerts' = alerts \cup ({r} \X RupturedLines(r))
    /\ stage' = [stage EXCEPT ![r] = "done"]
    /\ UNCHANGED <<balance, present, todo, before, seen, draft, touched, net,
                   dirty, posted, tainted, status, allowNegative, job,
                   beforeByProduct, exits, overlapped>>

\* Mutant: the status is spelt another way.
CommitCanceled(r) ==
    /\ stage[r] = "checked"
    /\ job[r].kind = "cancel"
    /\ status' = [status EXCEPT ![job[r].sale] = "CANCELED"]
    /\ stage' = [stage EXCEPT ![r] = "done"]
    /\ UNCHANGED <<balance, present, todo, before, seen, draft, touched, net,
                   dirty, posted, tainted, allowNegative, job,
                   beforeByProduct, alerts, exits, overlapped>>

\* cancel updates the sale it has read, whatever its status is now.
CommitCancel(r) ==
    /\ stage[r] = "checked"
    /\ job[r].kind = "cancel"
    /\ status' = [status EXCEPT ![job[r].sale] = "CANCELLED"]
    /\ stage' = [stage EXCEPT ![r] = "done"]
    /\ UNCHANGED <<balance, present, todo, before, seen, draft, touched, net,
                   dirty, posted, tainted, allowNegative, job,
                   beforeByProduct, alerts, exits, overlapped>>

Abort(r) == AbortTx(r) /\ UNCHANGED saleVars

Next ==
    \/ \E sale \in SaleIds : Create(sale)
    \/ SetPolicy
    \/ \E r \in Requests :
         \/ \E kind \in {"validate", "cancel"}, sale \in SaleIds :
              ReadSale(r, kind, sale)
         \/ ReadPolicy(r)
         \/ LineStep(r)
         \/ CommitValidate(r)
         \/ Notify(r)
         \/ CommitCancel(r)
         \/ Abort(r)

Spec == Init /\ [][Next]_vars

-----------------------------------------------------------------------------
\* What one validation of a sale takes from a row.
Taken(sale, row) ==
    SumFunctionOnSet([i \in DOMAIN Lines[sale] |->
                        IF Lines[sale][i].row = row
                        THEN Lines[sale][i].quantity ELSE 0],
                     DOMAIN Lines[sale])

\* What the sales whose validation has committed have taken from it.
Sold(row) ==
    SumFunctionOnSet([sale \in SaleIds |-> exits[sale] * Taken(sale, row)],
                     SaleIds)

\* A validation takes all the lines of its sale or none ("une ligne en échec
\* annule tout"): whatever the lines refused, the rollbacks and the other
\* validations in flight, a row no stale read has written is at its opening
\* stock less the lines of the sales whose validation has committed.
CleanBalanceIsSales ==
    \A row \in Rows \ tainted :
        balance[row] = OpeningStock[row] - Sold(row)

\* A row no stale read has written is below zero only through a validation
\* that read the policy while it allowed that, even if the policy has changed
\* since ("une vente est alors bloquée si le stock disponible est
\* insuffisant").
CleanNegativeOnlyIfAllowed ==
    \A row \in Rows \ tainted :
        balance[row] < 0 =>
            \E r \in Requests : /\ job[r].kind = "validate" /\ job[r].allow
                                /\ stage[r] \in {"notify", "done"}
                                /\ Taken(job[r].sale, row) > 0

\* A sale requests have worked on one at a time has left the stock once if it
\* is VALIDATED and never otherwise.
SettledOnce ==
    \A sale \in SaleIds \ overlapped :
        exits[sale] = IF status[sale] = "VALIDATED" THEN 1 ELSE 0

\* A product on one line only of a sale is announced exactly when the
\* validation takes its balance into rupture, unless the policy let the check
\* go or the row was written from a stale read.
AlertIffCrossing ==
    [][\A r \in Requests :
         LET lines == Lines[job[r].sale]
         IN  CommitValidate(r) /\ ~job[r].allow =>
             \A i \in DOMAIN lines :
                LET row == lines[i].row
                IN  /\ row \notin tainted'
                    /\ \A j \in DOMAIN lines \ {i} : lines[j].row # row
                    => (i \in RupturedLines(r)
                        <=> Crosses(row, balance[row], balance'[row]))]_vars

\* VALIDATED is irreversible and CANCELLED reached from DRAFT only, as the
\* schema says of Sale.status.  A cancellation that has read the draft and
\* writes after the validation breaks it.
StatusIsFinal ==
    [][\A sale \in SaleIds : status[sale] \in {"VALIDATED", "CANCELLED"}
                             => status'[sale] = status[sale]]_vars

=============================================================================
