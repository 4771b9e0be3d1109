----------------------------- MODULE StockLedger -----------------------------
(***************************************************************************)
(* StockMovementsService: the journal of stock movements, and the balances *)
(* the create, update and remove handlers keep in step with it.  Every     *)
(* handler is one transaction of StockTx.  The writes to the journal row   *)
(* and the COMMIT are one step here: a handler that updates or deletes a   *)
(* movement has first written, and so holds, the balance of the movement's *)
(* source row, so two of them never meet on the journal row itself.        *)
(***************************************************************************)
EXTENDS StockTx, FiniteSetsExt

CONSTANTS
    Products, Warehouses,
    NoWarehouse,    \* targetWarehouseId of a movement without one
    NoMovement,     \* no such row in the journal
    Inputs,         \* the quantities a client may send
    OpeningStock,   \* the balances, and the ENTRY movements, there at start
    ReorderPoint,   \* Product.reorderPoint
    MaxInFlight     \* how many requests the server handles at a time

ASSUME RowsAssumption == Rows = Products \X Warehouses
ASSUME StockAssumption == /\ OpeningStock \in [Rows -> Nat]
                          /\ ReorderPoint \in [Products -> Nat]
                          /\ Inputs \subseteq Int
ASSUME NamesAssumption == /\ NoWarehouse \notin Warehouses
                          /\ Rows \cap Requests = {}
ASSUME FiniteAssumption == IsFiniteSet(Rows) /\ IsFiniteSet(Requests)

VARIABLES
    movements,  \* the committed rows of the journal
    job,        \* what a request was asked, and the row findById returned it
    alerts      \* the requests that have published a STOCK_ALERT

vars == <<txVars, movements, job, alerts>>

\* A movement is identified by the request that creates it, or, for those
\* there at start, by the inventory row they fill.
Ids == Rows \cup Requests
Types == {"ENTRY", "EXIT", "TRANSFER", "ADJUSTMENT"}
Movement == [type : Types, product : Products, warehouse : Warehouses,
             target : Warehouses \cup {NoWarehouse}, quantity : Int]

ASSUME NoMovementAssumption == NoMovement \notin Movement

SourceRow(m) == <<m.product, m.warehouse>>
TargetRow(m) == <<m.product, m.target>>
RowsOf(m) ==
    {SourceRow(m)} \cup (IF m.type = "TRANSFER" THEN {TargetRow(m)} ELSE {})
Magnitude(n) == IF n < 0 THEN -n ELSE n

\* What a client may ask: the checks at the head of create and of update.
ValidInput(type, input) ==
    IF type = "ADJUSTMENT" THEN input # 0 ELSE input > 0

\* Mutant: a transfer without a target is accepted.
AnyOtherTarget(type, warehouse, target) ==
    type = "TRANSFER" => target # warehouse

ValidTarget(type, warehouse, target) ==
    type = "TRANSFER" => target \in Warehouses \ {warehouse}

SignedDelta(type, input) ==
    IF type \in {"EXIT", "TRANSFER"} THEN -input ELSE input

\* currentInputQuantity: the quantity an update that gives none keeps.
InputQuantity(m) ==
    IF m.type \in {"EXIT", "TRANSFER"} THEN -m.quantity ELSE m.quantity

\* resolveStockStatus, with CRITICAL_RATIO = 3/10.
StockStatus(quantity, reorderPoint) ==
    CASE reorderPoint <= 0 -> IF quantity > 0 THEN "ok" ELSE "rupture"
      [] reorderPoint > 0 /\ 10 * quantity <= 3 * reorderPoint -> "rupture"
      [] reorderPoint > 0 /\ 10 * quantity > 3 * reorderPoint
         /\ quantity <= reorderPoint -> "bas"
      [] OTHER -> "ok"

Crosses(product, from, to) ==
    /\ StockStatus(from, ReorderPoint[product]) # "rupture"
    /\ StockStatus(to, ReorderPoint[product]) = "rupture"

-----------------------------------------------------------------------------
\* The postings of the handlers.  Whatever takes stock away is checked.

\* Mutant: what takes stock away is not checked.
PostUnchecked(row, delta) == [row |-> row, delta |-> delta, guard |-> "none"]

Post(row, delta) ==
    [row |-> row, delta |-> delta,
     guard |-> IF delta < 0 THEN "check" ELSE "none"]

TransferTo(m, sign) ==
    IF m.type = "TRANSFER"
    THEN << Post(TargetRow(m), sign * Magnitude(m.quantity)) >> ELSE << >>

\* Mutant: the target of a transfer gets the signed quantity.
CreateSameSign(m) ==
    << [Post(SourceRow(m), m.quantity) EXCEPT
          !.guard = IF @ = "none" THEN "read" ELSE @] >> \o TransferTo(m, -1)

\* create reads the source row in every case, for the rupture alert.
CreatePostings(m) ==
    << [Post(SourceRow(m), m.quantity) EXCEPT
          !.guard = IF @ = "none" THEN "read" ELSE @] >> \o TransferTo(m, 1)

\* Mutant: the target of a transfer keeps what it received.
ReverseSourceOnly(m) == << Post(SourceRow(m), -m.quantity) >>

\* reverseEffect
ReversePostings(m) == << Post(SourceRow(m), -m.quantity) >> \o TransferTo(m, -1)

\* update: reverseEffect of the old movement, then the new one.
UpdatePostings(old, new) ==
    ReversePostings(old) \o << Post(SourceRow(new), new.quantity) >>
                         \o TransferTo(new, 1)

-----------------------------------------------------------------------------
OpeningMovement(row) ==
    [type |-> "ENTRY", product |-> row[1], warehouse |-> row[2],
     target |-> NoWarehouse, quantity |-> OpeningStock[row]]

NoJob == [kind |-> "none", id |-> NoMovement, old |-> NoMovement,
          new |-> NoMovement]

Init ==
    /\ TxInit(OpeningStock)
    /\ movements = [id \in Ids |->
                      IF id \in Rows /\ OpeningStock[id] # 0
                      THEN OpeningMovement(id) ELSE NoMovement]
    /\ job = [r \in Requests |-> NoJob]
    /\ alerts = {}

InFlight == {r \in Requests : stage[r] \notin {"idle", "done", "failed"}}
Admitted(r) == stage[r] = "idle" /\ Cardinality(InFlight) < MaxInFlight

\* The targets a client may give.  Another movement than a transfer keeps the
\* one it is given in its row, where nothing looks at it: it is left out.
Targets(type) ==
    {NoWarehouse} \cup (IF type = "TRANSFER" THEN Warehouses ELSE {})

\* POST /stock-movements
StartCreate(r) ==
    \E type \in Types, product \in Products, warehouse \in Warehouses,
       input \in Inputs : \E target \in Targets(type) :
        LET new == [type |-> type, product |-> product,
                    warehouse |-> warehouse, target |-> target,
                    quantity |-> SignedDelta(type, input)]
        IN  /\ Admitted(r)
            /\ ValidInput(type, input)
            /\ ValidTarget(type, warehouse, target)
            /\ Begin(r, CreatePostings(new))
            /\ job' = [job EXCEPT ![r] =
                         [kind |-> "create", id |-> r,
                          old |-> NoMovement, new |-> new]]
            /\ UNCHANGED <<movements, alerts>>

\* PATCH /stock-movements/:id.  findById runs before the transaction.
StartUpdate(r) ==
    \E id \in Ids, type \in Types :
        LET old == movements[id]
        IN  /\ Admitted(r)
            /\ old # NoMovement
            /\ (type = "TRANSFER") = (old.type = "TRANSFER")
            /\ \E input \in Inputs \cup {InputQuantity(old)} :
                 LET new == [old EXCEPT !.type = type,
                                        !.quantity = SignedDelta(type, input)]
                 IN  /\ ValidInput(type, input)
                     /\ Begin(r, UpdatePostings(old, new))
                     /\ job' = [job EXCEPT ![r] = [kind |-> "update", id |-> id,
                                                   old |-> old, new |-> new]]
            /\ UNCHANGED <<movements, alerts>>

\* DELETE /stock-movements/:id.  findById runs before the transaction.
StartRemove(r) ==
    \E id \in Ids :
        LET old == movements[id]
        IN  /\ Admitted(r)
            /\ old # NoMovement
            /\ Begin(r, ReversePostings(old))
            /\ job' = [job EXCEPT ![r] = [kind |-> "remove", id |-> id,
                                          old |-> old, new |-> NoMovement]]
            /\ UNCHANGED <<movements, alerts>>

\* Mutant: the alert is given for every movement that ends in rupture.
EndsInRupture(r) ==
    LET m == job[r].new
    IN  StockStatus(before[r] + m.quantity, ReorderPoint[m.product]) = "rupture"

\* crossedIntoRupture, from the quantity read before the posting.
CrossedIntoRupture(r) ==
    LET m == job[r].new
    IN  Crosses(m.product, before[r], before[r] + m.quantity)

CommitCreate(r) ==
    /\ stage[r] = "journal"
    /\ job[r].kind = "create"
    /\ movements' = [movements EXCEPT ![job[r].id] = job[r].new]
    /\ CommitTx(r, IF CrossedIntoRupture(r) THEN "notify" ELSE "done", {})
    /\ UNCHANGED <<job, alerts>>

\* The rows whose postings come from a movement changed since findById.
StaleRows(r) ==
    IF movements[job[r].id] # job[r].old THEN RowsOf(job[r].old) ELSE {}

\* Mutant: deleteMany and updateMany, which accept a movement that is gone.
MovementExistsOrNot(r) == TRUE

MovementExists(r) == movements[job[r].id] # NoMovement

CommitUpdate(r) ==
    /\ stage[r] = "journal"
    /\ job[r].kind = "update"
    /\ MovementExists(r)
    /\ movements' = [movements EXCEPT ![job[r].id] = job[r].new]
    /\ CommitTx(r, "done", StaleRows(r))
    /\ UNCHANGED <<job, alerts>>

CommitRemove(r) ==
    /\ stage[r] = "journal"
    /\ job[r].kind = "remove"
    /\ MovementExists(r)
    /\ movements' = [movements EXCEPT ![job[r].id] = NoMovement]
    /\ CommitTx(r, "done", StaleRows(r))
    /\ UNCHANGED <<job, alerts>>

\* P2025: the movement to update or delete is no longer there.
MovementGone(r) ==
    /\ stage[r] = "journal"
    /\ job[r].kind \in {"update", "remove"}
    /\ ~MovementExists(r)
    /\ Rollback(r)
    /\ UNCHANGED <<movements, job, alerts>>

\* notifyCompany, after the transaction.
Notify(r) ==
    /\ stage[r] = "notify"
    /\ alerts' = alerts \cup {r}
    /\ stage' = [stage EXCEPT ![r] = "done"]
    /\ UNCHANGED <<balance, present, todo, before, seen, draft, touched, net,
                   dirty, posted, tainted, movements, job>>

Step(r) == TxStep(r) /\ UNCHANGED <<movements, job, alerts>>
Abort(r) == AbortTx(r) /\ UNCHANGED <<movements, job, alerts>>
Commit(r) == CommitCreate(r) \/ CommitUpdate(r) \/ CommitRemove(r)

Next == \E r \in Requests :
    \/ StartCreate(r)
    \/ StartUpdate(r)
    \/ StartRemove(r)
    \/ Step(r)
    \/ Commit(r)
    \/ MovementGone(r)
    \/ Notify(r)
    \/ Abort(r)

\* The server runs what it has admitted, and whoever waits too long for a row
\* is rolled back.
Fairness == \A r \in Requests :
    /\ WF_vars(Step(r) \/ Commit(r) \/ MovementGone(r) \/ Notify(r))
    /\ WF_vars(Waiting(r) /\ Abort(r))

Spec == Init /\ [][Next]_vars
FairSpec == Spec /\ Fairness

-----------------------------------------------------------------------------
Job == [kind : {"none", "create", "update", "remove"},
        id : Ids \cup {NoMovement},
        old : Movement \cup {NoMovement}, new : Movement \cup {NoMovement}]

\* The variables have the types the code gives them.
TypeOK ==
    /\ TxTypeOK
    /\ movements \in [Ids -> Movement \cup {NoMovement}]
    /\ job \in [Requests -> Job]
    /\ alerts \in SUBSET Requests

Effect(m, row) ==
    (IF row = SourceRow(m) THEN m.quantity ELSE 0)
    + (IF m.type = "TRANSFER" /\ row = TargetRow(m)
       THEN Magnitude(m.quantity) ELSE 0)

\* What is not in the journal has no effect.
EntryEffect(entry, row) ==
    IF entry = NoMovement THEN 0 ELSE Effect(entry, row)

JournalTotal(row) ==
    SumFunctionOnSet([id \in Ids |-> EntryEffect(movements[id], row)], Ids)

\* The balance of a row is the sum of the journal, as the schema says of the
\* materialised balance ("tenu à jour à chaque StockMovement").  Two requests
\* that overlap break it: applyDelta writes an absolute value it computed from
\* a read another request's commit has made stale.
BalanceIsJournalTotal == \A row \in Rows : balance[row] = JournalTotal(row)

\* The same, of the rows no request has written from a stale read: a race on
\* one row corrupts that row only, and a rollback corrupts none, whatever the
\* handlers, the moment they fail and the order they run in.
CleanBalanceIsJournalTotal ==
    \A row \in Rows \ tainted : balance[row] = JournalTotal(row)

\* No balance is below zero, of the rows no request has written from a stale
\* read: every handler checks what it takes against the balance it reads
\* (create, reverseEffect, update).
CleanNeverNegative == \A row \in Rows \ tainted : balance[row] >= 0

\* The balance of a row no request has written from a stale read is its
\* opening stock and every delta committed since: no update is lost.
CleanNoLostUpdate == \A row \in Rows \ tainted : balance[row] = posted[row]

\* A removal is final and has its effect once: of two removals that have both
\* read the movement, the second finds it gone (P2025) and its reversal of
\* the stock is undone, and an update that has read it does not bring it back.
RemovalIsFinal ==
    \A r \in Requests : job[r].kind = "remove" /\ stage[r] = "done" =>
        /\ movements[job[r].id] = NoMovement
        /\ \A other \in Requests \ {r} :
              job[other].kind = "remove" /\ stage[other] = "done"
              => job[other].id # job[r].id

\* create announces a rupture exactly when its commit takes the balance of
\* the source row into rupture, unless the row was written from a stale read.
AlertIffCrossing ==
    [][\A r \in Requests :
         CommitCreate(r) /\ SourceRow(job[r].new) \notin tainted'
         => (stage'[r] = "notify"
             <=> LET row == SourceRow(job[r].new)
                 IN  Crosses(row[1], balance[row], balance'[row]))]_vars

\* The abstract ledger: a journal entry by its effect on every row.
AbstractLedger == INSTANCE Ledger WITH
    stock <- balance,
    journal <- [id \in Ids |->
                  [row \in Rows |-> EntryEffect(movements[id], row)]]

\* Requests that do not overlap implement the ledger: whatever statements a
\* handler runs and wherever it is refused or rolled back, its only visible
\* step is the operation it was asked, with the balances moved to match.
ImplementsLedger == AbstractLedger!Spec

\* Every request ends, one that waits for a row another holds too: opposite
\* transfers, which take two rows in opposite orders, block each other until
\* one is rolled back.
EveryRequestEnds ==
    \A r \in Requests :
        stage[r] # "idle" ~> stage[r] \in {"done", "failed"}

=============================================================================
