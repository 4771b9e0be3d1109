------------------------------- MODULE Billing -------------------------------
(***************************************************************************)
(* InvoicesService, DeliveryNotesService and PaymentsService: the          *)
(* documents drawn from a validated sale, their numbers, and the payments  *)
(* of an invoice.                                                          *)
(*                                                                         *)
(* The two kinds of document are created by the same four statements: read *)
(* the sale, look for a document of that sale, count the documents of the  *)
(* year, insert with the next number.  The tables have unique keys saleId  *)
(* and (companyId, ref).  The model stays within one calendar year.        *)
(*                                                                         *)
(* A payment is one transaction at READ COMMITTED: a plain read of the     *)
(* invoice, the checks, the insert of the payment, and the update of the   *)
(* invoice to the ABSOLUTE amount computed from the read.  Nobody sees the *)
(* two writes before the COMMIT and nothing follows the update, so they    *)
(* are one step; the read is another.                                      *)
(***************************************************************************)
EXTENDS Integers, FiniteSetsExt, Functions

CONSTANTS
    Requests,
    SaleIds,
    TotalAmount,    \* Sale.totalAmount, copied into the invoice; the discount
                    \* of a line has no upper limit and may take it below zero
    Amounts,        \* the amounts a client may pay
    None            \* no row

ASSUME BillingAssumption == /\ IsFiniteSet(Requests)
                            /\ SaleIds # {}
                            /\ TotalAmount \in [SaleIds -> Int]
                            /\ Amounts \subseteq Nat \ {0}

Tables == {"invoice", "note"}

VARIABLES
    saleStatus,     \* Sale.status, as SalesService leaves it
    documents,      \* the rows of each table, by the request that created them
    payments,       \* the rows of the payments table, likewise
    stage, job,     \* the next statement of a request, and what it has read
    raced           \* auxiliary: the invoices paid from a read no longer current

vars == <<saleStatus, documents, payments, stage, job, raced>>

Document == [sale : SaleIds, ref : Nat \ {0}, amountPaid : Nat,
             status : {"UNPAID", "PARTIALLY_PAID", "PAID",
                       "PREPARING", "DELIVERED"}]
Payment == [invoice : Requests, amount : Nat \ {0}]
ASSUME NoneIsNoRow == None \notin Document \cup Payment

Job == [kind : {"none", "create", "deliver", "pay"}, table : Tables,
        sale : SaleIds, ref : Nat, document : Requests, read : Nat,
        amount : Nat]

Stages == {"idle", "find", "count", "insert", "write", "done", "failed"}

TypeOK ==
    /\ saleStatus \in [SaleIds -> {"DRAFT", "VALIDATED", "CANCELLED"}]
    /\ documents \in [Tables -> [Requests -> Document \cup {None}]]
    /\ payments \in [Requests -> Payment \cup {None}]
    /\ stage \in [Requests -> Stages]
    /\ job \in [Requests -> Job]
    /\ raced \in SUBSET Requests

Rows(table) == {d \in Requests : documents[table][d] # None}
Total(invoice) == TotalAmount[documents["invoice"][invoice].sale]

Init ==
    /\ saleStatus = [sale \in SaleIds |-> "DRAFT"]
    /\ documents = [table \in Tables |-> [r \in Requests |-> None]]
    /\ payments = [r \in Requests |-> None]
    /\ stage = [r \in Requests |-> "idle"]
    /\ job = [r \in Requests |->
                [kind |-> "none", table |-> "invoice",
                 sale |-> CHOOSE sale \in SaleIds : TRUE, ref |-> 0,
                 document |-> r, read |-> 0, amount |-> 0]]
    /\ raced = {}

Goto(r, next) == stage' = [stage EXCEPT ![r] = next]

-----------------------------------------------------------------------------
\* The sale is validated or cancelled; a late write of SalesService may still
\* turn one into the other (see Sales).
SaleChanges(sale) ==
    /\ \E new \in {"VALIDATED", "CANCELLED"} :
         saleStatus' = [saleStatus EXCEPT ![sale] = new]
    /\ UNCHANGED <<documents, payments, stage, job, raced>>

\* POST /invoices and POST /delivery-notes: findById, status check.
ReadSale(r, table, sale) ==
    /\ stage[r] = "idle"
    /\ saleStatus[sale] = "VALIDATED"
    /\ job' = [job EXCEPT ![r] = [@ EXCEPT !.kind = "create",
                                           !.table = table, !.sale = sale]]
    /\ Goto(r, "find")
    /\ UNCHANGED <<saleStatus, documents, payments, raced>>

OfSale(table, sale) ==
    {d \in Rows(table) : documents[table][d].sale = sale}

\* findBySaleId: 409 when the sale already has its document.
FindBySale(r) ==
    /\ stage[r] = "find"
    /\ Goto(r, IF OfSale(job[r].table, job[r].sale) = {}
               THEN "count" ELSE "failed")
    /\ UNCHANGED <<saleStatus, documents, payments, job, raced>>

\* Mutant: the number is the count.
CountedRef(table) == Cardinality(Rows(table))

\* generateRef: the number of documents of the year, plus one.
NextRef(table) == Cardinality(Rows(table)) + 1

GenerateRef(r) ==
    /\ stage[r] = "count"
    /\ job' = [job EXCEPT ![r].ref = NextRef(job[r].table)]
    /\ Goto(r, "insert")
    /\ UNCHANGED <<saleStatus, documents, payments, raced>>

\* Mutant: a unique key is not declared.
UniqueRef(table, sale, ref) ==
    \A d \in Rows(table) : documents[table][d].ref # ref

\* The unique keys of the two tables: saleId, and (companyId, ref).
Unique(table, sale, ref) ==
    /\ OfSale(table, sale) = {}
    /\ \A d \in Rows(table) : documents[table][d].ref # ref

\* repository.create, which a unique key may refuse (P2002, answered 409).
Insert(r) ==
    LET table == job[r].table
    IN  /\ stage[r] = "insert"
        /\ IF Unique(table, job[r].sale, job[r].ref)
           THEN /\ documents' = [documents EXCEPT ![table][r] =
                     [sale |-> job[r].sale, ref |-> job[r].ref, amountPaid |-> 0,
                      status |-> IF table = "invoice" THEN "UNPAID"
                                                      ELSE "PREPARING"]]
                /\ Goto(r, "done")
           ELSE Goto(r, "failed") /\ UNCHANGED documents
        /\ UNCHANGED <<saleStatus, payments, job, raced>>

\* PATCH /delivery-notes/:id/deliver: the read, then the write.
ReadNote(r, note) ==
    /\ stage[r] = "idle"
    /\ note \in Rows("note")
    /\ documents["note"][note].status # "DELIVERED"
    /\ job' = [job EXCEPT ![r] = [@ EXCEPT !.kind = "deliver",
                                           !.table = "note", !.document = note]]
    /\ Goto(r, "write")
    /\ UNCHANGED <<saleStatus, documents, payments, raced>>

MarkDelivered(r) ==
    /\ stage[r] = "write"
    /\ job[r].kind = "deliver"
    /\ documents' = [documents EXCEPT !["note"][job[r].document].status =
                                        "DELIVERED"]
    /\ Goto(r, "done")
    /\ UNCHANGED <<saleStatus, payments, job, raced>>

\* Mutant: the amount is compared with the total, not with what is left.
PayableAlone(invoice, amount) ==
    /\ documents["invoice"][invoice].status # "PAID"
    /\ amount <= Total(invoice)

\* POST /payments: findByIdInTx and the checks on what it returns.
Payable(invoice, amount) ==
    /\ documents["invoice"][invoice].status # "PAID"
    /\ documents["invoice"][invoice].amountPaid + amount <= Total(invoice)

ReadInvoice(r, invoice, amount) ==
    /\ stage[r] = "idle"
    /\ invoice \in Rows("invoice")
    /\ Payable(invoice, amount)
    /\ job' = [job EXCEPT ![r] =
                 [@ EXCEPT !.kind = "pay", !.document = invoice,
                           !.amount = amount,
                           !.read = documents["invoice"][invoice].amountPaid]]
    /\ Goto(r, "write")
    /\ UNCHANGED <<saleStatus, documents, payments, raced>>

\* Mutant: the amount paid is the last payment.
LastAmountPaid(r) == job[r].amount

NewAmountPaid(r) == job[r].read + job[r].amount

\* Mutant: an invoice is paid once its total is exceeded.
StatusOnceExceeded(r) == IF NewAmountPaid(r) > Total(job[r].document)
                         THEN "PAID" ELSE "PARTIALLY_PAID"

NewStatus(r) == IF NewAmountPaid(r) >= Total(job[r].document)
                THEN "PAID" ELSE "PARTIALLY_PAID"

\* The payment row and the invoice, committed together.
CommitPayment(r) ==
    LET invoice == job[r].document
    IN  /\ stage[r] = "write"
        /\ job[r].kind = "pay"
        /\ payments' = [payments EXCEPT ![r] = [invoice |-> invoice,
                                                amount |-> job[r].amount]]
        /\ documents' = [documents EXCEPT !["invoice"][invoice] =
                           [@ EXCEPT !.amountPaid = NewAmountPaid(r),
                                     !.status = NewStatus(r)]]
        /\ raced' = IF documents["invoice"][invoice].amountPaid # job[r].read
                    THEN raced \cup {invoice} ELSE raced
        /\ Goto(r, "done")
        /\ UNCHANGED <<saleStatus, job>>

\* A statement fails or the connection is lost: nothing of it is kept.
Abort(r) ==
    /\ stage[r] \notin {"idle", "done", "failed"}
    /\ Goto(r, "failed")
    /\ UNCHANGED <<saleStatus, documents, payments, job, raced>>

-----------------------------------------------------------------------------
\* The routes of the three controllers that write, then the statements of the
\* requests that are running.
InvoicesRoutes(r) == \E sale \in SaleIds : ReadSale(r, "invoice", sale)

DeliveryNotesRoutes(r) ==
    \/ \E sale \in SaleIds : ReadSale(r, "note", sale)
    \/ \E note \in Requests : ReadNote(r, note)

PaymentsRoutes(r) ==
    \E invoice \in Requests, amount \in Amounts : ReadInvoice(r, invoice, amount)

Next ==
    \/ \E sale \in SaleIds : SaleChanges(sale)
    \/ \E r \in Requests :
         \/ InvoicesRoutes(r) \/ DeliveryNotesRoutes(r) \/ PaymentsRoutes(r)
         \/ FindBySale(r)
         \/ GenerateRef(r)
         \/ Insert(r)
         \/ MarkDelivered(r)
         \/ CommitPayment(r)
         \/ Abort(r)

Spec == Init /\ [][Next]_vars

-----------------------------------------------------------------------------
\* The documents of a table are numbered 1, 2, 3... without a gap and without
\* a duplicate, and there are as many as sales that have one, although both the
\* number and the absence of a document were read before the insert.
NumbersAreGapless ==
    \A table \in Tables :
        LET rows == {documents[table][d] : d \in Rows(table)}
        IN  /\ {d.ref : d \in rows} = 1 .. Cardinality(Rows(table))
            /\ Cardinality({d.sale : d \in rows}) = Cardinality(Rows(table))

\* The status of an invoice is the one its amounts give ("dérivé
\* automatiquement de amountPaid"), even when two payments race.
StatusFollowsAmount ==
    \A d \in Rows("invoice") :
        LET invoice == documents["invoice"][d]
        IN  /\ invoice.status = "UNPAID" => invoice.amountPaid = 0
            /\ invoice.status = "PARTIALLY_PAID" =>
                 0 < invoice.amountPaid /\ invoice.amountPaid < Total(d)
            /\ invoice.status = "PAID" => invoice.amountPaid = Total(d)

\* What each request has paid of an invoice.
PaidBy(invoice) ==
    [r \in Requests |-> IF payments[r] # None /\ payments[r].invoice = invoice
                       THEN payments[r].amount ELSE 0]

PaymentsTotal(invoice) == SumFunctionOnSet(PaidBy(invoice), Requests)

\* An invoice never counts as paid more than its payments add up to, nor more
\* than its total, even when two payments race: a race only loses money that
\* was received.
PaidWithinPayments ==
    \A d \in Rows("invoice") :
        /\ documents["invoice"][d].amountPaid <= PaymentsTotal(d)
        /\ documents["invoice"][d].amountPaid > 0
             => documents["invoice"][d].amountPaid <= Total(d)

\* The amount paid of an invoice is the sum of its payments ("rester correct
\* si deux paiements arrivent en concurrence").  Two payments that have both
\* read the invoice break it: the second writes over the first.
PaidIsPaymentsTotal ==
    \A d \in Rows("invoice") :
        documents["invoice"][d].amountPaid = PaymentsTotal(d)

\* The same, of the invoices no payment wrote from a stale read: a payment
\* that is refused, aborted or raced on another invoice changes nothing.
CleanPaidIsPaymentsTotal ==
    \A d \in Rows("invoice") \ raced :
        documents["invoice"][d].amountPaid = PaymentsTotal(d)

=============================================================================
