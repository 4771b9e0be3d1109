--------------------------- MODULE Billing_proofs ---------------------------
(***************************************************************************)
(* What holds of the documents and the payments for any requests, sales    *)
(* and amounts: their types, their numbers, which have neither gap nor     *)
(* duplicate, the status of an invoice, which is the one its amounts give  *)
(* even when payments race, and what an invoice counts as paid, which is   *)
(* never more than its payments.  From these, what a finance page that is  *)
(* drawn beside them shows, by concurrent queries (PageInv).               *)
(*                                                                         *)
(* The status is written with an amount computed from an earlier read, so  *)
(* it is right because a payment in hand fits the total as it was read     *)
(* (HandFits), a total that no later write changes.                        *)
(***************************************************************************)
EXTENDS Finance, SumTheorems

\* What a request has in hand: it has created nothing yet; the number it drew
\* is a number; the row it is about to write exists, and a payment fits the
\* total of its invoice.
HandFits(r) ==
    /\ stage[r] \in {"idle", "find", "count", "insert"} =>
         \A table \in Tables : documents[table][r] = None
    /\ stage[r] = "insert" => job[r].ref > 0
    /\ stage[r] = "write" /\ job[r].kind = "deliver" =>
         documents["note"][job[r].document] # None
    /\ stage[r] = "write" /\ job[r].kind = "pay" =>
         /\ documents["invoice"][job[r].document] # None
         /\ job[r].amount > 0
         /\ NewAmountPaid(r) <= Total(job[r].document)

IInv ==
    /\ TypeOK
    /\ \A r \in Requests : HandFits(r)
    /\ StatusFollowsAmount

\* A row is a document of a sale, and its sale has a total.
LEMMA RowFacts ==
    ASSUME TypeOK, NEW table \in Tables, NEW d \in Requests,
           documents[table][d] # None
    PROVE  /\ documents[table][d] \in Document
           /\ documents[table][d].sale \in SaleIds
           /\ TotalAmount[documents[table][d].sale] \in Int
<1>1. documents[table][d] \in Document
    BY DEF TypeOK
<1>2. documents[table][d].sale \in SaleIds
    BY <1>1 DEF Document
<1> QED BY <1>1, <1>2, BillingAssumption

LEMMA InitIInv ==
    Init => IInv
<1> SUFFICES ASSUME Init PROVE IInv
    OBVIOUS
<1>1. (CHOOSE sale \in SaleIds : TRUE) \in SaleIds
    BY BillingAssumption
<1>2. TypeOK
    BY <1>1 DEF Init, TypeOK, Job, Stages, Tables
<1>3. \A r \in Requests : HandFits(r)
    BY DEF Init, HandFits, Tables
<1>4. StatusFollowsAmount
    BY DEF Init, StatusFollowsAmount, Rows, Tables
<1> QED BY <1>2, <1>3, <1>4 DEF IInv

\* Rows that are neither lost nor given to another sale keep what the other
\* requests have in hand.
LEMMA HandsKept ==
    ASSUME IInv, NEW r \in Requests, HandFits(r)',
           \A s \in Requests \ {r} : stage'[s] = stage[s] /\ job'[s] = job[s],
           \A table \in Tables, d \in Requests \ {r} :
               documents[table][d] = None => documents'[table][d] = None,
           \A table \in Tables, d \in Requests :
               documents[table][d] # None =>
                   /\ documents'[table][d] # None
                   /\ documents'[table][d].sale = documents[table][d].sale
    PROVE  (\A s \in Requests : HandFits(s))'
<1> SUFFICES ASSUME NEW s \in Requests, s # r
             PROVE  HandFits(s)'
    OBVIOUS
<1>1. stage'[s] = stage[s] /\ job'[s] = job[s]
    OBVIOUS
<1>2. HandFits(s) /\ job[s].document \in Requests
    BY DEF IInv, TypeOK, Job
<1> QED BY <1>1, <1>2 DEF HandFits, NewAmountPaid, Total, Tables

-----------------------------------------------------------------------------
\* The steps that write no document.

LEMMA SaleChangesKeeps ==
    ASSUME IInv, NEW sale \in SaleIds, SaleChanges(sale)
    PROVE  IInv'
<1>1. TypeOK'
    BY DEF IInv, TypeOK, SaleChanges
<1>2. (\A r \in Requests : HandFits(r))'
    BY DEF IInv, SaleChanges, HandFits, NewAmountPaid, Total
<1>3. StatusFollowsAmount'
    BY DEF IInv, SaleChanges, StatusFollowsAmount, Rows, Total
<1> QED BY <1>1, <1>2, <1>3 DEF IInv

\* A request that only reads: what it has in hand is all there is to check.
LEMMA ReadKeeps ==
    ASSUME IInv, NEW r \in Requests, TypeOK', HandFits(r)',
           UNCHANGED documents,
           \A s \in Requests \ {r} : stage'[s] = stage[s] /\ job'[s] = job[s]
    PROVE  IInv'
<1>1. (\A s \in Requests : HandFits(s))'
    BY HandsKept
<1>2. StatusFollowsAmount'
    BY DEF IInv, StatusFollowsAmount, Rows, Total
<1> QED BY <1>1, <1>2 DEF IInv

LEMMA ReadSaleKeeps ==
    ASSUME IInv, NEW r \in Requests, NEW table \in Tables, NEW sale \in SaleIds,
           ReadSale(r, table, sale)
    PROVE  IInv'
<1>1. TypeOK'
    BY DEF IInv, TypeOK, ReadSale, Goto, Job, Stages
<1>2. HandFits(r)'
    BY DEF IInv, TypeOK, ReadSale, Goto, HandFits
<1> QED BY <1>1, <1>2, ReadKeeps DEF IInv, TypeOK, ReadSale, Goto

LEMMA FindBySaleKeeps ==
    ASSUME IInv, NEW r \in Requests, FindBySale(r)
    PROVE  IInv'
<1>1. TypeOK'
    BY DEF IInv, TypeOK, FindBySale, Goto, Stages
<1>2. HandFits(r)'
    BY DEF IInv, TypeOK, FindBySale, Goto, HandFits
<1> QED BY <1>1, <1>2, ReadKeeps DEF IInv, TypeOK, FindBySale, Goto

LEMMA GenerateRefKeeps ==
    ASSUME IInv, NEW r \in Requests, GenerateRef(r)
    PROVE  IInv'
<1>1. IsFiniteSet(Rows(job[r].table))
    BY FS_Subset, BillingAssumption DEF Rows
<1>2. NextRef(job[r].table) \in Nat \ {0}
    BY <1>1, FS_CardinalityType DEF NextRef
<1>3. TypeOK'
    BY <1>2 DEF IInv, TypeOK, GenerateRef, Goto, Job, Stages
<1>4. HandFits(r)'
    BY <1>2 DEF IInv, TypeOK, GenerateRef, Goto, HandFits
<1> QED BY <1>3, <1>4, ReadKeeps DEF IInv, TypeOK, GenerateRef, Goto

LEMMA ReadNoteKeeps ==
    ASSUME IInv, NEW r \in Requests, NEW note \in Requests, ReadNote(r, note)
    PROVE  IInv'
<1> DEFINE new == [job[r] EXCEPT !.kind = "deliver", !.table = "note",
                                 !.document = note]
<1>a. new \in Job
    <2>1. job[r] \in Job
        BY DEF IInv, TypeOK
    <2> QED BY <2>1 DEF Job, Tables
<1>b. job' = [job EXCEPT ![r] = new]
    BY DEF ReadNote
<1> HIDE DEF new
<1>1. TypeOK'
    BY <1>a, <1>b DEF IInv, TypeOK, ReadNote, Goto, Stages
<1> USE DEF new
<1>2. HandFits(r)'
    BY DEF IInv, TypeOK, ReadNote, Goto, HandFits, Rows
<1> QED BY <1>1, <1>2, ReadKeeps DEF IInv, TypeOK, ReadNote, Goto

LEMMA AbortKeeps ==
    ASSUME IInv, NEW r \in Requests, Abort(r)
    PROVE  IInv'
<1>1. TypeOK'
    BY DEF IInv, TypeOK, Abort, Goto, Stages
<1>2. HandFits(r)'
    BY DEF IInv, TypeOK, Abort, Goto, HandFits
<1> QED BY <1>1, <1>2, ReadKeeps DEF IInv, TypeOK, Abort, Goto

\* The checks of a payment are what HandFits says of it.
LEMMA ReadInvoiceKeeps ==
    ASSUME IInv, NEW r \in Requests, NEW invoice \in Requests,
           NEW amount \in Amounts, ReadInvoice(r, invoice, amount)
    PROVE  IInv'
<1>1. amount \in Nat \ {0}
    BY BillingAssumption
<1>2. documents["invoice"][invoice] # None
    BY DEF ReadInvoice, Rows
<1>3. documents["invoice"][invoice].amountPaid \in Nat
    BY <1>2, RowFacts DEF IInv, Tables, Document
<1> DEFINE new == [job[r] EXCEPT !.kind = "pay", !.document = invoice,
                      !.amount = amount,
                      !.read = documents["invoice"][invoice].amountPaid]
<1>a. new \in Job
    <2>1. job[r] \in Job
        BY DEF IInv, TypeOK
    <2> QED BY <1>1, <1>3, <2>1 DEF Job
<1>b. job' = [job EXCEPT ![r] = new]
    BY DEF ReadInvoice
<1> HIDE DEF new
<1>4. TypeOK'
    BY <1>a, <1>b DEF IInv, TypeOK, ReadInvoice, Goto, Stages
<1> USE DEF new
<1>5. job'[r].document = invoice /\ job'[r].amount = amount
      /\ job'[r].read = documents["invoice"][invoice].amountPaid
      /\ job'[r].kind = "pay" /\ stage'[r] = "write"
    BY DEF IInv, TypeOK, ReadInvoice, Goto, Job
<1>6. HandFits(r)'
    BY <1>1, <1>2, <1>5 DEF ReadInvoice, Payable, HandFits, NewAmountPaid, Total
<1> QED BY <1>4, <1>6, ReadKeeps DEF IInv, TypeOK, ReadInvoice, Goto

-----------------------------------------------------------------------------
\* The steps that write one.

\* The row inserted is new, and nothing is paid of it.
LEMMA InsertKeeps ==
    ASSUME IInv, NEW r \in Requests, Insert(r)
    PROVE  IInv'
<1> DEFINE table == job[r].table
           row == [sale |-> job[r].sale, ref |-> job[r].ref, amountPaid |-> 0,
                   status |-> IF table = "invoice" THEN "UNPAID"
                                                   ELSE "PREPARING"]
<1>1. /\ table \in Tables
      /\ documents[table][r] = None
      /\ row \in Document
    BY DEF IInv, TypeOK, Insert, HandFits, Job, Document
<1>2. row # None
    BY <1>1, NoneIsNoRow
<1>3. \/ documents' = [documents EXCEPT ![table][r] = row] /\ stage'[r] = "done"
      \/ UNCHANGED documents /\ stage'[r] = "failed"
    BY DEF IInv, TypeOK, Insert, Goto
<1>4. row.sale \in SaleIds /\ row.amountPaid = 0
      /\ row.status \in {"UNPAID", "PREPARING"}
    BY <1>1 DEF Document
<1> HIDE DEF row, table
<1>5. TypeOK'
    BY <1>1, <1>3 DEF IInv, TypeOK, Insert, Goto, Stages
<1>6. HandFits(r)'
    BY <1>3 DEF HandFits
<1>7. (\A s \in Requests : HandFits(s))'
    <2>1. \A s \in Requests \ {r} : stage'[s] = stage[s] /\ job'[s] = job[s]
        BY DEF IInv, TypeOK, Insert, Goto
    <2>2. \A t \in Tables, d \in Requests \ {r} :
              documents'[t][d] = documents[t][d]
        BY <1>1, <1>3 DEF IInv, TypeOK
    <2>3. \A t \in Tables : documents[t][r] # None =>
              documents'[t][r] = documents[t][r]
        BY <1>1, <1>3 DEF IInv, TypeOK
    <2> QED BY <1>6, <2>1, <2>2, <2>3, HandsKept
<1>8. StatusFollowsAmount'
    <2> SUFFICES ASSUME NEW d \in Requests, documents'["invoice"][d] # None
                 PROVE  LET invoice == documents'["invoice"][d]
                        IN  /\ invoice.status = "UNPAID" => invoice.amountPaid = 0
                            /\ invoice.status = "PARTIALLY_PAID" =>
                                 /\ 0 < invoice.amountPaid
                                 /\ invoice.amountPaid < TotalAmount[invoice.sale]
                            /\ invoice.status = "PAID" =>
                                 invoice.amountPaid = TotalAmount[invoice.sale]
        BY DEF StatusFollowsAmount, Rows, Total
    <2>1. documents'["invoice"][d] = row
          \/ documents'["invoice"][d] = documents["invoice"][d]
        BY <1>1, <1>3 DEF IInv, TypeOK, Tables
    <2> QED BY <1>4, <2>1 DEF IInv, StatusFollowsAmount, Rows, Total
<1> QED BY <1>5, <1>7, <1>8 DEF IInv

\* A note delivered is still the note of its sale.
LEMMA MarkDeliveredKeeps ==
    ASSUME IInv, NEW r \in Requests, MarkDelivered(r)
    PROVE  IInv'
<1> DEFINE note == job[r].document
           row == [documents["note"][note] EXCEPT !.status = "DELIVERED"]
<1>1. note \in Requests /\ documents["note"][note] # None
    BY DEF IInv, TypeOK, MarkDelivered, HandFits, Job
<1>2. row \in Document /\ row.sale = documents["note"][note].sale
    BY <1>1, RowFacts DEF IInv, Document, Tables
<1>3. row # None
    BY <1>2, NoneIsNoRow
<1>4. documents' = [documents EXCEPT !["note"][note] = row]
    BY DEF MarkDelivered
<1>5. stage'[r] = "done"
    BY DEF IInv, TypeOK, MarkDelivered, Goto
<1> HIDE DEF row, note
<1>6. TypeOK'
    <2>1. documents' \in [Tables -> [Requests -> Document \cup {None}]]
        BY <1>1, <1>2, <1>4 DEF IInv, TypeOK, Tables
    <2>2. stage' \in [Requests -> Stages]
        BY DEF IInv, TypeOK, MarkDelivered, Goto, Stages
    <2>3. UNCHANGED <<saleStatus, payments, job, raced>>
        BY DEF MarkDelivered
    <2> QED BY <2>1, <2>2, <2>3 DEF IInv, TypeOK
<1>7. (\A s \in Requests : HandFits(s))'
    <2>1. \A s \in Requests \ {r} : stage'[s] = stage[s] /\ job'[s] = job[s]
        BY DEF IInv, TypeOK, MarkDelivered, Goto
    <2>2. \A t \in Tables, d \in Requests :
              \/ documents'[t][d] = documents[t][d]
              \/ t = "note" /\ d = note /\ documents'[t][d] = row
        BY <1>1, <1>4 DEF IInv, TypeOK, Tables
    <2>3. HandFits(r)'
        BY <1>5 DEF HandFits
    <2> QED BY <1>1, <1>2, <1>3, <2>1, <2>2, <2>3, HandsKept
<1>8. documents'["invoice"] = documents["invoice"]
    BY <1>4 DEF IInv, TypeOK, Tables
<1>9. StatusFollowsAmount'
    BY <1>8 DEF IInv, StatusFollowsAmount, Rows, Total
<1> QED BY <1>6, <1>7, <1>9 DEF IInv

\* The amount written fits the total of the invoice, and the status written
\* with it says whether it reaches it.
LEMMA CommitPaymentKeeps ==
    ASSUME IInv, NEW r \in Requests, CommitPayment(r)
    PROVE  IInv'
<1> DEFINE invoice == job[r].document
           old == documents["invoice"][invoice]
           row == [old EXCEPT !.amountPaid = NewAmountPaid(r),
                              !.status = NewStatus(r)]
<1>1. /\ invoice \in Requests
      /\ old # None
      /\ job[r].read \in Nat
      /\ job[r].amount \in Nat \ {0}
      /\ NewAmountPaid(r) <= Total(invoice)
    BY DEF IInv, TypeOK, CommitPayment, HandFits, Job
<1>2. old \in Document /\ Total(invoice) \in Int
    BY <1>1, RowFacts DEF IInv, Tables, Total
<1>3. NewAmountPaid(r) \in Nat \ {0}
    BY <1>1 DEF NewAmountPaid
<1>4. /\ row \in Document
      /\ row.sale = old.sale
      /\ row.amountPaid = NewAmountPaid(r)
      /\ row.status = NewStatus(r)
    BY <1>2, <1>3 DEF Document, NewStatus
<1>5. row # None
    BY <1>4, NoneIsNoRow
<1>6. documents' = [documents EXCEPT !["invoice"][invoice] = row]
    BY DEF CommitPayment
<1>7. stage'[r] = "done"
    BY DEF IInv, TypeOK, CommitPayment, Goto
<1>8. \A t \in Tables, d \in Requests :
          \/ documents'[t][d] = documents[t][d]
          \/ t = "invoice" /\ d = invoice /\ documents'[t][d] = row
    BY <1>1, <1>6 DEF IInv, TypeOK, Tables
<1>9. TotalAmount[row.sale] = Total(invoice)
    BY <1>4 DEF Total
<1>10. [invoice |-> invoice, amount |-> job[r].amount] \in Payment
    BY <1>1 DEF Payment
<1> HIDE DEF row, old, invoice
<1>11. TypeOK'
    <2>1. documents' \in [Tables -> [Requests -> Document \cup {None}]]
        BY <1>1, <1>4, <1>6 DEF IInv, TypeOK, Tables
    <2>2. payments' \in [Requests -> Payment \cup {None}]
        BY <1>10 DEF IInv, TypeOK, CommitPayment, invoice
    <2>3. raced' \in SUBSET Requests
        BY <1>1 DEF IInv, TypeOK, CommitPayment, invoice
    <2>4. stage' \in [Requests -> Stages]
        BY DEF IInv, TypeOK, CommitPayment, Goto, Stages
    <2>5. UNCHANGED <<saleStatus, job>>
        BY DEF CommitPayment
    <2> QED BY <2>1, <2>2, <2>3, <2>4, <2>5 DEF IInv, TypeOK
<1>12. (\A s \in Requests : HandFits(s))'
    <2>1. \A s \in Requests \ {r} : stage'[s] = stage[s] /\ job'[s] = job[s]
        BY DEF IInv, TypeOK, CommitPayment, Goto
    <2>2. HandFits(r)'
        BY <1>7 DEF HandFits
    <2> QED BY <1>1, <1>4, <1>5, <1>8, <2>1, <2>2, HandsKept DEF old
<1>13. StatusFollowsAmount'
    <2> SUFFICES ASSUME NEW d \in Requests, documents'["invoice"][d] # None
                 PROVE  LET new == documents'["invoice"][d]
                        IN  /\ new.status = "UNPAID" => new.amountPaid = 0
                            /\ new.status = "PARTIALLY_PAID" =>
                                 /\ 0 < new.amountPaid
                                 /\ new.amountPaid < TotalAmount[new.sale]
                            /\ new.status = "PAID" =>
                                 new.amountPaid = TotalAmount[new.sale]
        BY DEF StatusFollowsAmount, Rows, Total
    <2>1. CASE documents'["invoice"][d] = documents["invoice"][d]
        BY <2>1 DEF IInv, StatusFollowsAmount, Rows, Total
    <2>2. CASE documents'["invoice"][d] = row
        BY <1>1, <1>2, <1>3, <1>4, <1>9, <2>2 DEF NewStatus, invoice
    <2> QED BY <1>8, <2>1, <2>2 DEF Tables
<1> QED BY <1>11, <1>12, <1>13 DEF IInv

-----------------------------------------------------------------------------
LEMMA NextIInv ==
    IInv /\ [Next]_vars => IInv'
<1> SUFFICES ASSUME IInv, [Next]_vars PROVE IInv'
    OBVIOUS
<1>1. ASSUME NEW sale \in SaleIds, SaleChanges(sale) PROVE IInv'
    BY <1>1, SaleChangesKeeps
<1>2. ASSUME NEW r \in Requests, NEW table \in Tables, NEW sale \in SaleIds,
             ReadSale(r, table, sale)
      PROVE  IInv'
    BY <1>2, ReadSaleKeeps
<1>3. ASSUME NEW r \in Requests, FindBySale(r) PROVE IInv'
    BY <1>3, FindBySaleKeeps
<1>4. ASSUME NEW r \in Requests, GenerateRef(r) PROVE IInv'
    BY <1>4, GenerateRefKeeps
<1>5. ASSUME NEW r \in Requests, Insert(r) PROVE IInv'
    BY <1>5, InsertKeeps
<1>6. ASSUME NEW r \in Requests, NEW note \in Requests, ReadNote(r, note)
      PROVE  IInv'
    BY <1>6, ReadNoteKeeps
<1>7. ASSUME NEW r \in Requests, MarkDelivered(r) PROVE IInv'
    BY <1>7, MarkDeliveredKeeps
<1>8. ASSUME NEW r \in Requests, NEW invoice \in Requests,
             NEW amount \in Amounts, ReadInvoice(r, invoice, amount)
      PROVE  IInv'
    BY <1>8, ReadInvoiceKeeps
<1>9. ASSUME NEW r \in Requests, CommitPayment(r) PROVE IInv'
    BY <1>9, CommitPaymentKeeps
<1>10. ASSUME NEW r \in Requests, Abort(r) PROVE IInv'
    BY <1>10, AbortKeeps
<1>11. CASE UNCHANGED vars
    BY <1>11 DEF vars, IInv, TypeOK, HandFits, NewAmountPaid, Total,
                 StatusFollowsAmount, Rows
<1> QED
    BY <1>1, <1>2, <1>3, <1>4, <1>5, <1>6, <1>7, <1>8, <1>9, <1>10, <1>11
       DEF Next, InvoicesRoutes, DeliveryNotesRoutes, PaymentsRoutes, Tables

\* The inductive invariant: the types, what the requests have in hand, and the
\* status of the invoices.
THEOREM BillingInvariant ==
    Spec => []IInv
<1> QED BY InitIInv, NextIInv, PTL DEF Spec

\* The rows of the documents, of the payments and of the requests keep their
\* types: a number that is drawn is positive, and so is what is paid.
THEOREM TypeCorrect ==
    Spec => []TypeOK
<1>1. IInv => TypeOK
    BY DEF IInv
<1> QED BY <1>1, BillingInvariant, PTL

\* The status of an invoice is the one its amounts give, for any number of
\* requests and payments, and even when payments race: CommitPayment derives
\* the status from the amount it writes, which the checks of ReadInvoice keep
\* within the total.
THEOREM StatusIsRight ==
    Spec => []StatusFollowsAmount
<1>1. IInv => StatusFollowsAmount
    BY DEF IInv
<1> QED BY <1>1, BillingInvariant, PTL

-----------------------------------------------------------------------------
\* The numbers.  Both are read before the insert, so the invariant says how
\* far they may be behind: a number drawn is at most the next one, and since
\* the numbers taken are 1 to n, a unique key leaves nothing but n + 1.

RefsOf(table) == {documents[table][d].ref : d \in Rows(table)}
SalesOf(table) == {documents[table][d].sale : d \in Rows(table)}

Numbered(table) ==
    /\ RefsOf(table) = 1 .. Cardinality(Rows(table))
    /\ IsFiniteSet(SalesOf(table))
    /\ Cardinality(SalesOf(table)) = Cardinality(Rows(table))

RefInHand(r) ==
    \A table \in Tables :
        stage[r] = "insert" /\ job[r].table = table =>
            job[r].ref <= Cardinality(Rows(table)) + 1

NumberInv ==
    /\ \A table \in Tables : Numbered(table)
    /\ \A r \in Requests : RefInHand(r)

LEMMA NumberedIsGapless ==
    (\A table \in Tables : Numbered(table)) => NumbersAreGapless
<1>1. ASSUME NEW table \in Tables
      PROVE  /\ {d.ref : d \in {documents[table][d] : d \in Rows(table)}}
                    = RefsOf(table)
             /\ {d.sale : d \in {documents[table][d] : d \in Rows(table)}}
                    = SalesOf(table)
    BY DEF RefsOf, SalesOf
<1> QED BY <1>1 DEF Numbered, NumbersAreGapless

\* The rows are finitely many.
LEMMA RowsFinite ==
    ASSUME NEW table \in Tables
    PROVE  /\ IsFiniteSet(Rows(table))
           /\ Cardinality(Rows(table)) \in Nat
<1>1. IsFiniteSet(Rows(table))
    BY FS_Subset, BillingAssumption DEF Rows
<1> QED BY <1>1, FS_CardinalityType

LEMMA InitNumbers ==
    Init => NumberInv
<1> SUFFICES ASSUME Init PROVE NumberInv
    OBVIOUS
<1>1. ASSUME NEW table \in Tables PROVE Numbered(table)
    <2>1. Rows(table) = {}
        BY DEF Init, Rows
    <2>2. RefsOf(table) = {} /\ SalesOf(table) = {}
        BY <2>1 DEF RefsOf, SalesOf
    <2>3. Cardinality({}) = 0 /\ IsFiniteSet({})
        BY FS_EmptySet
    <2> QED BY <2>1, <2>2, <2>3 DEF Numbered
<1>2. \A r \in Requests : RefInHand(r)
    BY DEF Init, RefInHand
<1> QED BY <1>1, <1>2 DEF NumberInv

\* A step that keeps the rows, their numbers and their sales, and draws no
\* number but the next.
LEMMA NumbersKept ==
    ASSUME NumberInv, TypeOK, TypeOK',
           \A table \in Tables, d \in Requests :
               /\ documents'[table][d] = None <=> documents[table][d] = None
               /\ documents[table][d] # None =>
                    /\ documents'[table][d].ref = documents[table][d].ref
                    /\ documents'[table][d].sale = documents[table][d].sale,
           \A r \in Requests : stage'[r] = "insert" =>
               \/ stage[r] = "insert" /\ job'[r] = job[r]
               \/ job'[r].ref = NextRef(job'[r].table)
    PROVE  NumberInv'
<1>1. ASSUME NEW table \in Tables
      PROVE  /\ Rows(table)' = Rows(table)
             /\ RefsOf(table)' = RefsOf(table)
             /\ SalesOf(table)' = SalesOf(table)
    <2>1. Rows(table)' = Rows(table)
        BY DEF Rows
    <2>2. \A d \in Rows(table) :
              /\ documents'[table][d].ref = documents[table][d].ref
              /\ documents'[table][d].sale = documents[table][d].sale
        BY DEF Rows
    <2> QED BY <2>1, <2>2 DEF RefsOf, SalesOf
<1>2. (\A table \in Tables : Numbered(table))'
    BY <1>1 DEF NumberInv, Numbered
<1>3. ASSUME NEW r \in Requests PROVE RefInHand(r)'
    <2> SUFFICES ASSUME NEW table \in Tables,
                        stage'[r] = "insert", job'[r].table = table
                 PROVE  job'[r].ref <= Cardinality(Rows(table)') + 1
        BY DEF RefInHand
    <2>1. Cardinality(Rows(table)) \in Nat
        BY RowsFinite
    <2> QED BY <1>1, <2>1 DEF NumberInv, RefInHand, NextRef
<1> QED BY <1>2, <1>3 DEF NumberInv

\* The number inserted is the next: it is at most the next, and no row has it.
LEMMA InsertNumbers ==
    ASSUME NumberInv, IInv, IInv', NEW r \in Requests, Insert(r)
    PROVE  NumberInv'
<1> PICK table \in Tables : table = job[r].table
    BY DEF IInv, TypeOK, Job
<1> DEFINE row == [sale |-> job[r].sale, ref |-> job[r].ref, amountPaid |-> 0,
                   status |-> IF table = "invoice" THEN "UNPAID"
                                                   ELSE "PREPARING"]
           n == Cardinality(Rows(table))
<1>1. table \in Tables /\ documents[table][r] = None /\ job[r].ref \in Nat
    BY DEF IInv, TypeOK, Insert, HandFits, Job
<1>2. \A s \in Requests : stage'[s] = "insert" =>
          stage[s] = "insert" /\ job'[s] = job[s]
    BY DEF IInv, TypeOK, Insert, Goto
<1>3. CASE UNCHANGED documents
    BY <1>2, <1>3, NumbersKept DEF IInv
<1>4. CASE Unique(table, job[r].sale, job[r].ref)
           /\ documents' = [documents EXCEPT ![table][r] = row]
           /\ stage'[r] = "done"
    <2>1. n \in Nat /\ IsFiniteSet(Rows(table))
        BY <1>1, RowsFinite
    <2>2. /\ RefsOf(table) = 1 .. n
          /\ IsFiniteSet(SalesOf(table))
          /\ Cardinality(SalesOf(table)) = n
        BY <1>1 DEF NumberInv, Numbered
    <2>3. /\ job[r].ref \notin RefsOf(table)
          /\ job[r].sale \notin SalesOf(table)
        BY <1>4 DEF Unique, OfSale, RefsOf, SalesOf
    <2>4. job[r].ref = n + 1
        <3>1. job[r].ref <= n + 1 /\ job[r].ref > 0
            BY <1>1 DEF NumberInv, RefInHand, IInv, HandFits, Insert
        <3> QED BY <1>1, <2>1, <2>2, <2>3, <3>1
    <2>5. row # None
        <3>1. row \in Document
            BY <1>1, <2>1, <2>4 DEF IInv, TypeOK, Job, Document
        <3> QED BY <3>1, NoneIsNoRow
    <2>6. r \notin Rows(table)
        BY <1>1 DEF Rows
    <2> HIDE DEF n
    <2>7. \A t \in Tables, d \in Requests :
              documents'[t][d] = IF t = table /\ d = r THEN row
                                                      ELSE documents[t][d]
        BY <1>1, <1>4 DEF IInv, TypeOK
    <2>8. row.ref = job[r].ref /\ row.sale = job[r].sale
        OBVIOUS
    <2> HIDE DEF row
    <2>9. /\ Rows(table)' = Rows(table) \cup {r}
          /\ RefsOf(table)' = RefsOf(table) \cup {job[r].ref}
          /\ SalesOf(table)' = SalesOf(table) \cup {job[r].sale}
        <3>1. Rows(table)' = Rows(table) \cup {r}
            BY <2>5, <2>7 DEF Rows
        <3>2. \A d \in Rows(table) : documents'[table][d] = documents[table][d]
            BY <2>6, <2>7 DEF Rows
        <3>3. documents'[table][r] = row
            BY <2>7
        <3> QED BY <2>8, <3>1, <3>2, <3>3 DEF RefsOf, SalesOf
    <2>10. ASSUME NEW t \in Tables, t # table
           PROVE  /\ Rows(t)' = Rows(t)
                  /\ RefsOf(t)' = RefsOf(t)
                  /\ SalesOf(t)' = SalesOf(t)
        <3>1. \A d \in Requests : documents'[t][d] = documents[t][d]
            BY <2>7, <2>10
        <3>2. Rows(t)' = Rows(t)
            BY <3>1 DEF Rows
        <3> QED BY <3>1, <3>2 DEF RefsOf, SalesOf, Rows
    <2>11. /\ Cardinality(Rows(table)') = n + 1
           /\ IsFiniteSet(SalesOf(table)')
           /\ Cardinality(SalesOf(table)') = n + 1
        <3>1. Cardinality(Rows(table) \cup {r}) = n + 1
            BY <2>1, <2>6, FS_AddElement DEF n
        <3>2. /\ IsFiniteSet(SalesOf(table) \cup {job[r].sale})
              /\ Cardinality(SalesOf(table) \cup {job[r].sale}) = n + 1
            BY <2>2, <2>3, FS_AddElement
        <3> QED BY <2>9, <3>1, <3>2
    <2>12. RefsOf(table)' = 1 .. n + 1
        BY <2>1, <2>2, <2>4, <2>9
    <2>13. ASSUME NEW t \in Tables PROVE Numbered(t)'
        <3>1. CASE t = table
            BY <2>11, <2>12, <3>1 DEF Numbered
        <3>2. CASE t # table
            BY <2>10, <3>2 DEF NumberInv, Numbered
        <3> QED BY <3>1, <3>2
    <2>14. ASSUME NEW s \in Requests PROVE RefInHand(s)'
        <3> SUFFICES ASSUME NEW t \in Tables,
                            stage'[s] = "insert", job'[s].table = t
                     PROVE  job'[s].ref <= Cardinality(Rows(t)') + 1
            BY DEF RefInHand
        <3>1. stage[s] = "insert" /\ job'[s] = job[s]
            BY <1>2
        <3>2. job[s].ref <= Cardinality(Rows(t)) + 1 /\ job[s].ref \in Nat
            BY <3>1 DEF NumberInv, RefInHand, IInv, TypeOK, Job
        <3>3. CASE t = table
            BY <2>1, <2>11, <3>1, <3>2, <3>3 DEF n
        <3>4. CASE t # table
            BY <2>10, <3>1, <3>2, <3>4
        <3> QED BY <3>3, <3>4
    <2> QED BY <2>13, <2>14 DEF NumberInv
<1>5. UNCHANGED documents
      \/ /\ Unique(table, job[r].sale, job[r].ref)
         /\ documents' = [documents EXCEPT ![table][r] = row]
         /\ stage'[r] = "done"
    BY DEF Insert, IInv, TypeOK, Goto
<1> QED BY <1>3, <1>4, <1>5

\* What the other steps write keeps the number and the sale of a row.
LEMMA NextNumbers ==
    NumberInv /\ IInv /\ IInv' /\ [Next]_vars => NumberInv'
<1> SUFFICES ASSUME NumberInv, IInv, IInv', [Next]_vars PROVE NumberInv'
    OBVIOUS
<1> USE DEF IInv
<1>1. ASSUME NEW sale \in SaleIds, SaleChanges(sale) PROVE NumberInv'
    BY <1>1, NumbersKept DEF SaleChanges
<1>2. ASSUME NEW r \in Requests, NEW table \in Tables, NEW sale \in SaleIds,
             ReadSale(r, table, sale)
      PROVE  NumberInv'
    BY <1>2, NumbersKept DEF TypeOK, ReadSale, Goto
<1>3. ASSUME NEW r \in Requests, FindBySale(r) PROVE NumberInv'
    BY <1>3, NumbersKept DEF TypeOK, FindBySale, Goto
<1>4. ASSUME NEW r \in Requests, GenerateRef(r) PROVE NumberInv'
    <2>1. job'[r].table = job[r].table
          /\ job'[r].ref = NextRef(job[r].table)
        BY <1>4 DEF TypeOK, GenerateRef, Job
    <2> QED BY <1>4, <2>1, NumbersKept DEF TypeOK, GenerateRef, Goto
<1>5. ASSUME NEW r \in Requests, Insert(r) PROVE NumberInv'
    BY <1>5, InsertNumbers
<1>6. ASSUME NEW r \in Requests, NEW note \in Requests, ReadNote(r, note)
      PROVE  NumberInv'
    BY <1>6, NumbersKept DEF TypeOK, ReadNote, Goto
<1>7. ASSUME NEW r \in Requests, MarkDelivered(r) PROVE NumberInv'
    <2> DEFINE note == job[r].document
               row == [documents["note"][note] EXCEPT !.status = "DELIVERED"]
    <2>1. note \in Requests /\ documents["note"][note] # None
        BY <1>7 DEF TypeOK, MarkDelivered, HandFits, Job
    <2>2. /\ row \in Document
          /\ row.ref = documents["note"][note].ref
          /\ row.sale = documents["note"][note].sale
        BY <2>1, RowFacts DEF Document, Tables
    <2>3. documents' = [documents EXCEPT !["note"][note] = row]
        BY <1>7 DEF MarkDelivered
    <2>4. row # None
        BY <2>2, NoneIsNoRow
    <2>5. \A s \in Requests : stage'[s] = "insert" =>
              stage[s] = "insert" /\ job'[s] = job[s]
        BY <1>7 DEF TypeOK, MarkDelivered, Goto
    <2> HIDE DEF row, note
    <2>6. \A t \in Tables, d \in Requests :
              \/ documents'[t][d] = documents[t][d]
              \/ t = "note" /\ d = note /\ documents'[t][d] = row
        BY <2>1, <2>3 DEF TypeOK, Tables
    <2> QED BY <2>1, <2>2, <2>4, <2>5, <2>6, NumbersKept
<1>8. ASSUME NEW r \in Requests, NEW invoice \in Requests,
             NEW amount \in Amounts, ReadInvoice(r, invoice, amount)
      PROVE  NumberInv'
    BY <1>8, NumbersKept DEF TypeOK, ReadInvoice, Goto
<1>9. ASSUME NEW r \in Requests, CommitPayment(r) PROVE NumberInv'
    <2> DEFINE invoice == job[r].document
               old == documents["invoice"][invoice]
               row == [old EXCEPT !.amountPaid = NewAmountPaid(r),
                                  !.status = NewStatus(r)]
    <2>1. invoice \in Requests /\ old # None
          /\ job[r].read \in Nat /\ job[r].amount \in Nat
        BY <1>9 DEF TypeOK, CommitPayment, HandFits, Job
    <2>2. old \in Document
        BY <2>1, RowFacts DEF Tables
    <2>3. row \in Document /\ row.ref = old.ref /\ row.sale = old.sale
        <3>1. NewAmountPaid(r) \in Nat
            BY <2>1 DEF NewAmountPaid
        <3>2. NewStatus(r) \in {"PAID", "PARTIALLY_PAID"}
            BY DEF NewStatus
        <3> HIDE DEF old
        <3> QED BY <2>2, <3>1, <3>2 DEF Document
    <2>4. documents' = [documents EXCEPT !["invoice"][invoice] = row]
        BY <1>9 DEF CommitPayment
    <2>5. row # None
        BY <2>3, NoneIsNoRow
    <2>6. \A s \in Requests : stage'[s] = "insert" =>
              stage[s] = "insert" /\ job'[s] = job[s]
        BY <1>9 DEF TypeOK, CommitPayment, Goto
    <2> HIDE DEF row, invoice
    <2>7. \A t \in Tables, d \in Requests :
              \/ documents'[t][d] = documents[t][d]
              \/ t = "invoice" /\ d = invoice /\ documents'[t][d] = row
        BY <2>1, <2>4 DEF TypeOK, Tables
    <2> QED BY <2>1, <2>3, <2>5, <2>6, <2>7, NumbersKept
<1>10. ASSUME NEW r \in Requests, Abort(r) PROVE NumberInv'
    BY <1>10, NumbersKept DEF TypeOK, Abort, Goto
<1>11. CASE UNCHANGED vars
    BY <1>11, NumbersKept DEF vars
<1> QED
    BY <1>1, <1>2, <1>3, <1>4, <1>5, <1>6, <1>7, <1>8, <1>9, <1>10, <1>11
       DEF Next, InvoicesRoutes, DeliveryNotesRoutes, PaymentsRoutes, Tables

\* For any number of requests and sales, the documents of a table are numbered
\* 1, 2, 3... and belong to as many sales, although GenerateRef counts the rows
\* and FindBySale looks for one before Insert writes: the unique keys refuse
\* whatever the count has become too old for.
THEOREM GaplessNumbers ==
    Spec => []NumbersAreGapless
<1>1. NumberInv => NumbersAreGapless
    BY NumberedIsGapless DEF NumberInv
<1>2. Spec => []NumberInv
    BY InitNumbers, NextNumbers, BillingInvariant, PTL DEF Spec
<1> QED BY <1>1, <1>2, PTL

-----------------------------------------------------------------------------
(***************************************************************************)
(* The payments.  A request pays once, of an invoice that exists, and what *)
(* it has read was covered by payments; payments are only ever added, so   *)
(* it still is when the request writes, however many others have paid in   *)
(* between.  The amount written is then covered too: by the payments that  *)
(* covered the read, and by the payment written with it.                   *)
(***************************************************************************)

PaymentInHand(r) ==
    /\ stage[r] # "done" => payments[r] = None
    /\ payments[r] # None => documents["invoice"][payments[r].invoice] # None
    /\ stage[r] = "write" /\ job[r].kind = "pay" =>
         job[r].read <= PaymentsTotal(job[r].document)

\* Of an invoice: what it counts as paid, against its payments and its total.
Covered(d) ==
    documents["invoice"][d] # None =>
        /\ documents["invoice"][d].amountPaid <= PaymentsTotal(d)
        /\ documents["invoice"][d].amountPaid > 0 =>
             documents["invoice"][d].amountPaid <= Total(d)
        /\ d \notin raced =>
             documents["invoice"][d].amountPaid = PaymentsTotal(d)

PaymentInv ==
    /\ \A r \in Requests : PaymentInHand(r)
    /\ \A d \in Requests : Covered(d)

\* The payments of an invoice add up to a natural number, to zero when there
\* are none.
LEMMA TotalNat ==
    ASSUME TypeOK, NEW d
    PROVE  PaymentsTotal(d) \in Nat
<1>1. \A r \in Requests : PaidBy(d)[r] \in Nat
    BY DEF TypeOK, PaidBy, Payment
<1> QED BY <1>1, SumNat, BillingAssumption DEF PaymentsTotal

LEMMA TotalOfNone ==
    ASSUME NEW d, \A r \in Requests : payments[r] = None \/ payments[r].invoice # d
    PROVE  PaymentsTotal(d) = 0
<1>1. \A r \in Requests : PaidBy(d)[r] = 0
    BY DEF PaidBy
<1> QED BY <1>1, SumZero, BillingAssumption DEF PaymentsTotal

LEMMA InitPayments ==
    Init => PaymentInv
<1> SUFFICES ASSUME Init PROVE PaymentInv
    OBVIOUS
<1>1. \A r \in Requests : PaymentInHand(r)
    BY DEF Init, PaymentInHand
<1>2. \A d \in Requests : Covered(d)
    BY DEF Init, Covered, Tables
<1> QED BY <1>1, <1>2 DEF PaymentInv

\* A step that pays nothing: an invoice it inserts is unpaid, and what it has
\* read of an invoice is what the invoice counts as paid.
LEMMA PaymentsKept ==
    ASSUME PaymentInv, TypeOK, UNCHANGED <<payments, raced>>,
           \A d \in Requests :
               IF documents["invoice"][d] # None
               THEN /\ documents'["invoice"][d] # None
                    /\ documents'["invoice"][d].amountPaid
                         = documents["invoice"][d].amountPaid
                    /\ documents'["invoice"][d].sale
                         = documents["invoice"][d].sale
               ELSE documents'["invoice"][d] # None =>
                      documents'["invoice"][d].amountPaid = 0,
           \A r \in Requests :
               /\ stage[r] = "done" => stage'[r] = "done"
               /\ stage'[r] = "write" /\ job'[r].kind = "pay" =>
                    \/ stage[r] = "write" /\ job'[r] = job[r]
                    \/ /\ job'[r].document \in Requests
                       /\ documents["invoice"][job'[r].document] # None
                       /\ job'[r].read
                            = documents["invoice"][job'[r].document].amountPaid
    PROVE  PaymentInv'
<1>1. \A d : PaymentsTotal(d)' = PaymentsTotal(d)
    BY DEF PaymentsTotal, PaidBy
<1>2. ASSUME NEW r \in Requests PROVE PaymentInHand(r)'
    <2>1. PaymentInHand(r)
        BY DEF PaymentInv
    <2>2. payments'[r] # None =>
              documents'["invoice"][payments'[r].invoice] # None
        <3>1. payments[r] # None => payments[r].invoice \in Requests
            BY DEF TypeOK, Payment
        <3> QED BY <2>1, <3>1 DEF PaymentInHand
    <2>3. stage'[r] = "write" /\ job'[r].kind = "pay" =>
              job'[r].read <= PaymentsTotal(job'[r].document)
        BY <2>1 DEF PaymentInHand, PaymentInv, Covered
    <2>4. stage'[r] # "done" => payments'[r] = None
        BY <2>1 DEF PaymentInHand
    <2> QED BY <1>1, <2>2, <2>3, <2>4 DEF PaymentInHand
<1>3. ASSUME NEW d \in Requests PROVE Covered(d)'
    <2>1. CASE documents["invoice"][d] # None
        <3>1. Covered(d)
            BY DEF PaymentInv
        <3> QED BY <1>1, <2>1, <3>1 DEF Covered, Total
    <2>2. CASE documents["invoice"][d] = None
        <3>1. PaymentsTotal(d) = 0
            BY <2>2, TotalOfNone DEF PaymentInv, PaymentInHand
        <3> QED BY <1>1, <2>2, <3>1 DEF Covered
    <2> QED BY <2>1, <2>2
<1> QED BY <1>2, <1>3 DEF PaymentInv

LEMMA InsertPayments ==
    ASSUME PaymentInv, IInv, NEW r \in Requests, Insert(r)
    PROVE  PaymentInv'
<1> DEFINE table == job[r].table
           row == [sale |-> job[r].sale, ref |-> job[r].ref, amountPaid |-> 0,
                   status |-> IF table = "invoice" THEN "UNPAID"
                                                   ELSE "PREPARING"]
<1>1. table \in Tables /\ documents[table][r] = None
    BY DEF IInv, TypeOK, Insert, HandFits, Job
<1>2. \/ documents' = [documents EXCEPT ![table][r] = row]
      \/ UNCHANGED documents
    BY DEF Insert
<1>3. row.amountPaid = 0
    OBVIOUS
<1>4. \A s \in Requests :
          /\ stage[s] = "done" => stage'[s] = "done"
          /\ stage'[s] = "write" => stage[s] = "write"
    BY DEF IInv, TypeOK, Insert, Goto
<1>5. job' = job /\ UNCHANGED <<payments, raced>>
    BY DEF Insert
<1> HIDE DEF row, table
<1>6. \A d \in Requests :
          \/ documents'["invoice"][d] = documents["invoice"][d]
          \/ documents["invoice"][d] = None /\ documents'["invoice"][d] = row
    BY <1>1, <1>2 DEF IInv, TypeOK, Tables
<1> QED BY <1>3, <1>4, <1>5, <1>6, PaymentsKept DEF IInv

\* The payment and the amount it leaves on the invoice.
LEMMA CommitPayments ==
    ASSUME PaymentInv, IInv, IInv', NEW r \in Requests, CommitPayment(r)
    PROVE  PaymentInv'
<1> DEFINE row == [documents["invoice"][job[r].document]
                     EXCEPT !.amountPaid = NewAmountPaid(r),
                            !.status = NewStatus(r)]
           paid == [invoice |-> job[r].document, amount |-> job[r].amount]
<1> PICK invoice \in Requests : invoice = job[r].document
    BY DEF IInv, TypeOK, Job
<1>1. /\ documents["invoice"][invoice] # None
      /\ job[r].read \in Nat
      /\ job[r].amount \in Nat \ {0}
      /\ NewAmountPaid(r) <= Total(invoice)
      /\ payments[r] = None
      /\ job[r].read <= PaymentsTotal(invoice)
    BY DEF IInv, TypeOK, CommitPayment, HandFits, Job, PaymentInv, PaymentInHand
<1>2. documents["invoice"][invoice] \in Document
    BY <1>1, RowFacts DEF IInv, Tables
<1>3. /\ row.sale = documents["invoice"][invoice].sale
      /\ row.amountPaid = job[r].read + job[r].amount
    BY <1>2 DEF Document, NewAmountPaid
<1>4. documents' = [documents EXCEPT !["invoice"][invoice] = row]
    BY DEF CommitPayment
<1>5. paid \in Payment /\ paid.invoice = invoice /\ paid.amount = job[r].amount
    BY <1>1 DEF Payment
<1>6. paid # None
    BY <1>5, NoneIsNoRow
<1>7. payments' = [payments EXCEPT ![r] = paid]
    BY DEF CommitPayment
<1>8. /\ \A s \in Requests \ {r} : stage'[s] = stage[s] /\ job'[s] = job[s]
      /\ stage'[r] = "done"
    BY DEF IInv, TypeOK, CommitPayment, Goto
<1> HIDE DEF row, paid
<1>9. /\ payments'[r] = paid
      /\ \A s \in Requests \ {r} : payments'[s] = payments[s]
    BY <1>7 DEF IInv, TypeOK
<1>10. /\ documents'["invoice"][invoice] = row
       /\ \A d \in Requests \ {invoice} :
             documents'["invoice"][d] = documents["invoice"][d]
    BY <1>4 DEF IInv, TypeOK, Tables
<1>11. row # None
    <2>1. row \in Document
        <3>1. NewAmountPaid(r) \in Nat /\ NewStatus(r) \in {"PAID", "PARTIALLY_PAID"}
            BY <1>1 DEF NewAmountPaid, NewStatus
        <3> QED BY <1>2, <3>1 DEF Document, row
    <2> QED BY <2>1, NoneIsNoRow
<1>12. PaymentsTotal(invoice)' = PaymentsTotal(invoice) + job[r].amount
    <2> DEFINE F == PaidBy(invoice)
               H == PaidBy(invoice)'
    <2>1. \A s \in Requests : F[s] \in Int /\ H[s] \in Int
        BY DEF IInv, TypeOK, PaidBy, Payment
    <2>2. \A s \in Requests \ {r} : H[s] = F[s]
        BY <1>9 DEF PaidBy
    <2>3. F[r] = 0 /\ H[r] = job[r].amount
        BY <1>1, <1>5, <1>6, <1>9 DEF PaidBy
    <2> HIDE DEF F, H
    <2>4. ChangesAt(F, H, Requests, r)
        BY <2>1, <2>2 DEF ChangesAt
    <2>5. SumFunctionOnSet(H, Requests)
            = SumFunctionOnSet(F, Requests) + (H[r] - F[r])
        BY <2>4, SumUpdate, BillingAssumption
    <2>6. SumFunctionOnSet(F, Requests) = PaymentsTotal(invoice)
          /\ SumFunctionOnSet(H, Requests) = PaymentsTotal(invoice)'
        BY DEF PaymentsTotal, F, H
    <2> QED BY <1>1, <2>3, <2>5, <2>6
<1>13. ASSUME NEW d \in Requests, d # invoice
       PROVE  PaymentsTotal(d)' = PaymentsTotal(d)
    <2>1. \A s \in Requests : PaidBy(d)'[s] = PaidBy(d)[s]
        BY <1>1, <1>5, <1>9, <1>13 DEF PaidBy
    <2>2. PaidBy(d)' = PaidBy(d)
        BY <2>1 DEF PaidBy
    <2> QED BY <2>2 DEF PaymentsTotal
<1>14. PaymentsTotal(invoice) \in Nat
    BY TotalNat DEF IInv
<1>15. ASSUME NEW s \in Requests PROVE PaymentInHand(s)'
    <2>1. PaymentInHand(s)
        BY DEF PaymentInv
    <2>2. CASE s = r
        BY <1>5, <1>8, <1>9, <1>10, <1>11, <2>2 DEF PaymentInHand
    <2>3. CASE s # r
        <3>1. payments[s] # None => payments[s].invoice \in Requests
            BY DEF IInv, TypeOK, Payment
        <3>2. job[s].document \in Requests /\ job[s].read \in Nat
            BY DEF IInv, TypeOK, Job
        <3>3. ASSUME stage[s] = "write", job[s].kind = "pay"
              PROVE  job'[s].read <= PaymentsTotal(job[s].document)'
            <4> PICK d \in Requests : d = job[s].document
                BY <3>2
            <4>1. job'[s] = job[s]
                BY <1>8, <2>3
            <4>2. job[s].read <= PaymentsTotal(d)
                BY <2>1, <3>3 DEF PaymentInHand
            <4>3. PaymentsTotal(d) \in Nat
                BY TotalNat DEF IInv
            <4>4. PaymentsTotal(d) <= PaymentsTotal(d)'
                BY <1>1, <1>12, <1>13, <1>14, <4>3
            <4>5. PaymentsTotal(d)' \in Int
                BY <1>1, <1>12, <1>13, <1>14, <4>3
            <4>6. job[s].read <= PaymentsTotal(d)'
                BY <3>2, <4>2, <4>3, <4>4, <4>5
            <4> QED BY <4>1, <4>6
        <3>4. payments'[s] # None =>
                  documents'["invoice"][payments'[s].invoice] # None
            BY <1>9, <1>10, <1>11, <2>1, <2>3, <3>1 DEF PaymentInHand
        <3> QED BY <1>8, <1>9, <2>1, <2>3, <3>3, <3>4 DEF PaymentInHand
    <2> QED BY <2>2, <2>3
<1>16. ASSUME NEW d \in Requests PROVE Covered(d)'
    <2>1. Covered(d)
        BY DEF PaymentInv
    <2>2. CASE d = invoice
        <3>1. invoice \notin raced' =>
                  /\ invoice \notin raced
                  /\ documents["invoice"][invoice].amountPaid = job[r].read
            BY DEF CommitPayment
        <3>2. Total(invoice)' = Total(invoice)
            BY <1>3, <1>10 DEF Total
        <3>3. invoice \notin raced' => row.amountPaid = PaymentsTotal(invoice)'
            BY <1>1, <1>3, <1>12, <2>1, <2>2, <3>1 DEF Covered
        <3>4. row.amountPaid <= PaymentsTotal(invoice)'
            BY <1>1, <1>3, <1>12, <1>14
        <3>5. row.amountPaid <= Total(invoice)'
            BY <1>1, <1>3, <3>2 DEF NewAmountPaid
        <3> QED BY <1>10, <2>2, <3>3, <3>4, <3>5 DEF Covered
    <2>3. CASE d # invoice
        <3>1. d \notin raced' => d \notin raced
            BY DEF CommitPayment
        <3>2. Total(d)' = Total(d)
            BY <1>10, <2>3 DEF Total
        <3> QED BY <1>10, <1>13, <2>1, <2>3, <3>1, <3>2 DEF Covered
    <2> QED BY <2>2, <2>3
<1> QED BY <1>15, <1>16 DEF PaymentInv

LEMMA NextPayments ==
    PaymentInv /\ IInv /\ IInv' /\ [Next]_vars => PaymentInv'
<1> SUFFICES ASSUME PaymentInv, IInv, IInv', [Next]_vars PROVE PaymentInv'
    OBVIOUS
<1>a. TypeOK
    BY DEF IInv
<1>1. ASSUME NEW sale \in SaleIds, SaleChanges(sale) PROVE PaymentInv'
    BY <1>1, <1>a, PaymentsKept DEF SaleChanges
<1>2. ASSUME NEW r \in Requests, NEW table \in Tables, NEW sale \in SaleIds,
             ReadSale(r, table, sale)
      PROVE  PaymentInv'
    BY <1>2, <1>a, PaymentsKept DEF TypeOK, ReadSale, Goto
<1>3. ASSUME NEW r \in Requests, FindBySale(r) PROVE PaymentInv'
    BY <1>3, <1>a, PaymentsKept DEF TypeOK, FindBySale, Goto
<1>4. ASSUME NEW r \in Requests, GenerateRef(r) PROVE PaymentInv'
    BY <1>4, <1>a, PaymentsKept DEF TypeOK, GenerateRef, Goto
<1>5. ASSUME NEW r \in Requests, Insert(r) PROVE PaymentInv'
    BY <1>5, InsertPayments
<1>6. ASSUME NEW r \in Requests, NEW note \in Requests, ReadNote(r, note)
      PROVE  PaymentInv'
    <2>1. job'[r].kind = "deliver"
        BY <1>6, <1>a DEF TypeOK, ReadNote, Job
    <2> QED BY <1>6, <1>a, <2>1, PaymentsKept DEF TypeOK, ReadNote, Goto
<1>7. ASSUME NEW r \in Requests, MarkDelivered(r) PROVE PaymentInv'
    <2>1. documents'["invoice"] = documents["invoice"]
        BY <1>7, <1>a DEF TypeOK, Tables, MarkDelivered
    <2> QED BY <1>7, <1>a, <2>1, PaymentsKept DEF TypeOK, MarkDelivered, Goto
<1>8. ASSUME NEW r \in Requests, NEW invoice \in Requests,
             NEW amount \in Amounts, ReadInvoice(r, invoice, amount)
      PROVE  PaymentInv'
    <2>1. /\ job'[r].document = invoice
          /\ job'[r].read = documents["invoice"][invoice].amountPaid
          /\ documents["invoice"][invoice] # None
        BY <1>8, <1>a DEF TypeOK, ReadInvoice, Rows, Job
    <2>2. \A s \in Requests \ {r} : stage'[s] = stage[s] /\ job'[s] = job[s]
        BY <1>8, <1>a DEF TypeOK, ReadInvoice, Goto
    <2>3. stage[r] = "idle" /\ UNCHANGED <<documents, payments, raced>>
        BY <1>8 DEF ReadInvoice
    <2> QED BY <1>a, <2>1, <2>2, <2>3, PaymentsKept
<1>9. ASSUME NEW r \in Requests, CommitPayment(r) PROVE PaymentInv'
    BY <1>9, CommitPayments
<1>10. ASSUME NEW r \in Requests, Abort(r) PROVE PaymentInv'
    BY <1>10, <1>a, PaymentsKept DEF TypeOK, Abort, Goto
<1>11. CASE UNCHANGED vars
    BY <1>11, <1>a, PaymentsKept DEF vars
<1> QED
    BY <1>1, <1>2, <1>3, <1>4, <1>5, <1>6, <1>7, <1>8, <1>9, <1>10, <1>11
       DEF Next, InvoicesRoutes, DeliveryNotesRoutes, PaymentsRoutes, Tables

\* What the requests hold of payments and what every invoice counts as paid,
\* together.
THEOREM PaymentsInvariant ==
    Spec => []PaymentInv
<1> QED BY InitPayments, NextPayments, BillingInvariant, PTL DEF Spec

\* For any number of payments in any order, an invoice never counts more than
\* it has received, nor more than its total: CommitPayment may write over the
\* amount of another payment, but never more than its own read and its own
\* amount, and both were covered.
THEOREM NeverOverpaid ==
    Spec => []PaidWithinPayments
<1>1. PaymentInv => PaidWithinPayments
    BY DEF PaymentInv, Covered, PaidWithinPayments, Rows
<1> QED BY <1>1, PaymentsInvariant, PTL

\* The amount paid of an invoice that no payment wrote from a stale read is
\* exactly what its payments add up to.
THEOREM CleanInvoicesBalance ==
    Spec => []CleanPaidIsPaymentsTotal
<1>1. PaymentInv => CleanPaidIsPaymentsTotal
    BY DEF PaymentInv, Covered, CleanPaidIsPaymentsTotal, Rows
<1> QED BY <1>1, PaymentsInvariant, PTL

-----------------------------------------------------------------------------
(***************************************************************************)
(* The finance page.  What a query returns agrees with the rows of the     *)
(* state it sees: a sum split by a test, or grouped by a key, is still the *)
(* sum, and what the invoices count as paid is, invoice by invoice, within *)
(* the payments.  What the page has of them stays right while requests     *)
(* commit beside it, because the payments of a page only grow.             *)
(***************************************************************************)

\* The summands.
LEMMA FiguresTyped ==
    ASSUME TypeOK
    PROVE  /\ IsFiniteSet(Invoices)
           /\ IsFiniteSet(OpenInvoices)
           /\ \A d \in Invoices : /\ Totals[d] \in Int
                                  /\ AmountsPaid[d] \in Nat
                                  /\ Balances[d] = Totals[d] - AmountsPaid[d]
<1>1. IsFiniteSet(Invoices) /\ IsFiniteSet(OpenInvoices)
    BY FS_Subset, BillingAssumption DEF Invoices, OpenInvoices, Rows
<1>2. ASSUME NEW d \in Invoices
      PROVE  /\ Totals[d] \in Int
             /\ AmountsPaid[d] \in Nat
             /\ Balances[d] = Totals[d] - AmountsPaid[d]
    <2>1. /\ documents["invoice"][d] \in Document
          /\ TotalAmount[documents["invoice"][d].sale] \in Int
        BY RowFacts DEF Invoices, Rows, Tables
    <2>2. documents["invoice"][d].amountPaid \in Nat
        BY <2>1 DEF Document
    <2> QED BY <2>1, <2>2 DEF Totals, AmountsPaid, Balances, Total, Invoice
<1> QED BY <1>1, <1>2

\* What is invoiced is collected or outstanding: an invoice that is paid has
\* no balance.
LEMMA InvoicedIsCollectedOrOpen ==
    ASSUME TypeOK, StatusFollowsAmount
    PROVE  Kpis.totalInvoiced = Kpis.totalCollected + Kpis.outstandingBalance
<1>1. \A d \in Invoices : /\ Totals[d] \in Int
                          /\ AmountsPaid[d] \in Int
                          /\ Balances[d] \in Int
                          /\ Totals[d] = AmountsPaid[d] + Balances[d]
    BY FiguresTyped
<1>2. Adds(AmountsPaid, Balances, Totals, Invoices)
    BY <1>1 DEF Adds
<1>3. SumFunctionOnSet(Totals, Invoices)
        = SumFunctionOnSet(AmountsPaid, Invoices)
            + SumFunctionOnSet(Balances, Invoices)
    BY <1>2, SumPlus, FiguresTyped
<1>4. \A d \in Invoices \ OpenInvoices : Balances[d] = 0
    <2> SUFFICES ASSUME NEW d \in Invoices \ OpenInvoices
                 PROVE  Balances[d] = 0
        OBVIOUS
    <2>1. documents["invoice"][d].status = "PAID"
        BY DEF OpenInvoices, Invoice
    <2>2. documents["invoice"][d].amountPaid = Total(d)
        BY <2>1 DEF StatusFollowsAmount, Invoices
    <2>3. Totals[d] = AmountsPaid[d]
        BY <2>2 DEF Totals, AmountsPaid, Invoice
    <2> QED BY <1>1, <2>3
<1>5. SumFunctionOnSet(Balances, Invoices)
        = SumFunctionOnSet(Balances, OpenInvoices)
    <2>1. OpenInvoices \in SUBSET Invoices
        BY DEF OpenInvoices
    <2> QED BY <1>1, <1>4, <2>1, SumSupport, FiguresTyped
<1> QED BY <1>3, <1>5 DEF Kpis

\* The payments, grouped by invoice.
LEMMA PaidByInvoice ==
    ASSUME TypeOK, PaymentInv
    PROVE  SumFunctionOnSet([d \in Invoices |-> PaymentsTotal(d)], Invoices)
             = Paid(Payers)
<1> DEFINE amount == Amount
           target == [r \in Payers |-> payments[r].invoice]
           totals == [d \in Invoices |-> PaymentsTotal(d)]
<1>1. IsFiniteSet(Payers) /\ Payers \subseteq Requests
    BY FS_Subset, BillingAssumption DEF Payers
<1>2. \A r \in Payers : amount[r] \in Nat /\ target[r] \in Invoices
    <2> SUFFICES ASSUME NEW r \in Payers
                 PROVE  amount[r] \in Nat /\ target[r] \in Invoices
        OBVIOUS
    <2>1. payments[r] \in Payment /\ r \in Requests
        BY DEF Payers, TypeOK
    <2>2. documents["invoice"][payments[r].invoice] # None
        BY <2>1 DEF PaymentInv, PaymentInHand, Payers
    <2> QED BY <2>1, <2>2 DEF Payment, Invoices, Rows, Amount
<1>3. \A d \in Invoices : totals[d]
          = SumFunctionOnSet(amount, {r \in Payers : target[r] = d})
    <2> SUFFICES ASSUME NEW d \in Invoices
                 PROVE  totals[d] = SumFunctionOnSet(amount,
                                      {r \in Payers : target[r] = d})
        OBVIOUS
    <2> DEFINE own == {r \in Payers : target[r] = d}
               F == PaidBy(d)
    <2>1. own \in SUBSET Requests /\ IsFiniteSet(own)
        BY <1>1, FS_Subset
    <2>2. \A r \in own : amount[r] \in Int /\ F[r] = amount[r]
        BY <1>1, <1>2 DEF PaidBy, Payers, Amount
    <2>3. \A r \in Requests \ own : F[r] = 0
        BY DEF PaidBy, Payers
    <2>4. totals[d] = SumFunctionOnSet(F, Requests)
        BY DEF PaymentsTotal
    <2> HIDE DEF own, F, amount, totals
    <2>5. SumFunctionOnSet(F, Requests) = SumFunctionOnSet(F, own)
        BY <2>1, <2>2, <2>3, SumSupport, BillingAssumption
    <2>6. SumFunctionOnSet(F, own) = SumFunctionOnSet(amount, own)
        BY <2>1, <2>2, SumSame
    <2> QED BY <2>4, <2>5, <2>6 DEF own
<1> HIDE DEF amount, target, totals
<1>4. Groups(amount, Payers, target, Invoices, totals)
    BY <1>2, <1>3 DEF Groups
<1>5. SumFunctionOnSet(totals, Invoices) = SumFunctionOnSet(amount, Payers)
    BY <1>1, <1>4, SumGroups, FiguresTyped
<1>6. Paid(Payers) = SumFunctionOnSet(amount, Payers)
    BY DEF Paid, amount
<1> QED BY <1>5, <1>6 DEF totals

\* The collections of the KPIs are within the payments, and equal to
\* them while no payments have raced.
LEMMA CollectionsAgree ==
    ASSUME TypeOK, PaymentInv
    PROVE  /\ Kpis.totalCollected <= Paid(Payers)
           /\ raced = {} => Kpis.totalCollected = Paid(Payers)
<1> DEFINE totals == [d \in Invoices |-> PaymentsTotal(d)]
<1>1. \A d \in Invoices : /\ AmountsPaid[d] \in Int
                          /\ totals[d] \in Int
                          /\ AmountsPaid[d] <= totals[d]
                          /\ raced = {} => totals[d] = AmountsPaid[d]
    <2> SUFFICES ASSUME NEW d \in Invoices
                 PROVE  /\ AmountsPaid[d] \in Int
                        /\ totals[d] \in Int
                        /\ AmountsPaid[d] <= totals[d]
                        /\ raced = {} => totals[d] = AmountsPaid[d]
        OBVIOUS
    <2>1. AmountsPaid[d] \in Int /\ totals[d] \in Int
        BY FiguresTyped, TotalNat
    <2>2. Covered(d) /\ documents["invoice"][d] # None
        BY DEF PaymentInv, Invoices, Rows
    <2>3. AmountsPaid[d] = documents["invoice"][d].amountPaid
        BY DEF AmountsPaid, Invoice
    <2> QED BY <2>1, <2>2, <2>3 DEF Covered
<1>2. Kpis.totalCollected = SumFunctionOnSet(AmountsPaid, Invoices)
    BY DEF Kpis
<1>3. Paid(Payers) = SumFunctionOnSet(totals, Invoices)
    BY PaidByInvoice
<1> HIDE DEF totals
<1>4. AtMost(AmountsPaid, totals, Invoices)
    BY <1>1 DEF AtMost
<1>5. SumFunctionOnSet(AmountsPaid, Invoices) <= SumFunctionOnSet(totals, Invoices)
    BY <1>4, SumMono, FiguresTyped
<1>6. ASSUME raced = {}
      PROVE  SumFunctionOnSet(totals, Invoices)
               = SumFunctionOnSet(AmountsPaid, Invoices)
    BY <1>1, <1>6, SumSame, FiguresTyped
<1> QED BY <1>2, <1>3, <1>5, <1>6

-----------------------------------------------------------------------------
\* What the page has: dated payments, a set of days that is in the past, and
\* the figures of the invoices, the payments and the days it has been answered.
Queries == {"invoices", "payments", "days"}

Figures == [totalInvoiced : Int, totalCollected : Int, outstandingBalance : Int]

Page == [asked : BOOLEAN, since : Int, answers : SUBSET Queries, kpis : Figures,
         payments : SUBSET Requests, days : SUBSET Int, known : SUBSET Requests]

PageTyped ==
    /\ today \in Int
    /\ paidOn \in [Requests -> Int]
    /\ page \in Page

Dated ==
    /\ \A r \in Requests : paidOn[r] <= today
    /\ page.known \subseteq Payers
    /\ page.asked => page.since + TrendDays <= today + 1

KpisFit ==
    "invoices" \in page.answers =>
        /\ page.kpis.totalInvoiced
             = page.kpis.totalCollected + page.kpis.outstandingBalance
        /\ page.kpis.totalCollected <= Paid(Payers)
        /\ raced = {} => Paid(page.known) <= page.kpis.totalCollected

PaymentsFit ==
    "payments" \in page.answers =>
        /\ page.payments \subseteq Payers
        /\ \A r \in page.known : paidOn[r] >= page.since => r \in page.payments

DaysFit ==
    "days" \in page.answers =>
        /\ "payments" \in page.answers
        /\ \E last \in Int :
             /\ page.days = (last - TrendDays + 1) .. last
             /\ page.since + TrendDays <= last + 1
             /\ \A r \in page.payments \cup page.known : paidOn[r] <= last

PageInv == PageTyped /\ Dated /\ KpisFit /\ PaymentsFit /\ DaysFit

\* A page keeps what it has while the payments committed so far stay as they
\* are and nothing unmarks a race.
PaymentsGrow ==
    /\ Payers \subseteq Payers'
    /\ \A r \in Payers : payments'[r] = payments[r] /\ paidOn'[r] = paidOn[r]
    /\ raced \subseteq raced'

\* Some of the payments.
LEMMA PaidNat ==
    ASSUME TypeOK, NEW T \in SUBSET Payers
    PROVE  /\ IsFiniteSet(T)
           /\ \A r \in T : Amount[r] \in Nat
           /\ Paid(T) \in Nat
<1>1. IsFiniteSet(T)
    BY FS_Subset, BillingAssumption DEF Payers
<1>2. \A r \in T : Amount[r] \in Nat
    BY DEF TypeOK, Payers, Payment, Amount
<1> QED BY <1>1, <1>2, SumNat DEF Paid

\* Some of these, and the others.
LEMMA PaidPart ==
    ASSUME TypeOK, NEW T \in SUBSET Payers, NEW S \in SUBSET T
    PROVE  Paid(T) = Paid(S) + Paid(T \ S) /\ Paid(S) <= Paid(T)
BY PaidNat, SumPart DEF Paid

\* What was paid stays paid, and is part of what is paid later.
LEMMA PaidGrows ==
    ASSUME TypeOK, TypeOK', PaymentsGrow, NEW T \in SUBSET Payers
    PROVE  /\ SumFunctionOnSet(Amount', T) = Paid(T)
           /\ Paid(T) <= Paid(Payers)'
<1>1. IsFiniteSet(T) /\ \A r \in T : Amount[r] \in Int
    BY PaidNat
<1>2. \A r \in T : Amount'[r] = Amount[r]
    BY DEF PaymentsGrow, Amount
<1>3. SumFunctionOnSet(Amount', T) = SumFunctionOnSet(Amount, T)
    BY <1>1, <1>2, SumSame
<1>4. IsFiniteSet(Payers') /\ T \in SUBSET Payers'
    BY FS_Subset, BillingAssumption DEF Payers, PaymentsGrow
<1>5. \A r \in Payers' : Amount'[r] \in Nat
    BY DEF TypeOK, Payers, Payment, Amount
<1>6. SumFunctionOnSet(Amount', T) <= SumFunctionOnSet(Amount', Payers')
    BY <1>4, <1>5, SumPart
<1> QED BY <1>3, <1>6 DEF Paid

-----------------------------------------------------------------------------
\* The steps beside the page.

LEMMA NoPageTyped ==
    NoPage \in Page
<1>1. NoPage.kpis \in Figures
    BY DEF NoPage, Figures
<1> HIDE DEF Figures
<1> QED BY <1>1 DEF NoPage, Page, Queries

LEMMA InitPage ==
    FinanceInit => PageInv
<1> SUFFICES ASSUME FinanceInit PROVE PageInv
    OBVIOUS
<1>1. PageTyped
    BY NoPageTyped DEF FinanceInit, PageTyped
<1>2. Dated
    BY DEF FinanceInit, NoPage, Dated
<1>3. KpisFit /\ PaymentsFit /\ DaysFit
    BY DEF FinanceInit, NoPage, KpisFit, PaymentsFit, DaysFit
<1> QED BY <1>1, <1>2, <1>3 DEF PageInv

LEMMA PageKept ==
    ASSUME TypeOK, TypeOK', PageInv, PaymentsGrow, UNCHANGED page,
           today' \in Int, today <= today',
           paidOn' \in [Requests -> Int],
           \A r \in Requests : paidOn'[r] <= today'
    PROVE  PageInv'
<1>1. PageTyped'
    BY DEF PageInv, PageTyped
<1>2. page.known \subseteq Payers /\ page.since \in Int /\ TrendDays \in Int
    BY FinanceAssumption DEF PageInv, PageTyped, Page, Dated
<1>3. Dated'
    <2>1. page.known \subseteq Payers'
        BY <1>2 DEF PaymentsGrow
    <2>2. page.asked => page.since + TrendDays <= today' + 1
        BY <1>2 DEF PageInv, PageTyped, Dated
    <2> QED BY <2>1, <2>2 DEF Dated
<1>4. KpisFit'
    <2>1. Paid(page.known)' = Paid(page.known)
        BY <1>2, PaidGrows DEF Paid
    <2>2. Paid(Payers) <= Paid(Payers)'
        BY PaidGrows
    <2>3. /\ Paid(Payers) \in Int /\ Paid(Payers)' \in Int
          /\ page.kpis.totalCollected \in Int
        <3>1. SumFunctionOnSet(Amount', Payers') \in Int
            <4>1. IsFiniteSet(Payers')
                BY FS_Subset, BillingAssumption DEF Payers
            <4>2. \A r \in Payers' : Amount'[r] \in Int
                BY DEF TypeOK, Payers, Payment, Amount
            <4> QED BY <4>1, <4>2, SumInt
        <3> QED BY <3>1, PaidNat DEF PageInv, PageTyped, Page, Figures, Paid
    <2> QED BY <2>1, <2>2, <2>3 DEF KpisFit, PaymentsGrow, PageInv
<1>5. PaymentsFit'
    BY <1>2 DEF PaymentsFit, PaymentsGrow, PageInv
<1>6. DaysFit'
    BY <1>2 DEF DaysFit, PaymentsFit, PaymentsGrow, PageInv
<1> QED BY <1>1, <1>3, <1>4, <1>5, <1>6 DEF PageInv

\* A request that has not paid has no payment, and no request pays twice.
LEMMA BeginPaymentKeeps ==
    ASSUME IInv, IInv', PaymentInv, PageInv, NEW r \in Requests, BeginPayment(r)
    PROVE  PageInv'
<1>1. payments[r] = None /\ UNCHANGED <<payments, raced>>
    BY DEF PaymentInv, PaymentInHand, BeginPayment, PaymentsRoutes, ReadInvoice
<1>2. paidOn' = [paidOn EXCEPT ![r] = today] /\ UNCHANGED <<today, page>>
    BY DEF BeginPayment
<1>3. PaymentsGrow
    BY <1>1, <1>2 DEF PaymentsGrow, Payers, PageInv, PageTyped
<1> QED BY <1>2, <1>3, PageKept DEF IInv, PageInv, PageTyped, Dated

LEMMA DatePaymentKeeps ==
    ASSUME IInv, IInv', PaymentInv, PageInv, NEW r \in Requests, DatePayment(r)
    PROVE  PageInv'
<1>1. /\ payments[r] = None
      /\ \A s \in Requests \ {r} : payments'[s] = payments[s]
      /\ raced \subseteq raced'
    BY DEF IInv, TypeOK, PaymentInv, PaymentInHand, DatePayment, CommitPayment
<1>2. PICK day \in paidOn[r] .. today : paidOn' = [paidOn EXCEPT ![r] = day]
    BY Zenon DEF DatePayment
<1>3. UNCHANGED <<today, page>>
    BY DEF DatePayment
<1>4. day \in Int /\ day <= today
    BY <1>2 DEF PageInv, PageTyped
<1>5. PaymentsGrow
    BY <1>1, <1>2, <1>4 DEF PaymentsGrow, Payers, PageInv, PageTyped
<1> QED BY <1>2, <1>3, <1>4, <1>5, PageKept DEF IInv, PageInv, PageTyped, Dated

LEMMA OtherStepKeeps ==
    ASSUME IInv, IInv', PaymentInv, PageInv, OtherStep
    PROVE  PageInv'
<1>1. UNCHANGED <<payments, raced, today, paidOn, page>>
    BY DEF OtherStep, SaleChanges, InvoicesRoutes, DeliveryNotesRoutes, ReadSale,
           ReadNote, FindBySale, GenerateRef, Insert, MarkDelivered, Abort
<1>2. PaymentsGrow
    BY <1>1 DEF PaymentsGrow, Payers
<1> QED BY <1>1, <1>2, PageKept DEF IInv, PageInv, PageTyped, Dated

LEMMA MidnightKeeps ==
    ASSUME IInv, IInv', PageInv, Midnight
    PROVE  PageInv'
<1>1. UNCHANGED <<payments, raced, paidOn, page>> /\ today' = today + 1
    BY DEF Midnight, vars
<1>2. PaymentsGrow
    BY <1>1 DEF PaymentsGrow, Payers
<1> QED BY <1>1, <1>2, PageKept DEF IInv, PageInv, PageTyped, Dated

-----------------------------------------------------------------------------
\* The steps of the page.

LEMMA GetSummaryKeeps ==
    ASSUME PageInv, GetSummary
    PROVE  PageInv'
<1>1. page' = [NoPage EXCEPT !.asked = TRUE, !.since = Since, !.known = Payers]
      /\ UNCHANGED <<payments, today, paidOn>>
    BY DEF GetSummary, vars
<1>2. /\ Since \in Int /\ Since + TrendDays = today + 1
      /\ Payers' = Payers /\ Payers \in SUBSET Requests
    BY <1>1, FinanceAssumption DEF PageInv, PageTyped, Since, Payers
<1>3. PageTyped'
    BY <1>1, <1>2, NoPageTyped DEF PageInv, PageTyped, Page
<1>4. Dated'
    BY <1>1, <1>2 DEF PageInv, PageTyped, Dated, NoPage
<1>5. KpisFit' /\ PaymentsFit' /\ DaysFit'
    BY <1>1 DEF KpisFit, PaymentsFit, DaysFit, NoPage
<1> QED BY <1>3, <1>4, <1>5 DEF PageInv

LEMMA LeaveKeeps ==
    ASSUME PageInv, Leave
    PROVE  PageInv'
<1>1. page' = NoPage /\ UNCHANGED <<payments, today, paidOn>>
    BY DEF Leave, vars
<1>2. PageTyped'
    BY <1>1, NoPageTyped DEF PageInv, PageTyped
<1>3. Dated'
    BY <1>1 DEF PageInv, PageTyped, Dated, NoPage
<1>4. KpisFit' /\ PaymentsFit' /\ DaysFit'
    BY <1>1 DEF KpisFit, PaymentsFit, DaysFit, NoPage
<1> QED BY <1>2, <1>3, <1>4 DEF PageInv

\* The figures of the invoices are integers, and the payments the page knew
\* of when it was asked for are among those they are compared with.
LEMMA ReadInvoicesKeeps ==
    ASSUME IInv, PaymentInv, PageInv, ReadInvoices
    PROVE  PageInv'
<1>1. /\ page' = [page EXCEPT !.answers = @ \cup {"invoices"}, !.kpis = Kpis]
      /\ UNCHANGED <<payments, raced, today, paidOn>>
    BY DEF ReadInvoices, Answers, vars
<1>2. /\ Kpis.totalInvoiced \in Int /\ Kpis.totalCollected \in Int
      /\ Kpis.outstandingBalance \in Int
    <2>1. /\ \A d \in Invoices : Totals[d] \in Int /\ AmountsPaid[d] \in Int
          /\ \A d \in OpenInvoices : Balances[d] \in Int
        BY FiguresTyped DEF IInv, OpenInvoices
    <2>2. IsFiniteSet(Invoices) /\ IsFiniteSet(OpenInvoices)
        BY FiguresTyped DEF IInv
    <2>3. /\ SumFunctionOnSet(Totals, Invoices) \in Int
          /\ SumFunctionOnSet(AmountsPaid, Invoices) \in Int
          /\ SumFunctionOnSet(Balances, OpenInvoices) \in Int
        BY <2>1, <2>2, SumInt
    <2> QED BY <2>3 DEF Kpis
<1>3. Kpis \in Figures
    BY <1>2 DEF Kpis, Figures
<1>4. /\ page'.kpis = Kpis /\ page'.known = page.known /\ page'.days = page.days
      /\ page'.since = page.since /\ page'.payments = page.payments
      /\ page'.answers = page.answers \cup {"invoices"}
      /\ page'.asked = page.asked
    BY <1>1 DEF PageInv, PageTyped, Page
<1>5. PageTyped'
    BY <1>1, <1>3 DEF PageInv, PageTyped, Page, Queries
<1>6. Payers' = Payers
    BY <1>1 DEF Payers
<1>7. Dated'
    BY <1>1, <1>4, <1>6 DEF PageInv, Dated
<1>8. KpisFit'
    <2>1. Kpis.totalInvoiced = Kpis.totalCollected + Kpis.outstandingBalance
        BY InvoicedIsCollectedOrOpen DEF IInv
    <2>2. /\ Kpis.totalCollected <= Paid(Payers)
          /\ raced = {} => Kpis.totalCollected = Paid(Payers)
        BY CollectionsAgree DEF IInv
    <2>3. Paid(page.known) <= Paid(Payers)
        BY PaidPart DEF IInv, PageInv, Dated
    <2>4. Amount' = Amount
        BY <1>1, <1>6 DEF Amount
    <2> HIDE DEF Kpis
    <2> QED BY <1>1, <1>4, <1>6, <2>1, <2>2, <2>3, <2>4 DEF KpisFit, Paid
<1>9. PaymentsFit' /\ DaysFit'
    BY <1>1, <1>4, <1>6 DEF PageInv, PaymentsFit, DaysFit
<1> QED BY <1>5, <1>7, <1>8, <1>9 DEF PageInv

LEMMA ReadPaymentsKeeps ==
    ASSUME PageInv, ReadPayments
    PROVE  PageInv'
<1> DEFINE shown == {r \in Payers : paidOn[r] >= page.since}
<1>1. /\ page' = [page EXCEPT !.answers = @ \cup {"payments"},
                              !.payments = shown]
      /\ UNCHANGED <<payments, raced, today, paidOn>>
    BY DEF ReadPayments, Answers, vars
<1>2. shown \subseteq Payers /\ Payers \subseteq Requests /\ Payers' = Payers
    BY <1>1 DEF Payers
<1>3. "days" \notin page.answers
    BY DEF ReadPayments, Answers, PageInv, DaysFit
<1>4. \A r \in Payers : paidOn[r] >= page.since => r \in shown
    OBVIOUS
<1> HIDE DEF shown
<1>5. /\ page'.kpis = page.kpis /\ page'.known = page.known
      /\ page'.since = page.since /\ page'.payments = shown
      /\ page'.answers = page.answers \cup {"payments"}
      /\ page'.asked = page.asked
    BY <1>1 DEF PageInv, PageTyped, Page
<1>6. PageTyped'
    BY <1>1, <1>2 DEF PageInv, PageTyped, Page, Queries
<1>7. Dated'
    BY <1>1, <1>2, <1>5 DEF PageInv, Dated
<1>8. KpisFit'
    <2>1. Amount' = Amount
        BY <1>1, <1>2 DEF Amount
    <2> QED BY <1>1, <1>2, <1>5, <2>1 DEF PageInv, KpisFit, Paid
<1>9. PaymentsFit'
    BY <1>1, <1>2, <1>4, <1>5 DEF PageInv, Dated, PaymentsFit
<1>10. DaysFit'
    BY <1>3, <1>5 DEF DaysFit
<1> QED BY <1>6, <1>7, <1>8, <1>9, <1>10 DEF PageInv

LEMMA DrawDaysKeeps ==
    ASSUME PageInv, DrawDays
    PROVE  PageInv'
<1>1. /\ page' = [page EXCEPT !.answers = @ \cup {"days"},
                              !.days = (today - TrendDays + 1) .. today]
      /\ UNCHANGED <<payments, raced, today, paidOn>>
      /\ "payments" \in page.answers /\ page.asked
    BY DEF DrawDays, Answers, vars
<1>2. today \in Int /\ TrendDays \in Int /\ page.since \in Int
    BY FinanceAssumption DEF PageInv, PageTyped, Page
<1>3. Payers' = Payers /\ Payers \subseteq Requests
    BY <1>1 DEF Payers
<1>4. /\ page'.kpis = page.kpis /\ page'.known = page.known
      /\ page'.since = page.since /\ page'.payments = page.payments
      /\ page'.answers = page.answers \cup {"days"}
      /\ page'.days = (today - TrendDays + 1) .. today
      /\ page'.asked = page.asked
    BY <1>1 DEF PageInv, PageTyped, Page
<1>5. PageTyped'
    <2>1. (today - TrendDays + 1) .. today \in SUBSET Int
        BY <1>2
    <2>2. page'.answers \in SUBSET Queries /\ page'.days \in SUBSET Int
        BY <1>4, <2>1 DEF PageInv, PageTyped, Page, Queries
    <2> QED BY <1>1, <2>2 DEF PageInv, PageTyped, Page
<1>6. Dated'
    BY <1>1, <1>3, <1>4 DEF PageInv, Dated
<1>7. KpisFit'
    <2>1. Amount' = Amount
        BY <1>1, <1>3 DEF Amount
    <2> QED BY <1>1, <1>3, <1>4, <2>1 DEF PageInv, KpisFit, Paid
<1>8. PaymentsFit'
    BY <1>1, <1>3, <1>4 DEF PageInv, PaymentsFit
<1>9. DaysFit'
    <2>1. page.since + TrendDays <= today + 1
        BY <1>1 DEF PageInv, Dated
    <2>2. \A r \in page.payments \cup page.known : paidOn[r] <= today
        BY DEF PageInv, PageTyped, Page, Dated
    <2> QED BY <1>1, <1>2, <1>4, <2>1, <2>2 DEF DaysFit
<1> QED BY <1>5, <1>6, <1>7, <1>8, <1>9 DEF PageInv

LEMMA NextPage ==
    PageInv /\ IInv /\ IInv' /\ PaymentInv /\ [FinanceNext]_financeVars => PageInv'
<1> SUFFICES ASSUME PageInv, IInv, IInv', PaymentInv, [FinanceNext]_financeVars
             PROVE  PageInv'
    OBVIOUS
<1>1. CASE UNCHANGED financeVars
    <2>1. UNCHANGED <<payments, raced, today, paidOn, page>>
        BY <1>1 DEF financeVars, vars
    <2>2. PaymentsGrow
        BY <2>1 DEF PaymentsGrow, Payers
    <2> QED BY <2>1, <2>2, PageKept DEF IInv, PageInv, PageTyped, Dated
<1> QED
    BY <1>1, BeginPaymentKeeps, DatePaymentKeeps, OtherStepKeeps, MidnightKeeps,
       GetSummaryKeeps, ReadInvoicesKeeps, ReadPaymentsKeeps, DrawDaysKeeps,
       LeaveKeeps DEF FinanceNext

-----------------------------------------------------------------------------
\* What a complete page shows: the payments of its days, which hold all those
\* it knew of but the older ones.
LEMMA PageShows ==
    ASSUME IInv, PageInv, page.answers = {"invoices", "payments", "days"}
    PROVE  /\ Trend \in Int
           /\ Paid(page.known) <= Paid(Earlier) + Trend
           /\ Paid(Earlier) + Trend <= Paid(Payers)
           /\ \A day \in page.days :
                Paid({r \in page.known : paidOn[r] = day}) <= Collected[day]
<1> DEFINE drawn == {r \in page.payments : paidOn[r] \in page.days}
           shown == Earlier \cup drawn
<1>a. TypeOK /\ page.since \in Int /\ TrendDays \in Nat \ {0}
      /\ paidOn \in [Requests -> Int] /\ Payers \subseteq Requests
    BY FinanceAssumption DEF IInv, PageInv, PageTyped, Page, Payers
<1>1. PICK last \in Int :
          /\ page.days = (last - TrendDays + 1) .. last
          /\ page.since + TrendDays <= last + 1
          /\ \A r \in page.payments \cup page.known : paidOn[r] <= last
    BY DEF PageInv, DaysFit
<1>2. /\ page.payments \subseteq Payers /\ page.known \subseteq Payers
      /\ \A r \in page.known : paidOn[r] >= page.since => r \in page.payments
    BY DEF PageInv, PaymentsFit, Dated
<1>3. drawn \in SUBSET Payers /\ Earlier \in SUBSET Payers
    BY <1>2 DEF Earlier
<1>4. Earlier \cap drawn = {}
    BY <1>a, <1>1, <1>3 DEF Earlier
<1>5. page.known \subseteq shown
    <2> SUFFICES ASSUME NEW r \in page.known, r \notin Earlier
                 PROVE  r \in drawn
        OBVIOUS
    <2>1. r \in Payers /\ paidOn[r] \in Int /\ paidOn[r] <= last
        BY <1>a, <1>1, <1>2
    <2>2. PICK day \in page.days : ~ (paidOn[r] < day)
        BY <2>1 DEF Earlier
    <2>3. paidOn[r] >= last - TrendDays + 1
        BY <1>a, <1>1, <2>1, <2>2
    <2>4. paidOn[r] >= page.since /\ paidOn[r] \in page.days
        BY <1>a, <1>1, <2>1, <2>3
    <2> QED BY <1>2, <2>4
<1>6. Trend = Paid(drawn)
    <2>1. IsFiniteSet(page.days)
        BY <1>a, <1>1, FS_Interval
    <2>2. IsFiniteSet(drawn) /\ \A r \in drawn : Amount[r] \in Int
        BY <1>a, <1>3, PaidNat
    <2>3. \A r \in drawn : paidOn[r] \in page.days
        OBVIOUS
    <2>4. \A day \in page.days :
              Collected[day] = SumFunctionOnSet(Amount, {r \in drawn : paidOn[r] = day})
        <3> SUFFICES ASSUME NEW day \in page.days
                     PROVE  Collected[day]
                              = SumFunctionOnSet(Amount, {r \in drawn : paidOn[r] = day})
            OBVIOUS
        <3>1. {r \in drawn : paidOn[r] = day} = {r \in page.payments : paidOn[r] = day}
            OBVIOUS
        <3> HIDE DEF drawn
        <3> QED BY <3>1 DEF Collected, Paid
    <2> HIDE DEF drawn
    <2>5. Groups(Amount, drawn, paidOn, page.days, Collected)
        BY <2>2, <2>3, <2>4 DEF Groups, drawn
    <2>6. SumFunctionOnSet(Collected, page.days) = SumFunctionOnSet(Amount, drawn)
        BY <2>1, <2>2, <2>5, SumGroups
    <2> QED BY <2>6 DEF Trend, Paid
<1>7. Paid(shown) = Paid(Earlier) + Paid(drawn)
    <2>1. shown \in SUBSET Payers /\ Earlier \in SUBSET shown
          /\ shown \ Earlier = drawn
        BY <1>3, <1>4
    <2> HIDE DEF shown, drawn
    <2>2. Paid(shown) = Paid(Earlier) + Paid(shown \ Earlier)
        BY <1>a, <2>1, PaidPart
    <2> QED BY <2>1, <2>2
<1>8. Paid(page.known) <= Paid(shown) /\ Paid(shown) <= Paid(Payers)
    <2>1. shown \in SUBSET Payers /\ page.known \in SUBSET shown
        BY <1>3, <1>5
    <2> HIDE DEF shown
    <2> QED BY <1>a, <2>1, PaidPart
<1>9. ASSUME NEW day \in page.days
      PROVE  Paid({r \in page.known : paidOn[r] = day}) <= Collected[day]
    <2> DEFINE S == {r \in page.known : paidOn[r] = day}
               T == {r \in page.payments : paidOn[r] = day}
    <2>1. day \in Int /\ day >= page.since
        BY <1>a, <1>1
    <2>2. S \in SUBSET T /\ T \in SUBSET Payers
        BY <1>2, <2>1
    <2>3. Collected[day] = Paid(T)
        BY DEF Collected
    <2> HIDE DEF S, T
    <2>4. Paid(S) <= Paid(T)
        BY <1>a, <2>2, PaidPart
    <2> QED BY <2>3, <2>4 DEF S
<1>10. Paid(drawn) \in Int
    BY <1>a, <1>3, PaidNat
<1> HIDE DEF shown, drawn
<1> QED BY <1>6, <1>7, <1>8, <1>9, <1>10

\* The page is read beside Billing, and changes nothing of it.
LEMMA FinanceBilling ==
    FinanceSpec => Spec
<1>1. FinanceInit => Init
    BY DEF FinanceInit
<1>2. [FinanceNext]_financeVars => [Next]_vars
    BY DEF FinanceNext, financeVars, BeginPayment, DatePayment, OtherStep, Midnight,
           GetSummary, ReadInvoices, ReadPayments, DrawDays, Answers, Leave, Next
<1> QED BY <1>1, <1>2, PTL DEF FinanceSpec, Spec

\* For any requests, amounts and length of the chart, in whatever order the
\* queries of a page answer, whatever commits between them and however many
\* days pass, the figures of the page differ by no more than what was paid
\* while it was drawn, and its chart misses none of the older payments.
THEOREM PagesAgree ==
    FinanceSpec => []PageAgrees
<1>1. ASSUME IInv, PageInv PROVE PageAgrees
    <2> SUFFICES ASSUME page.answers = {"invoices", "payments", "days"}
                 PROVE  PageAgrees
        BY DEF PageAgrees
    <2>1. /\ TypeOK /\ page.known \in SUBSET Payers
          /\ page.kpis.totalCollected \in Int
        BY <1>1 DEF IInv, PageInv, PageTyped, Page, Figures, Dated
    <2>2. KpisFit
        BY <1>1 DEF PageInv
    <2>3. Paid(Payers) = Paid(page.known) + Paid(Meanwhile)
        BY <2>1, PaidPart DEF Meanwhile
    <2>4. /\ Trend \in Int
          /\ Paid(page.known) <= Paid(Earlier) + Trend
          /\ Paid(Earlier) + Trend <= Paid(Payers)
          /\ \A day \in page.days :
               Paid({r \in page.known : paidOn[r] = day}) <= Collected[day]
        BY <1>1, PageShows
    <2>5. /\ Paid(page.known) \in Int /\ Paid(Meanwhile) \in Int
          /\ Paid(Payers) \in Int /\ Paid(Earlier) \in Int
        BY <2>1, PaidNat DEF Meanwhile, Earlier
    <2> QED BY <2>1, <2>2, <2>3, <2>4, <2>5 DEF PageAgrees, KpisFit
<1>2. FinanceSpec => []PageInv
    BY InitPage, NextPage, FinanceBilling, BillingInvariant, PaymentsInvariant, PTL
       DEF FinanceSpec
<1> QED BY <1>1, <1>2, FinanceBilling, BillingInvariant, PTL

=============================================================================
