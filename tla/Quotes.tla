-------------------------------- MODULE Quotes --------------------------------
(***************************************************************************)
(* QuotesService: the edition of a quote, its way to the customer and      *)
(* back, and its conversion into a sale.                                   *)
(*                                                                         *)
(* No handler is a transaction.  Each reads the quote and checks its       *)
(* status; an edition then writes the customer, the lines and the total by *)
(* three separate statements, a conversion creates the sale and only then  *)
(* marks the quote.  Only replaceLines is a transaction: it deletes the    *)
(* lines its DELETE finds, and publishes the new ones with its COMMIT.     *)
(* (Two of them never block for good: the second DELETE waits for the      *)
(* first to end and skips what it has deleted, so the order of the COMMITs *)
(* is the only thing to choose.)                                           *)
(*                                                                         *)
(* A handler that has answered serves the next request.  MaxLines and      *)
(* MaxSales only bound the exploration.                                    *)
(***************************************************************************)
EXTENDS Integers, Sequences, FiniteSetsExt

CONSTANTS
    Handlers,       \* the requests the server can have in flight
    Quotes,
    Customers,
    Prices,         \* the totals the lines of a quote may have, a discount
                    \* may take one below zero
    None,           \* a field the client leaves out of an update
    MaxLines,       \* no further edition after that many sets of lines
    MaxSales        \* no further conversion after that many sales

ASSUME QuotesAssumption == /\ Quotes # {} /\ Customers # {}
                           /\ Prices \subseteq Int
                           /\ None \notin Prices /\ None \notin Customers
                           /\ MaxLines \in Nat /\ MaxSales \in Nat

VARIABLES
    quote,          \* the committed row of a quote
    lines,          \* its committed lines
    lastLine,       \* the last identifier given to a line of the quote
    sales,          \* the sales created from the quote
    stage, job,     \* the next statement of a handler, and its locals
    spoilt          \* auxiliary: the quotes two handlers have worked on at the
                    \* same time, or a handler has left half written

vars == <<quote, lines, lastLine, sales, stage, job, spoilt>>

Status == {"ABSENT", "DRAFT", "SENT", "ACCEPTED", "REJECTED", "CONVERTED"}
Kinds == {"update", "send", "accept", "reject", "convert"}
\* The lines one request brings are inserted and deleted together: a set of
\* lines stands for all of them, with the total they add up to.
Line == [id : Nat, price : Int]

Quote == [status : Status, customer : Customers, totalAmount : Int,
          convertedSale : Nat]
Sale == [customer : Customers, lines : SUBSET Line]
Stages == {"idle", "header", "delete", "insert", "total", "lines", "sale",
           "write"}
Job == [kind : Kinds, quote : Quotes, customer : Customers \cup {None},
        price : Prices \cup {None}, lines : SUBSET Line, sale : Nat]

TypeOK ==
    /\ quote \in [Quotes -> Quote]
    /\ lines \in [Quotes -> SUBSET Line]
    /\ lastLine \in [Quotes -> Nat]
    /\ sales \in [Quotes -> Seq(Sale)]
    /\ stage \in [Handlers -> Stages]
    /\ job \in [Handlers -> Job]
    /\ spoilt \in SUBSET Quotes

AnyCustomer == CHOOSE customer \in Customers : TRUE
NoJob == [kind |-> "send", quote |-> CHOOSE q \in Quotes : TRUE,
          customer |-> None, price |-> None, lines |-> {}, sale |-> 0]

Init ==
    /\ quote = [q \in Quotes |-> [status |-> "ABSENT", customer |-> AnyCustomer,
                                  totalAmount |-> 0, convertedSale |-> 0]]
    /\ lines = [q \in Quotes |-> {}]
    /\ lastLine = [q \in Quotes |-> 0]
    /\ sales = [q \in Quotes |-> << >>]
    /\ stage = [h \in Handlers |-> "idle"]
    /\ job = [h \in Handlers |-> NoJob]
    /\ spoilt = {}

Working(h, q) == stage[h] # "idle" /\ job[h].quote = q
\* The next statement of a handler, whose locals end with the last one.
Goto(h, next, locals) ==
    /\ stage' = [stage EXCEPT ![h] = next]
    /\ job' = [job EXCEPT ![h] = IF next = "idle" THEN NoJob ELSE locals]

-----------------------------------------------------------------------------
\* POST /quotes: the quote and its lines in one nested create.
Create(q) ==
    /\ quote[q].status = "ABSENT"
    /\ \E customer \in Customers, price \in Prices :
         /\ quote' = [quote EXCEPT ![q] =
                        [status |-> "DRAFT", customer |-> customer,
                         totalAmount |-> price, convertedSale |-> 0]]
         /\ lines' = [lines EXCEPT ![q] = {[id |-> 1, price |-> price]}]
    /\ lastLine' = [lastLine EXCEPT ![q] = 1]
    /\ UNCHANGED <<sales, stage, job, spoilt>>

\* Mutants: a check of the status accepts one too many.
AllowedAccepted(kind, status) ==
    CASE kind = "update" -> status \in {"DRAFT", "SENT", "ACCEPTED"}
      [] kind = "send" -> status = "DRAFT"
      [] kind \in {"accept", "reject"} -> status = "SENT"
      [] kind = "convert" -> status = "ACCEPTED"
AllowedConverted(kind, status) ==
    CASE kind = "update" -> status \in {"DRAFT", "SENT"}
      [] kind = "send" -> status = "DRAFT"
      [] kind \in {"accept", "reject"} -> status = "SENT"
      [] kind = "convert" -> status \in {"ACCEPTED", "CONVERTED"}

\* The check of the status at the head of each handler.
Allowed(kind, status) ==
    CASE kind = "update" -> status \in {"DRAFT", "SENT"}
      [] kind = "send" -> status = "DRAFT"
      [] kind \in {"accept", "reject"} -> status = "SENT"
      [] kind = "convert" -> status = "ACCEPTED"

WithinBounds(kind, q) ==
    /\ kind = "update" => lastLine[q] < MaxLines
    /\ kind = "convert" => Len(sales[q]) < MaxSales

\* The statements of update for the fields the client gave.
FirstEdit(customer, price) ==
    CASE customer # None -> "header"
      [] customer = None /\ price # None -> "delete"
      [] OTHER -> "idle"
AfterHeader(price) == IF price # None THEN "delete" ELSE "idle"

\* findById, which reads the row of the quote and its customer first, and the
\* checks.
Read(h, kind, q) ==
    /\ stage[h] = "idle"
    /\ Allowed(kind, quote[q].status)
    /\ WithinBounds(kind, q)
    /\ \/ /\ kind = "update"
          /\ \E customer \in Customers \cup {None}, price \in Prices \cup {None} :
               Goto(h, FirstEdit(customer, price),
                    [NoJob EXCEPT !.kind = kind, !.quote = q,
                                  !.customer = customer, !.price = price])
       \/ /\ kind # "update"
          /\ Goto(h, IF kind = "convert" THEN "lines" ELSE "write",
                  [NoJob EXCEPT !.kind = kind, !.quote = q,
                                !.customer = quote[q].customer])
    /\ spoilt' = IF \E other \in Handlers : Working(other, q)
                 THEN spoilt \cup {q} ELSE spoilt
    /\ UNCHANGED <<quote, lines, lastLine, sales>>

\* update: repository.update of the customer.
UpdateHeader(h) ==
    /\ stage[h] = "header"
    /\ quote' = [quote EXCEPT ![job[h].quote].customer = job[h].customer]
    /\ Goto(h, AfterHeader(job[h].price), job[h])
    /\ UNCHANGED <<lines, lastLine, sales, spoilt>>

\* Mutant: the DELETE is committed on its own.
DeleteLinesAtOnce(h) ==
    /\ stage[h] = "delete"
    /\ lines' = [lines EXCEPT ![job[h].quote] = {}]
    /\ Goto(h, "insert", [job[h] EXCEPT !.lines = lines[job[h].quote]])
    /\ UNCHANGED <<quote, lastLine, sales, spoilt>>

\* replaceLines: deleteMany takes the lines committed by now.
DeleteLines(h) ==
    /\ stage[h] = "delete"
    /\ Goto(h, "insert", [job[h] EXCEPT !.lines = lines[job[h].quote]])
    /\ UNCHANGED <<quote, lines, lastLine, sales, spoilt>>

\* Mutant: the old lines stay.
KeptLines(h) == lines[job[h].quote]

\* The lines the DELETE has not taken.
OtherLines(h) == lines[job[h].quote] \ job[h].lines

\* replaceLines: createMany and the COMMIT.
InsertLines(h) ==
    LET q == job[h].quote
    IN  /\ stage[h] = "insert"
        /\ lastLine' = [lastLine EXCEPT ![q] = @ + 1]
        /\ lines' = [lines EXCEPT ![q] = OtherLines(h) \cup
                       {[id |-> lastLine[q] + 1, price |-> job[h].price]}]
        /\ Goto(h, "total", job[h])
        /\ UNCHANGED <<quote, sales, spoilt>>

\* update: repository.update of the total, after replaceLines.
UpdateTotal(h) ==
    /\ stage[h] = "total"
    /\ quote' = [quote EXCEPT ![job[h].quote].totalAmount = job[h].price]
    /\ Goto(h, "idle", NoJob)
    /\ UNCHANGED <<lines, lastLine, sales, spoilt>>

\* convert: findById reads the lines by a query of its own.
ReadLines(h) ==
    /\ stage[h] = "lines"
    /\ Goto(h, "sale", [job[h] EXCEPT !.lines = lines[job[h].quote]])
    /\ UNCHANGED <<quote, lines, lastLine, sales, spoilt>>

\* convert: salesService.create, from what findById returned.
CreateSale(h) ==
    /\ stage[h] = "sale"
    /\ sales' = [sales EXCEPT ![job[h].quote] =
                   Append(@, [customer |-> job[h].customer,
                              lines |-> job[h].lines])]
    /\ Goto(h, "write",
            [job[h] EXCEPT !.sale = Len(sales[job[h].quote]) + 1])
    /\ UNCHANGED <<quote, lines, lastLine, spoilt>>

\* Mutant: the status is spelt another way.
NewStatusShort(kind) ==
    CASE kind = "send" -> "SENT"
      [] kind = "accept" -> "ACCEPT"
      [] kind = "reject" -> "REJECTED"
      [] kind = "convert" -> "CONVERTED"

NewStatus(kind) ==
    CASE kind = "send" -> "SENT"
      [] kind = "accept" -> "ACCEPTED"
      [] kind = "reject" -> "REJECTED"
      [] kind = "convert" -> "CONVERTED"

\* The last statement of send, accept, reject and convert: an update of the
\* quote, whatever its status is by now.
Write(h) ==
    LET q == job[h].quote
    IN  /\ stage[h] = "write"
        /\ quote' = [quote EXCEPT
                       ![q].status = NewStatus(job[h].kind),
                       ![q].convertedSale =
                          IF job[h].kind = "convert" THEN job[h].sale ELSE @]
        /\ Goto(h, "idle", NoJob)
        /\ UNCHANGED <<lines, lastLine, sales, spoilt>>

\* The stages a handler leaves something half written at.
HalfWritten(h) ==
    stage[h] = "total" \/ (stage[h] = "write" /\ job[h].kind = "convert")

\* A statement fails, or the server stops: what was done stays done.
Abort(h) ==
    /\ stage[h] # "idle"
    /\ Goto(h, "idle", NoJob)
    /\ spoilt' = IF HalfWritten(h) THEN spoilt \cup {job[h].quote} ELSE spoilt
    /\ UNCHANGED <<quote, lines, lastLine, sales>>

Next ==
    \/ \E q \in Quotes : Create(q)
    \/ \E h \in Handlers :
         \/ \E kind \in Kinds, q \in Quotes : Read(h, kind, q)
         \/ UpdateHeader(h)
         \/ DeleteLines(h)
         \/ InsertLines(h)
         \/ UpdateTotal(h)
         \/ ReadLines(h)
         \/ CreateSale(h)
         \/ Write(h)
         \/ Abort(h)

Spec == Init /\ [][Next]_vars

-----------------------------------------------------------------------------
Idle(q) == \A h \in Handlers : ~Working(h, q)
LinesTotal(set) == SumFunctionOnSet([line \in set |-> line.price], set)

\* The total of a quote is the total of its lines, of the quotes no two
\* handlers have worked on at the same time and none has left half written,
\* once the edition is over.
CleanTotalIsLines ==
    \A q \in Quotes \ spoilt :
        Idle(q) => quote[q].totalAmount = LinesTotal(lines[q])

\* A converted quote and its sale say the same: of the same quotes, a
\* CONVERTED one has one sale, the one it names, with its customer and its
\* lines, and another one has none.
CleanSaleIsQuote ==
    \A q \in Quotes \ spoilt :
        Idle(q) =>
            sales[q] = IF quote[q].status = "CONVERTED"
                       THEN << [customer |-> quote[q].customer,
                                lines |-> lines[q]] >>
                       ELSE << >>

\* However many editions and conversions overlap or fail, a quote is never
\* without lines, no sale is created from none, and a quote that was converted
\* names one of its sales.
NeverWithoutLines ==
    \A q \in Quotes :
        /\ quote[q].status # "ABSENT" => lines[q] # {}
        /\ \A i \in DOMAIN sales[q] : sales[q][i].lines # {}
        /\ quote[q].status = "CONVERTED" =>
              quote[q].convertedSale \in DOMAIN sales[q]

Settled(q) == quote[q].status \in {"ACCEPTED", "REJECTED", "CONVERTED"}

\* What the customer has answered is not edited any more, and only an accepted
\* quote still moves: of the quotes no two handlers have worked on at the same
\* time.
CleanSettledIsFrozen ==
    [][\A q \in Quotes :
         Settled(q) /\ q \notin spoilt' =>
            /\ lines'[q] = lines[q]
            /\ quote'[q].customer = quote[q].customer
            /\ quote'[q].totalAmount = quote[q].totalAmount
            /\ \/ quote'[q].status = quote[q].status
               \/ quote[q].status = "ACCEPTED" /\ quote'[q].status = "CONVERTED"
      ]_vars

\* A CONVERTED quote is frozen, as the schema says of Quote.status.  An edition
\* that has read the quote before it was accepted breaks it.
ConvertedIsFrozen ==
    [][\A q \in Quotes :
         quote[q].status = "CONVERTED" =>
            lines'[q] = lines[q] /\ quote'[q] = quote[q]]_vars

=============================================================================
