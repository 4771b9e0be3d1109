---------------------------- MODULE Quotes_proofs -----------------------------
(***************************************************************************)
(* Quotes is proved correct, for any quotes, customers, prices and number  *)
(* of handlers in flight: a quote is never without lines; one no two       *)
(* handlers have worked on together has the total of its lines, one sale   *)
(* exactly when it is CONVERTED, with its customer and lines, and does not *)
(* change once the customer has answered.                                  *)
(*                                                                         *)
(* The invariant follows the single handler of such a quote from statement *)
(* to statement: what it has read is what the quote still holds, and what  *)
(* it has half written is what its next statement completes.               *)
(***************************************************************************)
EXTENDS Quotes, SumTheorems, SequenceTheorems, TLAPS

\* The stages of an edition belong to an edition, and so on.
JobsFit ==
    \A h \in Handlers :
        /\ stage[h] \in {"header", "delete", "insert", "total"} =>
             job[h].kind = "update"
        /\ stage[h] \in {"delete", "insert", "total"} => job[h].price \in Prices
        /\ stage[h] = "header" => job[h].customer \in Customers
        /\ stage[h] \in {"lines", "sale"} =>
             job[h].kind = "convert" /\ job[h].customer \in Customers
        /\ stage[h] = "write" => job[h].kind # "update"

\* A handler works on a quote that exists.
QuoteExists ==
    \A h \in Handlers :
        stage[h] # "idle" => quote[job[h].quote].status # "ABSENT"

\* A conversion has lines for its sale, and names it once created.
Convertible ==
    \A h \in Handlers :
        /\ stage[h] = "sale" => job[h].lines # {}
        /\ stage[h] = "write" /\ job[h].kind = "convert" =>
              job[h].sale \in DOMAIN sales[job[h].quote]

Base == TypeOK /\ JobsFit /\ QuoteExists
LinesInv == NeverWithoutLines /\ Convertible

-----------------------------------------------------------------------------
\* The lines of an edition, with the total they add up to.
OneLine(set, price) == \E id \in Nat : set = {[id |-> id, price |-> price]}

\* What the handler of a quote has read and half written.
HandlerFit(h, q) ==
    Working(h, q) =>
        /\ Allowed(job[h].kind, quote[q].status)
        /\ stage[h] = "insert" => job[h].lines = lines[q]
        /\ stage[h] = "total" => OneLine(lines[q], job[h].price)
        /\ stage[h] \in {"lines", "sale"} => job[h].customer = quote[q].customer
        /\ stage[h] = "sale" => job[h].lines = lines[q]

Solitary(q) ==
    \A h, other \in Handlers : Working(h, q) /\ Working(other, q) => h = other

Editing(h, q) == Working(h, q) /\ stage[h] = "total"
Converting(h, q) ==
    Working(h, q) /\ stage[h] = "write" /\ job[h].kind = "convert"

TotalFit(q) ==
    IF quote[q].status = "ABSENT"
    THEN lines[q] = {} /\ quote[q].totalAmount = 0
    ELSE (\A h \in Handlers : ~Editing(h, q)) =>
            OneLine(lines[q], quote[q].totalAmount)

TheSale(q) == [customer |-> quote[q].customer, lines |-> lines[q]]
SaleFit(q) ==
    sales[q] = IF quote[q].status = "CONVERTED"
                  \/ \E h \in Handlers : Converting(h, q)
               THEN << TheSale(q) >> ELSE << >>

Clean(q) ==
    /\ Solitary(q)
    /\ \A h \in Handlers : HandlerFit(h, q)
    /\ TotalFit(q)
    /\ SaleFit(q)

CleanInv == \A q \in Quotes \ spoilt : Clean(q)

IInv == Base /\ LinesInv /\ CleanInv

-----------------------------------------------------------------------------
\* A step of h concerns one quote, and the locals of no other handler.
OnQuote(h, q) ==
    /\ \A other \in Handlers \ {h} : /\ stage'[other] = stage[other]
                                     /\ job'[other] = job[other]
    /\ \A p \in Quotes \ {q} : /\ quote'[p] = quote[p]
                               /\ lines'[p] = lines[p]
                               /\ sales'[p] = sales[p]
    /\ stage[h] = "idle" \/ job[h].quote = q
    /\ stage'[h] = "idle" \/ job'[h].quote = q
    /\ spoilt \subseteq spoilt'

\* The steps of a handler that has read its quote.
StepOf(h) ==
    \/ UpdateHeader(h)
    \/ DeleteLines(h)
    \/ InsertLines(h)
    \/ UpdateTotal(h)
    \/ ReadLines(h)
    \/ CreateSale(h)
    \/ Write(h)
    \/ Abort(h)

\* The locals a handler starts from.
LEMMA NoJobFacts ==
  /\ NoJob \in Job /\ NoJob.customer = None /\ NoJob.price = None
  /\ NoJob.lines = {} /\ NoJob.sale = 0 /\ NoJob.kind = "send"
<1>1. (CHOOSE q \in Quotes : TRUE) \in Quotes
  BY QuotesAssumption
<1> QED
  BY <1>1 DEF NoJob, Job, Kinds

\* What Goto does.
LEMMA GotoFacts ==
  ASSUME TypeOK, NEW h \in Handlers, NEW next \in Stages, NEW locals \in Job,
         Goto(h, next, locals)
  PROVE  /\ stage' \in [Handlers -> Stages] /\ job' \in [Handlers -> Job]
         /\ stage'[h] = next
         /\ next # "idle" => job'[h] = locals
         /\ \A other \in Handlers \ {h} : /\ stage'[other] = stage[other]
                                          /\ job'[other] = job[other]
  BY NoJobFacts DEF Goto, TypeOK

\* How a request starts: the check of the status has passed, and the locals
\* are those of its kind.
Starts(h, kind, q, next, locals) ==
    /\ stage[h] = "idle" /\ Allowed(kind, quote[q].status)
    /\ next \in Stages /\ locals \in Job
    /\ locals.kind = kind /\ locals.quote = q
    /\ Goto(h, next, locals)
    /\ UNCHANGED <<quote, lines, lastLine, sales>>
    /\ spoilt' = IF \E other \in Handlers : Working(other, q)
                 THEN spoilt \cup {q} ELSE spoilt
    /\ \/ /\ kind = "update" /\ next \in {"header", "delete", "idle"}
          /\ next = "delete" => locals.price \in Prices
          /\ next = "header" => locals.customer \in Customers
       \/ kind = "convert" /\ next = "lines"
          /\ locals.customer = quote[q].customer
       \/ kind \in {"send", "accept", "reject"} /\ next = "write"

LEMMA ReadStarts ==
  ASSUME TypeOK, NEW h \in Handlers, NEW kind \in Kinds, NEW q \in Quotes,
         Read(h, kind, q)
  PROVE  \E next, locals : Starts(h, kind, q, next, locals)
<1>1. CASE kind = "update"
  <2>1. PICK customer \in Customers \cup {None}, price \in Prices \cup {None} :
           Goto(h, FirstEdit(customer, price),
                [NoJob EXCEPT !.kind = kind, !.quote = q,
                              !.customer = customer, !.price = price])
    BY <1>1 DEF Read
  <2>2. /\ FirstEdit(customer, price) \in {"header", "delete", "idle"}
        /\ FirstEdit(customer, price) = "delete" => price # None
        /\ FirstEdit(customer, price) = "header" => customer # None
    <3>1. CASE customer # None
      BY <3>1 DEF FirstEdit
    <3>2. CASE customer = None /\ price # None
      BY <3>2 DEF FirstEdit
    <3>3. CASE customer = None /\ price = None
      BY <3>3 DEF FirstEdit
    <3> QED
      BY <3>1, <3>2, <3>3
  <2> DEFINE next == FirstEdit(customer, price)
             locals == [NoJob EXCEPT !.kind = kind, !.quote = q,
                                     !.customer = customer, !.price = price]
  <2>3. /\ locals \in Job /\ locals.kind = kind /\ locals.quote = q
        /\ locals.customer = customer /\ locals.price = price
    BY NoJobFacts DEF NoJob, Job
  <2>4. Goto(h, next, locals)
    BY <2>1
  <2> HIDE DEF next, locals
  <2>5. /\ next \in {"header", "delete", "idle"} /\ next \in Stages
        /\ next = "delete" => locals.price \in Prices
        /\ next = "header" => locals.customer \in Customers
    BY <2>2, <2>3 DEF Stages, next
  <2> QED
    BY <1>1, <2>3, <2>4, <2>5 DEF Starts, Read
<1>2. CASE kind # "update"
  <2> DEFINE next == IF kind = "convert" THEN "lines" ELSE "write"
             locals == [NoJob EXCEPT !.kind = kind, !.quote = q,
                                     !.customer = quote[q].customer]
  <2>1. Goto(h, next, locals)
    BY <1>2 DEF Read
  <2>2. quote[q].customer \in Customers
    BY DEF TypeOK, Quote
  <2>3. /\ locals \in Job /\ locals.kind = kind /\ locals.quote = q
        /\ locals.customer = quote[q].customer
    BY <2>2, NoJobFacts DEF NoJob, Job
  <2>4. /\ next \in Stages
        /\ \/ kind = "convert" /\ next = "lines"
           \/ kind \in {"send", "accept", "reject"} /\ next = "write"
    BY <1>2 DEF Stages, Kinds
  <2> HIDE DEF next, locals
  <2> QED
    BY <2>1, <2>3, <2>4 DEF Starts, Read
<1> QED
  BY <1>1, <1>2

LEMMA InitBase ==
  Init => Base
<1> SUFFICES ASSUME Init PROVE Base
  OBVIOUS
<1>1. AnyCustomer \in Customers
  BY QuotesAssumption DEF AnyCustomer
<1>2. quote \in [Quotes -> Quote]
  BY <1>1 DEF Init, Quote, Status
<1>3. lines \in [Quotes -> SUBSET Line]
  BY DEF Init
<1>4. sales \in [Quotes -> Seq(Sale)]
  BY EmptySeq DEF Init
<1>5. TypeOK
  BY <1>2, <1>3, <1>4, NoJobFacts DEF Init, TypeOK, Stages
<1> QED
  BY <1>5 DEF Init, Base, JobsFit, QuoteExists

\* A status a request may start from is that of a quote that exists.
LEMMA AllowedExists ==
  ASSUME NEW kind \in Kinds, NEW status, Allowed(kind, status)
  PROVE  status # "ABSENT"
  BY DEF Allowed, Kinds

\* The step of a handler, with the type of what it writes.
LEMMA StepBase ==
  ASSUME Base, NEW h \in Handlers, StepOf(h)
  PROVE  Base' /\ OnQuote(h, job[h].quote)
<1> USE DEF Base
<1> DEFINE q == job[h].quote
<1>1. /\ q \in Quotes /\ job[h] \in Job /\ NoJob \in Job /\ "idle" \in Stages
      /\ stage[h] # "idle"
  BY NoJobFacts DEF TypeOK, Job, Stages, StepOf, UpdateHeader, DeleteLines,
                    InsertLines, UpdateTotal, ReadLines, CreateSale, Write, Abort
<1>2. /\ quote[q] \in Quote /\ lines[q] \in SUBSET Line /\ lastLine[q] \in Nat
      /\ sales[q] \in Seq(Sale) /\ quote[q].status # "ABSENT"
  BY <1>1 DEF TypeOK, QuoteExists
\* What each step writes: the quote, its lines and sales, and the locals.
<1> DEFINE Writes(next, locals) ==
             /\ next \in Stages /\ locals \in Job
             /\ Goto(h, next, locals)
             /\ quote' \in [Quotes -> Quote] /\ lines' \in [Quotes -> SUBSET Line]
             /\ lastLine' \in [Quotes -> Nat] /\ sales' \in [Quotes -> Seq(Sale)]
             /\ spoilt' \in SUBSET Quotes /\ spoilt \subseteq spoilt'
             /\ \A p \in Quotes \ {q} : /\ quote'[p] = quote[p]
                                        /\ lines'[p] = lines[p]
                                        /\ sales'[p] = sales[p]
             /\ quote'[q].status # "ABSENT"
             /\ next # "idle" =>
                   /\ locals.kind = job[h].kind /\ locals.quote = q
                   /\ locals.price = job[h].price
                   /\ locals.customer = job[h].customer
                   /\ next \in {"delete", "insert", "total"} =>
                        locals.kind = "update" /\ locals.price \in Prices
                   /\ next # "header"
                   /\ next \in {"lines", "sale"} =>
                        locals.kind = "convert" /\ locals.customer \in Customers
                   /\ next = "write" => locals.kind = "convert"
<1>3. ASSUME NEW next, NEW locals, Writes(next, locals)
      PROVE  Base' /\ OnQuote(h, q)
  <2>1. /\ stage' \in [Handlers -> Stages] /\ job' \in [Handlers -> Job]
        /\ stage'[h] = next /\ (next # "idle" => job'[h] = locals)
        /\ \A other \in Handlers \ {h} : /\ stage'[other] = stage[other]
                                         /\ job'[other] = job[other]
    BY <1>3, GotoFacts
  <2>2. TypeOK'
    BY <1>3, <2>1 DEF TypeOK
  <2>3. JobsFit'
    <3> SUFFICES ASSUME NEW g \in Handlers
                 PROVE  /\ stage'[g] \in {"header", "delete", "insert", "total"} =>
                             job'[g].kind = "update"
                        /\ stage'[g] \in {"delete", "insert", "total"} =>
                             job'[g].price \in Prices
                        /\ stage'[g] = "header" => job'[g].customer \in Customers
                        /\ stage'[g] \in {"lines", "sale"} =>
                             /\ job'[g].kind = "convert"
                             /\ job'[g].customer \in Customers
                        /\ stage'[g] = "write" => job'[g].kind # "update"
      BY DEF JobsFit
    <3>1. CASE g = h
      BY <1>3, <2>1, <3>1
    <3>2. CASE g # h
      BY <2>1, <3>2 DEF JobsFit
    <3> QED
      BY <3>1, <3>2
  <2>4. QuoteExists'
    <3> SUFFICES ASSUME NEW g \in Handlers, stage'[g] # "idle"
                 PROVE  quote'[job'[g].quote].status # "ABSENT"
      BY DEF QuoteExists
    <3>1. CASE g = h
      BY <1>3, <2>1, <3>1
    <3>2. CASE g # h
      <4>1. job'[g] = job[g] /\ job[g].quote \in Quotes /\ stage[g] # "idle"
        BY <2>1, <3>2 DEF TypeOK, Job
      <4> QED
        BY <1>3, <4>1 DEF QuoteExists
    <3> QED
      BY <3>1, <3>2
  <2> QED
    BY <1>3, <2>1, <2>2, <2>3, <2>4 DEF OnQuote
<1> HIDE DEF Writes
<1>4. CASE UpdateHeader(h)
  <2>1. /\ job[h].kind = "update" /\ job[h].customer \in Customers
        /\ AfterHeader(job[h].price) \in {"delete", "idle"}
        /\ AfterHeader(job[h].price) = "delete" => job[h].price \in Prices
    BY <1>1, <1>4 DEF UpdateHeader, JobsFit, AfterHeader, Job
  <2>2. quote' = [quote EXCEPT ![q].customer = job[h].customer]
    BY <1>4 DEF UpdateHeader
  <2>3. /\ quote' \in [Quotes -> Quote] /\ quote'[q].status = quote[q].status
        /\ \A p \in Quotes \ {q} : quote'[p] = quote[p]
    BY <1>1, <2>1, <2>2 DEF TypeOK, Quote
  <2>4. Writes(AfterHeader(job[h].price), job[h])
    BY <1>1, <1>2, <1>4, <2>1, <2>3 DEF Writes, UpdateHeader, TypeOK, Stages
  <2> QED
    BY <1>3, <2>4
<1>5. CASE DeleteLines(h) \/ ReadLines(h)
  <2> DEFINE locals == [job[h] EXCEPT !.lines = lines[q]]
  <2>1. /\ locals \in Job /\ locals.kind = job[h].kind /\ locals.quote = q
        /\ locals.price = job[h].price /\ locals.customer = job[h].customer
    BY <1>1, <1>2 DEF Job
  <2>2. \/ DeleteLines(h) /\ stage[h] = "delete" /\ Goto(h, "insert", locals)
        \/ ReadLines(h) /\ stage[h] = "lines" /\ Goto(h, "sale", locals)
    BY <1>5 DEF DeleteLines, ReadLines
  <2> HIDE DEF locals
  <2>3. Writes("insert", locals) \/ Writes("sale", locals)
    BY <1>2, <2>1, <2>2 DEF Writes, DeleteLines, ReadLines, TypeOK, Stages, JobsFit
  <2> QED
    BY <1>3, <2>3
<1>6. CASE InsertLines(h)
  <2>1. /\ job[h].kind = "update" /\ job[h].price \in Prices
        /\ job[h].price \in Int
    BY <1>6, QuotesAssumption DEF InsertLines, JobsFit
  <2>2. lines' \in [Quotes -> SUBSET Line]
    <3>1. OtherLines(h) \in SUBSET Line
      BY <1>2 DEF OtherLines
    <3>2. [id |-> lastLine[q] + 1, price |-> job[h].price] \in Line
      BY <1>2, <2>1 DEF Line
    <3> QED
      BY <1>1, <1>6, <3>1, <3>2 DEF InsertLines, TypeOK
  <2>3. lastLine' \in [Quotes -> Nat]
    <3>1. lastLine[q] + 1 \in Nat
      BY <1>2
    <3>2. lastLine' = [lastLine EXCEPT ![q] = lastLine[q] + 1]
      BY <1>6 DEF InsertLines
    <3> QED
      BY <3>1, <3>2 DEF TypeOK
  <2>4. \A p \in Quotes \ {q} : lines'[p] = lines[p]
    BY <1>6 DEF InsertLines, TypeOK
  <2>5. Writes("total", job[h])
    BY <1>1, <1>2, <1>6, <2>1, <2>2, <2>3, <2>4
       DEF Writes, InsertLines, TypeOK, Stages
  <2> QED
    BY <1>3, <2>5
<1>7. CASE UpdateTotal(h)
  <2>1. job[h].price \in Int
    BY <1>7, QuotesAssumption DEF UpdateTotal, JobsFit
  <2>2. quote' = [quote EXCEPT ![q].totalAmount = job[h].price]
    BY <1>7 DEF UpdateTotal
  <2>3. /\ quote' \in [Quotes -> Quote] /\ quote'[q].status = quote[q].status
        /\ \A p \in Quotes \ {q} : quote'[p] = quote[p]
    BY <1>1, <2>1, <2>2 DEF TypeOK, Quote
  <2>4. Writes("idle", NoJob)
    BY <1>1, <1>2, <1>7, <2>3 DEF Writes, UpdateTotal, TypeOK, Stages
  <2> QED
    BY <1>3, <2>4
<1>8. CASE CreateSale(h)
  <2> DEFINE locals == [job[h] EXCEPT !.sale = Len(sales[q]) + 1]
             sale == [customer |-> job[h].customer, lines |-> job[h].lines]
  <2>1. job[h].kind = "convert" /\ job[h].customer \in Customers
    BY <1>8 DEF CreateSale, JobsFit
  <2>2. Len(sales[q]) + 1 \in Nat /\ sale \in Sale
    BY <1>1, <1>2, <2>1, LenProperties DEF Sale, Job
  <2>3. /\ locals \in Job /\ locals.kind = job[h].kind /\ locals.quote = q
        /\ locals.price = job[h].price /\ locals.customer = job[h].customer
    BY <1>1, <2>2 DEF Job
  <2>4. /\ Goto(h, "write", locals)
        /\ sales' = [sales EXCEPT ![q] = Append(@, sale)]
    BY <1>8 DEF CreateSale
  <2> HIDE DEF locals, sale
  <2>5. Append(sales[q], sale) \in Seq(Sale)
    BY <1>2, <2>2, AppendProperties
  <2>6. /\ sales' \in [Quotes -> Seq(Sale)]
        /\ \A p \in Quotes \ {q} : sales'[p] = sales[p]
    BY <1>1, <2>4, <2>5 DEF TypeOK
  <2>7. Writes("write", locals)
    BY <1>2, <1>8, <2>1, <2>3, <2>4, <2>6
       DEF Writes, CreateSale, TypeOK, Stages
  <2> QED
    BY <1>3, <2>7
<1>9. CASE Write(h)
  <2> DEFINE converted == IF job[h].kind = "convert" THEN job[h].sale
                                                     ELSE quote[q].convertedSale
  <2>1. /\ NewStatus(job[h].kind) \in Status \ {"ABSENT"}
        /\ converted \in Nat
    BY <1>1, <1>2, <1>9 DEF Write, JobsFit, NewStatus, Status, Kinds, Job, Quote
  <2>2. quote'[q] = [quote[q] EXCEPT !.status = NewStatus(job[h].kind),
                                     !.convertedSale = converted]
    BY <1>1, <1>9 DEF Write, TypeOK, Quote
  <2> HIDE DEF converted
  <2>3. quote'[q] \in Quote /\ quote'[q].status # "ABSENT"
    BY <1>2, <2>1, <2>2 DEF Quote
  <2>4. \A p \in Quotes \ {q} : quote'[p] = quote[p]
    BY <1>9 DEF Write, TypeOK
  <2>5. quote' \in [Quotes -> Quote]
    <3>1. quote' = [p \in Quotes |-> quote'[p]]
      BY <1>9 DEF Write, TypeOK
    <3>2. \A p \in Quotes : quote'[p] \in Quote
      BY <2>3, <2>4 DEF TypeOK
    <3> QED
      BY <3>1, <3>2
  <2>6. Writes("idle", NoJob)
    BY <1>1, <1>9, <2>3, <2>4, <2>5 DEF Writes, Write, TypeOK, Stages
  <2> QED
    BY <1>3, <2>6
<1>10. CASE Abort(h)
  <2>1. spoilt' \in SUBSET Quotes /\ spoilt \subseteq spoilt'
    BY <1>1, <1>10 DEF Abort, TypeOK
  <2>2. Writes("idle", NoJob)
    BY <1>1, <1>2, <1>10, <2>1 DEF Writes, Abort, TypeOK, Stages
  <2> QED
    BY <1>3, <2>2
<1> QED
  BY <1>4, <1>5, <1>6, <1>7, <1>8, <1>9, <1>10 DEF StepOf

\* A request that starts.
LEMMA StartBase ==
  ASSUME Base, NEW h \in Handlers, NEW kind \in Kinds, NEW q \in Quotes,
         NEW next, NEW locals, Starts(h, kind, q, next, locals)
  PROVE  Base' /\ OnQuote(h, q)
<1> USE DEF Base, Starts
<1>1. /\ stage' \in [Handlers -> Stages] /\ job' \in [Handlers -> Job]
      /\ stage'[h] = next /\ (next # "idle" => job'[h] = locals)
      /\ \A other \in Handlers \ {h} : /\ stage'[other] = stage[other]
                                       /\ job'[other] = job[other]
  BY GotoFacts
<1>2. spoilt' \in SUBSET Quotes /\ spoilt \subseteq spoilt'
  BY DEF TypeOK
<1>3. TypeOK'
  BY <1>1, <1>2 DEF TypeOK
<1>4. quote[q].status # "ABSENT" /\ quote[q].customer \in Customers
  BY AllowedExists DEF TypeOK, Quote
<1>5. JobsFit'
  <2> SUFFICES ASSUME NEW g \in Handlers
               PROVE  /\ stage'[g] \in {"header", "delete", "insert", "total"} =>
                           job'[g].kind = "update"
                      /\ stage'[g] \in {"delete", "insert", "total"} =>
                           job'[g].price \in Prices
                      /\ stage'[g] = "header" => job'[g].customer \in Customers
                      /\ stage'[g] \in {"lines", "sale"} =>
                           /\ job'[g].kind = "convert"
                           /\ job'[g].customer \in Customers
                      /\ stage'[g] = "write" => job'[g].kind # "update"
    BY DEF JobsFit
  <2>1. CASE g = h
    BY <1>1, <1>4, <2>1
  <2>2. CASE g # h
    BY <1>1, <2>2 DEF JobsFit
  <2> QED
    BY <2>1, <2>2
<1>6. QuoteExists'
  <2> SUFFICES ASSUME NEW g \in Handlers, stage'[g] # "idle"
               PROVE  quote'[job'[g].quote].status # "ABSENT"
    BY DEF QuoteExists
  <2>1. CASE g = h
    BY <1>1, <1>4, <2>1
  <2>2. CASE g # h
    BY <1>1, <2>2 DEF QuoteExists
  <2> QED
    BY <2>1, <2>2
<1> QED
  BY <1>1, <1>2, <1>3, <1>5, <1>6 DEF OnQuote

\* A quote that is created: nobody works on it.
LEMMA CreateBase ==
  ASSUME Base, NEW q \in Quotes, Create(q)
  PROVE  /\ Base'
         /\ \A h \in Handlers : ~Working(h, q)
         /\ quote[q].status = "ABSENT" /\ quote'[q].status = "DRAFT"
         /\ OneLine(lines'[q], quote'[q].totalAmount)
         /\ \A p \in Quotes \ {q} : /\ quote'[p] = quote[p]
                                    /\ lines'[p] = lines[p]
         /\ UNCHANGED <<sales, stage, job, spoilt>>
<1> USE DEF Base
<1>1. PICK customer \in Customers, price \in Prices :
         /\ quote' = [quote EXCEPT ![q] =
                        [status |-> "DRAFT", customer |-> customer,
                         totalAmount |-> price, convertedSale |-> 0]]
         /\ lines' = [lines EXCEPT ![q] = {[id |-> 1, price |-> price]}]
  BY DEF Create
<1>2. price \in Int
  BY QuotesAssumption
<1>3. quote' \in [Quotes -> Quote] /\ lines' \in [Quotes -> SUBSET Line]
  BY <1>1, <1>2 DEF TypeOK, Quote, Status, Line
<1>4. TypeOK'
  BY <1>3 DEF TypeOK, Create
<1>5. /\ quote[q].status = "ABSENT" /\ quote'[q].status = "DRAFT"
      /\ quote'[q].totalAmount = price
      /\ lines'[q] = {[id |-> 1, price |-> price]}
      /\ \A p \in Quotes \ {q} : quote'[p] = quote[p] /\ lines'[p] = lines[p]
      /\ UNCHANGED <<sales, stage, job, spoilt>>
  BY <1>1 DEF Create, TypeOK
<1>6. \A h \in Handlers : ~Working(h, q)
  BY <1>5 DEF Working, QuoteExists
<1>7. JobsFit' /\ QuoteExists'
  BY <1>5, <1>6 DEF JobsFit, QuoteExists, Working, TypeOK, Job
<1>8. OneLine(lines'[q], quote'[q].totalAmount)
  BY <1>5 DEF OneLine
<1> QED
  BY <1>4, <1>5, <1>6, <1>7, <1>8

LEMMA UnchangedBase ==
  ASSUME Base, UNCHANGED vars
  PROVE  Base'
  BY DEF Base, TypeOK, JobsFit, QuoteExists, vars

\* The steps of the specification.
LEMMA NextCases ==
  ASSUME Base, [Next]_vars
  PROVE  \/ UNCHANGED vars
         \/ \E q \in Quotes : Create(q)
         \/ \E h \in Handlers, kind \in Kinds, q \in Quotes :
              \E next, locals : Starts(h, kind, q, next, locals)
         \/ \E h \in Handlers : StepOf(h)
<1>1. CASE \E h \in Handlers, kind \in Kinds, q \in Quotes : Read(h, kind, q)
  BY <1>1, ReadStarts DEF Base
<1>2. CASE ~\E h \in Handlers, kind \in Kinds, q \in Quotes : Read(h, kind, q)
  BY <1>2 DEF Next, StepOf
<1> QED
  BY <1>1, <1>2

LEMMA NextBase ==
  ASSUME Base, [Next]_vars
  PROVE  Base'
  BY NextCases, UnchangedBase, CreateBase, StartBase, StepBase

-----------------------------------------------------------------------------
\* A step keeps the lines of every quote if it keeps those of its own.
LEMMA LinesStep ==
  ASSUME Base, LinesInv, NEW h \in Handlers, NEW q \in Quotes, OnQuote(h, q),
         quote'[q].status # "ABSENT" => lines'[q] # {},
         \A i \in DOMAIN sales'[q] : sales'[q][i].lines # {},
         quote'[q].status = "CONVERTED" =>
            quote'[q].convertedSale \in DOMAIN sales'[q],
         DOMAIN sales[q] \subseteq DOMAIN sales'[q],
         stage'[h] = "sale" => job'[h].lines # {},
         stage'[h] = "write" /\ job'[h].kind = "convert" =>
            job'[h].sale \in DOMAIN sales'[q]
  PROVE  LinesInv'
<1>1. NeverWithoutLines'
  <2> SUFFICES ASSUME NEW p \in Quotes
               PROVE  /\ quote'[p].status # "ABSENT" => lines'[p] # {}
                      /\ \A i \in DOMAIN sales'[p] : sales'[p][i].lines # {}
                      /\ quote'[p].status = "CONVERTED" =>
                            quote'[p].convertedSale \in DOMAIN sales'[p]
    BY DEF NeverWithoutLines
  <2>1. CASE p = q
    BY <2>1
  <2>2. CASE p # q
    BY <2>2 DEF OnQuote, LinesInv, NeverWithoutLines
  <2> QED
    BY <2>1, <2>2
<1>2. Convertible'
  <2> SUFFICES ASSUME NEW g \in Handlers
               PROVE  /\ stage'[g] = "sale" => job'[g].lines # {}
                      /\ stage'[g] = "write" /\ job'[g].kind = "convert" =>
                            job'[g].sale \in DOMAIN sales'[job'[g].quote]
    BY DEF Convertible
  <2>1. CASE g = h
    BY <2>1 DEF OnQuote
  <2>2. CASE g # h
    <3>1. /\ stage'[g] = stage[g] /\ job'[g] = job[g]
          /\ job[g].quote \in Quotes
      BY <2>2 DEF OnQuote, Base, TypeOK, Job
    <3>2. DOMAIN sales[job[g].quote] \subseteq DOMAIN sales'[job[g].quote]
      BY <3>1 DEF OnQuote
    <3> QED
      BY <3>1, <3>2 DEF LinesInv, Convertible
  <2> QED
    BY <2>1, <2>2
<1> QED
  BY <1>1, <1>2 DEF LinesInv

LEMMA StepLines ==
  ASSUME Base, LinesInv, NEW h \in Handlers, StepOf(h)
  PROVE  LinesInv'
<1> DEFINE q == job[h].quote
<1>1. /\ q \in Quotes /\ Base' /\ OnQuote(h, q)
      /\ stage[h] # "idle" /\ quote[q].status # "ABSENT"
  BY StepBase DEF Base, TypeOK, Job, QuoteExists, StepOf, UpdateHeader,
                  DeleteLines, InsertLines, UpdateTotal, ReadLines, CreateSale,
                  Write, Abort
<1>2. /\ lines[q] # {}
      /\ \A i \in DOMAIN sales[q] : sales[q][i].lines # {}
      /\ quote[q].status = "CONVERTED" =>
            quote[q].convertedSale \in DOMAIN sales[q]
  BY <1>1 DEF LinesInv, NeverWithoutLines
<1> USE DEF Base, TypeOK
<1>3. CASE UpdateHeader(h) \/ UpdateTotal(h)
  <2>1. /\ lines' = lines /\ sales' = sales
        /\ quote'[q].status = quote[q].status
        /\ quote'[q].convertedSale = quote[q].convertedSale
    BY <1>1, <1>3 DEF UpdateHeader, UpdateTotal, Quote
  <2>2. stage'[h] \in {"delete", "idle"}
    BY <1>3 DEF UpdateHeader, UpdateTotal, Goto, AfterHeader
  <2> QED
    BY <1>1, <1>2, <2>1, <2>2, LinesStep
<1>4. CASE DeleteLines(h) \/ ReadLines(h)
  <2>1. UNCHANGED <<quote, lines, sales>>
    BY <1>4 DEF DeleteLines, ReadLines
  <2>2. stage'[h] \in {"insert", "sale"} /\ job'[h].lines = lines[q]
    BY <1>1, <1>4 DEF DeleteLines, ReadLines, Goto, Job
  <2> QED
    BY <1>1, <1>2, <2>1, <2>2, LinesStep
<1>5. CASE InsertLines(h)
  <2>1. UNCHANGED <<quote, sales>> /\ lines'[q] # {}
    BY <1>1, <1>5 DEF InsertLines
  <2>2. stage'[h] = "total"
    BY <1>5 DEF InsertLines, Goto
  <2> QED
    BY <1>1, <1>2, <2>1, <2>2, LinesStep
<1>6. CASE CreateSale(h)
  <2> DEFINE sale == [customer |-> job[h].customer, lines |-> job[h].lines]
  <2>1. UNCHANGED <<quote, lines>> /\ sales'[q] = Append(sales[q], sale)
    BY <1>1, <1>6 DEF CreateSale
  <2>2. job[h].lines # {}
    BY <1>6 DEF CreateSale, LinesInv, Convertible
  <2>3. stage'[h] = "write" /\ job'[h].sale = Len(sales[q]) + 1
    BY <1>1, <1>6 DEF CreateSale, Goto, Job
  <2>4. sale \in Sale
    BY <1>1, <1>6 DEF CreateSale, JobsFit, Sale, Job
  <2>5. sales[q] \in Seq(Sale) /\ Len(sales[q]) \in Nat
        /\ DOMAIN sales[q] = 1 .. Len(sales[q])
    BY <1>1, LenProperties
  <2>6. /\ DOMAIN sales'[q] = 1 .. (Len(sales[q]) + 1)
        /\ sales'[q][Len(sales[q]) + 1] = sale
        /\ \A i \in 1 .. Len(sales[q]) : sales'[q][i] = sales[q][i]
    <3> HIDE DEF sale
    <3> QED
      BY <2>1, <2>4, <2>5, AppendProperties
  <2>7. \A i \in DOMAIN sales'[q] : sales'[q][i].lines # {}
    <3> SUFFICES ASSUME NEW i \in DOMAIN sales'[q]
                 PROVE  sales'[q][i].lines # {}
      OBVIOUS
    <3>1. \A n \in Nat : \A k \in 1 .. (n + 1) : k \in 1 .. n \/ k = n + 1
      OBVIOUS
    <3>2. i \in 1 .. Len(sales[q]) \/ i = Len(sales[q]) + 1
      BY <2>5, <2>6, <3>1
    <3>3. CASE i \in 1 .. Len(sales[q])
      BY <1>2, <2>5, <2>6, <3>3
    <3>4. CASE i = Len(sales[q]) + 1
      BY <2>2, <2>6, <3>4
    <3> QED
      BY <3>2, <3>3, <3>4
  <2>8. /\ DOMAIN sales[q] \subseteq DOMAIN sales'[q]
        /\ Len(sales[q]) + 1 \in DOMAIN sales'[q]
    BY <2>5, <2>6
  <2> QED
    BY <1>1, <1>2, <2>1, <2>3, <2>7, <2>8, LinesStep
<1>7. CASE Write(h)
  <2>1. UNCHANGED <<lines, sales>> /\ stage'[h] = "idle"
    BY <1>7 DEF Write, Goto
  <2>2. job[h].kind \in Kinds \ {"update"}
    BY <1>7 DEF Write, JobsFit, Job
  <2>3. /\ quote'[q].status = NewStatus(job[h].kind)
        /\ job[h].kind = "convert" => quote'[q].convertedSale = job[h].sale
    BY <1>1, <1>7 DEF Write, Quote
  <2>4. quote'[q].status = "CONVERTED" => job[h].kind = "convert"
    BY <2>2, <2>3 DEF NewStatus, Kinds
  <2>5. job[h].kind = "convert" => job[h].sale \in DOMAIN sales[q]
    BY <1>7 DEF Write, LinesInv, Convertible
  <2> QED
    BY <1>1, <1>2, <2>1, <2>3, <2>4, <2>5, LinesStep
<1>8. CASE Abort(h)
  <2>1. UNCHANGED <<quote, lines, sales>> /\ stage'[h] = "idle"
    BY <1>8 DEF Abort, Goto
  <2> QED
    BY <1>1, <1>2, <2>1, LinesStep
<1> QED
  BY <1>3, <1>4, <1>5, <1>6, <1>7, <1>8 DEF StepOf

LEMMA NextLines ==
  ASSUME Base, LinesInv, [Next]_vars
  PROVE  LinesInv'
<1>1. ASSUME UNCHANGED vars PROVE LinesInv'
  BY <1>1 DEF LinesInv, NeverWithoutLines, Convertible, vars
<1>2. ASSUME NEW q \in Quotes, Create(q) PROVE LinesInv'
  <2>1. /\ quote'[q].status = "DRAFT" /\ lines'[q] # {}
        /\ \A p \in Quotes \ {q} : quote'[p] = quote[p] /\ lines'[p] = lines[p]
        /\ UNCHANGED <<sales, stage, job>>
    BY <1>2, CreateBase DEF OneLine
  <2> QED
    BY <2>1 DEF LinesInv, NeverWithoutLines, Convertible
<1>3. ASSUME NEW h \in Handlers, NEW kind \in Kinds, NEW q \in Quotes,
             NEW next, NEW locals, Starts(h, kind, q, next, locals)
      PROVE  LinesInv'
  <2>1. OnQuote(h, q) /\ UNCHANGED <<quote, lines, sales>>
    BY <1>3, StartBase DEF Starts
  <2>2. /\ stage'[h] # "sale"
        /\ stage'[h] = "write" => job'[h].kind # "convert"
    BY <1>3 DEF Starts, Goto, Base, TypeOK
  <2>3. /\ quote[q].status # "ABSENT" => lines[q] # {}
        /\ \A i \in DOMAIN sales[q] : sales[q][i].lines # {}
        /\ quote[q].status = "CONVERTED" =>
              quote[q].convertedSale \in DOMAIN sales[q]
    BY DEF LinesInv, NeverWithoutLines
  <2> QED
    BY <2>1, <2>2, <2>3, LinesStep
<1>4. ASSUME NEW h \in Handlers, StepOf(h) PROVE LinesInv'
  BY <1>4, StepLines
<1> QED
  BY <1>1, <1>2, <1>3, <1>4, NextCases

-----------------------------------------------------------------------------
\* A step keeps the clean quotes if it keeps its own.
LEMMA CleanStep ==
  ASSUME Base, CleanInv, NEW h \in Handlers, NEW q \in Quotes, OnQuote(h, q),
         q \notin spoilt' => Clean(q)'
  PROVE  CleanInv'
<1> SUFFICES ASSUME NEW p \in Quotes \ spoilt', p # q PROVE Clean(p)'
  BY DEF CleanInv
<1>1. Clean(p)
  BY DEF CleanInv, OnQuote
<1>2. /\ quote'[p] = quote[p] /\ lines'[p] = lines[p] /\ sales'[p] = sales[p]
  BY DEF OnQuote
<1>3. \A g \in Handlers : Working(g, p)' <=> Working(g, p)
  BY DEF OnQuote, Working
<1>4. \A g \in Handlers : Working(g, p) => /\ stage'[g] = stage[g]
                                           /\ job'[g] = job[g]
  BY DEF OnQuote, Working
<1>5. Solitary(p)'
  BY <1>1, <1>3 DEF Clean, Solitary
<1>6. \A g \in Handlers : HandlerFit(g, p)'
  BY <1>1, <1>2, <1>3, <1>4 DEF Clean, HandlerFit
<1>7. TotalFit(p)'
  BY <1>1, <1>2, <1>3, <1>4 DEF Clean, TotalFit, Editing
<1>8. SaleFit(p)'
  <2>1. (\E g \in Handlers : Converting(g, p))'
          <=> \E g \in Handlers : Converting(g, p)
    BY <1>3, <1>4 DEF Converting
  <2>2. TheSale(p)' = TheSale(p)
    BY <1>2 DEF TheSale
  <2> QED
    BY <1>1, <1>2, <2>1, <2>2 DEF Clean, SaleFit
<1> QED
  BY <1>5, <1>6, <1>7, <1>8 DEF Clean

\* What a clean quote is to the only handler that works on it.
LEMMA SoloFacts ==
  ASSUME NEW h \in Handlers, NEW q \in Quotes, Clean(q), Working(h, q)
  PROVE  /\ \A other \in Handlers \ {h} : ~Working(other, q)
         /\ HandlerFit(h, q)
         /\ quote[q].status # "ABSENT" /\ stage[h] # "total" =>
               OneLine(lines[q], quote[q].totalAmount)
         /\ sales[q] = IF \/ quote[q].status = "CONVERTED"
                          \/ stage[h] = "write" /\ job[h].kind = "convert"
                       THEN << TheSale(q) >> ELSE << >>
<1>1. \A other \in Handlers \ {h} : ~Working(other, q)
  BY DEF Clean, Solitary
<1>2. HandlerFit(h, q)
  BY DEF Clean
<1>3. quote[q].status # "ABSENT" /\ stage[h] # "total" =>
         OneLine(lines[q], quote[q].totalAmount)
  BY <1>1 DEF Clean, TotalFit, Editing
<1>4. (\E g \in Handlers : Converting(g, q))
        <=> stage[h] = "write" /\ job[h].kind = "convert"
  BY <1>1 DEF Converting
<1>5. sales[q] = IF \/ quote[q].status = "CONVERTED"
                    \/ stage[h] = "write" /\ job[h].kind = "convert"
                 THEN << TheSale(q) >> ELSE << >>
  BY <1>4 DEF Clean, SaleFit
<1> QED
  BY <1>1, <1>2, <1>3, <1>5

\* And what it has to be after its step.
LEMMA SoloClean ==
  ASSUME NEW h \in Handlers, NEW q \in Quotes, OnQuote(h, q),
         \A other \in Handlers \ {h} : ~Working(other, q),
         HandlerFit(h, q)',
         quote'[q].status # "ABSENT",
         stage'[h] # "total" => OneLine(lines'[q], quote'[q].totalAmount),
         sales'[q] = IF \/ quote'[q].status = "CONVERTED"
                        \/ stage'[h] = "write" /\ job'[h].kind = "convert"
                     THEN << TheSale(q)' >> ELSE << >>
  PROVE  Clean(q)'
<1>1. \A other \in Handlers \ {h} : ~Working(other, q)'
  BY DEF OnQuote, Working
<1>2. Solitary(q)' /\ \A g \in Handlers : HandlerFit(g, q)'
  BY <1>1 DEF Solitary, HandlerFit
<1>3. stage'[h] # "idle" => Working(h, q)'
  BY DEF OnQuote, Working
<1>4. TotalFit(q)'
  BY <1>3 DEF TotalFit, Editing
<1>5. SaleFit(q)'
  <2>1. (\E g \in Handlers : Converting(g, q)')
          <=> stage'[h] = "write" /\ job'[h].kind = "convert"
    BY <1>1, <1>3 DEF Converting
  <2> QED
    BY <2>1 DEF SaleFit
<1> QED
  BY <1>2, <1>4, <1>5 DEF Clean

LEMMA StepClean ==
  ASSUME Base, CleanInv, NEW h \in Handlers, StepOf(h), NEW q, q = job[h].quote
  PROVE  CleanInv'
<1>1. /\ q \in Quotes /\ OnQuote(h, q) /\ Working(h, q)
      /\ quote[q].status # "ABSENT" /\ job[h].kind \in Kinds
  BY StepBase DEF Base, TypeOK, Job, QuoteExists, Working, StepOf,
                  UpdateHeader, DeleteLines, InsertLines, UpdateTotal,
                  ReadLines, CreateSale, Write, Abort
<1> SUFFICES ASSUME q \notin spoilt' PROVE Clean(q)'
  BY <1>1, CleanStep
<1>2. Clean(q)
  BY <1>1 DEF CleanInv, OnQuote
<1>3. /\ \A other \in Handlers \ {h} : ~Working(other, q)
      /\ Allowed(job[h].kind, quote[q].status)
      /\ stage[h] = "insert" => job[h].lines = lines[q]
      /\ stage[h] = "total" => OneLine(lines[q], job[h].price)
      /\ stage[h] \in {"lines", "sale"} => job[h].customer = quote[q].customer
      /\ stage[h] = "sale" => job[h].lines = lines[q]
      /\ stage[h] # "total" => OneLine(lines[q], quote[q].totalAmount)
      /\ sales[q] = IF \/ quote[q].status = "CONVERTED"
                       \/ stage[h] = "write" /\ job[h].kind = "convert"
                    THEN << TheSale(q) >> ELSE << >>
  BY <1>1, <1>2, SoloFacts DEF HandlerFit
<1> USE DEF Base, TypeOK
\* An edition finds the quote without a sale.
<1>4. job[h].kind = "update" => /\ sales[q] = << >>
                                /\ quote[q].status # "CONVERTED"
  <2>1. ASSUME job[h].kind = "update" PROVE quote[q].status # "CONVERTED"
    BY <1>3, <2>1 DEF Allowed
  <2> QED
    BY <1>3, <2>1
<1>5. CASE UpdateHeader(h)
  <2>1. /\ job[h].kind = "update" /\ stage[h] = "header"
        /\ UNCHANGED <<lines, sales>>
        /\ quote'[q].status = quote[q].status
        /\ quote'[q].totalAmount = quote[q].totalAmount
    BY <1>1, <1>5 DEF UpdateHeader, JobsFit, Quote
  <2>2. /\ stage'[h] \in {"delete", "idle"}
        /\ stage'[h] # "idle" => job'[h] = job[h]
    BY <1>5 DEF UpdateHeader, Goto, AfterHeader
  <2>3. HandlerFit(h, q)'
    BY <1>3, <2>1, <2>2 DEF HandlerFit, Working
  <2> QED
    BY <1>1, <1>3, <1>4, <2>1, <2>2, <2>3, SoloClean
<1>6. CASE DeleteLines(h)
  <2>1. /\ job[h].kind = "update" /\ stage[h] = "delete"
        /\ UNCHANGED <<quote, lines, sales>>
    BY <1>6 DEF DeleteLines, JobsFit
  <2>2. /\ stage'[h] = "insert" /\ job'[h].lines = lines[q]
        /\ job'[h].kind = job[h].kind
    BY <1>1, <1>6 DEF DeleteLines, Goto, Job
  <2>3. HandlerFit(h, q)'
    BY <1>3, <2>1, <2>2 DEF HandlerFit
  <2> QED
    BY <1>1, <1>3, <1>4, <2>1, <2>2, <2>3, SoloClean
<1>7. CASE InsertLines(h)
  <2>1. /\ job[h].kind = "update" /\ stage[h] = "insert"
        /\ UNCHANGED <<quote, sales>>
    BY <1>7 DEF InsertLines, JobsFit
  <2>2. stage'[h] = "total" /\ job'[h] = job[h]
    BY <1>1, <1>7 DEF InsertLines, Goto
  <2>3. OneLine(lines'[q], job[h].price)
    <3>1. OtherLines(h) = {}
      BY <1>3, <2>1 DEF OtherLines
    <3>2. lines'[q] = {[id |-> lastLine[q] + 1, price |-> job[h].price]}
      BY <1>1, <1>7, <3>1 DEF InsertLines
    <3>3. lastLine[q] + 1 \in Nat
      BY <1>1
    <3> QED
      BY <3>2, <3>3 DEF OneLine
  <2>4. HandlerFit(h, q)'
    BY <1>3, <2>1, <2>2, <2>3 DEF HandlerFit
  <2> QED
    BY <1>1, <1>3, <1>4, <2>1, <2>2, <2>4, SoloClean
<1>8. CASE UpdateTotal(h)
  <2>1. /\ job[h].kind = "update" /\ stage[h] = "total"
        /\ UNCHANGED <<lines, sales>> /\ stage'[h] = "idle"
        /\ quote'[q].status = quote[q].status
        /\ quote'[q].totalAmount = job[h].price
    BY <1>1, <1>8 DEF UpdateTotal, Goto, JobsFit, Quote
  <2>2. HandlerFit(h, q)'
    BY <2>1 DEF HandlerFit, Working
  <2> QED
    BY <1>1, <1>3, <1>4, <2>1, <2>2, SoloClean
<1>9. CASE ReadLines(h)
  <2>1. /\ job[h].kind = "convert" /\ stage[h] = "lines"
        /\ UNCHANGED <<quote, lines, sales>>
    BY <1>9 DEF ReadLines, JobsFit
  <2>2. /\ stage'[h] = "sale" /\ job'[h].lines = lines[q]
        /\ job'[h].kind = job[h].kind /\ job'[h].customer = job[h].customer
    BY <1>1, <1>9 DEF ReadLines, Goto, Job
  <2>3. HandlerFit(h, q)'
    BY <1>3, <2>1, <2>2 DEF HandlerFit
  <2>4. TheSale(q)' = TheSale(q)
    BY <2>1 DEF TheSale
  <2> QED
    BY <1>1, <1>3, <2>1, <2>2, <2>3, <2>4, SoloClean
<1>10. CASE CreateSale(h)
  <2> DEFINE sale == [customer |-> job[h].customer, lines |-> job[h].lines]
  <2>1. /\ job[h].kind = "convert" /\ stage[h] = "sale"
        /\ UNCHANGED <<quote, lines>> /\ sales'[q] = Append(sales[q], sale)
    BY <1>1, <1>10 DEF CreateSale, JobsFit
  <2>2. stage'[h] = "write" /\ job'[h].kind = job[h].kind
    BY <1>1, <1>10 DEF CreateSale, Goto, Job
  <2>3. quote[q].status = "ACCEPTED"
    BY <1>3, <2>1 DEF Allowed
  <2>4. sales[q] = << >>
    BY <1>3, <2>1, <2>3
  <2>5. sales'[q] = << TheSale(q)' >>
    <3>1. TheSale(q)' = sale
      BY <1>3, <2>1 DEF TheSale
    <3> HIDE DEF sale
    <3> QED
      BY <2>1, <2>4, <3>1
  <2>6. HandlerFit(h, q)'
    BY <1>3, <2>1, <2>2 DEF HandlerFit
  <2> QED
    BY <1>1, <1>3, <2>1, <2>2, <2>5, <2>6, SoloClean
<1>11. CASE Write(h)
  <2>1. /\ UNCHANGED <<lines, sales>> /\ stage'[h] = "idle"
        /\ stage[h] = "write" /\ job[h].kind # "update"
    BY <1>11 DEF Write, Goto, JobsFit
  <2>2. /\ quote'[q].status = NewStatus(job[h].kind)
        /\ quote'[q].customer = quote[q].customer
        /\ quote'[q].totalAmount = quote[q].totalAmount
    BY <1>1, <1>11 DEF Write, Quote
  <2>3. /\ quote'[q].status = "CONVERTED" <=> job[h].kind = "convert"
        /\ quote'[q].status # "ABSENT"
    BY <1>1, <2>1, <2>2 DEF NewStatus, Kinds
  <2>4. quote[q].status # "CONVERTED"
    BY <1>1, <1>3, <2>1 DEF Allowed, Kinds
  <2>5. HandlerFit(h, q)' /\ TheSale(q)' = TheSale(q)
    BY <2>1, <2>2 DEF HandlerFit, Working, TheSale
  <2> QED
    BY <1>1, <1>3, <2>1, <2>2, <2>3, <2>4, <2>5, SoloClean
<1>12. CASE Abort(h)
  <2>1. UNCHANGED <<quote, lines, sales>> /\ stage'[h] = "idle"
    BY <1>12 DEF Abort, Goto
  <2>2. /\ stage[h] # "total"
        /\ ~(stage[h] = "write" /\ job[h].kind = "convert")
    BY <1>1, <1>12 DEF Abort, HalfWritten
  <2>3. HandlerFit(h, q)' /\ TheSale(q)' = TheSale(q)
    BY <2>1 DEF HandlerFit, Working, TheSale
  <2> QED
    BY <1>1, <1>3, <2>1, <2>2, <2>3, SoloClean
<1> QED
  BY <1>5, <1>6, <1>7, <1>8, <1>9, <1>10, <1>11, <1>12 DEF StepOf

\* A handler that starts marks the quote unless it is alone on it.
LEMMA StartClean ==
  ASSUME Base, CleanInv, NEW h \in Handlers, NEW kind \in Kinds,
         NEW q \in Quotes, NEW next, NEW locals,
         Starts(h, kind, q, next, locals)
  PROVE  CleanInv'
<1>1. OnQuote(h, q) /\ UNCHANGED <<quote, lines, sales>>
  BY StartBase DEF Starts
<1> SUFFICES ASSUME q \notin spoilt' PROVE Clean(q)'
  BY <1>1, CleanStep
<1>2. Clean(q) /\ \A other \in Handlers : ~Working(other, q)
  BY <1>1 DEF CleanInv, OnQuote, Starts
<1>3. /\ quote[q].status # "ABSENT"
      /\ OneLine(lines[q], quote[q].totalAmount)
      /\ sales[q] = IF quote[q].status = "CONVERTED"
                    THEN << TheSale(q) >> ELSE << >>
  BY <1>2, AllowedExists DEF Starts, Clean, TotalFit, SaleFit, Editing, Converting
<1>4. /\ stage'[h] = next /\ (next # "idle" => job'[h] = locals)
      /\ locals.kind = kind /\ locals.quote = q
      /\ next \notin {"insert", "total", "sale"}
      /\ next = "lines" => locals.customer = quote[q].customer
      /\ ~(next = "write" /\ kind = "convert")
  BY GotoFacts DEF Starts, Base
<1>5. HandlerFit(h, q)'
  BY <1>1, <1>4 DEF HandlerFit, Working, Starts
<1>6. TheSale(q)' = TheSale(q)
  BY <1>1 DEF TheSale
<1> QED
  BY <1>1, <1>2, <1>3, <1>4, <1>5, <1>6, SoloClean

LEMMA NextClean ==
  ASSUME Base, CleanInv, [Next]_vars
  PROVE  CleanInv'
<1>1. ASSUME UNCHANGED vars PROVE CleanInv'
  BY <1>1 DEF CleanInv, Clean, Solitary, HandlerFit, TotalFit, SaleFit, TheSale,
              Editing, Converting, Working, vars
<1>2. ASSUME NEW q \in Quotes, Create(q) PROVE CleanInv'
  <2>1. /\ \A h \in Handlers : ~Working(h, q)
        /\ quote[q].status = "ABSENT" /\ quote'[q].status = "DRAFT"
        /\ OneLine(lines'[q], quote'[q].totalAmount)
        /\ \A p \in Quotes \ {q} : quote'[p] = quote[p] /\ lines'[p] = lines[p]
        /\ UNCHANGED <<sales, stage, job, spoilt>>
    BY <1>2, CreateBase
  <2> SUFFICES ASSUME NEW p \in Quotes \ spoilt PROVE Clean(p)'
    BY <2>1 DEF CleanInv
  <2>2. Clean(p)
    BY DEF CleanInv
  <2>3. CASE p = q
    <3>1. \A h \in Handlers : ~Working(h, q)'
      BY <2>1 DEF Working
    <3>2. sales[q] = << >>
      BY <2>1, <2>2, <2>3 DEF Clean, SaleFit, Converting
    <3> QED
      BY <2>1, <2>3, <3>1, <3>2 DEF Clean, Solitary, HandlerFit, TotalFit,
                                    SaleFit, Converting
  <2>4. CASE p # q
    BY <2>1, <2>2, <2>4 DEF Clean, Solitary, HandlerFit, TotalFit, SaleFit,
                            TheSale, Editing, Converting, Working
  <2> QED
    BY <2>3, <2>4
<1>3. ASSUME NEW h \in Handlers, NEW kind \in Kinds, NEW q \in Quotes,
             NEW next, NEW locals, Starts(h, kind, q, next, locals)
      PROVE  CleanInv'
  BY <1>3, StartClean
<1>4. ASSUME NEW h \in Handlers, StepOf(h) PROVE CleanInv'
  BY <1>4, StepClean
<1> QED
  BY <1>1, <1>2, <1>3, <1>4, NextCases

-----------------------------------------------------------------------------
\* The inductive invariant of the quotes.
THEOREM QuotesInvariant ==
  Spec => []IInv
<1>1. Init => IInv
  <2>1. Init => LinesInv
    BY DEF Init, LinesInv, NeverWithoutLines, Convertible
  <2>2. Init => CleanInv
    BY DEF Init, CleanInv, Clean, Solitary, HandlerFit, TotalFit, SaleFit,
           Converting, Working
  <2> QED
    BY <2>1, <2>2, InitBase DEF IInv
<1>2. IInv /\ [Next]_vars => IInv'
  BY NextBase, NextLines, NextClean DEF IInv
<1> QED
  BY <1>1, <1>2, PTL DEF Spec

\* The variables keep their types.
THEOREM TypeCorrect ==
  Spec => []TypeOK
<1>1. IInv => TypeOK
  BY DEF IInv, Base
<1> QED
  BY <1>1, QuotesInvariant, PTL

\* However editions and conversions overlap or fail, a quote keeps its lines
\* and so does its sale.
THEOREM LinesAreKept ==
  Spec => []NeverWithoutLines
<1>1. IInv => NeverWithoutLines
  BY DEF IInv, LinesInv
<1> QED
  BY <1>1, QuotesInvariant, PTL

\* The total of a line is its price.
LEMMA OneLineTotal ==
  ASSUME NEW set, NEW price \in Int, OneLine(set, price)
  PROVE  LinesTotal(set) = price
<1>1. PICK id \in Nat : set = {[id |-> id, price |-> price]}
  BY DEF OneLine
<1> DEFINE line == [id |-> id, price |-> price]
           F == [l \in {line} |-> l.price]
<1>2. F[line] = price
  OBVIOUS
<1>3. LinesTotal(set) = SumFunctionOnSet(F, {line})
  BY <1>1 DEF LinesTotal
<1> HIDE DEF F, line
<1> QED
  BY <1>2, <1>3, SumSingleton

\* A quote nobody works on has the total of its lines, unless two handlers
\* have worked on it together or one has left it half written.
THEOREM TotalsAreLines ==
  Spec => []CleanTotalIsLines
<1>1. ASSUME IInv, NEW q \in Quotes \ spoilt, Idle(q)
      PROVE  quote[q].totalAmount = LinesTotal(lines[q])
  <2>1. TotalFit(q) /\ \A h \in Handlers : ~Editing(h, q)
    BY <1>1 DEF IInv, CleanInv, Clean, Idle, Editing
  <2>2. quote[q].totalAmount \in Int
    BY <1>1 DEF IInv, Base, TypeOK, Quote
  <2>3. CASE quote[q].status = "ABSENT"
    <3>1. lines[q] = {} /\ quote[q].totalAmount = 0
      BY <2>1, <2>3 DEF TotalFit
    <3>2. LinesTotal({}) = 0
      BY SumEmpty DEF LinesTotal
    <3> QED
      BY <3>1, <3>2
  <2>4. CASE quote[q].status # "ABSENT"
    BY <2>1, <2>2, <2>4, OneLineTotal DEF TotalFit
  <2> QED
    BY <2>3, <2>4
<1>2. IInv => CleanTotalIsLines
  BY <1>1 DEF CleanTotalIsLines
<1> QED
  BY <1>2, QuotesInvariant, PTL

\* It has one sale, that says what it says, exactly when it is CONVERTED.
THEOREM SalesAreQuotes ==
  Spec => []CleanSaleIsQuote
<1>1. IInv => CleanSaleIsQuote
  BY DEF IInv, CleanInv, Clean, SaleFit, TheSale, Idle, Converting,
         CleanSaleIsQuote
<1> QED
  BY <1>1, QuotesInvariant, PTL

\* What the customer has answered is not edited any more.
THEOREM SettledIsFrozen ==
  Spec => CleanSettledIsFrozen
<1> DEFINE Kept(q) ==
             /\ lines'[q] = lines[q]
             /\ quote'[q].customer = quote[q].customer
             /\ quote'[q].totalAmount = quote[q].totalAmount
             /\ \/ quote'[q].status = quote[q].status
                \/ /\ quote[q].status = "ACCEPTED"
                   /\ quote'[q].status = "CONVERTED"
<1>1. ASSUME IInv, [Next]_vars, NEW q \in Quotes, Settled(q), q \notin spoilt'
      PROVE  Kept(q)
  <2> USE DEF IInv
  <2>1. ASSUME UNCHANGED vars PROVE Kept(q)
    BY <2>1 DEF vars
  <2>2. ASSUME NEW p \in Quotes, Create(p) PROVE Kept(q)
    <3>1. p # q
      BY <1>1, <2>2, CreateBase DEF Settled
    <3> QED
      BY <1>1, <2>2, <3>1, CreateBase
  <2>3. ASSUME NEW h \in Handlers, NEW kind \in Kinds, NEW p \in Quotes,
               NEW next, NEW locals, Starts(h, kind, p, next, locals)
        PROVE  Kept(q)
    BY <2>3 DEF Starts
  <2>4. ASSUME NEW h \in Handlers, StepOf(h) PROVE Kept(q)
    <3>1. /\ OnQuote(h, job[h].quote) /\ stage[h] # "idle"
          /\ job[h].kind \in Kinds
      BY <1>1, <2>4, StepBase DEF Base, TypeOK, Job, StepOf, UpdateHeader,
            DeleteLines, InsertLines, UpdateTotal, ReadLines, CreateSale,
            Write, Abort
    <3>2. CASE job[h].quote # q
      BY <3>1, <3>2 DEF OnQuote
    <3>3. CASE job[h].quote = q
      <4>1. Allowed(job[h].kind, quote[q].status)
        BY <1>1, <3>1, <3>3 DEF OnQuote, CleanInv, Clean, HandlerFit, Working
      <4>2. /\ job[h].kind = "convert" /\ quote[q].status = "ACCEPTED"
        BY <1>1, <3>1, <4>1 DEF Allowed, Settled, Kinds
      <4>3. stage[h] \in {"lines", "sale", "write"}
        BY <1>1, <3>1, <4>2 DEF Base, JobsFit, TypeOK, Stages
      <4>4. CASE Write(h)
        <5>1. /\ quote' = [quote EXCEPT ![q].status = NewStatus("convert"),
                                        ![q].convertedSale = job[h].sale]
              /\ lines' = lines /\ NewStatus("convert") = "CONVERTED"
          BY <3>3, <4>2, <4>4 DEF Write, NewStatus
        <5>2. quote[q] \in Quote
          BY <1>1 DEF Base, TypeOK
        <5> QED
          BY <1>1, <4>2, <5>1, <5>2 DEF Base, TypeOK, Quote
      <4>5. CASE ~Write(h)
        BY <2>4, <4>3, <4>5 DEF StepOf, UpdateHeader, DeleteLines, InsertLines,
              UpdateTotal, ReadLines, CreateSale, Abort
      <4> QED
        BY <4>4, <4>5
    <3> QED
      BY <3>2, <3>3
  <2> HIDE DEF Kept
  <2> QED
    BY <1>1, <2>1, <2>2, <2>3, <2>4, NextCases
<1>2. IInv /\ [Next]_vars =>
        [\A q \in Quotes :
           Settled(q) /\ q \notin spoilt' =>
              /\ lines'[q] = lines[q]
              /\ quote'[q].customer = quote[q].customer
              /\ quote'[q].totalAmount = quote[q].totalAmount
              /\ \/ quote'[q].status = quote[q].status
                 \/ quote[q].status = "ACCEPTED" /\ quote'[q].status = "CONVERTED"
        ]_vars
  BY <1>1
<1> QED
  BY <1>2, QuotesInvariant, PTL DEF Spec, CleanSettledIsFrozen

=============================================================================
