---------------------------- MODULE PurchaseOrders ----------------------------
(***************************************************************************)
(* PurchaseOrdersService: the life of a purchase order, from its creation  *)
(* by a buyer or from the stock alerts to its reception.                   *)
(*                                                                         *)
(* No handler here is a transaction: each reads the order, checks its      *)
(* status and acts, and what it has done stays done if a later statement   *)
(* fails.  The e-mail to the supplier leaves before it is logged and       *)
(* before the status changes; a reception runs one stock movement per      *)
(* line, each of them a transaction of its own (StockMovementsService      *)
(* .create, an atomic step here; StockLedger has its inside), before the   *)
(* status changes.                                                         *)
(*                                                                         *)
(* A handler that has answered returns to "idle" and serves the next       *)
(* request.  MaxEmails and MaxReceipts only bound the exploration.         *)
(***************************************************************************)
EXTENDS Naturals, FiniteSets

CONSTANTS
    Handlers,       \* the requests the server can have in flight
    Orders,
    LineCount,      \* the number of lines of an order
    MaxEmails,      \* no further sending of an order after that many e-mails
    MaxReceipts     \* no further reception after that many of its first line

ASSUME OrdersAssumption == /\ IsFiniteSet(Handlers)
                           /\ Orders # {}
                           /\ LineCount \in [Orders -> Nat \ {0}]
                           /\ MaxEmails \in Nat
                           /\ MaxReceipts \in Nat

VARIABLES
    status,         \* PurchaseOrder.status
    supplied,       \* the orders with a supplierId
    reachable,      \* the supplier has an e-mail address
    approved,       \* the orders with a validatedAt
    emails,         \* how many e-mails the supplier got for an order
    logged,         \* the SUCCESS rows of the send log of an order
    entries,        \* the ENTRY movements committed for a line of an order
    stage, job,     \* the next statement of a handler, and its locals
    spoilt          \* auxiliary: the orders two handlers have worked on at the
                    \* same time, or whose reception failed between two lines

vars == <<status, supplied, reachable, approved, emails, logged, entries,
          stage, job, spoilt>>

Status == {"ABSENT", "DRAFT", "PENDING_VALIDATION", "VALIDATED",
           "SENT_TO_SUPPLIER", "ISSUED", "RECEIVED"}
Kinds == {"submit", "validate", "send", "receive"}
Lines(order) == 1 .. LineCount[order]
Job == [kind : Kinds, order : Orders, line : Nat, success : BOOLEAN]

\* The variables have the types the code gives them.
TypeOK ==
    /\ status \in [Orders -> Status]
    /\ supplied \in SUBSET Orders
    /\ reachable \in BOOLEAN
    /\ approved \in SUBSET Orders
    /\ emails \in [Orders -> Nat]
    /\ logged \in [Orders -> Nat]
    /\ DOMAIN entries = Orders
    /\ \A order \in Orders : entries[order] \in [Lines(order) -> Nat]
    /\ stage \in [Handlers -> {"idle", "email", "log", "line", "write"}]
    /\ job \in [Handlers -> Job]
    /\ spoilt \in SUBSET Orders

Init ==
    /\ status = [order \in Orders |-> "ABSENT"]
    /\ supplied = {}
    /\ reachable = TRUE
    /\ approved = {}
    /\ emails = [order \in Orders |-> 0]
    /\ logged = [order \in Orders |-> 0]
    /\ entries = [order \in Orders |-> [line \in Lines(order) |-> 0]]
    /\ stage = [h \in Handlers |-> "idle"]
    /\ job \in [Handlers -> {[kind |-> "submit", line |-> 1, success |-> FALSE,
                              order |-> CHOOSE order \in Orders : TRUE]}]
    /\ spoilt = {}

Working(h, order) == stage[h] # "idle" /\ job[h].order = order
Goto(h, next) == stage' = [stage EXCEPT ![h] = next]

-----------------------------------------------------------------------------
\* POST /purchase-orders: a draft for a supplier with an e-mail address.
CreateDraft(order) ==
    /\ status[order] = "ABSENT"
    /\ reachable
    /\ status' = [status EXCEPT ![order] = "DRAFT"]
    /\ supplied' = supplied \cup {order}
    /\ UNCHANGED <<reachable, approved, emails, logged, entries, stage, job,
                   spoilt>>

\* POST /purchase-orders/from-alerts, or a creation with status ISSUED.
CreateIssued(order) ==
    /\ status[order] = "ABSENT"
    /\ status' = [status EXCEPT ![order] = "ISSUED"]
    /\ UNCHANGED <<supplied, reachable, approved, emails, logged, entries,
                   stage, job, spoilt>>

\* PATCH /suppliers/:id gives the supplier an address or takes it away.
UpdateSupplier ==
    /\ reachable' = ~reachable
    /\ UNCHANGED <<status, supplied, approved, emails, logged, entries, stage,
                   job, spoilt>>

\* Mutants: a check of the status is missing or refuses the wrong one.
AllowedAgain(kind, order) ==
    \/ kind = "submit" /\ status[order] = "DRAFT"
    \/ kind = "validate" /\ status[order] = "PENDING_VALIDATION"
    \/ /\ kind = "send" /\ status[order] \in {"VALIDATED", "SENT_TO_SUPPLIER"}
       /\ order \in supplied /\ reachable
    \/ /\ kind = "receive"
       /\ status[order] \in {"ISSUED", "SENT_TO_SUPPLIER", "RECEIVED"}
AllowedAfterDraft(kind, order) ==
    \/ kind = "submit" /\ status[order] = "DRAFT"
    \/ kind = "validate" /\ status[order] \notin {"ABSENT", "DRAFT", "ISSUED"}
    \/ /\ kind = "send" /\ status[order] \in {"VALIDATED", "SENT_TO_SUPPLIER"}
       /\ order \in supplied /\ reachable
    \/ /\ kind = "receive" /\ status[order] \in {"ISSUED", "SENT_TO_SUPPLIER"}

\* The checks at the head of each handler.
Allowed(kind, order) ==
    \/ kind = "submit" /\ status[order] = "DRAFT"
    \/ kind = "validate" /\ status[order] = "PENDING_VALIDATION"
    \/ /\ kind = "send" /\ status[order] \in {"VALIDATED", "SENT_TO_SUPPLIER"}
       /\ order \in supplied /\ reachable
    \/ kind = "receive" /\ status[order] \in {"ISSUED", "SENT_TO_SUPPLIER"}

WithinBounds(kind, order) ==
    /\ kind = "send" => emails[order] < MaxEmails
    /\ kind = "receive" => entries[order][1] < MaxReceipts

FirstStage(kind) ==
    CASE kind = "send" -> "email"
      [] kind = "receive" -> "line"
      [] OTHER -> "write"

\* findById and the checks.
Read(h, kind, order) ==
    /\ stage[h] = "idle"
    /\ Allowed(kind, order)
    /\ WithinBounds(kind, order)
    /\ job' = [job EXCEPT ![h] = [kind |-> kind, order |-> order, line |-> 1,
                                  success |-> FALSE]]
    /\ Goto(h, FirstStage(kind))
    /\ spoilt' = IF \E other \in Handlers : Working(other, order)
                 THEN spoilt \cup {order} ELSE spoilt
    /\ UNCHANGED <<status, supplied, reachable, approved, emails, logged,
                   entries>>

\* emailService.send: success is reported only for an e-mail that was
\* accepted, but an e-mail may be accepted and the answer lost.
Email(h) ==
    LET order == job[h].order
    IN  /\ stage[h] = "email"
        /\ \E accepted \in BOOLEAN, success \in BOOLEAN :
             /\ success => accepted
             /\ emails' = [emails EXCEPT ![order] =
                             IF accepted THEN @ + 1 ELSE @]
             /\ job' = [job EXCEPT ![h].success = success]
        /\ Goto(h, "log")
        /\ UNCHANGED <<status, supplied, reachable, approved, logged, entries,
                       spoilt>>

\* Mutant: a failed sending goes on to the status.
AfterLogAlways(success) == "write"

\* if (!result.success) throw, once the attempt is logged.
AfterLog(success) == IF success THEN "write" ELSE "idle"

\* sendLogRepository.create; the audit and the notification follow.
Log(h) ==
    /\ stage[h] = "log"
    /\ logged' = [logged EXCEPT ![job[h].order] =
                    IF job[h].success THEN @ + 1 ELSE @]
    /\ Goto(h, AfterLog(job[h].success))
    /\ UNCHANGED <<status, supplied, reachable, approved, emails, entries, job,
                   spoilt>>

\* Mutant: the loop over the lines ends one line early.
AfterLineEarly(order, line) ==
    IF line + 1 < LineCount[order] THEN "line" ELSE "write"

AfterLine(order, line) == IF line < LineCount[order] THEN "line" ELSE "write"

\* stockMovementsService.create for the next line of the order.
ReceiveLine(h) ==
    LET order == job[h].order
        line == job[h].line
    IN  /\ stage[h] = "line"
        /\ entries' = [entries EXCEPT ![order][line] = @ + 1]
        /\ job' = [job EXCEPT ![h].line = line + 1]
        /\ Goto(h, AfterLine(order, line))
        /\ UNCHANGED <<status, supplied, reachable, approved, emails, logged,
                       spoilt>>

\* Mutant: the status is spelt another way.
NewStatusShort(kind) ==
    CASE kind = "submit" -> "PENDING_VALIDATION"
      [] kind = "validate" -> "VALIDATED"
      [] kind = "send" -> "SENT"
      [] kind = "receive" -> "RECEIVED"

NewStatus(kind) ==
    CASE kind = "submit" -> "PENDING_VALIDATION"
      [] kind = "validate" -> "VALIDATED"
      [] kind = "send" -> "SENT_TO_SUPPLIER"
      [] kind = "receive" -> "RECEIVED"

\* repository.update and markReceived, whatever the status is by now.
Write(h) ==
    LET order == job[h].order
        kind == job[h].kind
    IN  /\ stage[h] = "write"
        /\ status' = [status EXCEPT ![order] = NewStatus(kind)]
        /\ approved' = IF kind = "validate" THEN approved \cup {order}
                                            ELSE approved
        /\ Goto(h, "idle")
        /\ UNCHANGED <<supplied, reachable, emails, logged, entries, job,
                       spoilt>>

\* A statement fails, or the server stops: what was done stays done.
Abort(h) ==
    /\ stage[h] # "idle"
    /\ Goto(h, "idle")
    /\ spoilt' = IF job[h].kind = "receive" /\ job[h].line > 1
                 THEN spoilt \cup {job[h].order} ELSE spoilt
    /\ UNCHANGED <<status, supplied, reachable, approved, emails, logged,
                   entries, job>>

Next ==
    \/ \E order \in Orders : CreateDraft(order) \/ CreateIssued(order)
    \/ UpdateSupplier
    \/ \E h \in Handlers :
         \/ \E kind \in Kinds, order \in Orders : Read(h, kind, order)
         \/ Email(h)
         \/ Log(h)
         \/ ReceiveLine(h)
         \/ Write(h)
         \/ Abort(h)

Spec == Init /\ [][Next]_vars

-----------------------------------------------------------------------------
\* An order is SENT_TO_SUPPLIER, and a supplier's order RECEIVED, only once it
\* was validated and an e-mail for it was accepted and logged ("qu'après
\* confirmation d'envoi réussie"); no order e-mailed was not validated, and
\* the log never counts an e-mail the supplier did not get, although handlers
\* overlap, stop half way and write over one another's status.
SentIsConfirmed ==
    \A order \in Orders :
        /\ \/ status[order] = "SENT_TO_SUPPLIER"
           \/ status[order] = "RECEIVED" /\ order \in supplied
           => logged[order] > 0
        /\ emails[order] > 0 => order \in approved
        /\ logged[order] <= emails[order]

\* However many receptions of an order overlap or fail, the lines are entered
\* in their order, none more often than one before it, and an order that is
\* RECEIVED has every line in stock.
ReceivedIsComplete ==
    \A order \in Orders :
        /\ \A line \in Lines(order) \ {1} :
              entries[order][line] <= entries[order][line - 1]
        /\ status[order] = "RECEIVED" =>
              entries[order][LineCount[order]] > 0

\* An order that handlers have worked on one at a time, and whose reception
\* never failed between two lines, is in stock exactly once if it is RECEIVED
\* and not at all otherwise, once no handler works on it.
CleanReceivedOnce ==
    \A order \in Orders \ spoilt :
        (\A h \in Handlers : ~Working(h, order)) =>
            \A line \in Lines(order) :
                entries[order][line] =
                    IF status[order] = "RECEIVED" THEN 1 ELSE 0

Rank(state) ==
    CASE state = "ABSENT" -> 0
      [] state = "DRAFT" -> 1
      [] state = "PENDING_VALIDATION" -> 2
      [] state = "VALIDATED" -> 3
      [] state \in {"SENT_TO_SUPPLIER", "ISSUED"} -> 4
      [] state = "RECEIVED" -> 5

\* The status of an order that handlers work on one at a time never goes back:
\* a failed sending leaves it where it was, a second one keeps it there.
CleanStatusAdvances ==
    [][\A order \in Orders :
         order \notin spoilt' => Rank(status[order]) <= Rank(status'[order])]_vars

=============================================================================
