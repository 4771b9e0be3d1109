# A TLA+ verification of the LogiCore ERP backend

The repository is a multi-tenant ERP backend: NestJS controllers and services
over Prisma and PostgreSQL.  The server keeps no state between two requests;
everything that matters is in the database, and everything that can go wrong
comes from handlers that read rows, decide, and write them back while other
handlers do the same.  This directory models those handlers at the grain of one
database statement per step, checks them with TLC on small instances, and proves with
TLAPS, for every instance, every safety and action property that a passing run
checks: of the stock ledger, the sales, the documents and payments, the purchase
orders, the quotes, the monthly counts, and of the services around them.

Paths below are relative to `src/src/` unless they begin with `prisma/`, which
is `src/prisma/`.

## 1. The system

### Components

| Component | State it keeps | Operations | What makes it correct |
|---|---|---|---|
| Stock movements and balances (`stock-movements/`, `inventory/inventory.*`) | `StockMovement` (the journal), `Inventory` (one balance per product and warehouse) | create, update, remove a movement; `applyDelta`, `getQuantity` | a balance is the sum of the journal and never negative; a failed handler leaves nothing behind; a removal has its effect once; a rupture alert is sent exactly when the threshold is crossed |
| Sales (`sales/`) | `Sale.status`, lines | create, validate, cancel | all lines leave the stock or none; once; below zero only by company policy; VALIDATED is final |
| Invoices, delivery notes, payments (`invoices/`, `delivery-notes/`, `payments/`) | `Invoice` (amountPaid, status, ref), `DeliveryNote`, `Payment` | create, mark delivered, pay | one document per sale, numbers without gap or duplicate, amountPaid is the sum of the payments, status derived from it |
| Purchase orders (`purchase-orders/`) | `PurchaseOrder.status`, lines, send log | create, create from alerts, submit, validate, send, receive | sent only after validation and a confirmed e-mail; received completely and once |
| Quotes (`quotes/`) | `Quote` (status, customer, total, convertedSaleId), lines | create, update, send, accept, reject, convert | total = lines; one sale per converted quote, saying what the quote says; frozen once answered |
| Sessions and tokens (`auth/`) | refresh tokens, reset and verification links, login codes, the password | login, verify code, refresh, logout, reset and change password | a session lives by one refresh token, and by none after a logout or a change of password made while it was open; a link or code is used once; one valid login code |
| Invitations and users (`invitations/`, `users/`) | `Invitation.status`, `User` | invite, resend, revoke, accept; create, update, deactivate, delete a user | an accepted invitation has one account, a revoked one has none; no active account is deleted |
| Product catalogue (`products/`, `product-types/`, `categories/`) | products, types with `nextProductSeq`, categories | create, update, deactivate, import | the reference announced is free; a product's type is in its category; an import does not stand in its own way |
| Inventory counts (`inventory/inventory-counts.*`) | one count per company and month | generate, by hand and by cron | the opening stock of a record is the stock the month began with |
| Inventory campaigns (`inventory-campaigns/`) | `ref`, warehouse, status | create, update, delete | the next reference is free |
| Suppliers, companies, customers, warehouses, fleet, assets, maintenance | one row per object | create, read, update, deactivate | unique keys; a maintenance has one target |
| Paginated lists (`common/`, every `findAll`) | none | one page of a list | a client that asks for every page misses nothing |
| Notifications, audit | append-only rows | `notifyCompany`, the audit interceptor | the notification follows the commit |
| Finance, dashboard | none | read-only reports, several queries at a time | figures of one page that repeat one another differ by no more than what happened while it was drawn |
| AI assistant; guards, e-mail providers, Prisma service, filters | none | prompts; checks, sending, wiring | - |

### How they interact

* `StockMovementsService`, `SalesService.validate`, `PurchaseOrdersService.receive`
  and `ProductsService.importProducts` all change balances through
  `InventoryRepository.applyDelta`: a `findUnique` of the row, then a `create` or
  an `update` to the **absolute** value `existing.quantity + delta`.
* A quote becomes a sale, a validated sale gets an invoice and a delivery note,
  an invoice gets payments.  Each step reads the status of the row before.
* A reception calls `StockMovementsService.create` once per line, each call in a
  transaction of its own.
* Notifications and audit rows are written after the transaction they report.

### What is hard

* Interactive transactions run at PostgreSQL's default READ COMMITTED (no
  isolation level is passed anywhere, `prisma/schema.prisma` says
  `provider = "postgresql"`): a plain read takes no lock, so a value read and
  written back may overwrite a concurrent commit.
* Most handlers check a status with `findById` *before* the transaction, or have
  no transaction at all, and write by `id` alone: a check may be stale when the
  write happens.
* The reports and the monthly count send several queries together
  (`Promise.all`): each sees what is committed when it answers, and so may the
  clock have moved on between them.
* Several handlers make several commits (reception, sending, quote edition,
  conversion, import, change of password): each may fail after any of them.
* Prisma rolls an interactive transaction back after 5 s, PostgreSQL breaks
  deadlocks, a connection may be lost: a transaction may end at any statement.
* A document number is the count of the rows of the year, plus one: correct only
  as long as a unique key refuses what the count has become too old for, no row is
  deleted and every row counts in the year of its number.
* The mail server may accept a message whose answer is lost.

PROJECT.json lists the hazards one by one, at the line where they bite, with the
properties that cover them.

## 2. The modules

| Module | Models | Kind |
|---|---|---|
| `StockTx` | an interactive transaction that changes balances: its statements, row locks, commit, rollback | engine, no specification of its own |
| `StockLedger` | `StockMovementsService.create`, `update`, `remove` on that engine | component |
| `Ledger` | what a stock ledger promises, in one action | abstract specification |
| `Sales` | `SalesService.validate`, `cancel` on the same engine, `create`, and the company's policy | component |
| `Billing` | invoices, delivery notes, payments | component |
| `Finance` | `FinanceService.getSummary`, query by query, beside `Billing` and a calendar | composition |
| `PurchaseOrders` | the life of a purchase order | component |
| `Quotes` | the life of a quote | component |
| `InventoryCounts` | the monthly counts, on the state of `StockLedger` | composition |
| `Catalog` | categories, types, products, import | component |
| `Sessions` | refresh tokens, links and codes, password of one user | component |
| `Accounts` | invitations and users of a company | component |
| `Registry` | the seven registers | component |
| `Numbering` | references over the turn of a year | component |
| `Listing` | the lists, read page by page | component |
| `BackOffice` | the last six, side by side | composition |
| `MC...` | the instances TLC checks | |
| `SumTheorems` | lemmas on the sum of a function over a finite set | proofs |
| `StockTx_proofs` | what each step of the engine preserves | proofs |
| `StockLedger_proofs` | the theorems of `StockLedger` and `InventoryCounts` | proofs |
| `Sales_proofs`, `PurchaseOrders_proofs`, `Quotes_proofs` | the theorems of these components | proofs |
| `Billing_proofs` | the theorems of `Billing` and `Finance` | proofs |
| `BackOffice_proofs` | the theorems of the six services of `BackOffice` | proofs |

### StockTx: one transaction, statement by statement

`balance` and `present` are the committed `Inventory` table.  A request `r` has a
program counter `stage[r]`, and `todo[r]`, the *postings* its handler has still to
write.  A posting is one call of `applyDelta` with the `getQuantity` that the
handler makes just before it: none (`"none"`), one whose result is kept for the
alert (`"read"`), or one that throws `ConflictException` when the stock does not
cover the amount (`"check"`).  This is exact: in `create` the check is made for
EXIT, TRANSFER and negative adjustments, in `reverseEffect` and `update` for
whatever takes stock away, in `validate` unless `allowNegativeStock`.

| Action | Statement |
|---|---|
| `GetQuantity` / `Insufficient` | `getQuantity`, and the check of its result |
| `FindRow` | `applyDelta`: `findUnique` |
| `CreateRow` / `DuplicateRow` | `inventory.create`, or its P2002 when another transaction has committed the row |
| `UpdateRow` | `inventory.update` to the absolute value |
| `CommitTx`, `Rollback`, `AbortTx` | COMMIT, ROLLBACK, and a rollback nobody asked for |

A read sees `draft[r]` for the rows `r` has written (`touched[r]`) and `balance`
for the others; a write waits while another request has the row in `touched`.
That is READ COMMITTED with row locks.

Four variables are auxiliary: `net` and `posted` sum the deltas written and
committed; `dirty` and `tainted` are the rows written from a read that was no
longer current.  No guard looks at them.  They are how the properties say *where*
the code is right: `tainted` is exactly the set of rows the lost-update race (see
the findings) has touched, and everything is claimed of every other row.

### StockLedger

`movements` is the journal; a movement is identified by the request that created
it.  `Start...` are the checks at the head of a handler, with `findById` for
update and remove, which runs outside the transaction; `Commit...` are the write
of the journal row and the COMMIT.  They are one step because a handler that
updates or deletes a movement holds, by then, the balance of its source row, so
that two handlers never meet on the journal row.  `MovementGone` is P2025.
`MaxInFlight` is how many requests the server has in hand.

A transfer's target is a warehouse other than the source; the `targetWarehouseId` that
the code stores with any other type, where nothing reads it, is left out.  A correction
keeps TRANSFER apart from the other types, and may keep the quantity it finds.

### Sales, Billing, PurchaseOrders, Quotes

`Sales`: `ReadSale` is `findById` and the check of the status, `ReadPolicy` the
read of the company and the start of the transaction, `LineStep` a statement of
the loop over the lines, `CommitValidate` the update of the sale and the COMMIT,
`Notify` the alerts.  `beforeByProduct` is the map of that name.

`Billing`: the two kinds of document are created by the same four statements
(`ReadSale`, `FindBySale`, `GenerateRef`, `Insert`), with the unique keys of the
tables.  A payment is a read (`ReadInvoice`) and a commit (`CommitPayment`).

`PurchaseOrders`: no handler is a transaction; `Read`, then `Email`, `Log`, `Write`
for a sending, `ReceiveLine` once per line and `Write` for a reception, `Write`
for the rest.  An e-mail may be accepted without the server hearing of it.

`Quotes`: `Read`, then `UpdateHeader`, `DeleteLines`, `InsertLines`, `UpdateTotal`
for an edition, `ReadLines`, `CreateSale`, `Write` for a conversion, `Write` for the
rest.  Prisma reads a quote and its lines by separate queries, so `ReadLines` is a
step of its own.

`Finance` extends `Billing` with a calendar, the days the payments are dated
(`paidOn`) and a page: `GetSummary` sends the queries, `ReadInvoices`
and `ReadPayments` answer them in either order, each from the state it finds, and
`DrawDays` dates the days of the chart when the payments have answered.  The other
actions are those of `Billing` (`BeginPayment`, `DatePayment`, `OtherStep`) and
`Midnight`.  `PageAgrees` compares the two figures of the money collected, which come
from two tables by two queries: the code never compares them, and they need not be
equal.  The day of `paidAt` is any between the read and the COMMIT of the payment.
The clock is read once per day of the chart in a loop that waits for nothing; that is
one reading here.

### InventoryCounts

It extends `StockLedger`, whose three handlers are here one step each (from the first
read to the COMMIT: with one request at a time this is `ImplementsLedger`), and adds
the months.  A generation is `Generate` (the period and the check that it has no
record), `ReadInventories` and `ReadMovements` in either order, as the `Promise.all`
of the code allows, and `Insert` under the unique key.  `torn` marks a record
with a commit between its two queries, `revised` the rows of a movement corrected
after its month.

### The services around: BackOffice

`Catalog`, `Sessions`, `Accounts`, `Registry`, `Numbering` and `Listing` write no
table in common, and no handler of one decides on a table of another; the session
that an accepted invitation opens is the `IssueSessionForUser` of `Sessions`.
`BackOffice` therefore instantiates the six, and `focus` chooses which of them a
behaviour exercises: their state spaces add up instead of multiplying, and
nothing is lost, since an interleaving of two of them changes neither.

* `Catalog`: a code is a number (1 for the base that the import derives from a
  name, n for the base followed by n).  The creation of a product is `ReadCategory`,
  `ReadType`, `CreateProduct`, the last with the increment of `nextProductSeq` and the
  insert of one transaction, which a reference already in use rolls back; its update
  is `ReadProduct`, `UpdateProduct`; the import reads categories and types
  once and then takes one row of the file after the other.
* `Sessions`: a refresh is `VerifyRefreshToken`, `RevokeVerified`,
  `GenerateRefreshToken`; a login with a code is `SendLoginCode`, `RetireCodes`,
  `CreateLoginCode`, and `FindTicket`, `ConsumeLoginVerificationCode`,
  `GenerateRefreshToken`; a change of password `WritePassword`, `RevokeAll`.
  The password is checked when a code is asked for and by nothing after: a code
  that was sent before a change of password still opens a session.  So a session
  is dated by the password in force when it was opened (`opened`), and
  `CleanSessionEnds` says that the changes made since close it.
* `Accounts`: the acceptance of an invitation is the read, the look-up of the e-mail
  address and the transaction; the other handlers a read and a write.
* `Registry`: each handler is one step, because nothing is deleted and the look-up
  before a write only answers earlier what the unique key of the table answers.
* `Numbering`: `DrawRef` counts, `CreateDocument` inserts; `NewYear` turns the
  local year (the year of the reference) and the UTC year (the year of the count)
  apart from each other.
* `Listing`: `AskFirst`, `AskNext`, then the two queries of a page, `ReadItems`
  and `CountRows`.  Each of the 23 lists is the order of its rows: by creation or
  by a value that may change, with or without equal values, and with rows that
  stay for ever, may be deleted or are shown only while active.

### Auxiliary marks

In the modules whose handlers go on after a failure or overtake one another,
auxiliary variables mark the objects to which that has happened: `raced`,
`overlapped`, `spoilt`, `torn`, `recoded`, `moved`, `removed`, `straddled`,
`shifted`.  No guard looks at them.  A property whose name begins with `Clean` is
claimed of unmarked objects; the other properties are claimed of all, races and
failures included.

## 3. The runs

| Run | Instance | Shows |
|---|---|---|
| `StockLedger` | 2 overlapping requests, 1 product in 3 warehouses with 2, 1 and 0 of it, inputs -1..1 | races corrupt only the rows they touch; checks hold; a removal is final; alerts are exact; every request ends |
| `StockLedger_serial` | 3 requests, one at a time, warehouses with 2 and 0, inputs 1 and 2 | the handlers implement `Ledger` |
| `StockLedger_drift` (violation) | 2 overlapping requests | the balance is not the sum of the journal |
| `Sales` | 3 requests, 2 sales over 2 rows in opposite orders, one with a product on two lines, policy toggled at will | all or nothing, policy, once, alerts |
| `Sales_final` (violation) | 2 requests | VALIDATED becomes CANCELLED |
| `Billing` (of `Finance`) | 3 requests, totals 3 and -1, payments of 1 or 2, a chart of 2 days in a calendar of 3 | one document per sale with numbers without gap, amounts, statuses; what a page drawn by concurrent queries shows |
| `Billing_race` (violation) | 3 requests | a payment is lost from amountPaid |
| `PurchaseOrders` | 3 handlers, 1 order of 2 lines, 2 e-mails, 2 receptions | confirmed sending, complete reception, a status that only advances |
| `Quotes` | 2 handlers, 1 quote, 2 customers, 2 prices, 3 sets of lines, 2 sales | total = lines = sale, settled is frozen, never empty |
| `Quotes_frozen` (violation) | 2 handlers | an edition changes a CONVERTED quote |
| `InventoryCounts` | 2 movements, one at a time, 2 warehouses, 2 months, cron and client | the opening stock of a record |
| `BackOffice` | 2 overlapping requests in each service | references, codes, sessions, tickets, answers to invitations, numbers, pages |

**Bounds.**  Two requests are enough for every race on one row, since each is
between a read and a write of one request and a commit of another; the two warehouses
with stock give transfers that lock in opposite orders, and exits of 1 that fit alone and
not together; the empty one has no row, so two requests may both insert it; the reorder
point of 4 puts the rupture limit between 1 and 2.  Sales needs a third request to make a
balance stale under two others; Billing needs three to draw an invoice and pay it twice, in turn
or in a race, before a finance page is asked for or while it is drawn.  The calendar
(`LastDay`) of one day more than the chart has payments older than the chart, and a midnight
between the queries and the days.  In PurchaseOrders and Quotes a handler that has answered
serves the next request, so a few handlers give histories of any length up to the
bounds `MaxEmails`, `MaxReceipts`, `MaxLines`, `MaxSales`; the last two are one more
than an undisturbed life needs.

InventoryCounts has two movements, so that one may be corrected or removed in the next
month, and two triggers, so that the cron and a client may meet on one month. In
BackOffice two overlapping requests make every race of a read and a write, and as
handlers come back to `idle` they serve requests without end (in Catalog, each serves
one besides the one-step routes), up to the bounds: 2 types and 2 products (`MaxTypes`,
`MaxProducts`), enough for a code to be given up by one type and taken by another; one
renaming (`MaxRecoded`); 3 tokens and tickets together (`MaxTickets`), a session rotated
twice or two codes and the session they open, and 2 passwords; 2 invitations and 2
accounts of one address; 2 rows of the registers, a maintenance and its target or two
rows for one key; 3 documents, so that a deletion leaves a hole below the last; lists of
3 rows cut in pages of 1 and 2, so that there is a page of one row after one of two. An
import has two rows of two categories whose names give one code. Deadlock is checked in
PurchaseOrders, where the supplier's address may always change; in the others the
requests run out, the quote is settled or a bound is reached, and the system may stop.

**Fairness.**  Only `StockLedger` has a liveness property, `EveryRequestEnds`.  It
assumes that Node.js runs the continuation of a query that has answered (weak
fairness of a request's own steps) and that a transaction whose write waits for
another's row is eventually granted or rolled back (weak fairness of
`Waiting(r) /\ Abort(r)`): the 5 s limit of Prisma and the deadlock detection of
PostgreSQL.  A transaction that does not wait is never forced to abort.  A crash of
the server is not assumed to be followed by anything: it is an `Abort` like others.

**Findings.**  Four runs end in a violation, each of a sentence of the repository
that the code does not keep: the balance kept in step with the journal
(`prisma/schema.prisma:197`), a VALIDATED sale that cannot be cancelled (`:417`),
an amountPaid correct under concurrent payments
(`payments/payments.service.ts:29`), a CONVERTED quote that is frozen (`:469`).
All are a read, a check and a write by `id` or of an absolute value, with another
commit in between.  Without a run: `prisma/schema.prisma:215` calls the journal
immutable, and `PATCH` and `DELETE /stock-movements/:id` change it by design.

## 4. The proofs

Every theorem is of `Spec`, for all values of the constants that satisfy the named
ASSUMEs of the modules: any finite set of requests or handlers, any number of sales,
orders, quotes, lines, products, warehouses and months.  The assumptions say that rows are
pairs of a product and a warehouse, that quantities and amounts are integers, that the
opening stock is not negative, that a name which stands for "no row" is not a row, and
that what is summed or counted is finite.  Those of `BackOffice` say as well that the
categories there at start have different codes (the unique key), that a page has at least
one row (the validation of `PaginationQueryDto`) and that the bounds of the model are
numbers.

The properties are about committed rows, and a handler commits what it computed
several statements before, so none of them is inductive.  Each invariant below says what a
handler *has in hand* at each of its stages, and why what it holds is still true when it
writes it, or, if it need not be, which mark the object bears by then.

### Sums

Balances are compared with sums over the journal, over the lines of the sales, over the
payments.  These sums are `SumFunctionOnSet` of the community modules, a fold.
`SumTheorems` proves what the provers do not know of it: what its recursion
returns whichever element it chooses (`SumAdd`), that it depends on the values
only (`SumSame`), what the change of one summand does (`SumUpdate`), and sums of
zeros, of naturals, of a union, of the groups of a partition (`SumGroups`).  The induction
theorems of the library take a predicate, which the provers cannot instantiate; `NatSet`
replaces them: a *set* of naturals with zero and all successors is `Nat`, and a set may be
substituted.  The fold is defined through a recursive function that CHOOSE picks; that there
is one, and only one, is such an induction on the size of the set (`SumsExist`,
`SumsUnique`).

### The ledger

| Theorem of `StockLedger_proofs` | States |
|---|---|
| `TypeCorrect` | `Spec => []TypeOK` |
| `NoLostUpdate` | `Spec => []CleanNoLostUpdate` |
| `StaysNonNegative` | `Spec => []CleanNeverNegative` |
| `BalancesAreTheJournal` | `Spec => []CleanBalanceIsJournalTotal` |
| `RemovalsAreFinal` | `Spec => []RemovalIsFinal` |
| `AlertsAreCrossings` | `Spec => AlertIffCrossing` (an action property) |
| `CleanImplementsLedger` | `Spec /\ [](tainted = {}) => ImplementsLedger` |
| `SerialImplementsLedger` | `Spec => ImplementsLedger` when `MaxInFlight = 1` |
| `LedgerInvariant`, `JournalInvariant` | the invariants they follow from |

*The balances* (`IInv`).  `TxInv`: two requests never hold one row (`Exclusive`); a
request has no delta on a row it has not written, and the draft of a row written from
current reads is the committed balance plus the request's own deltas (`DraftsAgree`), which
stays true because nobody else can commit a row that is held.  `NonNegInv`: every
posting that takes stock away is checked (`SafePlans`), a request past its check
holds a `before` that covers the amount (`Checked`), and drafts and balances no stale read
has written are not negative.  `JournalProper`, `JobsProper`: a TRANSFER has a target.
`StockTx_proofs` has one lemma per step of the engine, free of the handlers;
`Sales_proofs` cites the same ones.

*The journal* (`JournalInv`).  What a request has written on a row plus what its postings
will still write (`Owed`, a sum over a sequence) is the effect of the movement it will
write less that of the one it read (`JobsOwe`).  An entry keeps its rows for life
(`RowsKept`), so a handler that read an older version of it marks, at its commit, every row
its postings are computed from; an entry removed, or never created, does not come back
(`FreshIds`).  With `posted = JournalTotal` and `posted = balance` the property follows.

*The alert.*  A creation that has written its source row from a current read holds, in
`before`, the balance that row keeps until the commit, since it has the row locked; no
later posting of the plan reads again (`CreatePlan`).  A movement that adds stock crosses
nothing (`NoCrossingUp`), which is why its unlocked read does no harm.

*The refinement.*  The COMMIT of a handler is the step of `Ledger`, all else stutters:
the balances move by what the request owes, which is the difference of the entry's
effects.  This needs only that nothing stale is committed, so it is proved of overlapping
requests as well, up to the first commit that taints a row; requests one at a time never
do (`SerialInv`: what the only request has read is what is there).

### The monthly counts

| Theorem of `StockLedger_proofs` | States |
|---|---|
| `OpeningIsHistory` | `CountsSpec => []CleanOpeningIsHistory` |
| `CountsInvariant` | the inductive invariant `CountsInv` |

The invariant (`History`): for every month begun so far and every row without a
correction of an older movement, the balance less what the journal has moved on the row since
the month began (`DeltaSince`) is the balance it began with.  A transaction moves the
balance by the sum of its postings (`DueCreate`, `DueUpdate`, `DueReverse`) and
`DeltaSince` by the change of the entry's effect (`DeltaSinceChanges`), the same number if
the movement is booked in the month or later, and otherwise marks the row; a new month
starts with both terms known.  `CallFits` carries this over the two queries of a call: an
untorn call has answered one of them, from the state that is still there, or both, from one
state.  A row that is absent from the table is empty and always was.

### Sales

`Sales_proofs`: `TypeCorrect`, `BalancesAreTheSales` (`CleanBalanceIsSales`),
`NegativeOnlyIfAllowed` (`CleanNegativeOnlyIfAllowed`), `SalesSettleOnce` (`SettledOnce`),
`AlertsAreCrossings` (`AlertIffCrossing`), and `SalesInvariant`.  Besides the engine's, the
invariant has a part per property.  `BalanceInv`: what a validation has written and has
still to write on a row is what the lines of its sale take of it, however many lines share
the row.  `NegativeInv`: its postings are those of its lines, checked unless the policy
it read allows otherwise, and once past its check it has read enough.  `SettleInv`: a sale
nobody has overlapped has one handler, which finds it a draft.  `AlertInv`: the map
`beforeByProduct` holds, for a product on one line, the committed balance the row
keeps while the validation has it locked.

### Invoices, delivery notes, payments, the finance page

`Billing_proofs`: `TypeCorrect`, `StatusIsRight` (`StatusFollowsAmount`), `GaplessNumbers`
(`NumbersAreGapless`), `NeverOverpaid` (`PaidWithinPayments`), `CleanInvoicesBalance`
(`CleanPaidIsPaymentsTotal`), `PagesAgree` (`FinanceSpec => []PageAgrees`), and the
invariants `BillingInvariant` and `PaymentsInvariant`.

The status is right because a payment in hand fits the total of its invoice (`HandFits`), as
its checks found, and no later write changes that total; that two payments may race on
`amountPaid` does not matter to it.  The numbers are right because a number in hand is at
most the next one (`RefInHand`), as rows are only added; since the numbers taken are 1 to
n (`Numbered`), the unique key leaves nothing but n + 1.  An invoice never counts more than
its payments because an amount in hand was, when read, covered by the payments there
(`PaymentInHand`), which only become more; each commit adds its own.

The page (`PageInv`).  In the state an invoice query sees, what is invoiced is collected
or outstanding, because an invoice that is PAID has nothing left, and what is collected
is within the payments there (`CollectionsAgree`), and equal to them if none have raced.
Payments are never changed nor removed, so this becomes two bounds that later steps keep
(`KpisFit`): no more than the payments there are now, no less than those there were when the
page was asked for.  The payments the other query returned hold all of these that are as
recent as `since` (`PaymentsFit`), and the chart begins no earlier than `since` and ends no
earlier than any of them (`DaysFit`), so that those that are not older than the chart are in
it; grouping them by day does not change their sum (`SumGroups`).  Every behaviour of
`FinanceSpec` is one of `Billing` (`FinanceBilling`), whose invariants it takes.

### Purchase orders

`PurchaseOrders_proofs`: `TypeCorrect`, `SendingIsConfirmed` (`SentIsConfirmed`),
`ReceptionIsComplete` (`ReceivedIsComplete`), `CleanReceptionOnce` (`CleanReceivedOnce`),
`CleanStatusNeverGoesBack` (`CleanStatusAdvances`, an action property) and
`OrdersInvariant`.  No handler is a transaction, so the committed rows alone say nothing:
the invariant counts with them the handlers in flight.  The log rows and the sendings that
are accepted and not logged yet (`Unlogged`) are no more than the e-mails; a line
has been entered at most as often as the one before it less the receptions that stand
between the two (`Ahead`).  An order whose handlers never overlap has one, which still
finds the status it started from.

### Quotes

`Quotes_proofs`: `TypeCorrect`, `LinesAreKept` (`NeverWithoutLines`), `TotalsAreLines`
(`CleanTotalIsLines`), `SalesAreQuotes` (`CleanSaleIsQuote`), `SettledIsFrozen`
(`CleanSettledIsFrozen`, an action property) and `QuotesInvariant`.  `LinesInv` holds of all
quotes: lines are replaced in one commit, and a conversion has read some before it creates
its sale.  `CleanInv` follows the only handler of an unmarked quote (`Solitary`) from
statement to statement: what it has read is what the quote says (`HandlerFit`), and
what is half written is what its next statement completes (`TotalFit`, `SaleFit`).

### The services around: BackOffice

| Theorem of `BackOffice_proofs` | States |
|---|---|
| `TypeCorrect` | `Spec => []TypeOK` |
| `SkuIsFreeAlways` | `Spec => []NextSkuIsFree` |
| `TypeIsInCategory` | `Spec => []CleanTypeInCategory` |
| `ImportRefusesNone` | `Spec => []CleanImportRefusesNone` |
| `SessionEnds` | `Spec => []CleanSessionEnds` |
| `TicketIsUsedOnce` | `Spec => []CleanTicketOnce` |
| `AnswerHolds` | `Spec => []CleanAnswerHolds` |
| `RefIsFree` | `Spec => []CleanRefIsFree` |
| `PagesMissNone` | `Spec => []CleanPagesMissNone` |
| `ServicesBehave` | a behaviour of `BackOffice` is one of each of the six modules |
| `BackOfficeInvariant` | the invariant they follow from |

The invariant is the conjunction of one per service, because a step of one leaves the
tables of the others alone.  Each was checked with TLC on the instance of the run first.

*The catalogue* (`CatalogInv`).  Codes are unique (`CodesAreUnique`).  The number of a
reference is below the counter of the type that gave it, and its codes are those of that
type and category unless one of them has changed (`SkuHolds`); so a reference equal to
the next one of a type was given by that type, whose counter is past it, or by one that
has changed.  What a creation, an update or an import has read of a category or type
still holds, or the row is marked (`HasCategory`, `HasType`, `HasUpdate`, `HasCodes`,
`HasTypes`): the steps that do not change a code carry all of it over at once
(`HoldsStill`).  An import beside which nothing changed holds the catalogue as it is
(`ImportIsClean`), what it has made itself included, so a row fails only if a code it
makes up is taken: of the numbers 1 to n + 1 one is not among n codes (`CodeMadeUp`).

*The sessions* (`SessionInv`).  A token counts from the moment a request is about to
issue it: while a request that nothing has overtaken (`Open`) is between the revocation
of the old token and the insert of the new one, its session has no valid token and no
other open request; before the revocation, the token it has read is the last of its
session (`ChainLives`).  A logout or a change of password in between marks the session.
The change that counts is one made since the session was opened.
The same for tickets (`TicketInv`): one that was used is no longer valid and no request
has found it, and a code about to be created finds the earlier ones retired.

*The accounts* (`AccountInv`).  What a request has read of an invitation or of a user
still holds when it writes, or the row is marked (`JobIsFresh`); no two accounts name one
invitation unless it is marked (`Answered`).

*The numbers* (`NumberInv`).  The argument is that of the invoices, with two clocks: while
every document counts in the year of its number (`CountsInItsYear`) and none was deleted,
the reference a request has drawn is one of its year's, or the next (`DrawnInRange`), and
the unique key leaves the next.

*The lists* (`ListInv`).  A row that was there when the client began, and that it has
not seen, has at least as many rows before it as the pages already read can hold
(`MissingIsAhead`): rows only come in between, and push it back.  A page takes the rows
from the end of the pages before it, so the row is on it or past it; and the count of the
last page says that a row is left as long as there is one (`CountIsRight`).

*The registers.*  `TypeOK` is inductive as it stands: it says that a maintenance has the
vehicle or the asset it was made for.

### What stays with TLC

* `EveryRequestEnds`: liveness under fairness, out of the prover's reach.
* The violation runs, which show counterexamples.

## 5. Not modelled, and why

* The AI assistant formats figures into a prompt for an external service and changes no
  state.  Guards, roles and permissions are stateless checks of the token; the models
  take the requests they let through.  Modules, configuration, logging, the mapping of
  errors: wiring.
* Of the sessions: access tokens, which no table keeps, and `isEmailVerified`, which
  nothing decides on.  Of the accounts: roles, warehouses and the e-mail of an
  invitation.  Of the catalogue: deactivations, which no other handler of it looks
  at, and the ENTRY movement of an imported quantity, a movement like those of
  `StockLedger`.  Of the registers: fields that are data.  `isRead` of a
  notification: nothing decides on it.
* Amounts are integers; the rounding of binary floats is out of TLC's reach.
* Of the finance page: the sales, what is overdue, the largest debtors, the latest
  payments, the number of invoices in each status and the column of the chart for the
  invoices, which no other figure of the page repeats.  The dashboard and
  the alerts: queries whose answers nothing is compared with.
* A list with a filter: a filter only makes rows enter and leave.
* `createFromAlerts` appears in `PurchaseOrders` as a creation with status ISSUED; the
  quantities it orders are left out, since the code promises nothing of them: an order not
  yet received is not counted, and a row below zero without a reorder point is still in
  rupture afterwards.  `POST /purchase-orders` also accepts that status, without a
  supplier.
* The simulated e-mail provider, which reports success and sends nothing, is a
  configuration for development; `PurchaseOrders` models the real ones.
* A retry by a client whose answer was lost is a new request for the code, which
  keeps no idempotency key: there is no state of the server that tells it apart.

## 6. What is left

The model covers what changes state, and every safety and action property of a passing
run is a theorem.  What would extend it:

* The liveness of the handlers other than those of the ledger, which wait for nothing
  but the database.
* The refinement of an abstract catalogue and of abstract sessions: their properties are
  stated of the rows, as those of the ledger were before `Ledger`.
* The deactivations of the catalogue, if a handler comes to decide on them, and a retry
  after a lost answer, if the API comes to keep a key for it.
