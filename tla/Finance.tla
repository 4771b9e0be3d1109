------------------------------- MODULE Finance -------------------------------
(***************************************************************************)
(* FinanceService.getSummary beside the invoices and payments of Billing.  *)
(* The page is drawn by concurrent queries, each of which sees what is     *)
(* committed when it answers and takes no lock, while requests commit      *)
(* between them and midnight may pass.  Two of the queries give the money  *)
(* collected: the KPIs add up a column of the invoices, the chart of the   *)
(* last days adds up the rows of the payments, day by day.                 *)
(*                                                                         *)
(* A day is its number.  The figures no other figure of the page repeats   *)
(* are left out: the sales, what is overdue, the largest debtors, the      *)
(* latest payments, the number of invoices in each status, and the column  *)
(* of the chart that adds up the invoices of a day.                        *)
(***************************************************************************)
EXTENDS Billing

CONSTANTS
    TrendDays,      \* the days of the chart: 14
    LastDay         \* bound of the model: the calendar ends there

ASSUME FinanceAssumption == TrendDays \in Nat \ {0} /\ LastDay \in Nat

VARIABLES
    today,          \* the clock
    paidOn,         \* the day of Payment.paidAt, by the request that paid; of
                    \* a payment not committed yet, the day it was begun
    page            \* the page a client waits for: the answers of its queries;
                    \* known (the payments committed before it was asked for)
                    \* is auxiliary

financeVars == <<vars, today, paidOn, page>>

NoPage == [asked |-> FALSE, since |-> 0, answers |-> {},
           kpis |-> [totalInvoiced |-> 0, totalCollected |-> 0,
                     outstandingBalance |-> 0],
           payments |-> {}, days |-> {}, known |-> {}]

FinanceInit ==
    /\ Init
    /\ today = 0
    /\ paidOn = [r \in Requests |-> 0]
    /\ page = NoPage

-----------------------------------------------------------------------------
\* paidAt is the date of the insert, which is between the first read of the
\* payment and its COMMIT.
BeginPayment(r) ==
    /\ PaymentsRoutes(r)
    /\ paidOn' = [paidOn EXCEPT ![r] = today]
    /\ UNCHANGED <<today, page>>

DatePayment(r) ==
    /\ CommitPayment(r)
    /\ \E day \in paidOn[r] .. today : paidOn' = [paidOn EXCEPT ![r] = day]
    /\ UNCHANGED <<today, page>>

\* What Billing does beside the payments.
OtherStep ==
    /\ \/ \E sale \in SaleIds : SaleChanges(sale)
       \/ \E r \in Requests :
            \/ InvoicesRoutes(r) \/ DeliveryNotesRoutes(r)
            \/ FindBySale(r) \/ GenerateRef(r) \/ Insert(r) \/ MarkDelivered(r)
            \/ Abort(r)
    /\ UNCHANGED <<today, paidOn, page>>

Midnight ==
    /\ today < LastDay
    /\ today' = today + 1
    /\ UNCHANGED <<vars, paidOn, page>>

-----------------------------------------------------------------------------
Invoice(d) == documents["invoice"][d]
Invoices == Rows("invoice")
Totals == [d \in Invoices |-> Total(d)]
AmountsPaid == [d \in Invoices |-> Invoice(d).amountPaid]
Balances == [d \in Invoices |-> Totals[d] - AmountsPaid[d]]

\* i.status !== 'PAID'
OpenInvoices == {d \in Invoices : Invoice(d).status # "PAID"}

\* getKpis, from its query of the invoices.
Kpis ==
    [totalInvoiced |-> SumFunctionOnSet(Totals, Invoices),
     totalCollected |-> SumFunctionOnSet(AmountsPaid, Invoices),
     outstandingBalance |-> SumFunctionOnSet(Balances, OpenInvoices)]

Payers == {r \in Requests : payments[r] # None}
Amount == [r \in Payers |-> payments[r].amount]
Paid(payers) == SumFunctionOnSet(Amount, payers)

\* Mutant: the chart misses its first day.
SinceTomorrow == today - TrendDays + 2

\* The first of the days of the chart that ends today.
Since == today - TrendDays + 1

\* GET /finance/summary: the queries leave together; getTrend asks for the
\* payments since the first of its days.
GetSummary ==
    /\ ~ page.asked
    /\ page' = [NoPage EXCEPT !.asked = TRUE, !.since = Since, !.known = Payers]
    /\ UNCHANGED <<vars, today, paidOn>>

Answers(query) ==
    /\ page.asked
    /\ query \notin page.answers
    /\ UNCHANGED <<vars, today, paidOn>>

ReadInvoices ==
    /\ Answers("invoices")
    /\ page' = [page EXCEPT !.answers = @ \cup {"invoices"}, !.kpis = Kpis]

ReadPayments ==
    /\ Answers("payments")
    /\ page' = [page EXCEPT !.answers = @ \cup {"payments"},
                            !.payments = {r \in Payers : paidOn[r] >= page.since}]

\* getTrend dates its days when its queries have answered, maybe a day later.
\* It reads the clock once for each of them, in a loop that waits for nothing:
\* they are one reading here.
DrawDays ==
    /\ "payments" \in page.answers
    /\ Answers("days")
    /\ page' = [page EXCEPT !.answers = @ \cup {"days"},
                            !.days = (today - TrendDays + 1) .. today]

\* The page is sent, or one of its queries fails.
Leave ==
    /\ page.asked
    /\ page' = NoPage
    /\ UNCHANGED <<vars, today, paidOn>>

FinanceNext ==
    \/ \E r \in Requests : BeginPayment(r) \/ DatePayment(r)
    \/ OtherStep
    \/ Midnight
    \/ GetSummary
    \/ ReadInvoices \/ ReadPayments \/ DrawDays
    \/ Leave

FinanceSpec == FinanceInit /\ [][FinanceNext]_financeVars

-----------------------------------------------------------------------------
\* getTrend: what the chart shows of a day, and the days together.
Collected == [day \in page.days |-> Paid({r \in page.payments : paidOn[r] = day})]
Trend == SumFunctionOnSet(Collected, page.days)

\* The payments that are older than the chart, and those made while the page
\* was being drawn.
Earlier == {r \in Payers : \A day \in page.days : paidOn[r] < day}
Meanwhile == Payers \ page.known

\* When the queries of a finance page have all answered, what it says is invoiced
\* is collected or outstanding.  The money collected, which it gives twice, from
\* the amountPaid of the invoices and from the payments of the last days, differs
\* by no more than what was paid while the page was being drawn, in whichever
\* order the queries answered and whether midnight passed between them or not; a
\* race of payments can only make the invoices show less.  And the chart misses
\* no payment of its days that was made before the page was asked for.
PageAgrees ==
    page.answers = {"invoices", "payments", "days"} =>
        /\ page.kpis.totalInvoiced
             = page.kpis.totalCollected + page.kpis.outstandingBalance
        /\ page.kpis.totalCollected <= Paid(Earlier) + Trend + Paid(Meanwhile)
        /\ raced = {} =>
             Paid(Earlier) + Trend <= page.kpis.totalCollected + Paid(Meanwhile)
        /\ \A day \in page.days :
             Paid({r \in page.known : paidOn[r] = day}) <= Collected[day]

=============================================================================
