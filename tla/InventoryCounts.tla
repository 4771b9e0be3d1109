--------------------------- MODULE InventoryCounts ---------------------------
(***************************************************************************)
(* InventoryCountsService beside the stock movements: the monthly record   *)
(* of the stock, generated by the cron on the last day of the month but    *)
(* seven and by hand, whose opening stock is not stored but played back    *)
(* from the movements of the month.                                        *)
(*                                                                         *)
(* Its queries see what is committed only and take no lock, so a stock     *)
(* movement is one step here, from its first read to its COMMIT: requests  *)
(* that do not overlap have no other effect (StockLedger!ImplementsLedger).*)
(* The month of the createdAt of a movement is the month of its COMMIT.    *)
(***************************************************************************)
EXTENDS StockLedger

CONSTANTS
    Triggers,   \* the cron and the clients that may generate a record
    Months,     \* how many months the calendar of the model has
    NoCount     \* no record for this month; also a query not answered yet

ASSUME CountsAssumption == Months \in Nat \ {0}

VARIABLES
    month,      \* the clock
    bookedIn,   \* the month of the createdAt of each movement
    counts,     \* the record of each month, unique by (company, periodKey)
    call,       \* generate() as run by each trigger
    opening,    \* auxiliary: the balances when each month began
    revised     \* auxiliary: the rows on which a movement of an earlier month
                \* has been corrected or removed since each month began

countsVars == <<vars, month, bookedIn, counts, call, opening, revised>>

Periods == 1 .. Months

\* A trigger whose last call has returned, or that never fired.
NoCall == [period |-> 0, inventories |-> NoCount, deltas |-> NoCount,
           torn |-> FALSE]
Reading(t) == call[t].period # 0

CountsInit ==
    /\ Init
    /\ month = 1
    /\ bookedIn = [id \in Ids |-> 0]    \* the opening movements are older
    /\ counts = [period \in Periods |-> NoCount]
    /\ call = [t \in Triggers |-> NoCall]
    /\ opening = [period \in Periods |-> balance]
    /\ revised = [period \in Periods |-> {}]

-----------------------------------------------------------------------------
\* One of the two queries of this call has answered and the other has not.
HalfRead(t) ==
    (call[t].inventories = NoCount) # (call[t].deltas = NoCount)

\* The sum of the first i postings on a row.
Posted(postings, i, row) ==
    SumFunctionOnSet([j \in 1 .. i |-> IF postings[j].row = row
                                      THEN postings[j].delta ELSE 0], 1 .. i)

\* No check of the handler refuses.
Accepted(postings) ==
    \A i \in DOMAIN postings :
        postings[i].guard = "check" =>
            balance[postings[i].row]
                + Posted(postings, i, postings[i].row) >= 0

\* A request of StockLedger from its first read to its COMMIT.  What it
\* creates is booked this month; a correction keeps createdAt.
Transaction(r, id, postings, new) ==
    /\ stage[r] = "idle"
    /\ Accepted(postings)
    /\ stage' = [stage EXCEPT ![r] = "done"]
    /\ balance' = [row \in Rows |->
                     balance[row] + Posted(postings, Len(postings), row)]
    /\ present' = present \cup {postings[i].row : i \in DOMAIN postings}
    /\ movements' = [movements EXCEPT ![id] = new]
    /\ bookedIn' = [bookedIn EXCEPT ![id] = IF movements[id] = NoMovement
                                            THEN month ELSE @]
    /\ revised' = [period \in Periods |->
                     IF movements[id] # NoMovement /\ bookedIn[id] < period
                        /\ period <= month
                     THEN revised[period] \cup RowsOf(movements[id])
                     ELSE revised[period]]
    /\ call' = [t \in Triggers |->
                  [call[t] EXCEPT !.torn = @ \/ HalfRead(t)]]
    /\ UNCHANGED <<todo, before, seen, draft, touched, net, dirty, posted,
                   tainted, job, alerts, month, counts, opening>>

Create(r) ==
    \E type \in Types, product \in Products, warehouse \in Warehouses,
       input \in Inputs : \E target \in Targets(type) :
        LET new == [type |-> type, product |-> product,
                    warehouse |-> warehouse, target |-> target,
                    quantity |-> SignedDelta(type, input)]
        IN  /\ ValidInput(type, input)
            /\ ValidTarget(type, warehouse, target)
            /\ Transaction(r, r, CreatePostings(new), new)

Update(r) ==
    \E id \in Ids, type \in Types, input \in Inputs :
        LET old == movements[id]
            new == [old EXCEPT !.type = type,
                               !.quantity = SignedDelta(type, input)]
        IN  /\ old # NoMovement
            /\ (type = "TRANSFER") = (old.type = "TRANSFER")
            /\ ValidInput(type, input)
            /\ Transaction(r, id, UpdatePostings(old, new), new)

Remove(r) ==
    \E id \in Ids :
        /\ movements[id] # NoMovement
        /\ Transaction(r, id, ReversePostings(movements[id]), NoMovement)

NewMonth ==
    /\ month < Months
    /\ month' = month + 1
    /\ opening' = [opening EXCEPT ![month + 1] = balance]
    /\ UNCHANGED <<vars, bookedIn, counts, call, revised>>

\* generate: findByPeriod.  The call ends here when the month has its record,
\* which satisfies the cron and is an error for a client.
Generate(t) ==
    /\ ~Reading(t)
    /\ counts[month] = NoCount
    /\ call' = [call EXCEPT ![t].period = month]
    /\ UNCHANGED <<vars, month, bookedIn, counts, opening, revised>>

\* The two queries of Promise.all answer in any order.
ReadInventories(t) ==
    /\ Reading(t)
    /\ call[t].inventories = NoCount
    /\ call' = [call EXCEPT ![t].inventories =
                  [row \in present |-> balance[row]]]
    /\ UNCHANGED <<vars, month, bookedIn, counts, opening, revised>>

\* Mutant: addDelta forgets the target of a transfer.
SourceDelta(period, row) ==
    SumFunctionOnSet([id \in Ids |->
                        IF /\ movements[id] # NoMovement
                           /\ bookedIn[id] >= period
                           /\ row = SourceRow(movements[id])
                        THEN movements[id].quantity ELSE 0], Ids)

\* deltaByKey: the movements since the start of the month, with both effects
\* of a transfer.
DeltaSince(period, row) ==
    SumFunctionOnSet([id \in Ids |-> IF bookedIn[id] >= period
                                    THEN EntryEffect(movements[id], row)
                                    ELSE 0], Ids)

ReadMovements(t) ==
    /\ Reading(t)
    /\ call[t].deltas = NoCount
    /\ call' = [call EXCEPT ![t].deltas =
                  [row \in Rows |-> DeltaSince(call[t].period, row)]]
    /\ UNCHANGED <<vars, month, bookedIn, counts, opening, revised>>

\* The openingStock of each line; currentStock is the balance as read.
Lines(c) ==
    [row \in DOMAIN c.inventories |-> c.inventories[row] - c.deltas[row]]

\* repository.create, refused (P2002) when the month has its record: the cron
\* logs it and goes on with the other companies.
Insert(t) ==
    LET c == call[t]
    IN  /\ Reading(t)
        /\ c.inventories # NoCount
        /\ c.deltas # NoCount
        /\ IF counts[c.period] = NoCount
           THEN counts' = [counts EXCEPT ![c.period] =
                             [lines |-> Lines(c), torn |-> c.torn]]
           ELSE UNCHANGED counts
        /\ call' = [call EXCEPT ![t] = NoCall]
        /\ UNCHANGED <<vars, month, bookedIn, opening, revised>>

\* A query fails.
Fail(t) ==
    /\ Reading(t)
    /\ call' = [call EXCEPT ![t] = NoCall]
    /\ UNCHANGED <<vars, month, bookedIn, counts, opening, revised>>

CountsNext ==
    \/ \E r \in Requests : Create(r) \/ Update(r) \/ Remove(r)
    \/ NewMonth
    \/ \E t \in Triggers :
         \/ Generate(t)
         \/ ReadInventories(t)
         \/ ReadMovements(t)
         \/ Insert(t)
         \/ Fail(t)

CountsSpec == CountsInit /\ [][CountsNext]_countsVars

-----------------------------------------------------------------------------
\* A record of the month gives the stock the month began with ("quantité au
\* 1er du mois, recalculée depuis le journal des mouvements"), whenever it is
\* generated, across the end of its month too, and whatever was moved,
\* corrected or removed in the month.  Not claimed: when a commit fell between
\* its two queries, when a movement of an earlier month was corrected, and of
\* a balance written from a stale read.
CleanOpeningIsHistory ==
    \A period \in Periods :
        counts[period] # NoCount /\ ~counts[period].torn =>
            \A row \in Rows \ (tainted \cup revised[period]) :
                IF row \in DOMAIN counts[period].lines
                THEN counts[period].lines[row] = opening[period][row]
                ELSE opening[period][row] = 0

=============================================================================
