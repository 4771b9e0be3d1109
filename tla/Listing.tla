------------------------------- MODULE Listing -------------------------------
(***************************************************************************)
(* The lists of the API, which all answer one page at a time: the findAll  *)
(* of the services, their orders, and a client that asks for page after    *)
(* page of one of them while the rows behind it come, go and change.       *)
(*                                                                         *)
(* A row is the number of its creation; the sort key it has in its list is *)
(* an integer, and the rows come in the ascending order of their keys, in  *)
(* whichever order the database likes when keys are equal.  A query that   *)
(* gives no filter is modelled: a filter only makes rows enter and leave.  *)
(***************************************************************************)
EXTENDS Integers, FiniteSetsExt

CONSTANTS
    Limits,         \* the sizes of page a client may ask for
    Positions,      \* the sort keys of rows sorted by name or by date
    MaxListed       \* bound of the model: the rows ever created

VARIABLES
    list,           \* the list that is read, and its direction
    shown,          \* the rows it shows now, with their sort keys
    born,           \* how many rows were created
    reader,         \* the client: the page it asks for, the answer, what it saw
    shifted         \* auxiliary: a row has left or changed its place, or come
                    \* between the two queries of a page, or had no fixed place

vars == <<list, shown, born, reader, shifted>>

-----------------------------------------------------------------------------
\* A list: are its rows sorted by their creation, and may the client reverse
\* it (sortDir)?  May two rows have one sort key?  Does a row stay for good,
\* until it is deleted, or while it is active?  Two rows created in the same
\* millisecond are left to the lists with equal keys.
ByCreation(reversible, stays) ==
    [created |-> TRUE, descending |-> TRUE, reversible |-> reversible,
     ties |-> FALSE, stays |-> stays]
ByValue(ties, stays) ==
    [created |-> FALSE, descending |-> FALSE, reversible |-> FALSE,
     ties |-> ties, stays |-> stays]

Vehicles            == ByValue(FALSE, "active")       \* plate
Assets              == ByValue(TRUE, "active")        \* name
MaintenanceRecords  == ByValue(TRUE, "active")        \* scheduledDate
Suppliers           == ByValue(FALSE, "active")       \* name
Warehouses          == ByValue(TRUE, "ever")          \* name
Categories          == ByValue(FALSE, "active")       \* name
ProductTypes        == ByValue(TRUE, "active")        \* name, in any category
Inventories         == ByValue(TRUE, "active")        \* name of the product
InventoryCampaigns  == ByValue(TRUE, "deleted")       \* scheduledDate
Customers           == ByCreation(TRUE, "ever")
Companies           == ByCreation(FALSE, "ever")
Users               == ByCreation(FALSE, "deleted")
Products            == ByCreation(TRUE, "active")
StockMovements      == ByCreation(TRUE, "deleted")
InventoryCounts     == ByCreation(TRUE, "ever")
PurchaseOrders      == ByCreation(TRUE, "ever")
Sales               == ByCreation(TRUE, "ever")
Quotes              == ByCreation(TRUE, "ever")
Invoices            == ByCreation(TRUE, "ever")
DeliveryNotes       == ByCreation(TRUE, "ever")
Payments            == ByCreation(TRUE, "ever")
Notifications       == ByCreation(FALSE, "ever")
AuditLogs           == ByCreation(FALSE, "ever")

Lists == {Vehicles, Assets, MaintenanceRecords, Suppliers, Warehouses,
          Categories, ProductTypes, Inventories, Customers, Companies, Users,
          Products, StockMovements, InventoryCounts, InventoryCampaigns,
          PurchaseOrders, Sales, Quotes, Invoices, DeliveryNotes, Payments,
          Notifications, AuditLogs}

-----------------------------------------------------------------------------
Rows == DOMAIN shown
Tie(rows) == \E a, b \in rows : a # b /\ shown[a] = shown[b]

\* Sorted by creation, the newest come first unless the client asks otherwise;
\* sorted by value, one way is like the other.
Directions ==
    Lists \cup {[l EXCEPT !.descending = ~ @] : l \in {k \in Lists : k.reversible}}

NoReader == [stage |-> "idle", page |-> 0, limit |-> 0, total |-> 0,
             due |-> {}, seen |-> {}]

Init ==
    /\ list \in Directions
    /\ shown = << >>
    /\ born = 0
    /\ reader = NoReader
    /\ shifted = FALSE

\* A row created now comes first when the newest come first, and last when the
\* oldest do; elsewhere its value places it.
CreationKey(row) == IF list.descending THEN -row ELSE row
NewKeys ==
    IF list.created THEN {CreationKey(born + 1)}
    ELSE {key \in Positions : list.ties \/ \A row \in Rows : shown[row] # key}

\* Has a query of the page answered, and is the other one still to come?
Counted == reader.stage = "counted"
Reading == reader.stage # "idle"

\* The row enters the list with its key.
Show(row, key) ==
    shown' = [other \in Rows \cup {row} |-> IF other = row THEN key
                                                           ELSE shown[other]]

CreateRow ==
    /\ born < MaxListed
    /\ \E key \in NewKeys : Show(born + 1, key)
    /\ born' = born + 1
    /\ shifted' = (shifted \/ Counted)
    /\ UNCHANGED <<list, reader>>

\* An update that changes the name or the date the list is sorted by.
MoveRow(row) ==
    /\ ~ list.created
    /\ \E key \in NewKeys : shown' = [shown EXCEPT ![row] = key]
    /\ shifted' = (shifted \/ Reading)
    /\ UNCHANGED <<list, born, reader>>

\* A deletion, or a deactivation where the list shows active rows,
RemoveRow(row) ==
    /\ list.stays \in {"deleted", "active"}
    /\ shown' = [other \in Rows \ {row} |-> shown[other]]
    /\ shifted' = (shifted \/ Reading)
    /\ UNCHANGED <<list, born, reader>>

\* .. after which an update may bring the row back.
RestoreRow(row) ==
    /\ list.stays = "active"
    /\ \E key \in IF list.created THEN {CreationKey(row)} ELSE NewKeys :
          Show(row, key)
    /\ shifted' = (shifted \/ Counted)
    /\ UNCHANGED <<list, born, reader>>

-----------------------------------------------------------------------------
\* GET with page 1.
AskFirst(limit) ==
    /\ reader.stage = "idle"
    /\ reader' = [stage |-> "asked", page |-> 1, limit |-> limit, total |-> 0,
                  due |-> Rows, seen |-> {}]
    /\ shifted' = FALSE
    /\ UNCHANGED <<list, shown, born>>

\* Mutant: the page after is skipped to.
SkipOnePage == reader.page * reader.limit

\* The getter skip of PaginationQueryDto.
Skip == (reader.page - 1) * reader.limit

\* findMany with skip and take: what comes after the rows skipped.
Page(items) ==
    \E before \in SUBSET (Rows \ items) :
        LET after == Rows \ (before \cup items)
            Precede(a, b) == \A x \in a, y \in b : shown[x] <= shown[y]
        IN  /\ Cardinality(before) = Min({Skip, Cardinality(Rows)})
            /\ Cardinality(items) =
                   Min({reader.limit, Cardinality(Rows) - Cardinality(before)})
            /\ Precede(before, items \cup after)
            /\ Precede(items, after)

\* Promise.all: the rows of the page and the count are two queries, which
\* answer in any order.
ReadItems ==
    /\ reader.stage \in {"asked", "counted"}
    /\ \E items \in SUBSET Rows :
          /\ Page(items)
          /\ reader' = [reader EXCEPT
                 !.seen = @ \cup items,
                 !.stage = IF Counted THEN "answered" ELSE "read"]
    /\ shifted' = (shifted \/ Tie(Rows))
    /\ UNCHANGED <<list, shown, born>>

CountRows ==
    /\ reader.stage \in {"asked", "read"}
    /\ reader' = [reader EXCEPT
           !.total = Cardinality(Rows),
           !.stage = IF @ = "asked" THEN "counted" ELSE "answered"]
    /\ UNCHANGED <<list, shown, born, shifted>>

\* buildPaginatedResult
TotalPages ==
    Max({1, (reader.total + reader.limit - 1) \div reader.limit})

\* The client turns to the next page the answer promises,
AskNext ==
    /\ reader.stage = "answered"
    /\ reader.page < TotalPages
    /\ reader' = [reader EXCEPT !.page = @ + 1, !.stage = "asked"]
    /\ UNCHANGED <<list, shown, born, shifted>>

\* .. or has read them all.
Stop ==
    /\ reader.stage = "answered"
    /\ reader.page >= TotalPages
    /\ reader' = NoReader
    /\ UNCHANGED <<list, shown, born, shifted>>

Next ==
    \/ CreateRow
    \/ \E row \in Rows : MoveRow(row) \/ RemoveRow(row)
    \/ \E row \in (1..born) \ Rows : RestoreRow(row)
    \/ \E limit \in Limits : AskFirst(limit)
    \/ ReadItems \/ CountRows \/ AskNext \/ Stop

Spec == Init /\ [][Next]_vars

-----------------------------------------------------------------------------
\* The rows are those created so far, and the client has seen some of them.
TypeOK ==
    /\ born \in 0..MaxListed
    /\ Rows \subseteq 1..born
    /\ reader.stage \in {"idle", "asked", "read", "counted", "answered"}
    /\ reader.due \subseteq 1..born
    /\ reader.seen \subseteq 1..born
    /\ shifted \in BOOLEAN

\* A client that has asked for every page has seen every row that was there
\* when it began, although rows were created while it read (a new row only
\* pushes others to later pages), unless one left or moved, came between the
\* two queries of a page, or two had the same sort key.
CleanPagesMissNone ==
    reader.stage = "answered" /\ reader.page >= TotalPages /\ ~ shifted
        => reader.due \subseteq reader.seen
=============================================================================
