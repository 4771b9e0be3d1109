----------------------------- MODULE Numbering -----------------------------
(***************************************************************************)
(* The references PREFIX-YEAR-NNNN of the inventory campaigns, the sales,  *)
(* the quotes and the purchase orders, drawn by the generateRef of their   *)
(* four services, over the turn of a year.                                 *)
(*                                                                         *)
(* The number is the count of the documents of the year, plus one; a       *)
(* unique key refuses a reference in use.  The tables are numbered apart,  *)
(* so a behaviour fills one of them.  What becomes of the documents is in  *)
(* the modules of their names; invoices and delivery notes, which are      *)
(* numbered alike, are in Billing.                                         *)
(***************************************************************************)
EXTENDS Integers, FiniteSets

CONSTANTS
    Requests,
    Parents,        \* the warehouses and customers documents are made for
    MaxDocuments,   \* bound of the model
    None

VARIABLES
    table,          \* the table that is filled
    documents,      \* year and number of their references, the year they
                    \* count in, the warehouse or the customer
    year,           \* the year it is: getFullYear is local, the bounds of
                    \* countThisYear and createdAt are UTC
    stage, job,     \* the creations
    removed,        \* auxiliary: has a campaign been deleted?
    straddled       \* auxiliary: does a document of one year count in the other?

vars == <<table, documents, year, stage, job, removed, straddled>>

Tables == {"campaign", "sale", "quote", "order"}

NoJob == [parent |-> None, year |-> 0, ref |-> 0]

Init ==
    /\ table \in Tables
    /\ documents = {}
    /\ year = [local |-> 1, utc |-> 1]
    /\ stage = [r \in Requests |-> "idle"]
    /\ job = [r \in Requests |-> NoJob]
    /\ removed = FALSE
    /\ straddled = FALSE

-----------------------------------------------------------------------------
\* countThisYear
CountThisYear(y) == Cardinality({d \in documents : d.counted = y})

\* Mutant: the number of the last document, not of the next.
LastCounted == CountThisYear(year.local)

\* generateRef of the four services: the documents that count in the year, plus
\* one.
NextRef == CountThisYear(year.local) + 1

\* @@unique([companyId, ref]) of the table
FreeRef(d) ==
    \A other \in documents : <<other.year, other.ref>> # <<d.year, d.ref>>

\* POST /inventory-campaigns, /sales, /quotes, /purchase-orders and whatever
\* calls their services: the count,
DrawRef(r) ==
    /\ stage[r] = "idle"
    /\ stage' = [stage EXCEPT ![r] = "counted"]
    /\ \E parent \in Parents :
          job' = [job EXCEPT ![r] = [parent |-> parent, year |-> year.local,
                                     ref |-> NextRef]]
    /\ UNCHANGED <<table, documents, year, removed, straddled>>

End(r) ==
    /\ stage' = [stage EXCEPT ![r] = "idle"]
    /\ job' = [job EXCEPT ![r] = NoJob]

\* .. then the insert, which the unique key may refuse; createdAt says in which
\* year it counts.
CreateDocument(r) ==
    /\ stage[r] = "counted"
    /\ Cardinality(documents) < MaxDocuments
    /\ FreeRef(job[r])
    /\ documents' = documents \cup
           {[parent |-> job[r].parent, year |-> job[r].year,
             ref |-> job[r].ref, counted |-> year.utc]}
    /\ straddled' = (straddled \/ job[r].year # year.utc)
    /\ End(r)
    /\ UNCHANGED <<table, year, removed>>

\* The insert is refused, or the request fails before it.
Abort(r) ==
    /\ stage[r] = "counted"
    /\ End(r)
    /\ UNCHANGED <<table, documents, year, removed, straddled>>

\* PATCH /inventory-campaigns/:id: the warehouse may change, the reference may
\* not.
UpdateCampaign(c) ==
    /\ table = "campaign"
    /\ \E warehouse \in Parents :
          documents' = (documents \ {c}) \cup {[c EXCEPT !.parent = warehouse]}
    /\ UNCHANGED <<table, year, stage, job, removed, straddled>>

\* DELETE: the one deletion here.
RemoveCampaign(c) ==
    /\ table = "campaign"
    /\ documents' = documents \ {c}
    /\ removed' = TRUE
    /\ UNCHANGED <<table, year, stage, job, straddled>>

\* The year ends here, or in Greenwich, whichever comes first.
NewYear(clock) ==
    /\ year[clock] = 1
    /\ year' = [year EXCEPT ![clock] = 2]
    /\ UNCHANGED <<table, documents, stage, job, removed, straddled>>

-----------------------------------------------------------------------------
Next ==
    \/ \E r \in Requests : DrawRef(r) \/ CreateDocument(r) \/ Abort(r)
    \/ \E c \in documents : UpdateCampaign(c) \/ RemoveCampaign(c)
    \/ \E clock \in {"local", "utc"} : NewYear(clock)

Spec == Init /\ [][Next]_vars

-----------------------------------------------------------------------------
\* The documents and the requests have their types.
TypeOK ==
    /\ table \in Tables
    /\ documents \subseteq [parent : Parents, year : 1..2,
                            ref : 1..MaxDocuments + 1, counted : 1..2]
    /\ year \in [{"local", "utc"} -> 1..2]
    /\ stage \in [Requests -> {"idle", "counted"}]
    /\ removed => table = "campaign"
    /\ straddled \in BOOLEAN

\* The references of a year are 1, 2, .. without a hole, so that the one the
\* next creation draws is free, although it was counted before the insert and
\* the year may end in between.  Not so once a document of one year counts in
\* the other, nor once a campaign is deleted: then the count may fall back on
\* a reference in use, and every creation is refused until the end of the year.
CleanRefIsFree ==
    straddled \/ removed \/
    \A y \in 1..2 : {d.ref : d \in {e \in documents : e.year = y}}
                        = 1..CountThisYear(y)
=============================================================================
