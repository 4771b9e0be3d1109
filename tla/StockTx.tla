------------------------------- MODULE StockTx -------------------------------
(***************************************************************************)
(* The interactive transactions (prisma.$transaction(async tx => ...)) in  *)
(* which every service of the ERP changes stock balances, at the grain of  *)
(* one database statement per step.                                        *)
(*                                                                         *)
(* A request that moves stock is, whatever the service, a sequence of      *)
(* postings.  A posting may first read the row with                        *)
(* InventoryRepository.getQuantity and may refuse on what it reads, then   *)
(* runs the two statements of InventoryRepository.applyDelta: a read of    *)
(* the inventory row, and an insert of the row or an update of it to the   *)
(* ABSOLUTE value existing.quantity + delta computed by the server.        *)
(*                                                                         *)
(* PostgreSQL runs the transaction at READ COMMITTED (no isolation level   *)
(* is passed): a read sees the transaction's own writes and, of the        *)
(* others', what is committed; a write takes the row until the transaction *)
(* ends; an insert of a row another transaction is inserting waits for it  *)
(* and fails (P2002) if that one commits.                                  *)
(*                                                                         *)
(* The module has the state and the steps of the engine.  StockLedger and  *)
(* Sales extend it with the requests that run on it.                       *)
(***************************************************************************)
EXTENDS Integers, Sequences, FiniteSets

CONSTANTS
    Requests,   \* the HTTP requests, one model value per request
    Rows        \* the keys (product, warehouse) of the inventory table

VARIABLES
    balance,    \* committed Inventory.quantity of a row, 0 when it is absent
    present,    \* the rows that exist in the inventory table
    stage,      \* the next statement of a request
    todo,       \* the postings the request has not written yet
    before,     \* the result of the last getQuantity of the request
    seen,       \* the inventory row applyDelta has read
    draft,      \* the uncommitted quantity of the rows the request has written
    touched,    \* the rows the request has written, which it holds locked
    \* Auxiliary variables, of no influence on the others:
    net,        \* the sum of the deltas the request has written on a row
    dirty,      \* the rows the request wrote from a read no longer current
    posted,     \* the sum of the deltas committed on a row
    tainted     \* the rows with a committed write from a read not current

txVars == <<balance, present, stage, todo, before, seen, draft, touched,
            net, dirty, posted, tainted>>

\* One call of applyDelta, and the getQuantity before it: none, a read whose
\* result is only kept, or a check that refuses to go below zero.
Guards == {"none", "read", "check"}
Posting == [row : Rows, delta : Int, guard : Guards]

InTxStages == {"check", "find", "write", "journal"}
Stages == {"idle", "checked", "notify", "done", "failed"} \cup InTxStages

FirstStage(postings) ==
    CASE postings = << >> -> "journal"
      [] postings # << >>
         /\ Head(postings).guard # "none" -> "check"
      [] OTHER -> "find"

\* What a read of a row returns to a transaction.
Quantity(r, row) == IF row \in touched[r] THEN draft[r][row] ELSE balance[row]
Found(r, row) == row \in present \/ row \in touched[r]

LockedByOther(r, row) == \E other \in Requests \ {r} : row \in touched[other]

TxTypeOK ==
    /\ balance \in [Rows -> Int]
    /\ present \in SUBSET Rows
    /\ stage \in [Requests -> Stages]
    /\ todo \in [Requests -> Seq(Posting)]
    /\ before \in [Requests -> Int]
    /\ seen \in [Requests -> [found : BOOLEAN, quantity : Int]]
    /\ draft \in [Requests -> [Rows -> Int]]
    /\ touched \in [Requests -> SUBSET Rows]
    /\ net \in [Requests -> [Rows -> Int]]
    /\ dirty \in [Requests -> SUBSET Rows]
    /\ posted \in [Rows -> Int]
    /\ tainted \in SUBSET Rows

TxInit(stock) ==
    /\ balance = stock
    /\ present = {row \in Rows : stock[row] # 0}
    /\ stage = [r \in Requests |-> "idle"]
    /\ todo = [r \in Requests |-> << >>]
    /\ before = [r \in Requests |-> 0]
    /\ seen = [r \in Requests |-> [found |-> FALSE, quantity |-> 0]]
    /\ draft = [r \in Requests |-> [row \in Rows |-> 0]]
    /\ touched = [r \in Requests |-> {}]
    /\ net = [r \in Requests |-> [row \in Rows |-> 0]]
    /\ dirty = [r \in Requests |-> {}]
    /\ posted = stock
    /\ tainted = {}

-----------------------------------------------------------------------------

\* $transaction(async tx => ...): the request enters the transaction that
\* will write these postings.
Begin(r, postings) ==
    /\ todo' = [todo EXCEPT ![r] = postings]
    /\ stage' = [stage EXCEPT ![r] = FirstStage(postings)]
    /\ UNCHANGED <<balance, present, before, seen, draft, touched, net, dirty,
                   posted, tainted>>

\* The reads are locals of the callback: they end with the transaction.
ForgetReads(r) ==
    /\ before' = [before EXCEPT ![r] = 0]
    /\ seen' = [seen EXCEPT ![r] = [found |-> FALSE, quantity |-> 0]]

\* The database forgets the transaction and releases its rows.
Rollback(r) ==
    /\ stage' = [stage EXCEPT ![r] = "failed"]
    /\ todo' = [todo EXCEPT ![r] = << >>]
    /\ draft' = [draft EXCEPT ![r] = [row \in Rows |-> 0]]
    /\ touched' = [touched EXCEPT ![r] = {}]
    /\ net' = [net EXCEPT ![r] = [row \in Rows |-> 0]]
    /\ dirty' = [dirty EXCEPT ![r] = {}]
    /\ ForgetReads(r)
    /\ UNCHANGED <<balance, present, posted, tainted>>

Covers(quantity, posting) ==
    posting.guard = "check" => quantity + posting.delta >= 0

\* getQuantity, and the check of the result against the amount to take.
GetQuantity(r) ==
    LET quantity == Quantity(r, Head(todo[r]).row)
    IN  /\ stage[r] = "check"
        /\ Covers(quantity, Head(todo[r]))
        /\ before' = [before EXCEPT ![r] = quantity]
        /\ stage' = [stage EXCEPT ![r] = "find"]
        /\ UNCHANGED <<balance, present, todo, seen, draft, touched, net,
                       dirty, posted, tainted>>

\* ConflictException: the stock read does not cover the amount.
Insufficient(r) ==
    /\ stage[r] = "check"
    /\ ~Covers(Quantity(r, Head(todo[r]).row), Head(todo[r]))
    /\ Rollback(r)

\* applyDelta, first statement: inventory.findUnique.
FindRow(r) ==
    LET row == Head(todo[r]).row
    IN  /\ stage[r] = "find"
        /\ seen' = [seen EXCEPT ![r] =
                      [found |-> Found(r, row), quantity |-> Quantity(r, row)]]
        /\ stage' = [stage EXCEPT ![r] = "write"]
        /\ UNCHANGED <<balance, present, todo, before, draft, touched, net,
                       dirty, posted, tainted>>

\* The reads this write is computed from are those of an older balance.
ReadIsStale(r) ==
    LET posting == Head(todo[r])
        current == Quantity(r, posting.row)
    IN  \/ seen[r].quantity # current
        \/ posting.guard = "check" /\ before[r] # current

\* Mutant: the update is computed from the earlier getQuantity.
NewQuantityFromBefore(r) == before[r] + Head(todo[r]).delta

\* The value the server computed in applyDelta, from the row it has read.
NewQuantity(r) == seen[r].quantity + Head(todo[r]).delta

WriteRow(r) ==
    LET posting == Head(todo[r])
    IN  /\ draft' = [draft EXCEPT ![r][posting.row] = NewQuantity(r)]
        /\ touched' = [touched EXCEPT ![r] = @ \cup {posting.row}]
        /\ net' = [net EXCEPT ![r][posting.row] = @ + posting.delta]
        /\ dirty' = [dirty EXCEPT ![r] =
                       IF ReadIsStale(r) THEN @ \cup {posting.row} ELSE @]
        /\ todo' = [todo EXCEPT ![r] = Tail(@)]
        /\ stage' = [stage EXCEPT ![r] = FirstStage(Tail(todo[r]))]
        /\ UNCHANGED <<balance, present, before, seen, posted, tainted>>

\* applyDelta: inventory.create, once nobody else is inserting the row.
CreateRow(r) ==
    /\ stage[r] = "write"
    /\ ~seen[r].found
    /\ Head(todo[r]).row \notin present
    /\ ~LockedByOther(r, Head(todo[r]).row)
    /\ WriteRow(r)

\* P2002: another transaction has committed the row since the read.
DuplicateRow(r) ==
    /\ stage[r] = "write"
    /\ ~seen[r].found
    /\ Head(todo[r]).row \in present
    /\ Rollback(r)

\* applyDelta: inventory.update, once nobody else holds the row.
UpdateRow(r) ==
    /\ stage[r] = "write"
    /\ seen[r].found
    /\ ~LockedByOther(r, Head(todo[r]).row)
    /\ WriteRow(r)

\* COMMIT publishes the rows written and releases them.  stale is the set of
\* rows whose postings were computed from a row of another table that has
\* changed since it was read.
CommitTx(r, nextStage, stale) ==
    /\ balance' = [row \in Rows |->
                     IF row \in touched[r] THEN draft[r][row] ELSE balance[row]]
    /\ present' = present \cup touched[r]
    /\ posted' = [row \in Rows |-> posted[row] + net[r][row]]
    /\ tainted' = tainted \cup dirty[r] \cup stale
    /\ stage' = [stage EXCEPT ![r] = nextStage]
    /\ draft' = [draft EXCEPT ![r] = [row \in Rows |-> 0]]
    /\ touched' = [touched EXCEPT ![r] = {}]
    /\ net' = [net EXCEPT ![r] = [row \in Rows |-> 0]]
    /\ dirty' = [dirty EXCEPT ![r] = {}]
    /\ ForgetReads(r)
    /\ UNCHANGED todo

\* Mutant: no time limit and no deadlock detection while a write waits.
AbortUnlessWriting(r) ==
    /\ stage[r] \in InTxStages \ {"write"}
    /\ Rollback(r)

\* A transaction is rolled back by the 5 s limit Prisma sets on an interactive
\* transaction, by the deadlock detection of PostgreSQL, or by the loss of the
\* connection.
AbortTx(r) ==
    /\ stage[r] \in InTxStages
    /\ Rollback(r)

\* The write of the request waits for another transaction.
Waiting(r) ==
    /\ stage[r] = "write"
    /\ LockedByOther(r, Head(todo[r]).row)

\* A statement of the posting at the head of todo.
TxStep(r) ==
    \/ GetQuantity(r)
    \/ Insufficient(r)
    \/ FindRow(r)
    \/ CreateRow(r)
    \/ DuplicateRow(r)
    \/ UpdateRow(r)

=============================================================================
