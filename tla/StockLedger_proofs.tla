-------------------------- MODULE StockLedger_proofs --------------------------
(***************************************************************************)
(* For any products, warehouses, requests and opening stock, and any       *)
(* number of requests in flight, of the rows no stale read has written:    *)
(* no delta is lost, no balance is below zero, every balance is the sum of *)
(* the journal, and create announces a rupture exactly when it causes one. *)
(* A removal is final.  Requests that taint no row implement the abstract  *)
(* ledger, and requests that do not overlap taint none.                    *)
(*                                                                         *)
(* The last part is about InventoryCounts, which puts the monthly counts   *)
(* beside this journal: a record of a month gives the stock the month      *)
(* began with, for any triggers and number of months.  The rest says       *)
(* nothing of its constants and variables.                                 *)
(***************************************************************************)
EXTENDS InventoryCounts, StockTx_proofs

\* A transfer has a target.
ProperMovement ==
    {m \in Movement : m.type = "TRANSFER" => m.target \in Warehouses}

JournalProper ==
    movements \in [Ids -> ProperMovement \cup {NoMovement}]

ProperJob ==
    {j \in Job :
        /\ j.kind \in {"update", "remove"} => j.old \in ProperMovement
        /\ j.old \in ProperMovement \cup {NoMovement}
        /\ j.new \in ProperMovement \cup {NoMovement}}

JobsProper == job \in [Requests -> ProperJob]

IInv ==
    /\ TxInv
    /\ NonNegInv
    /\ JournalProper
    /\ JobsProper
    /\ alerts \in SUBSET Requests

\* The postings of a handler stay in the table and check what they take.
LEMMA PostIsSafe ==
  ASSUME NEW row \in Rows, NEW delta \in Int
  PROVE  Post(row, delta) \in SafePosting
  BY DEF Post, SafePosting, Posting, Guards

\* A sequence of one or no posting is a plan.
LEMMA TransferToIsSafe ==
  ASSUME NEW m \in ProperMovement, NEW sign \in {1, -1}
  PROVE  TransferTo(m, sign) \in Seq(SafePosting)
<1>1. CASE m.type = "TRANSFER"
  <2>1. TargetRow(m) \in Rows
    BY <1>1, RowsAssumption DEF ProperMovement, Movement, TargetRow
  <2>2. sign * Magnitude(m.quantity) \in Int
    BY DEF ProperMovement, Movement, Magnitude
  <2>3. Post(TargetRow(m), sign * Magnitude(m.quantity)) \in SafePosting
    BY <2>1, <2>2, PostIsSafe
  <2> QED
    BY <1>1, <2>3 DEF TransferTo
<1>2. CASE m.type # "TRANSFER"
  BY <1>2, EmptySeq DEF TransferTo
<1> QED
  BY <1>1, <1>2

\* The source of a movement is a row of the table.
LEMMA SourceRowIsRow ==
  ASSUME NEW m \in ProperMovement
  PROVE  SourceRow(m) \in Rows /\ m.quantity \in Int
  BY RowsAssumption DEF ProperMovement, Movement, SourceRow

\* The plan of create.
LEMMA CreatePostingsAreSafe ==
  ASSUME NEW m \in ProperMovement
  PROVE  CreatePostings(m) \in Seq(SafePosting)
<1> DEFINE first == [Post(SourceRow(m), m.quantity) EXCEPT
                       !.guard = IF @ = "none" THEN "read" ELSE @]
<1>1. first \in SafePosting
  BY SourceRowIsRow DEF Post, SafePosting, Posting, Guards
<1>2. << first >> \in Seq(SafePosting)
  BY <1>1
<1> QED
  BY <1>2, TransferToIsSafe, ConcatProperties DEF CreatePostings

\* The plan of reverseEffect.
LEMMA ReversePostingsAreSafe ==
  ASSUME NEW m \in ProperMovement
  PROVE  ReversePostings(m) \in Seq(SafePosting)
<1>1. Post(SourceRow(m), -m.quantity) \in SafePosting
  BY SourceRowIsRow, PostIsSafe
<1>2. << Post(SourceRow(m), -m.quantity) >> \in Seq(SafePosting)
  BY <1>1
<1> QED
  BY <1>2, TransferToIsSafe, ConcatProperties DEF ReversePostings

\* The plan of update: reverseEffect, then the movement corrected.
LEMMA UpdatePostingsAreSafe ==
  ASSUME NEW old \in ProperMovement, NEW new \in ProperMovement
  PROVE  UpdatePostings(old, new) \in Seq(SafePosting)
<1>1. Post(SourceRow(new), new.quantity) \in SafePosting
  BY SourceRowIsRow, PostIsSafe
<1>2. << Post(SourceRow(new), new.quantity) >> \in Seq(SafePosting)
  BY <1>1
<1>3. ReversePostings(old) \o << Post(SourceRow(new), new.quantity) >>
        \in Seq(SafePosting)
  BY <1>2, ReversePostingsAreSafe, ConcatProperties
<1> QED
  BY <1>3, TransferToIsSafe, ConcatProperties DEF UpdatePostings

\* A plan of checked postings is a plan.
LEMMA SafeIsPlan ==
  ASSUME NEW postings \in Seq(SafePosting)
  PROVE  postings \in Seq(Posting)
  BY SeqMonotonic DEF SafePosting

-----------------------------------------------------------------------------
\* Two versions of a movement touch the same rows.
SameRows(m, n) ==
    /\ SourceRow(m) = SourceRow(n)
    /\ TargetRow(m) = TargetRow(n)
    /\ (m.type = "TRANSFER") = (n.type = "TRANSFER")

\* What a request is asked, from its kind.
JobFits(j, r) ==
    /\ j.kind = "create" =>
         /\ j.id = r /\ j.old = NoMovement
         /\ j.new \in ProperMovement
         /\ j.new.type = "TRANSFER" => j.new.target # j.new.warehouse
    /\ j.kind = "update" =>
         /\ j.id \in Ids /\ j.old \in ProperMovement
         /\ j.new \in ProperMovement
         /\ SameRows(j.new, j.old)
    /\ j.kind = "remove" =>
         /\ j.id \in Ids /\ j.old \in ProperMovement
         /\ j.new = NoMovement

\* A movement is not the mark of an absent one.
LEMMA ProperIsMovement ==
  ASSUME NEW m \in ProperMovement
  PROVE  m \in Movement /\ m # NoMovement
  BY NoMovementAssumption DEF ProperMovement

\* Effects are integers.
LEMMA EffectInt ==
  ASSUME NEW entry \in ProperMovement \cup {NoMovement}, NEW row
  PROVE  EntryEffect(entry, row) \in Int
<1>1. CASE entry = NoMovement
  BY <1>1 DEF EntryEffect
<1>2. CASE entry # NoMovement
  <2>1. entry.quantity \in Int
    BY <1>2, SourceRowIsRow
  <2>2. Magnitude(entry.quantity) \in Int
    BY <2>1 DEF Magnitude
  <2> QED
    BY <1>2, <2>1, <2>2 DEF EntryEffect, Effect
<1> QED
  BY <1>1, <1>2

\* An entry has an effect on its rows only.
LEMMA EffectOutsideRows ==
  ASSUME NEW m \in ProperMovement, NEW n \in ProperMovement, SameRows(m, n),
         NEW row \in Rows \ RowsOf(n)
  PROVE  EntryEffect(m, row) = 0
  BY ProperIsMovement DEF SameRows, RowsOf, EntryEffect, Effect

\* What the last posting of a transfer adds to a row.
LEMMA DueTransfer ==
  ASSUME NEW m \in ProperMovement, NEW sign \in {1, -1}, NEW row \in Rows
  PROVE  Due(TransferTo(m, sign), row) =
           IF m.type = "TRANSFER" /\ row = TargetRow(m)
           THEN sign * Magnitude(m.quantity) ELSE 0
<1>1. CASE m.type = "TRANSFER"
  <2> DEFINE posting == Post(TargetRow(m), sign * Magnitude(m.quantity))
  <2>1. TargetRow(m) \in Rows
    BY <1>1, RowsAssumption DEF ProperMovement, Movement, TargetRow
  <2>2. sign * Magnitude(m.quantity) \in Int
    BY DEF ProperMovement, Movement, Magnitude
  <2>3. posting \in Posting
    BY <2>1, <2>2, PostIsSafe DEF SafePosting
  <2>4. DeltaFor(posting, row) = IF row = TargetRow(m)
                                 THEN sign * Magnitude(m.quantity) ELSE 0
    BY DEF DeltaFor, Post
  <2>5. TransferTo(m, sign) = << posting >>
    BY <1>1 DEF TransferTo
  <2> HIDE DEF posting
  <2> QED
    BY <1>1, <2>3, <2>4, <2>5, DueOne
<1>2. CASE m.type # "TRANSFER"
  BY <1>2, DueEmpty DEF TransferTo
<1> QED
  BY <1>1, <1>2

\* What another posting adds.
LEMMA DuePost ==
  ASSUME NEW source \in Rows, NEW delta \in Int, NEW row \in Rows
  PROVE  Due(<< Post(source, delta) >>, row) = IF row = source THEN delta ELSE 0
<1> DEFINE posting == Post(source, delta)
<1>1. posting \in Posting
  BY PostIsSafe DEF SafePosting
<1>2. DeltaFor(posting, row) = IF row = source THEN delta ELSE 0
  BY DEF DeltaFor, Post
<1>3. Due(<< posting >>, row) = DeltaFor(posting, row)
  <2> HIDE DEF posting
  <2> QED
    BY <1>1, DueOne
<1> QED
  BY <1>2, <1>3

\* create posts the effect of its movement.
LEMMA DueCreate ==
  ASSUME NEW m \in ProperMovement, NEW row \in Rows
  PROVE  Due(CreatePostings(m), row) = EntryEffect(m, row)
<1> DEFINE first == [Post(SourceRow(m), m.quantity) EXCEPT
                       !.guard = IF @ = "none" THEN "read" ELSE @]
<1>1. SourceRow(m) \in Rows /\ m.quantity \in Int
  BY SourceRowIsRow
<1>2. first \in Posting
  BY <1>1 DEF Post, Posting, Guards
<1>3. DeltaFor(first, row) = IF row = SourceRow(m) THEN m.quantity ELSE 0
  BY DEF DeltaFor, Post
<1>4. Due(<< first >>, row) = DeltaFor(first, row)
  <2> HIDE DEF first
  <2> QED
    BY <1>2, DueOne
<1>5. << first >> \in Seq(Posting) /\ TransferTo(m, 1) \in Seq(Posting)
  BY <1>2, TransferToIsSafe, SafeIsPlan
<1>6. CreatePostings(m) = << first >> \o TransferTo(m, 1)
  BY DEF CreatePostings
<1> HIDE DEF first
<1>7. Due(CreatePostings(m), row)
        = Due(<< first >>, row) + Due(TransferTo(m, 1), row)
  BY <1>5, <1>6, DueConcat
<1>8. Due(TransferTo(m, 1), row) = IF m.type = "TRANSFER" /\ row = TargetRow(m)
                                   THEN Magnitude(m.quantity) ELSE 0
  BY <1>1, DueTransfer DEF Magnitude
<1> QED
  BY <1>3, <1>4, <1>7, <1>8, ProperIsMovement DEF EntryEffect, Effect

\* reverseEffect posts its opposite.
LEMMA DueReverse ==
  ASSUME NEW m \in ProperMovement, NEW row \in Rows
  PROVE  Due(ReversePostings(m), row) = -EntryEffect(m, row)
<1> DEFINE first == Post(SourceRow(m), -m.quantity)
<1>1. SourceRow(m) \in Rows /\ m.quantity \in Int /\ -m.quantity \in Int
  BY SourceRowIsRow
<1>2. Due(<< first >>, row) = IF row = SourceRow(m) THEN -m.quantity ELSE 0
  BY <1>1, DuePost
<1>3. first \in Posting
  BY <1>1, PostIsSafe DEF SafePosting
<1>4. << first >> \in Seq(Posting) /\ TransferTo(m, -1) \in Seq(Posting)
  BY <1>3, TransferToIsSafe, SafeIsPlan
<1>5. ReversePostings(m) = << first >> \o TransferTo(m, -1)
  BY DEF ReversePostings
<1> HIDE DEF first
<1>6. Due(ReversePostings(m), row)
        = Due(<< first >>, row) + Due(TransferTo(m, -1), row)
  BY <1>4, <1>5, DueConcat
<1>7. Magnitude(m.quantity) \in Int
  BY <1>1 DEF Magnitude
<1>8. Due(TransferTo(m, -1), row) = IF m.type = "TRANSFER" /\ row = TargetRow(m)
                                    THEN -Magnitude(m.quantity) ELSE 0
  BY <1>7, DueTransfer
<1>9. EntryEffect(m, row)
        = (IF row = SourceRow(m) THEN m.quantity ELSE 0)
          + (IF m.type = "TRANSFER" /\ row = TargetRow(m)
             THEN Magnitude(m.quantity) ELSE 0)
  BY ProperIsMovement DEF EntryEffect, Effect
<1> QED
  BY <1>1, <1>2, <1>6, <1>7, <1>8, <1>9

\* update posts the difference of the two.
LEMMA DueUpdate ==
  ASSUME NEW old \in ProperMovement, NEW new \in ProperMovement,
         NEW row \in Rows
  PROVE  Due(UpdatePostings(old, new), row)
           = EntryEffect(new, row) - EntryEffect(old, row)
<1> DEFINE second == Post(SourceRow(new), new.quantity)
           front == ReversePostings(old) \o << second >>
<1>1. SourceRow(new) \in Rows /\ new.quantity \in Int
  BY SourceRowIsRow
<1>2. Due(<< second >>, row) = IF row = SourceRow(new) THEN new.quantity ELSE 0
  BY <1>1, DuePost
<1>3. second \in Posting
  BY <1>1, PostIsSafe DEF SafePosting
<1> HIDE DEF second
<1>4. /\ << second >> \in Seq(Posting) /\ TransferTo(new, 1) \in Seq(Posting)
      /\ ReversePostings(old) \in Seq(Posting)
  BY <1>3, TransferToIsSafe, ReversePostingsAreSafe, SafeIsPlan
<1>5. front \in Seq(Posting)
  BY <1>4, ConcatProperties
<1>6. Due(front, row) = Due(ReversePostings(old), row) + Due(<< second >>, row)
  BY <1>4, DueConcat
<1>7. UpdatePostings(old, new) = front \o TransferTo(new, 1)
  BY DEF UpdatePostings, second
<1> HIDE DEF front
<1>8. Due(UpdatePostings(old, new), row)
        = Due(front, row) + Due(TransferTo(new, 1), row)
  BY <1>4, <1>5, <1>7, DueConcat
<1>9. Magnitude(new.quantity) \in Int
  BY <1>1 DEF Magnitude
<1>10. Due(TransferTo(new, 1), row)
         = IF new.type = "TRANSFER" /\ row = TargetRow(new)
           THEN Magnitude(new.quantity) ELSE 0
  BY <1>9, DueTransfer
<1>11. EntryEffect(new, row)
         = (IF row = SourceRow(new) THEN new.quantity ELSE 0)
           + (IF new.type = "TRANSFER" /\ row = TargetRow(new)
              THEN Magnitude(new.quantity) ELSE 0)
  BY ProperIsMovement DEF EntryEffect, Effect
<1>12. EntryEffect(old, row) \in Int
  BY EffectInt
<1> QED
  BY <1>1, <1>2, <1>6, <1>8, <1>9, <1>10, <1>11, <1>12, DueReverse

-----------------------------------------------------------------------------
\* The request starts on a job, with the plan that posts its effect.
Starts(r, j, postings) ==
    /\ stage[r] = "idle"
    /\ j \in ProperJob /\ j.kind # "none" /\ JobFits(j, r)
    /\ j.kind = "create" => postings = CreatePostings(j.new)
    /\ j.kind \in {"update", "remove"} =>
         j.old # NoMovement /\ movements[j.id] = j.old
    /\ postings \in Seq(SafePosting)
    /\ \A row \in Rows : Due(postings, row) = EntryEffect(j.new, row)
                                             - EntryEffect(j.old, row)
    /\ Begin(r, postings)
    /\ job' = [job EXCEPT ![r] = j]
    /\ UNCHANGED <<movements, alerts>>

\* create starts.
LEMMA CreateStarts ==
  ASSUME IInv, NEW r \in Requests, StartCreate(r)
  PROVE  \E j, postings : Starts(r, j, postings)
<1>1. PICK type \in Types, product \in Products, warehouse \in Warehouses,
           input \in Inputs : \E target \in Targets(type) :
        LET new == [type |-> type, product |-> product,
                    warehouse |-> warehouse, target |-> target,
                    quantity |-> SignedDelta(type, input)]
        IN  /\ ValidTarget(type, warehouse, target)
            /\ Begin(r, CreatePostings(new))
            /\ job' = [job EXCEPT ![r] =
                         [kind |-> "create", id |-> r,
                          old |-> NoMovement, new |-> new]]
            /\ UNCHANGED <<movements, alerts>>
  BY DEF StartCreate
<1>2. PICK target \in Targets(type) :
        LET new == [type |-> type, product |-> product,
                    warehouse |-> warehouse, target |-> target,
                    quantity |-> SignedDelta(type, input)]
        IN  /\ ValidTarget(type, warehouse, target)
            /\ Begin(r, CreatePostings(new))
            /\ job' = [job EXCEPT ![r] =
                         [kind |-> "create", id |-> r,
                          old |-> NoMovement, new |-> new]]
            /\ UNCHANGED <<movements, alerts>>
  BY <1>1
<1>3. target \in Warehouses \cup {NoWarehouse}
  BY DEF Targets
<1> DEFINE new == [type |-> type, product |-> product,
                   warehouse |-> warehouse, target |-> target,
                   quantity |-> SignedDelta(type, input)]
<1>4. SignedDelta(type, input) \in Int
  BY StockAssumption DEF SignedDelta
<1>5. new \in ProperMovement
  BY <1>2, <1>3, <1>4 DEF ProperMovement, Movement, ValidTarget
<1>6. [kind |-> "create", id |-> r, old |-> NoMovement, new |-> new]
        \in ProperJob
  BY <1>5 DEF ProperJob, Job, Ids, ProperMovement
<1> DEFINE j == [kind |-> "create", id |-> r, old |-> NoMovement, new |-> new]
<1>7. stage[r] = "idle"
  BY DEF StartCreate, Admitted
<1>8. JobFits(j, r)
  BY <1>2, <1>5 DEF JobFits, ValidTarget
<1>9. /\ Begin(r, CreatePostings(new)) /\ job' = [job EXCEPT ![r] = j]
      /\ UNCHANGED <<movements, alerts>>
  BY <1>2
<1> HIDE DEF new
<1>10. \A row \in Rows : Due(CreatePostings(new), row)
                          = EntryEffect(j.new, row) - EntryEffect(j.old, row)
  BY <1>5, DueCreate, EffectInt DEF EntryEffect
<1>11. Starts(r, j, CreatePostings(new))
  BY <1>5, <1>6, <1>7, <1>8, <1>9, <1>10, CreatePostingsAreSafe DEF Starts
<1> QED
  BY <1>11

\* update starts.
LEMMA UpdateStarts ==
  ASSUME IInv, NEW r \in Requests, StartUpdate(r)
  PROVE  \E j, postings : Starts(r, j, postings)
<1>1. PICK id \in Ids, type \in Types :
        /\ movements[id] # NoMovement
        /\ (type = "TRANSFER") = (movements[id].type = "TRANSFER")
        /\ \E input \in Inputs \cup {InputQuantity(movements[id])} :
             LET new == [movements[id] EXCEPT
                           !.type = type,
                           !.quantity = SignedDelta(type, input)]
             IN  /\ Begin(r, UpdatePostings(movements[id], new))
                 /\ job' = [job EXCEPT ![r] =
                              [kind |-> "update", id |-> id,
                               old |-> movements[id], new |-> new]]
        /\ UNCHANGED <<movements, alerts>>
  BY DEF StartUpdate
<1> DEFINE old == movements[id]
<1>2. old \in ProperMovement
  BY <1>1 DEF IInv, JournalProper
<1>3. PICK input \in Inputs \cup {InputQuantity(old)} :
        LET new == [old EXCEPT !.type = type,
                               !.quantity = SignedDelta(type, input)]
        IN  /\ Begin(r, UpdatePostings(old, new))
            /\ job' = [job EXCEPT ![r] = [kind |-> "update", id |-> id,
                                          old |-> old, new |-> new]]
  BY <1>1
<1> DEFINE new == [old EXCEPT !.type = type,
                              !.quantity = SignedDelta(type, input)]
<1> HIDE DEF old
<1>4. SignedDelta(type, input) \in Int
  BY <1>2, StockAssumption
     DEF SignedDelta, InputQuantity, ProperMovement, Movement
<1>5. new \in ProperMovement
  BY <1>1, <1>2, <1>4 DEF old, ProperMovement, Movement
<1>6. [kind |-> "update", id |-> id, old |-> old, new |-> new] \in ProperJob
  BY <1>2, <1>5 DEF ProperJob, Job, ProperMovement
<1> HIDE DEF new
<1>7. job' = [job EXCEPT ![r] = [kind |-> "update", id |-> id,
                                 old |-> old, new |-> new]]
      /\ Begin(r, UpdatePostings(old, new))
  BY <1>3 DEF new
<1> DEFINE j == [kind |-> "update", id |-> id, old |-> old, new |-> new]
<1>8. stage[r] = "idle"
  BY DEF StartUpdate, Admitted
<1>9. SameRows(new, old)
  BY <1>1, <1>2
     DEF new, old, SameRows, SourceRow, TargetRow, ProperMovement, Movement
<1>10. JobFits(j, r)
  BY <1>2, <1>5, <1>9 DEF JobFits
<1>11. \A row \in Rows : Due(UpdatePostings(old, new), row)
                          = EntryEffect(j.new, row) - EntryEffect(j.old, row)
  BY <1>2, <1>5, DueUpdate
<1>12. UpdatePostings(old, new) \in Seq(SafePosting)
  BY <1>2, <1>5, UpdatePostingsAreSafe
<1>13. old # NoMovement /\ movements[id] = old
  BY <1>1 DEF old
<1>14. Starts(r, j, UpdatePostings(old, new))
  BY <1>1, <1>6, <1>7, <1>8, <1>10, <1>11, <1>12, <1>13 DEF Starts
<1> QED
  BY <1>14

\* remove starts.
LEMMA RemoveStarts ==
  ASSUME IInv, NEW r \in Requests, StartRemove(r)
  PROVE  \E j, postings : Starts(r, j, postings)
<1>1. PICK id \in Ids :
        /\ movements[id] # NoMovement
        /\ Begin(r, ReversePostings(movements[id]))
        /\ job' = [job EXCEPT ![r] = [kind |-> "remove", id |-> id,
                                      old |-> movements[id],
                                      new |-> NoMovement]]
        /\ UNCHANGED <<movements, alerts>>
  BY DEF StartRemove
<1>2. movements[id] \in ProperMovement
  BY <1>1 DEF IInv, JournalProper
<1>3. [kind |-> "remove", id |-> id, old |-> movements[id],
       new |-> NoMovement] \in ProperJob
  BY <1>2 DEF ProperJob, Job, ProperMovement
<1> DEFINE old == movements[id]
           j == [kind |-> "remove", id |-> id, old |-> old, new |-> NoMovement]
<1>4. stage[r] = "idle"
  BY DEF StartRemove, Admitted
<1>5. JobFits(j, r)
  BY <1>2 DEF JobFits
<1>6. ASSUME NEW row \in Rows
      PROVE  Due(ReversePostings(old), row)
               = EntryEffect(j.new, row) - EntryEffect(j.old, row)
  <2>1. EntryEffect(old, row) \in Int
    BY <1>2, EffectInt
  <2>2. EntryEffect(NoMovement, row) = 0
    BY DEF EntryEffect
  <2> QED
    BY <1>2, <2>1, <2>2, DueReverse
<1>7. Starts(r, j, ReversePostings(old))
  BY <1>1, <1>2, <1>3, <1>4, <1>5, <1>6, ReversePostingsAreSafe DEF Starts
<1> QED
  BY <1>7
-----------------------------------------------------------------------------
\* The ledger starts in the invariant.
LEMMA InitInv == Init => IInv
<1> SUFFICES ASSUME Init PROVE IInv
  OBVIOUS
<1>1. OpeningStock \in [Rows -> Int]
  BY StockAssumption
<1>2. TxInv
  BY <1>1, TxInitInv DEF Init
<1>3. NonNegInv
  <2>1. SafePlans
    BY EmptySeq DEF Init, TxInit, SafePlans
  <2> QED
    BY <2>1, StockAssumption
       DEF Init, TxInit, NonNegInv, Checked, DraftsNonNegative,
           BalancesNonNegative
<1>4. JournalProper
  <2>1. ASSUME NEW row \in Rows PROVE OpeningMovement(row) \in ProperMovement
    BY RowsAssumption, StockAssumption
       DEF OpeningMovement, ProperMovement, Movement, Types
  <2> QED
    BY <2>1 DEF Init, JournalProper, Ids
<1>5. JobsProper
  BY DEF Init, JobsProper, ProperJob, Job, NoJob
<1> QED
  BY <1>2, <1>3, <1>4, <1>5 DEF IInv, Init

\* A handler that opens a transaction on a safe plan preserves the invariant.
LEMMA StartInv ==
  ASSUME IInv, NEW r \in Requests, NEW j, NEW postings, Starts(r, j, postings)
  PROVE  IInv'
<1> USE DEF Starts
<1>1. TxInv' /\ NonNegInv'
  BY SafeIsPlan, BeginInv, BeginNonNeg DEF IInv
<1>2. JobsProper'
  BY DEF IInv, JobsProper
<1> QED
  BY <1>1, <1>2 DEF IInv, JournalProper

\* The commit of a handler, with what it writes to the journal.
LEMMA LedgerCommitInv ==
  ASSUME IInv, NEW r \in Requests, NEW m \in ProperMovement \cup {NoMovement},
         NEW stale \in SUBSET Rows, NEW next \in {"notify", "done"},
         CommitTx(r, next, stale),
         movements' = [movements EXCEPT ![job[r].id] = m],
         UNCHANGED <<job, alerts>>
  PROVE  IInv'
<1>1. next \in Stages \ InTxStages
  BY DEF Stages, InTxStages
<1>2. TxInv' /\ NonNegInv'
  BY <1>1, CommitInv, CommitNonNeg DEF IInv
<1>3. JournalProper'
  BY DEF IInv, JournalProper
<1> QED
  BY <1>2, <1>3 DEF IInv, JobsProper

\* The rows an update or a removal taints are rows of the table.
LEMMA StaleRowsAreRows ==
  ASSUME IInv, NEW r \in Requests, job[r].kind \in {"update", "remove"}
  PROVE  StaleRows(r) \in SUBSET Rows
<1>1. job[r].old \in ProperMovement
  BY DEF IInv, JobsProper, ProperJob
<1> QED
  BY <1>1, RowsAssumption
     DEF StaleRows, RowsOf, SourceRow, TargetRow, ProperMovement, Movement

\* Every step of the ledger preserves the invariant.
LEMMA NextInv == IInv /\ [Next]_vars => IInv'
<1> SUFFICES ASSUME IInv, [Next]_vars PROVE IInv'
  OBVIOUS
<1>1. CASE UNCHANGED vars
  BY <1>1 DEF IInv, vars, txVars, JournalProper, JobsProper, TxInv, TxTypeOK,
              Exclusive, HasPosting, DraftsAgree, BalancesAgree, NonNegInv,
              SafePlans, Checked, DraftsNonNegative, BalancesNonNegative
<1>2. ASSUME NEW r \in Requests, StartCreate(r) \/ StartUpdate(r) \/ StartRemove(r)
      PROVE  IInv'
  BY <1>2, CreateStarts, UpdateStarts, RemoveStarts, StartInv
<1>3. ASSUME NEW r \in Requests, Step(r) PROVE IInv'
  BY <1>3, TxStepInv, TxStepNonNeg DEF Step, IInv, JournalProper, JobsProper
<1>4. ASSUME NEW r \in Requests, CommitCreate(r) PROVE IInv'
  <2>1. job[r].new \in ProperMovement \cup {NoMovement}
    BY DEF IInv, JobsProper, ProperJob
  <2> QED
    BY <1>4, <2>1, LedgerCommitInv DEF CommitCreate
<1>5. ASSUME NEW r \in Requests, CommitUpdate(r) PROVE IInv'
  <2>1. job[r].new \in ProperMovement \cup {NoMovement}
    BY DEF IInv, JobsProper, ProperJob
  <2>2. StaleRows(r) \in SUBSET Rows
    BY <1>5, StaleRowsAreRows DEF CommitUpdate
  <2> QED
    BY <1>5, <2>1, <2>2, LedgerCommitInv DEF CommitUpdate
<1>6. ASSUME NEW r \in Requests, CommitRemove(r) PROVE IInv'
  <2>1. StaleRows(r) \in SUBSET Rows
    BY <1>6, StaleRowsAreRows DEF CommitRemove
  <2> QED
    BY <1>6, <2>1, LedgerCommitInv DEF CommitRemove
<1>7. ASSUME NEW r \in Requests, MovementGone(r) \/ Abort(r) PROVE IInv'
  BY <1>7, RollbackInv, RollbackNonNeg
     DEF MovementGone, Abort, AbortTx, IInv, JournalProper, JobsProper
<1>8. ASSUME NEW r \in Requests, Notify(r) PROVE IInv'
  <2>1. TxInv'
    BY <1>8 DEF Notify, IInv, TxInv, TxTypeOK, Stages, Exclusive, HasPosting,
                 DraftsAgree, BalancesAgree
  <2>2. NonNegInv'
    BY <1>8 DEF Notify, IInv, TxInv, TxTypeOK, NonNegInv, SafePlans, Checked,
                 DraftsNonNegative, BalancesNonNegative
  <2> QED
    BY <1>8, <2>1, <2>2 DEF Notify, IInv, JournalProper, JobsProper
<1> QED
  BY <1>1, <1>2, <1>3, <1>4, <1>5, <1>6, <1>7, <1>8 DEF Next, Commit

\* The strengthened invariant holds in every reachable state.
THEOREM LedgerInvariant == Spec => []IInv
<1> QED
  BY InitInv, NextInv, PTL DEF Spec

\* TypeOK: the variables of the ledger keep their types, for every value of
\* the constants.
THEOREM TypeCorrect == Spec => []TypeOK
<1>1. IInv => TypeOK
  <2> SUFFICES ASSUME IInv PROVE TypeOK
    OBVIOUS
  <2>1. movements \in [Ids -> Movement \cup {NoMovement}]
    BY DEF IInv, JournalProper, ProperMovement
  <2>2. job \in [Requests -> Job]
    BY DEF IInv, JobsProper, ProperJob
  <2> QED
    BY <2>1, <2>2 DEF IInv, TypeOK, TxInv
<1> QED
  BY <1>1, LedgerInvariant, PTL

\* CleanNoLostUpdate: applyDelta loses no delta on a row that no request has
\* written from a stale read.
THEOREM NoLostUpdate == Spec => []CleanNoLostUpdate
<1>1. IInv => CleanNoLostUpdate
  BY DEF IInv, TxInv, BalancesAgree, CleanNoLostUpdate
<1> QED
  BY <1>1, LedgerInvariant, PTL

\* CleanNeverNegative: the checks of create, reverseEffect and update keep the
\* balance of such a row at or above zero.
THEOREM StaysNonNegative == Spec => []CleanNeverNegative
<1>1. IInv => CleanNeverNegative
  BY DEF IInv, NonNegInv, BalancesNonNegative, CleanNeverNegative
<1> QED
  BY <1>1, LedgerInvariant, PTL

-----------------------------------------------------------------------------
(***************************************************************************)
(* The balances are the journal.  Three facts carry the argument: what the *)
(* commit of a request will post is the difference between the entry it    *)
(* writes and the one it has read (JobsOwe); an entry keeps its rows for   *)
(* life, so a request that has read an older version of it taints every    *)
(* row its own postings touch (RowsKept); and an entry removed does not    *)
(* come back, nor one whose creation failed (FreshIds).                    *)
(***************************************************************************)
JobsFit ==
    \A r \in Requests :
        /\ stage[r] = "idle" <=> job[r].kind = "none"
        /\ stage[r] = "notify" => job[r].kind = "create"
        /\ JobFits(job[r], r)

\* A request that has not created its movement yet.
Expected(q) ==
    stage[q] = "idle" \/ (stage[q] \in InTxStages /\ job[q].kind = "create")

FreshIds ==
    \A q \in Requests :
        Expected(q) => /\ movements[q] = NoMovement
                       /\ \A r \in Requests : job[r].kind \in {"update", "remove"}
                                             => job[r].id # q

RowsKept ==
    \A r \in Requests :
        /\ job[r].kind \in {"update", "remove"}
        /\ movements[job[r].id] # NoMovement
        => SameRows(movements[job[r].id], job[r].old)

JobsOwe ==
    \A r \in Requests, row \in Rows :
        stage[r] \in InTxStages =>
            Owed(r, row) = EntryEffect(job[r].new, row)
                             - EntryEffect(job[r].old, row)

PostedIsJournal ==
    \A row \in Rows \ tainted : posted[row] = JournalTotal(row)

JournalInv ==
    /\ PlanInv
    /\ JobsFit
    /\ FreshIds
    /\ RowsKept
    /\ RemovalIsFinal
    /\ JobsOwe
    /\ PostedIsJournal

-----------------------------------------------------------------------------
\* The movements are finitely many.
LEMMA IdsAreFinite == IsFiniteSet(Ids)
  BY FiniteAssumption, FS_Union DEF Ids

\* The journal's total is an integer, and follows the entry that changes.
LEMMA TotalChanges ==
  ASSUME IInv, NEW id \in Ids, NEW m \in ProperMovement \cup {NoMovement},
         NEW row \in Rows, movements' = [movements EXCEPT ![id] = m]
  PROVE  /\ JournalTotal(row) \in Int
         /\ JournalTotal(row)' = JournalTotal(row)
              + (EntryEffect(m, row) - EntryEffect(movements[id], row))
<1> DEFINE F == [i \in Ids |-> EntryEffect(movements[i], row)]
           H == [i \in Ids |-> EntryEffect(movements'[i], row)]
<1>1. movements \in [Ids -> ProperMovement \cup {NoMovement}]
  BY DEF IInv, JournalProper
<1>2. \A i \in Ids : F[i] \in Int
  BY <1>1, EffectInt
<1>3. /\ \A i \in Ids \ {id} : H[i] = F[i]
      /\ H[id] = EntryEffect(m, row) /\ F[id] = EntryEffect(movements[id], row)
  BY <1>1
<1>4. H[id] \in Int
  BY <1>3, EffectInt
<1>5. /\ SumFunctionOnSet(F, Ids) \in Int
      /\ SumFunctionOnSet(H, Ids) = SumFunctionOnSet(F, Ids) + (H[id] - F[id])
  <2> HIDE DEF F, H
  <2>1. SumFunctionOnSet(F, Ids) \in Int
    BY <1>2, IdsAreFinite, SumInt
  <2>2. ChangesAt(F, H, Ids, id)
    BY <1>2, <1>3, <1>4 DEF ChangesAt
  <2> QED
    BY <2>1, <2>2, IdsAreFinite, SumUpdate
<1>6. /\ JournalTotal(row) = SumFunctionOnSet(F, Ids)
      /\ JournalTotal(row)' = SumFunctionOnSet(H, Ids)
  BY DEF JournalTotal
<1> QED
  BY <1>3, <1>5, <1>6

\* At start the journal is the opening stock.
LEMMA OpeningTotal ==
  ASSUME Init, NEW row \in Rows
  PROVE  JournalTotal(row) = OpeningStock[row]
<1> DEFINE F == [i \in Ids |-> EntryEffect(movements[i], row)]
<1>1. row \in Ids /\ IsFiniteSet(Ids \ {row})
  BY IdsAreFinite, FS_RemoveElement DEF Ids
<1>2. \A i \in Ids : movements[i] = IF i \in Rows /\ OpeningStock[i] # 0
                                   THEN OpeningMovement(i) ELSE NoMovement
  BY DEF Init
<1>3. ASSUME NEW i \in Ids
      PROVE  F[i] = IF i = row THEN OpeningStock[row] ELSE 0
  <2>1. CASE i \in Rows /\ OpeningStock[i] # 0
    <3>1. /\ OpeningMovement(i) \in Movement
          /\ SourceRow(OpeningMovement(i)) = i
      BY <2>1, RowsAssumption, StockAssumption
         DEF OpeningMovement, Movement, Types, SourceRow
    <3>2. Effect(OpeningMovement(i), row)
            = IF i = row THEN OpeningStock[row] ELSE 0
      BY <3>1, StockAssumption DEF Effect, OpeningMovement
    <3> QED
      BY <1>2, <2>1, <3>1, <3>2, NoMovementAssumption DEF EntryEffect
  <2>2. CASE ~(i \in Rows /\ OpeningStock[i] # 0)
    BY <1>2, <2>2 DEF EntryEffect
  <2> QED
    BY <2>1, <2>2
<1>4. \A i \in Ids : F[i] \in Int
  BY <1>3, StockAssumption
<1>5. SumFunctionOnSet(F, Ids) = F[row] + SumFunctionOnSet(F, Ids \ {row})
  <2> HIDE DEF F
  <2> QED
    BY <1>1, <1>4, IdsAreFinite, SumRemove
<1>6. SumFunctionOnSet(F, Ids \ {row}) = 0
  <2> HIDE DEF F
  <2> QED
    BY <1>1, <1>3, SumZero
<1>7. F[row] = OpeningStock[row] /\ OpeningStock[row] \in Int
  BY <1>1, <1>3, StockAssumption
<1> QED
  BY <1>5, <1>6, <1>7 DEF JournalTotal

\* The ledger starts in the journal's invariant.
LEMMA InitJournal == Init => JournalInv
<1> SUFFICES ASSUME Init PROVE JournalInv
  OBVIOUS
<1>1. \A r \in Requests : stage[r] = "idle" /\ job[r] = NoJob
  BY DEF Init, TxInit
<1>2. PlanInv
  BY DEF Init, TxInit, PlanInv
<1>3. JobsFit
  BY <1>1 DEF JobsFit, JobFits, NoJob
<1>4. FreshIds
  BY <1>1, NamesAssumption DEF FreshIds, Init, NoJob, Ids
<1>5. RowsKept /\ RemovalIsFinal /\ JobsOwe
  BY <1>1 DEF RowsKept, RemovalIsFinal, JobsOwe, NoJob, InTxStages
<1>6. PostedIsJournal
  BY OpeningTotal DEF PostedIsJournal, Init, TxInit
<1> QED
  BY <1>2, <1>3, <1>4, <1>5, <1>6 DEF JournalInv

\* A handler that starts owes what its postings say.
LEMMA StartJournal ==
  ASSUME IInv, JournalInv, NEW r \in Requests, NEW j, NEW postings,
         Starts(r, j, postings)
  PROVE  JournalInv'
<1> USE DEF Starts
<1>0. postings \in Seq(Posting)
  BY SafeIsPlan
<1>1. TxInv /\ job \in [Requests -> ProperJob]
  BY DEF IInv, JobsProper
<1>2. stage[r] \notin InTxStages
  BY DEF InTxStages
<1>3. /\ PlanInv'
      /\ \A row \in Rows : Owed(r, row)' = Due(postings, row)
      /\ \A q \in Requests \ {r} :
            /\ stage'[q] = stage[q]
            /\ \A row \in Rows : Owed(q, row)' = Owed(q, row)
  BY <1>0, <1>1, <1>2, BeginPlan DEF JournalInv
<1>4. /\ job'[r] = j
      /\ \A q \in Requests \ {r} : job'[q] = job[q]
  BY <1>1
<1>5. stage'[r] \in {"check", "find", "journal"}
  BY <1>0, <1>1, FirstStageFacts DEF Begin, TxInv, TxTypeOK
<1>6. j.kind \in {"create", "update", "remove"}
  BY DEF ProperJob, Job
<1>7. JobsFit'
  BY <1>3, <1>4, <1>5, <1>6 DEF JournalInv, JobsFit
<1>8. FreshIds'
  <2> SUFFICES ASSUME NEW q \in Requests, Expected(q)'
               PROVE  /\ movements[q] = NoMovement
                      /\ \A p \in Requests : job'[p].kind \in {"update", "remove"}
                                            => job'[p].id # q
    BY DEF FreshIds
  <2>1. Expected(q)
    BY <1>3, <1>4 DEF Expected
  <2>2. movements[q] = NoMovement
    BY <2>1 DEF JournalInv, FreshIds
  <2>3. j.kind \in {"update", "remove"} => j.id # q
    BY <2>2
  <2> QED
    BY <1>4, <2>1, <2>2, <2>3 DEF JournalInv, FreshIds
<1>9. RowsKept'
  BY <1>4 DEF JournalInv, RowsKept, SameRows
<1>10. RemovalIsFinal'
  <2>1. \A q \in Requests : stage'[q] = "done" => q # r /\ stage[q] = "done"
    BY <1>3, <1>5
  <2> QED
    BY <1>4, <2>1 DEF JournalInv, RemovalIsFinal
<1>11. JobsOwe'
  <2> SUFFICES ASSUME NEW q \in Requests, NEW row \in Rows,
                      stage'[q] \in InTxStages
               PROVE  Owed(q, row)' = EntryEffect(job'[q].new, row)
                                        - EntryEffect(job'[q].old, row)
    BY DEF JobsOwe
  <2>1. CASE q = r
    BY <1>3, <1>4, <2>1
  <2>2. CASE q # r
    BY <1>3, <1>4, <2>2 DEF JournalInv, JobsOwe
  <2> QED
    BY <2>1, <2>2
<1>12. PostedIsJournal'
  <2>1. posted' = posted /\ tainted' = tainted /\ movements' = movements
    BY DEF Begin
  <2>2. \A row \in Rows : JournalTotal(row)' = JournalTotal(row)
    BY <2>1 DEF JournalTotal
  <2> QED
    BY <2>1, <2>2 DEF JournalInv, PostedIsJournal
<1> QED
  BY <1>3, <1>7, <1>8, <1>9, <1>10, <1>11, <1>12 DEF JournalInv

\* So does one that runs a statement, or is rolled back.
LEMMA StayJournal ==
  ASSUME IInv, JournalInv, NEW r \in Requests, stage[r] \in InTxStages,
         stage'[r] \in InTxStages \cup {"failed"}, PlanInv',
         posted' = posted, tainted' = tainted,
         \A q \in Requests \ {r} : stage'[q] = stage[q],
         \A q \in Requests, row \in Rows :
           stage'[q] # "failed" => Owed(q, row)' = Owed(q, row),
         UNCHANGED <<movements, job, alerts>>
  PROVE  JournalInv'
<1>1. \A q \in Requests :
        /\ stage'[q] = "idle" <=> stage[q] = "idle"
        /\ stage'[q] = "notify" => stage[q] = "notify"
        /\ stage'[q] = "done" => stage[q] = "done"
        /\ stage'[q] \in InTxStages => stage[q] \in InTxStages
  BY DEF InTxStages
<1>2. JobsFit'
  BY <1>1 DEF JournalInv, JobsFit
<1>3. FreshIds'
  BY <1>1 DEF JournalInv, FreshIds, Expected
<1>4. RowsKept'
  BY DEF JournalInv, RowsKept
<1>5. RemovalIsFinal'
  BY <1>1 DEF JournalInv, RemovalIsFinal
<1>6. JobsOwe'
  <2> SUFFICES ASSUME NEW q \in Requests, NEW row \in Rows,
                      stage'[q] \in InTxStages
               PROVE  Owed(q, row)' = EntryEffect(job'[q].new, row)
                                        - EntryEffect(job'[q].old, row)
    BY DEF JobsOwe
  <2>1. stage'[q] # "failed"
    BY DEF InTxStages
  <2>2. Owed(q, row)' = Owed(q, row) /\ stage[q] \in InTxStages
    BY <1>1, <2>1
  <2> QED
    BY <2>2 DEF JournalInv, JobsOwe
<1>7. PostedIsJournal'
  <2>1. \A row \in Rows : JournalTotal(row)' = JournalTotal(row)
    BY DEF JournalTotal
  <2> QED
    BY <2>1 DEF JournalInv, PostedIsJournal
<1> QED
  BY <1>2, <1>3, <1>4, <1>5, <1>6, <1>7 DEF JournalInv

\* A statement of a transaction.
LEMMA StepJournal ==
  ASSUME IInv, JournalInv, NEW r \in Requests, Step(r)
  PROVE  JournalInv'
<1>1. TxInv /\ PlanInv /\ TxStep(r) /\ UNCHANGED <<movements, job, alerts>>
  BY DEF IInv, JournalInv, Step
<1> QED
  BY <1>1, TxStepPlan, StayJournal

\* A transaction that is rolled back: the movement is gone, or the database
\* or the connection ends it.
LEMMA EndJournal ==
  ASSUME IInv, JournalInv, NEW r \in Requests, MovementGone(r) \/ Abort(r)
  PROVE  JournalInv'
<1>1. /\ TxInv /\ PlanInv /\ Rollback(r) /\ stage[r] \in InTxStages
      /\ UNCHANGED <<movements, job, alerts>>
  BY DEF IInv, JournalInv, MovementGone, Abort, AbortTx, InTxStages
<1>2. tainted' = tainted
  BY <1>1 DEF Rollback
<1> QED
  BY <1>1, <1>2, RollbackPlan, StayJournal

\* A commit brings the journal to the entry of the request and the balances to
\* the journal, on every row it does not taint.
LEMMA CommitJournal ==
  ASSUME IInv, JournalInv, NEW r \in Requests, stage[r] = "journal",
         NEW next \in {"notify", "done"}, NEW stale \in SUBSET Rows,
         next = "notify" => job[r].kind = "create",
         job[r].kind \in {"update", "remove"} =>
           movements[job[r].id] # NoMovement /\ stale = StaleRows(r),
         CommitTx(r, next, stale),
         movements' = [movements EXCEPT ![job[r].id] = job[r].new],
         UNCHANGED <<job, alerts>>
  PROVE  JournalInv'
<1> DEFINE id == job[r].id
           old == job[r].old
           new == job[r].new
<1>1. TxInv /\ PlanInv /\ next \in Stages \ InTxStages
  BY DEF IInv, JournalInv, Stages, InTxStages
<1>2. /\ PlanInv'
      /\ stage'[r] = next
      /\ \A row \in Rows : posted'[row] = posted[row] + Owed(r, row)
      /\ tainted \cup stale \subseteq tainted'
      /\ \A q \in Requests \ {r} :
            /\ stage'[q] = stage[q]
            /\ \A row \in Rows : Owed(q, row)' = Owed(q, row)
  BY <1>1, CommitPlan
<1>3. /\ job[r].kind \in {"create", "update", "remove"}
      /\ JobFits(job[r], r)
  BY DEF IInv, JobsProper, ProperJob, Job, JournalInv, JobsFit
<1>4. id \in Ids /\ new \in ProperMovement \cup {NoMovement}
  BY <1>3 DEF JobFits, Ids
<1>5. movements \in [Ids -> ProperMovement \cup {NoMovement}]
  BY DEF IInv, JournalProper
<1>6. movements'[id] = new /\ \A i \in Ids \ {id} : movements'[i] = movements[i]
  BY <1>4, <1>5
<1>7. JobsFit'
  BY <1>2 DEF JournalInv, JobsFit
<1>8. FreshIds'
  <2> SUFFICES ASSUME NEW q \in Requests, Expected(q)'
               PROVE  /\ movements'[q] = NoMovement
                      /\ \A p \in Requests : job[p].kind \in {"update", "remove"}
                                            => job[p].id # q
    BY DEF FreshIds
  <2>1. q # r /\ Expected(q)
    BY <1>2 DEF Expected, InTxStages
  <2>2. q \in Ids /\ q # id
    BY <1>3, <2>1 DEF JobFits, Ids, JournalInv, FreshIds
  <2> QED
    BY <1>6, <2>1, <2>2 DEF JournalInv, FreshIds
<1>9. job[r].kind = "update" =>
        /\ SameRows(movements[id], old) /\ SameRows(new, old)
  BY <1>3 DEF JournalInv, RowsKept, JobFits
<1>10. RowsKept'
  <2> SUFFICES ASSUME NEW q \in Requests,
                      job[q].kind \in {"update", "remove"},
                      movements'[job[q].id] # NoMovement
               PROVE  SameRows(movements'[job[q].id], job[q].old)
    BY DEF RowsKept, SameRows
  <2>1. job[q].id \in Ids
    BY DEF JournalInv, JobsFit, JobFits
  <2>2. CASE job[q].id # id
    BY <1>6, <2>1, <2>2 DEF JournalInv, RowsKept
  <2>3. CASE job[q].id = id
    <3>1. job[r].kind # "create"
      <4> SUFFICES ASSUME job[r].kind = "create" PROVE FALSE
        OBVIOUS
      <4>1. id = r /\ Expected(r)
        BY <1>3 DEF JobFits, Expected, InTxStages
      <4> QED
        BY <2>3, <4>1 DEF JournalInv, FreshIds
    <3>2. job[r].kind = "update"
      BY <1>3, <1>6, <2>3, <3>1 DEF JobFits
    <3>3. movements[id] # NoMovement
      BY <3>2
    <3>4. SameRows(movements[id], job[q].old)
      BY <2>3, <3>3 DEF JournalInv, RowsKept
    <3> QED
      BY <1>6, <1>9, <2>3, <3>2, <3>4 DEF SameRows
  <2> QED
    BY <2>2, <2>3
<1>11. RemovalIsFinal'
  <2> DEFINE Removed(q) == job[q].kind = "remove" /\ stage[q] = "done"
  <2>1. ASSUME NEW q \in Requests, Removed(q)
        PROVE  movements[job[q].id] = NoMovement /\ job[q].id \in Ids /\ job[q].id # id
    <3>1. movements[job[q].id] = NoMovement /\ job[q].id \in Ids
      BY <2>1 DEF JournalInv, RemovalIsFinal, JobsFit, JobFits
    <3>2. CASE job[r].kind = "create"
      <4>1. id = r /\ Expected(r)
        BY <1>3, <3>2 DEF JobFits, Expected, InTxStages
      <4> QED
        BY <2>1, <3>1, <4>1 DEF JournalInv, FreshIds
    <3>3. CASE job[r].kind # "create"
      BY <1>3, <3>1, <3>3
    <3> QED
      BY <3>1, <3>2, <3>3
  <2>2. \A q \in Requests \ {r} : stage'[q] = "done" <=> stage[q] = "done"
    BY <1>2
  <2>3. job[r].kind = "remove" => movements'[id] = NoMovement
    BY <1>3, <1>6 DEF JobFits
  <2>4. \A q \in Requests : Removed(q) => movements'[job[q].id] = NoMovement
    BY <1>6, <2>1
  <2>5. \A q, p \in Requests :
           p # q /\ Removed(q) /\ Removed(p) => job[p].id # job[q].id
    BY DEF JournalInv, RemovalIsFinal
  <2>6. \A q \in Requests : Removed(q) => job[q].id # id
    BY <2>1
  <2> SUFFICES ASSUME NEW q \in Requests, job[q].kind = "remove", stage'[q] = "done"
               PROVE  /\ movements'[job[q].id] = NoMovement
                      /\ \A p \in Requests \ {q} :
                            job[p].kind = "remove" /\ stage'[p] = "done"
                            => job[p].id # job[q].id
    BY DEF RemovalIsFinal
  <2>7. CASE q = r
    BY <2>2, <2>3, <2>6, <2>7
  <2>8. CASE q # r
    BY <2>2, <2>4, <2>5, <2>6, <2>8
  <2> QED
    BY <2>7, <2>8
<1>12. JobsOwe'
  <2> SUFFICES ASSUME NEW q \in Requests, NEW row \in Rows,
                      stage'[q] \in InTxStages
               PROVE  Owed(q, row)' = EntryEffect(job'[q].new, row)
                                        - EntryEffect(job'[q].old, row)
    BY DEF JobsOwe
  <2>1. q # r
    BY <1>2 DEF InTxStages
  <2> QED
    BY <1>2, <2>1 DEF JournalInv, JobsOwe
<1>13. PostedIsJournal'
  <2> SUFFICES ASSUME NEW row \in Rows, row \notin tainted'
               PROVE  posted'[row] = JournalTotal(row)'
    BY DEF PostedIsJournal
  <2>1. row \notin tainted /\ row \notin stale
    BY <1>2
  <2>2. posted[row] = JournalTotal(row)
    BY <2>1 DEF JournalInv, PostedIsJournal
  <2>3. posted'[row] = posted[row]
          + (EntryEffect(new, row) - EntryEffect(old, row))
    BY <1>2 DEF JournalInv, JobsOwe, InTxStages
  <2>4. /\ JournalTotal(row) \in Int
        /\ JournalTotal(row)' = JournalTotal(row)
             + (EntryEffect(new, row) - EntryEffect(movements[id], row))
    BY <1>4, TotalChanges
  <2>5. EntryEffect(old, row) = EntryEffect(movements[id], row)
    <3>1. CASE job[r].kind = "create"
      <4>1. id = r /\ Expected(r) /\ old = NoMovement
        BY <1>3, <3>1 DEF JobFits, Expected, InTxStages
      <4> QED
        BY <4>1 DEF JournalInv, FreshIds
    <3>2. CASE job[r].kind # "create" /\ movements[id] = old
      BY <3>2
    <3>3. CASE job[r].kind # "create" /\ movements[id] # old
      <4>1. movements[id] # NoMovement /\ stale = RowsOf(old)
        BY <1>3, <3>3 DEF StaleRows
      <4>2. SameRows(movements[id], old) /\ old \in ProperMovement
        BY <1>3, <3>3, <4>1 DEF JournalInv, RowsKept, JobFits
      <4>3. movements[id] \in ProperMovement
        BY <1>4, <1>5, <4>1
      <4>4. SameRows(old, old) /\ row \in Rows \ RowsOf(old)
        BY <2>1, <4>1 DEF SameRows
      <4> QED
        BY <4>2, <4>3, <4>4, EffectOutsideRows
    <3> QED
      BY <3>1, <3>2, <3>3
  <2> QED
    BY <2>2, <2>3, <2>4, <2>5
<1> QED
  BY <1>2, <1>7, <1>8, <1>10, <1>11, <1>12, <1>13 DEF JournalInv

\* The notification leaves the journal and the balances alone.
LEMMA NotifyJournal ==
  ASSUME IInv, JournalInv, NEW r \in Requests, Notify(r)
  PROVE  JournalInv'
<1>1. /\ stage[r] = "notify" /\ stage'[r] = "done" /\ job[r].kind = "create"
      /\ \A q \in Requests \ {r} : stage'[q] = stage[q]
      /\ UNCHANGED <<todo, touched, net, posted, tainted, movements, job>>
  BY DEF Notify, IInv, TxInv, TxTypeOK, JournalInv, JobsFit
<1>2. PlanInv'
  BY <1>1 DEF JournalInv, PlanInv, InTxStages
<1>3. JobsFit'
  BY <1>1 DEF JournalInv, JobsFit
<1>4. FreshIds'
  BY <1>1 DEF JournalInv, FreshIds, Expected, InTxStages
<1>5. RowsKept'
  BY <1>1 DEF JournalInv, RowsKept
<1>6. RemovalIsFinal'
  BY <1>1 DEF JournalInv, RemovalIsFinal
<1>7. JobsOwe'
  BY <1>1 DEF JournalInv, JobsOwe, InTxStages, Owed
<1>8. PostedIsJournal'
  BY <1>1 DEF JournalInv, PostedIsJournal, JournalTotal
<1> QED
  BY <1>2, <1>3, <1>4, <1>5, <1>6, <1>7, <1>8 DEF JournalInv

\* Every step of the ledger preserves the journal's invariant.
LEMMA NextJournal == IInv /\ JournalInv /\ [Next]_vars => JournalInv'
<1> SUFFICES ASSUME IInv, JournalInv, [Next]_vars PROVE JournalInv'
  OBVIOUS
<1>1. CASE UNCHANGED vars
  <2>1. UNCHANGED <<stage, todo, touched, net, posted, tainted, movements, job>>
    BY <1>1 DEF vars, txVars
  <2>2. PlanInv' /\ JobsFit' /\ RowsKept' /\ RemovalIsFinal'
    BY <2>1 DEF JournalInv, PlanInv, JobsFit, RowsKept, RemovalIsFinal
  <2>3. FreshIds' /\ JobsOwe' /\ PostedIsJournal'
    BY <2>1 DEF JournalInv, FreshIds, Expected, JobsOwe, Owed, PostedIsJournal,
                JournalTotal
  <2> QED
    BY <2>2, <2>3 DEF JournalInv
<1>2. ASSUME NEW r \in Requests, StartCreate(r) \/ StartUpdate(r) \/ StartRemove(r)
      PROVE  JournalInv'
  BY <1>2, CreateStarts, UpdateStarts, RemoveStarts, StartJournal
<1>3. ASSUME NEW r \in Requests, Step(r) PROVE JournalInv'
  BY <1>3, StepJournal
<1>4. ASSUME NEW r \in Requests, CommitCreate(r) PROVE JournalInv'
  <2>1. {} \in SUBSET Rows
    OBVIOUS
  <2> QED
    BY <1>4, <2>1, CommitJournal DEF CommitCreate
<1>5. ASSUME NEW r \in Requests, CommitUpdate(r) PROVE JournalInv'
  <2>1. StaleRows(r) \in SUBSET Rows
    BY <1>5, StaleRowsAreRows DEF CommitUpdate
  <2> QED
    BY <1>5, <2>1, CommitJournal DEF CommitUpdate, MovementExists
<1>6. ASSUME NEW r \in Requests, CommitRemove(r) PROVE JournalInv'
  <2>1. StaleRows(r) \in SUBSET Rows
    BY <1>6, StaleRowsAreRows DEF CommitRemove
  <2>2. job[r].new = NoMovement
    BY <1>6 DEF CommitRemove, JournalInv, JobsFit, JobFits
  <2> QED
    BY <1>6, <2>1, <2>2, CommitJournal DEF CommitRemove, MovementExists
<1>7. ASSUME NEW r \in Requests, MovementGone(r) \/ Abort(r) PROVE JournalInv'
  BY <1>7, EndJournal
<1>8. ASSUME NEW r \in Requests, Notify(r) PROVE JournalInv'
  BY <1>8, NotifyJournal
<1> QED
  BY <1>1, <1>2, <1>3, <1>4, <1>5, <1>6, <1>7, <1>8 DEF Next, Commit

\* The two invariants together hold in every reachable state.
THEOREM JournalInvariant == Spec => [](IInv /\ JournalInv)
<1>1. Init => IInv /\ JournalInv
  BY InitInv, InitJournal
<1>2. IInv /\ JournalInv /\ [Next]_vars => (IInv /\ JournalInv)'
  BY NextInv, NextJournal
<1> QED
  BY <1>1, <1>2, PTL DEF Spec

\* CleanBalanceIsJournalTotal: whatever the handlers, the moment they fail and
\* the order they run in, the balance of a row no stale read has written is the
\* sum of the effects of the journal.
THEOREM BalancesAreTheJournal == Spec => []CleanBalanceIsJournalTotal
<1>1. IInv /\ JournalInv => CleanBalanceIsJournalTotal
  BY DEF IInv, TxInv, BalancesAgree, JournalInv, PostedIsJournal,
         CleanBalanceIsJournalTotal
<1> QED
  BY <1>1, JournalInvariant, PTL

\* RemovalIsFinal: of the removals that have read a movement one succeeds, and
\* nothing brings the movement back.
THEOREM RemovalsAreFinal == Spec => []RemovalIsFinal
<1>1. IInv /\ JournalInv => RemovalIsFinal
  BY DEF JournalInv
<1> QED
  BY <1>1, JournalInvariant, PTL

-----------------------------------------------------------------------------
(***************************************************************************)
(* The alert of create.  The quantity it compares was read before its      *)
(* first posting, under no lock: the argument is that a request which has  *)
(* written its source row from a current read has compared the balance     *)
(* that row keeps until the commit, and that no posting after the first    *)
(* reads again.                                                            *)
(***************************************************************************)
GuardedCheck ==
    \A r \in Requests : stage[r] = "check" => Head(todo[r]).guard # "none"

CreatePlan(r) ==
    \/ touched[r] = {} /\ todo[r] = CreatePostings(job[r].new)
    \/ /\ SourceRow(job[r].new) \in touched[r]
       /\ todo[r] \in {TransferTo(job[r].new, 1), << >>}
       /\ job[r].new.quantity < 0 /\ SourceRow(job[r].new) \notin dirty[r]
          => before[r] = balance[SourceRow(job[r].new)]

Creating(r) == stage[r] \in InTxStages /\ job[r].kind = "create"

CreatePlans == \A r \in Requests : Creating(r) => CreatePlan(r)

AlertInv == GuardedCheck /\ CreatePlans

\* The first posting of create reads the source row, and checks what it takes.
LEMMA CreateHead ==
  ASSUME NEW m \in ProperMovement
  PROVE  /\ CreatePostings(m) # << >>
         /\ Head(CreatePostings(m)).row = SourceRow(m)
         /\ m.quantity < 0 => Head(CreatePostings(m)).guard = "check"
         /\ Tail(CreatePostings(m)) = TransferTo(m, 1)
<1> DEFINE first == [Post(SourceRow(m), m.quantity) EXCEPT
                       !.guard = IF @ = "none" THEN "read" ELSE @]
           rest == TransferTo(m, 1)
<1>1. rest \in Seq(SafePosting) /\ CreatePostings(m) = << first >> \o rest
  BY TransferToIsSafe DEF CreatePostings
<1>2. first.row = SourceRow(m) /\ (m.quantity < 0 => first.guard = "check")
  BY DEF Post
<1>3. /\ << first >> \o rest # << >>
      /\ Head(<< first >> \o rest) = first
      /\ Tail(<< first >> \o rest) = rest
  <2> HIDE DEF first, rest
  <2> QED
    BY <1>1
<1> QED
  BY <1>1, <1>2, <1>3

\* The second, to the target of a transfer, reads nothing before.
LEMMA TransferHead ==
  ASSUME NEW m \in ProperMovement, TransferTo(m, 1) # << >>
  PROVE  /\ Head(TransferTo(m, 1)).guard = "none"
         /\ Tail(TransferTo(m, 1)) = << >>
<1>1. m.quantity \in Int
  BY SourceRowIsRow
<1> DEFINE delta == 1 * Magnitude(m.quantity)
           posting == Post(TargetRow(m), delta)
<1>2. delta \in Int /\ ~(delta < 0)
  BY <1>1 DEF Magnitude
<1>3. TransferTo(m, 1) = << posting >>
  BY DEF TransferTo
<1> HIDE DEF delta
<1>4. posting.guard = "none"
  BY <1>2 DEF Post
<1> HIDE DEF posting
<1>5. Head(<< posting >>) = posting
  OBVIOUS
<1>6. Tail(<< posting >>) = << >>
  <2>1. << posting >> \in Seq({posting}) /\ << posting >> # << >>
    OBVIOUS
  <2>2. /\ Tail(<< posting >>) \in Seq({posting})
        /\ Len(Tail(<< posting >>)) = 0
    BY <2>1, HeadTailProperties
  <2> QED
    BY <2>2, EmptySeq
<1> QED
  BY <1>3, <1>4, <1>5, <1>6

\* The plan of a request is not disturbed by what leaves it and the rows it
\* holds alone.
LEMMA PlanStays ==
  ASSUME NEW q \in Requests, CreatePlan(q),
         /\ touched'[q] = touched[q] /\ todo'[q] = todo[q]
         /\ dirty'[q] = dirty[q] /\ before'[q] = before[q]
         /\ job'[q] = job[q],
         \A row \in touched[q] : balance'[row] = balance[row]
  PROVE  CreatePlan(q)'
  BY DEF CreatePlan

\* A request that starts has its whole plan before it.
LEMMA StartAlert ==
  ASSUME IInv, JournalInv, AlertInv, NEW r \in Requests, NEW j, NEW postings,
         Starts(r, j, postings)
  PROVE  AlertInv'
<1> USE DEF Starts
<1>1. /\ TxInv /\ job \in [Requests -> ProperJob] /\ postings \in Seq(Posting)
      /\ touched[r] = {}
  BY SafeIsPlan DEF IInv, JobsProper, JournalInv, PlanInv, InTxStages
<1>2. /\ todo'[r] = postings /\ stage'[r] = FirstStage(postings) /\ job'[r] = j
      /\ \A q \in Requests \ {r} : /\ todo'[q] = todo[q] /\ stage'[q] = stage[q]
                                   /\ job'[q] = job[q]
      /\ UNCHANGED <<balance, before, touched, dirty>>
  BY <1>1 DEF Begin, TxInv, TxTypeOK
<1>3. GuardedCheck'
  BY <1>2 DEF AlertInv, GuardedCheck, FirstStage
<1>4. ASSUME NEW q \in Requests, Creating(q)' PROVE CreatePlan(q)'
  <2>1. CASE q = r
    BY <1>1, <1>2, <1>4, <2>1 DEF Creating, CreatePlan
  <2>2. CASE q # r
    <3>1. CreatePlan(q)
      BY <1>2, <1>4, <2>2 DEF Creating, AlertInv, CreatePlans
    <3> QED
      BY <1>2, <2>2, <3>1, PlanStays
  <2> QED
    BY <2>1, <2>2
<1> QED
  BY <1>3, <1>4 DEF AlertInv, CreatePlans

\* A write of create: the first makes the source row its own, with the balance
\* it has checked unless the row is marked dirty.
LEMMA WritePlansCreate ==
  ASSUME IInv, JournalInv, AlertInv, NEW r \in Requests, Creating(r),
         stage[r] = "write", WriteRow(r)
  PROVE  CreatePlan(r)' \/ job'[r] # job[r]
<1> SUFFICES ASSUME job'[r] = job[r] PROVE CreatePlan(r)'
  OBVIOUS
<1> DEFINE m == job[r].new
           source == SourceRow(m)
           posting == Head(todo[r])
<1>1. TxInv /\ todo[r] # << >> /\ CreatePlan(r)
  BY DEF IInv, TxInv, HasPosting, AlertInv, CreatePlans
<1>2. m \in ProperMovement
  BY DEF JournalInv, JobsFit, JobFits, Creating
<1>3. /\ touched'[r] = touched[r] \cup {posting.row}
      /\ todo'[r] = Tail(todo[r])
      /\ dirty'[r] = IF ReadIsStale(r) THEN dirty[r] \cup {posting.row} ELSE dirty[r]
      /\ before' = before /\ balance' = balance
  BY <1>1 DEF WriteRow, TxInv, TxTypeOK
<1>4. CASE touched[r] = {} /\ todo[r] = CreatePostings(m)
  <2>1. /\ posting.row = source /\ Tail(todo[r]) = TransferTo(m, 1)
        /\ m.quantity < 0 => posting.guard = "check"
    BY <1>2, <1>4, CreateHead
  <2>2. ASSUME m.quantity < 0, source \notin dirty'[r]
        PROVE  before'[r] = balance'[source]
    <3>1. ~ReadIsStale(r)
      BY <1>3, <2>1, <2>2
    <3>2. before[r] = Quantity(r, source)
      BY <2>1, <2>2, <3>1 DEF ReadIsStale
    <3> QED
      BY <1>3, <1>4, <3>2 DEF Quantity
  <2>3. source \in touched'[r] /\ todo'[r] = TransferTo(m, 1)
    BY <1>3, <2>1
  <2> QED
    BY <2>2, <2>3 DEF CreatePlan
<1>5. CASE ~(touched[r] = {} /\ todo[r] = CreatePostings(m))
  <2>1. /\ source \in touched[r] /\ todo[r] = TransferTo(m, 1)
        /\ m.quantity < 0 /\ source \notin dirty[r]
           => before[r] = balance[source]
    BY <1>1, <1>5 DEF CreatePlan
  <2>2. Tail(todo[r]) = << >>
    BY <1>1, <1>2, <2>1, TransferHead
  <2>3. source \in touched'[r] /\ todo'[r] = << >>
    BY <1>3, <2>1, <2>2
  <2>4. source \notin dirty'[r] => source \notin dirty[r]
    BY <1>3
  <2> QED
    BY <1>3, <2>1, <2>3, <2>4 DEF CreatePlan
<1> QED
  BY <1>4, <1>5

\* A statement of a posting.
LEMMA StepAlert ==
  ASSUME IInv, JournalInv, AlertInv, NEW r \in Requests, Step(r)
  PROVE  AlertInv'
<1>1. /\ TxInv /\ PlanInv /\ TxStep(r) /\ UNCHANGED <<movements, job, alerts>>
      /\ GuardedCheck
  BY DEF IInv, JournalInv, AlertInv, Step
<1>2. /\ stage[r] \in InTxStages
      /\ balance' = balance
      /\ \A q \in Requests \ {r} : stage'[q] = stage[q]
  BY <1>1, TxStepPlan
<1>3. \A q \in Requests \ {r} :
        /\ touched'[q] = touched[q] /\ todo'[q] = todo[q]
        /\ dirty'[q] = dirty[q] /\ before'[q] = before[q]
  BY <1>1 DEF TxStep, GetQuantity, Insufficient, FindRow, CreateRow,
              DuplicateRow, UpdateRow, WriteRow, Rollback, ForgetReads, TxInv,
              TxTypeOK
<1>4. /\ stage'[r] = "check" => Head(todo'[r]).guard # "none"
      /\ Creating(r)' => CreatePlan(r)'
  <2>1. CASE GetQuantity(r)
    <3>1. /\ stage[r] = "check" /\ stage'[r] = "find"
          /\ UNCHANGED <<todo, touched, dirty>>
      BY <2>1 DEF GetQuantity, TxInv, TxTypeOK, IInv
    <3>2. ASSUME Creating(r)' PROVE CreatePlan(r)'
      <4>1. CreatePlan(r) /\ job[r].new \in ProperMovement
        BY <1>1, <3>1, <3>2 DEF Creating, AlertInv, CreatePlans, InTxStages,
                                JournalInv, JobsFit, JobFits
      <4>2. todo[r] # << >> /\ Head(todo[r]).guard # "none"
        BY <1>1, <3>1 DEF TxInv, HasPosting, GuardedCheck
      <4>3. todo[r] # TransferTo(job[r].new, 1)
        BY <4>1, <4>2, TransferHead
      <4> QED
        BY <1>1, <3>1, <4>1, <4>2, <4>3 DEF CreatePlan
    <3> QED
      BY <3>1, <3>2
  <2>2. CASE FindRow(r)
    <3>1. /\ stage[r] = "find" /\ stage'[r] = "write"
          /\ UNCHANGED <<todo, touched, dirty, before>>
      BY <2>2 DEF FindRow, TxInv, TxTypeOK, IInv
    <3>2. Creating(r)' => CreatePlan(r)
      BY <1>1, <3>1 DEF Creating, AlertInv, CreatePlans, InTxStages
    <3> QED
      BY <1>1, <1>2, <3>1, <3>2 DEF CreatePlan
  <2>3. CASE Insufficient(r) \/ DuplicateRow(r)
    <3>1. stage'[r] = "failed"
      BY <1>1, <2>3 DEF Insufficient, DuplicateRow, Rollback, TxInv, TxTypeOK
    <3> QED
      BY <3>1 DEF Creating, InTxStages
  <2>4. CASE CreateRow(r) \/ UpdateRow(r)
    <3>1. stage[r] = "write" /\ WriteRow(r)
      BY <2>4 DEF CreateRow, UpdateRow
    <3>2. /\ stage'[r] = FirstStage(Tail(todo[r])) /\ todo'[r] = Tail(todo[r])
      BY <1>1, <3>1 DEF WriteRow, TxInv, TxTypeOK
    <3>3. stage'[r] = "check" => Head(todo'[r]).guard # "none"
      BY <3>2 DEF FirstStage
    <3>4. Creating(r)' => Creating(r)
      BY <1>1, <1>2 DEF Creating
    <3> QED
      BY <1>1, <3>1, <3>3, <3>4, WritePlansCreate
  <2> QED
    BY <1>1, <2>1, <2>2, <2>3, <2>4 DEF TxStep
<1>5. ASSUME NEW q \in Requests \ {r}, Creating(q)' PROVE CreatePlan(q)'
  <2>1. CreatePlan(q)
    BY <1>1, <1>2, <1>5 DEF Creating, AlertInv, CreatePlans
  <2> QED
    BY <1>1, <1>2, <1>3, <2>1, PlanStays
<1>6. GuardedCheck'
  BY <1>1, <1>2, <1>3, <1>4 DEF GuardedCheck
<1> QED
  BY <1>4, <1>5, <1>6 DEF AlertInv, CreatePlans

\* The end of a transaction, and the notification: the rows the other requests
\* hold keep their balance.
LEMMA EndAlert ==
  ASSUME IInv, JournalInv, AlertInv, NEW r \in Requests,
         stage'[r] \in {"notify", "done", "failed"},
         \A q \in Requests \ {r} :
           /\ stage'[q] = stage[q] /\ todo'[q] = todo[q]
           /\ touched'[q] = touched[q] /\ dirty'[q] = dirty[q]
           /\ before'[q] = before[q]
           /\ \A row \in touched[q] : balance'[row] = balance[row],
         job' = job
  PROVE  AlertInv'
<1>1. GuardedCheck'
  BY DEF AlertInv, GuardedCheck
<1>2. ASSUME NEW q \in Requests, Creating(q)' PROVE CreatePlan(q)'
  <2>1. q # r
    BY <1>2 DEF Creating, InTxStages
  <2>2. CreatePlan(q)
    BY <1>2, <2>1 DEF Creating, AlertInv, CreatePlans
  <2> QED
    BY <2>1, <2>2, PlanStays
<1> QED
  BY <1>1, <1>2 DEF AlertInv, CreatePlans

\* A commit publishes rows no other request holds.
LEMMA CommitKeepsOthers ==
  ASSUME TxInv, NEW r \in Requests, NEW next, NEW stale, CommitTx(r, next, stale)
  PROVE  \A q \in Requests \ {r} :
           /\ stage'[q] = stage[q] /\ todo'[q] = todo[q]
           /\ touched'[q] = touched[q] /\ dirty'[q] = dirty[q]
           /\ before'[q] = before[q]
           /\ \A row \in touched[q] : balance'[row] = balance[row]
<1> SUFFICES ASSUME NEW q \in Requests \ {r}
             PROVE  /\ stage'[q] = stage[q] /\ todo'[q] = todo[q]
                    /\ touched'[q] = touched[q] /\ dirty'[q] = dirty[q]
                    /\ before'[q] = before[q]
                    /\ \A row \in touched[q] : balance'[row] = balance[row]
  OBVIOUS
<1>1. /\ stage'[q] = stage[q] /\ todo'[q] = todo[q]
      /\ touched'[q] = touched[q] /\ dirty'[q] = dirty[q]
      /\ before'[q] = before[q]
  BY DEF CommitTx, ForgetReads, TxInv, TxTypeOK
<1>2. touched[q] \subseteq Rows /\ touched[r] \cap touched[q] = {}
  BY DEF TxInv, TxTypeOK, Exclusive
<1> QED
  BY <1>1, <1>2 DEF CommitTx

\* The plans of create hold at start, and every step keeps them.
LEMMA InitAlert == Init => AlertInv
  BY DEF Init, TxInit, AlertInv, GuardedCheck, CreatePlans, Creating, NoJob,
         InTxStages

LEMMA NextAlert == IInv /\ JournalInv /\ AlertInv /\ [Next]_vars => AlertInv'
<1> SUFFICES ASSUME IInv, JournalInv, AlertInv, [Next]_vars PROVE AlertInv'
  OBVIOUS
<1>1. CASE UNCHANGED vars
  BY <1>1 DEF vars, txVars, AlertInv, GuardedCheck, CreatePlans, Creating,
              CreatePlan
<1>2. ASSUME NEW r \in Requests, StartCreate(r) \/ StartUpdate(r) \/ StartRemove(r)
      PROVE  AlertInv'
  BY <1>2, CreateStarts, UpdateStarts, RemoveStarts, StartAlert
<1>3. ASSUME NEW r \in Requests, Step(r) PROVE AlertInv'
  BY <1>3, StepAlert
<1>4. ASSUME NEW r \in Requests, Commit(r) PROVE AlertInv'
  <2>1. PICK next \in {"notify", "done"}, stale \in {{}, StaleRows(r)} :
          CommitTx(r, next, stale) /\ job' = job
    BY <1>4 DEF Commit, CommitCreate, CommitUpdate, CommitRemove
  <2>2. stage'[r] = next
    BY <2>1 DEF CommitTx, IInv, TxInv, TxTypeOK
  <2> QED
    BY <2>1, <2>2, CommitKeepsOthers, EndAlert DEF IInv
<1>5. ASSUME NEW r \in Requests, MovementGone(r) \/ Abort(r) PROVE AlertInv'
  <2>1. Rollback(r) /\ job' = job
    BY <1>5 DEF MovementGone, Abort, AbortTx
  <2>2. /\ stage'[r] = "failed"
        /\ \A q \in Requests \ {r} :
             /\ stage'[q] = stage[q] /\ todo'[q] = todo[q]
             /\ touched'[q] = touched[q] /\ dirty'[q] = dirty[q]
             /\ before'[q] = before[q]
             /\ \A row \in touched[q] : balance'[row] = balance[row]
    BY <2>1 DEF Rollback, ForgetReads, IInv, TxInv, TxTypeOK
  <2> QED
    BY <2>1, <2>2, EndAlert
<1>6. ASSUME NEW r \in Requests, Notify(r) PROVE AlertInv'
  <2>1. /\ stage'[r] = "done" /\ job' = job
        /\ \A q \in Requests \ {r} :
             /\ stage'[q] = stage[q] /\ todo'[q] = todo[q]
             /\ touched'[q] = touched[q] /\ dirty'[q] = dirty[q]
             /\ before'[q] = before[q]
             /\ \A row \in touched[q] : balance'[row] = balance[row]
    BY <1>6 DEF Notify, IInv, TxInv, TxTypeOK
  <2> QED
    BY <2>1, EndAlert
<1> QED
  BY <1>1, <1>2, <1>3, <1>4, <1>5, <1>6 DEF Next

\* What is put in stock does not bring about a rupture.
LEMMA NoCrossingUp ==
  ASSUME NEW product \in Products, NEW from \in Int, NEW quantity \in Int,
         quantity >= 0
  PROVE  ~Crosses(product, from, from + quantity)
<1> DEFINE point == ReorderPoint[product]
<1>1. point \in Nat
  BY StockAssumption
<1>2. \A n \in Int : StockStatus(n, point) = "rupture"
                    <=> IF point <= 0 THEN ~(n > 0) ELSE 10 * n <= 3 * point
  BY <1>1 DEF StockStatus
<1>3. from + quantity \in Int
  OBVIOUS
<1> HIDE DEF point
<1> QED
  BY <1>1, <1>2, <1>3 DEF Crosses, point

\* The commit of create, from a row it has not tainted.
LEMMA CommitAlert ==
  ASSUME IInv, JournalInv, AlertInv, NEW r \in Requests, CommitCreate(r),
         SourceRow(job[r].new) \notin tainted'
  PROVE  stage'[r] = "notify"
         <=> LET row == SourceRow(job[r].new)
             IN  Crosses(row[1], balance[row], balance'[row])
<1> DEFINE m == job[r].new
           source == SourceRow(m)
           quantity == m.quantity
<1>1. /\ TxInv /\ stage[r] = "journal" /\ Creating(r)
      /\ stage'[r] = IF CrossedIntoRupture(r) THEN "notify" ELSE "done"
      /\ balance'[source] = IF source \in touched[r] THEN draft[r][source]
                                                     ELSE balance[source]
      /\ source \notin dirty[r]
  <2>1. source \in Rows
    BY SourceRowIsRow DEF CommitCreate, JournalInv, JobsFit, JobFits
  <2> QED
    BY <2>1 DEF CommitCreate, CommitTx, Creating, IInv, TxInv, TxTypeOK, InTxStages
<1>2. /\ m \in ProperMovement /\ job[r].old = NoMovement
      /\ m.type = "TRANSFER" => m.target # m.warehouse
  BY <1>1 DEF Creating, JournalInv, JobsFit, JobFits
<1>3. source \in Rows /\ quantity \in Int
  BY <1>2, SourceRowIsRow
<1>4. todo[r] = << >>
  BY <1>1 DEF JournalInv, PlanInv
<1>5. /\ source \in touched[r]
      /\ quantity < 0 => before[r] = balance[source]
  BY <1>1, <1>2, <1>4, CreateHead DEF AlertInv, CreatePlans, CreatePlan
<1>6. net[r][source] = quantity
  <2>1. Owed(r, source) = EntryEffect(m, source) - EntryEffect(NoMovement, source)
    BY <1>1, <1>2, <1>3 DEF JournalInv, JobsOwe, InTxStages
  <2>2. EntryEffect(m, source) = quantity
    BY <1>2, <1>3, ProperIsMovement
       DEF EntryEffect, Effect, SourceRow, TargetRow
  <2>3. EntryEffect(NoMovement, source) = 0 /\ Due(todo[r], source) = 0
    BY <1>4, DueEmpty DEF EntryEffect
  <2>4. net[r][source] \in Int
    BY <1>1, <1>3 DEF TxInv, TxTypeOK
  <2> QED
    BY <1>3, <2>1, <2>2, <2>3, <2>4 DEF Owed
<1>7. balance'[source] = balance[source] + quantity
  BY <1>1, <1>3, <1>5, <1>6 DEF TxInv, DraftsAgree
<1>8. source[1] = m.product /\ m.product \in Products
  BY <1>2 DEF SourceRow, ProperMovement, Movement
<1>9. before[r] \in Int /\ balance[source] \in Int
  BY <1>1, <1>3 DEF TxInv, TxTypeOK
<1>10. CrossedIntoRupture(r)
         <=> Crosses(m.product, before[r], before[r] + quantity)
  BY DEF CrossedIntoRupture
<1>11. CrossedIntoRupture(r)
         <=> Crosses(m.product, balance[source], balance[source] + quantity)
  <2>1. CASE quantity < 0
    BY <1>5, <1>10, <2>1
  <2>2. CASE quantity >= 0
    BY <1>3, <1>8, <1>9, <1>10, <2>2, NoCrossingUp
  <2> QED
    BY <1>3, <2>1, <2>2
<1> QED
  BY <1>1, <1>7, <1>8, <1>11

\* AlertIffCrossing: create announces a rupture exactly when its commit takes
\* the balance of the source row into rupture, unless the row was written from
\* a stale read.
THEOREM AlertsAreCrossings == Spec => AlertIffCrossing
<1>1. Spec => [](IInv /\ JournalInv /\ AlertInv)
  <2>1. Init => IInv /\ JournalInv /\ AlertInv
    BY InitInv, InitJournal, InitAlert
  <2>2. IInv /\ JournalInv /\ AlertInv /\ [Next]_vars
          => (IInv /\ JournalInv /\ AlertInv)'
    BY NextInv, NextJournal, NextAlert
  <2> QED
    BY <2>1, <2>2, PTL DEF Spec
<1>2. IInv /\ JournalInv /\ AlertInv
        => [\A r \in Requests :
              CommitCreate(r) /\ SourceRow(job[r].new) \notin tainted'
              => (stage'[r] = "notify"
                  <=> LET row == SourceRow(job[r].new)
                      IN  Crosses(row[1], balance[row], balance'[row]))]_vars
  BY CommitAlert
<1> QED
  BY <1>1, <1>2, PTL DEF AlertIffCrossing

-----------------------------------------------------------------------------
(***************************************************************************)
(* The refinement.  As long as no commit has tainted a row the ledger is   *)
(* the abstract one, however many requests overlap: a commit is Operate,   *)
(* every other step a stutter.  Requests that do not overlap taint no row. *)
(***************************************************************************)

\* The sum of the abstract ledger is the one of the theorems.
LEMMA SameSum ==
  ASSUME NEW F, NEW S
  PROVE  AbstractLedger!SumFunctionOnSet(F, S) = SumFunctionOnSet(F, S)
  BY DEF AbstractLedger!SumFunctionOnSet, AbstractLedger!FoldFunctionOnSet,
         AbstractLedger!MapThenFoldSet, SumFunctionOnSet, FoldFunctionOnSet,
         MapThenFoldSet

\* The opening stock is an initial state of the abstract ledger.
LEMMA InitMaps == Init => AbstractLedger!Init
<1> SUFFICES ASSUME Init, NEW row \in Rows
             PROVE  /\ balance[row] >= 0
                    /\ balance[row] = AbstractLedger!SumFunctionOnSet(
                         [id \in Ids |-> [i \in Ids |-> [w \in Rows |->
                            EntryEffect(movements[i], w)]][id][row]], Ids)
  BY Zenon DEF AbstractLedger!Init
<1>1. balance[row] = OpeningStock[row] /\ balance[row] >= 0
  BY StockAssumption DEF Init, TxInit
<1>2. [id \in Ids |-> [i \in Ids |-> [w \in Rows |->
         EntryEffect(movements[i], w)]][id][row]]
        = [id \in Ids |-> EntryEffect(movements[id], row)]
  OBVIOUS
<1> QED
  BY <1>1, <1>2, OpeningTotal, SameSum DEF JournalTotal

\* A commit that taints no row is the operation the request was asked.
LEMMA CommitMaps ==
  ASSUME IInv, JournalInv, IInv', JournalInv', tainted = {}, tainted' = {},
         NEW id \in Ids, NEW m \in ProperMovement \cup {NoMovement},
         movements' = [movements EXCEPT ![id] = m]
  PROVE  AbstractLedger!Operate(id)
<1> DEFINE journal == [i \in Ids |->
                         [row \in Rows |-> EntryEffect(movements[i], row)]]
<1>1. movements \in [Ids -> ProperMovement \cup {NoMovement}]
  BY DEF IInv, JournalProper
<1>2. ASSUME NEW other \in Ids \ {id}
      PROVE  [i \in Ids |-> [row \in Rows |-> EntryEffect(movements'[i], row)]][other]
               = journal[other]
  BY <1>1, <1>2
<1>3. ASSUME NEW row \in Rows
      PROVE  /\ balance'[row] - balance[row]
                  = EntryEffect(m, row) - EntryEffect(movements[id], row)
             /\ balance'[row] >= 0
  <2>1. balance[row] = JournalTotal(row)
    BY DEF IInv, TxInv, BalancesAgree, JournalInv, PostedIsJournal
  <2>2. balance'[row] = JournalTotal(row)'
    BY DEF IInv, TxInv, BalancesAgree, JournalInv, PostedIsJournal
  <2>3. balance'[row] >= 0
    BY DEF IInv, NonNegInv, BalancesNonNegative
  <2>4. EntryEffect(m, row) \in Int /\ EntryEffect(movements[id], row) \in Int
    BY <1>1, EffectInt
  <2>5. /\ JournalTotal(row) \in Int
        /\ JournalTotal(row)' = JournalTotal(row)
             + (EntryEffect(m, row) - EntryEffect(movements[id], row))
    BY TotalChanges
  <2> QED
    BY <2>1, <2>2, <2>3, <2>4, <2>5
<1>4. movements'[id] = m
  BY <1>1
<1> QED
  BY <1>2, <1>3, <1>4 DEF AbstractLedger!Operate

\* Every step that taints no row is a step of the abstract ledger.
LEMMA StepMaps ==
  ASSUME IInv, JournalInv, IInv', JournalInv', tainted = {}, tainted' = {},
         [Next]_vars
  PROVE  [AbstractLedger!Next]_(AbstractLedger!vars)
<1>1. ASSUME UNCHANGED <<balance, movements>>
      PROVE  UNCHANGED AbstractLedger!vars
  BY <1>1 DEF AbstractLedger!vars
<1>2. CASE UNCHANGED vars
  BY <1>1, <1>2 DEF vars, txVars
<1>3. ASSUME NEW r \in Requests,
             \/ StartCreate(r) \/ StartUpdate(r) \/ StartRemove(r)
             \/ MovementGone(r) \/ Notify(r) \/ Abort(r)
      PROVE  UNCHANGED <<balance, movements>>
  <2>1. CASE StartCreate(r)
    BY <2>1 DEF StartCreate, Begin
  <2>2. CASE StartUpdate(r)
    BY <2>2 DEF StartUpdate, Begin
  <2>3. CASE StartRemove(r)
    BY <2>3 DEF StartRemove, Begin
  <2>4. CASE MovementGone(r) \/ Abort(r)
    BY <2>4 DEF MovementGone, Abort, AbortTx, Rollback
  <2>5. CASE Notify(r)
    BY <2>5 DEF Notify
  <2> QED
    BY <1>3, <2>1, <2>2, <2>3, <2>4, <2>5
<1>4. ASSUME NEW r \in Requests, Step(r) PROVE UNCHANGED <<balance, movements>>
  BY <1>4, TxStepPlan DEF Step, IInv, JournalInv
<1>5. ASSUME NEW r \in Requests, Commit(r)
      PROVE  \E id \in Ids : AbstractLedger!Operate(id)
  <2>1. JobFits(job[r], r) /\ job[r].kind \in {"create", "update", "remove"}
    BY <1>5 DEF Commit, CommitCreate, CommitUpdate, CommitRemove, JournalInv,
                JobsFit
  <2>2. job[r].id \in Ids /\ job[r].new \in ProperMovement \cup {NoMovement}
    BY <2>1 DEF JobFits, Ids
  <2>3. movements' = [movements EXCEPT ![job[r].id] = job[r].new]
    BY <1>5, <2>1 DEF Commit, CommitCreate, CommitUpdate, CommitRemove, JobFits
  <2> QED
    BY <2>2, <2>3, CommitMaps
<1> QED
  BY <1>1, <1>2, <1>3, <1>4, <1>5 DEF Next, AbstractLedger!Next

\* Whatever overlaps, the ledger implements the abstract one as long as no
\* request has committed what it computed from a stale read.
THEOREM CleanImplementsLedger == Spec /\ [](tainted = {}) => ImplementsLedger
<1>1. Init => AbstractLedger!Init
  BY InitMaps
<1>2. IInv /\ JournalInv /\ tainted = {} /\ [Next]_vars
        /\ (IInv /\ JournalInv /\ tainted = {})'
        => [AbstractLedger!Next]_(AbstractLedger!vars)
  BY StepMaps
<1> QED
  BY <1>1, <1>2, JournalInvariant, PTL DEF Spec, ImplementsLedger, AbstractLedger!Spec

\* Requests that do not overlap: what a request has read is what is there.
FreshReads(r) ==
    /\ dirty[r] = {}
    /\ stage[r] \in {"find", "write"} /\ Head(todo[r]).guard = "check"
       => before[r] = Quantity(r, Head(todo[r]).row)
    /\ stage[r] = "write" => seen[r].quantity = Quantity(r, Head(todo[r]).row)
    /\ stage[r] \in InTxStages /\ job[r].kind \in {"update", "remove"}
       => movements[job[r].id] = job[r].old

Flying(r) == stage[r] \notin {"idle", "done", "failed"}

SerialInv ==
    /\ tainted = {}
    /\ \A q, r \in Requests : Flying(q) /\ Flying(r) => q = r
    /\ \A r \in Requests : FreshReads(r)

\* A step of the only request in flight.
LEMMA SerialFrame ==
  ASSUME SerialInv, NEW r \in Requests,
         \A q \in Requests \ {r} : ~Flying(q) /\ stage'[q] = stage[q]
                                  /\ dirty'[q] = dirty[q],
         tainted' = {}, FreshReads(r)'
  PROVE  SerialInv'
<1>1. ASSUME NEW q \in Requests PROVE FreshReads(q)'
  <2>1. CASE q # r
    <3>1. dirty'[q] = {} /\ stage'[q] \in {"idle", "done", "failed"}
      BY <2>1 DEF SerialInv, FreshReads, Flying
    <3> QED
      BY <3>1 DEF FreshReads, InTxStages
  <2> QED
    BY <2>1
<1> QED
  BY <1>1 DEF SerialInv, Flying

\* Every step, when one request is admitted at a time.
LEMMA NextSerial ==
  ASSUME MaxInFlight = 1, IInv, JournalInv, SerialInv, [Next]_vars
  PROVE  SerialInv'
<1>1. CASE UNCHANGED vars
  BY <1>1 DEF vars, txVars, SerialInv, FreshReads, Flying, Quantity
<1>2. ASSUME NEW r \in Requests, Flying(r)
      PROVE  \A q \in Requests \ {r} : ~Flying(q)
  BY <1>2 DEF SerialInv
<1>3. TxInv
  BY DEF IInv
<1>4. ASSUME NEW r \in Requests, StartCreate(r) \/ StartUpdate(r) \/ StartRemove(r)
      PROVE  SerialInv'
  <2>1. Cardinality(InFlight) < 1
    BY <1>4 DEF StartCreate, StartUpdate, StartRemove, Admitted
  <2>2. IsFiniteSet(InFlight)
    BY FiniteAssumption, FS_Subset DEF InFlight
  <2>3. InFlight = {}
    BY <2>1, <2>2, FS_CardinalityType, FS_EmptySet
  <2>4. \A q \in Requests : ~Flying(q)
    BY <2>3 DEF InFlight, Flying
  <2>5. PICK j, postings : Starts(r, j, postings)
    BY <1>4, CreateStarts, UpdateStarts, RemoveStarts
  <2>6. postings \in Seq(Posting)
    BY <2>5, SafeIsPlan DEF Starts
  <2>7. /\ todo'[r] = postings /\ stage'[r] = FirstStage(postings)
        /\ job'[r] = j /\ movements' = movements /\ tainted' = tainted
        /\ \A q \in Requests : dirty'[q] = dirty[q]
        /\ \A q \in Requests \ {r} : stage'[q] = stage[q]
    BY <1>3, <2>5 DEF Starts, Begin, TxInv, TxTypeOK, IInv, JobsProper
  <2>8. FreshReads(r)'
    <3>1. FirstStage(postings) \in {"check", "find", "journal"}
      BY <2>6, FirstStageFacts
    <3>2. FirstStage(postings) = "find" => Head(postings).guard = "none"
      BY <2>6, FirstStageFacts
    <3>3. j.kind \in {"update", "remove"} => movements[j.id] = j.old
      BY <2>5 DEF Starts
    <3>4. dirty'[r] = {}
      BY <2>7 DEF SerialInv, FreshReads
    <3> QED
      BY <2>7, <3>1, <3>2, <3>3, <3>4 DEF FreshReads
  <2> QED
    BY <2>4, <2>7, <2>8, SerialFrame DEF SerialInv
<1>5. ASSUME NEW r \in Requests, Step(r) PROVE SerialInv'
  <2>1. TxStep(r) /\ UNCHANGED <<movements, job>>
    BY <1>5 DEF Step
  <2>2. /\ stage[r] \in InTxStages /\ tainted' = tainted
        /\ \A q \in Requests \ {r} : stage'[q] = stage[q]
    BY <1>3, <2>1, TxStepPlan DEF JournalInv
  <2>3. \A q \in Requests \ {r} : dirty'[q] = dirty[q]
    BY <1>3, <2>1 DEF TxStep, GetQuantity, Insufficient, FindRow, CreateRow,
                DuplicateRow, UpdateRow, WriteRow, Rollback, TxInv, TxTypeOK
  <2>4. FreshReads(r)'
    <3>1. FreshReads(r)
      BY DEF SerialInv
    <3>2. stage[r] \in InTxStages /\ job[r].kind \in {"update", "remove"}
            => movements'[job'[r].id] = job'[r].old
      BY <2>1, <3>1 DEF FreshReads
    <3>3. CASE GetQuantity(r)
      <4>1. /\ before'[r] = Quantity(r, Head(todo[r]).row) /\ stage'[r] = "find"
            /\ UNCHANGED <<balance, todo, draft, touched, dirty>>
        BY <1>3, <3>3 DEF GetQuantity, TxInv, TxTypeOK
      <4> QED
        BY <2>1, <2>2, <3>1, <3>2, <4>1 DEF FreshReads, Quantity
    <3>4. CASE FindRow(r)
      <4>1. /\ stage[r] = "find" /\ stage'[r] = "write"
            /\ seen'[r].quantity = Quantity(r, Head(todo[r]).row)
            /\ UNCHANGED <<balance, todo, draft, touched, dirty, before>>
        BY <1>3, <3>4 DEF FindRow, TxInv, TxTypeOK
      <4> QED
        BY <2>1, <2>2, <3>1, <3>2, <4>1 DEF FreshReads, Quantity
    <3>5. CASE Insufficient(r) \/ DuplicateRow(r)
      <4>1. stage'[r] = "failed" /\ dirty'[r] = {}
        BY <1>3, <3>5 DEF Insufficient, DuplicateRow, Rollback, TxInv, TxTypeOK
      <4> QED
        BY <4>1 DEF FreshReads, InTxStages
    <3>6. CASE CreateRow(r) \/ UpdateRow(r)
      <4>1. stage[r] = "write" /\ WriteRow(r) /\ todo[r] # << >>
        BY <1>3, <3>6 DEF CreateRow, UpdateRow, TxInv, HasPosting
      <4>2. ~ReadIsStale(r)
        BY <3>1, <4>1 DEF FreshReads, ReadIsStale
      <4>3. /\ dirty'[r] = {} /\ stage'[r] = FirstStage(Tail(todo[r]))
            /\ todo'[r] = Tail(todo[r])
        BY <1>3, <3>1, <4>1, <4>2 DEF WriteRow, FreshReads, TxInv, TxTypeOK
      <4>4. Tail(todo[r]) \in Seq(Posting)
        BY <1>3, <4>1, PostingFacts DEF TxInv, TxTypeOK
      <4>5. FirstStage(Tail(todo[r])) \in {"check", "find", "journal"}
        BY <4>4, FirstStageFacts
      <4>6. FirstStage(Tail(todo[r])) = "find" => Head(Tail(todo[r])).guard = "none"
        BY <4>4, FirstStageFacts
      <4>7. /\ stage'[r] \in {"check", "find", "journal"}
            /\ stage'[r] = "find" => Head(todo'[r]).guard = "none"
        BY <4>3, <4>5, <4>6
      <4>8. dirty'[r] = {}
        BY <4>3
      <4> QED
        BY <2>1, <2>2, <3>2, <4>7, <4>8 DEF FreshReads
    <3> QED
      BY <2>1, <3>3, <3>4, <3>5, <3>6 DEF TxStep
  <2>5. Flying(r)
    BY <2>2 DEF Flying, InTxStages
  <2> QED
    BY <1>2, <2>2, <2>3, <2>4, <2>5, SerialFrame DEF SerialInv
<1>6. ASSUME NEW r \in Requests, Commit(r) PROVE SerialInv'
  <2>1. stage[r] = "journal" /\ Flying(r) /\ FreshReads(r)
    BY <1>6 DEF Commit, CommitCreate, CommitUpdate, CommitRemove, Flying, SerialInv
  <2>2. StaleRows(r) = {} \/ job[r].kind = "create"
    BY <1>6, <2>1 DEF Commit, CommitCreate, CommitUpdate, CommitRemove, StaleRows,
                      FreshReads, InTxStages
  <2>3. PICK next \in {"notify", "done"} : CommitTx(r, next, {})
    BY <1>6, <2>2 DEF Commit, CommitCreate, CommitUpdate, CommitRemove
  <2>4. /\ tainted' = {} /\ dirty'[r] = {} /\ stage'[r] = next
        /\ \A q \in Requests \ {r} : stage'[q] = stage[q] /\ dirty'[q] = dirty[q]
    BY <1>3, <2>1, <2>3 DEF CommitTx, FreshReads, SerialInv, TxInv, TxTypeOK
  <2>5. FreshReads(r)'
    BY <2>4 DEF FreshReads, InTxStages
  <2> QED
    BY <1>2, <2>1, <2>4, <2>5, SerialFrame
<1>7. ASSUME NEW r \in Requests, MovementGone(r) \/ Abort(r) PROVE SerialInv'
  <2>1. Rollback(r) /\ stage[r] \in InTxStages
    BY <1>7 DEF MovementGone, Abort, AbortTx, InTxStages
  <2>2. /\ tainted' = tainted /\ dirty'[r] = {} /\ stage'[r] = "failed"
        /\ \A q \in Requests \ {r} : stage'[q] = stage[q] /\ dirty'[q] = dirty[q]
    BY <1>3, <2>1 DEF Rollback, TxInv, TxTypeOK
  <2>3. FreshReads(r)' /\ Flying(r)
    BY <2>1, <2>2 DEF FreshReads, Flying, InTxStages
  <2> QED
    BY <1>2, <2>2, <2>3, SerialFrame DEF SerialInv
<1>8. ASSUME NEW r \in Requests, Notify(r) PROVE SerialInv'
  <2>1. /\ stage[r] = "notify" /\ stage'[r] = "done" /\ tainted' = tainted
        /\ dirty' = dirty
        /\ \A q \in Requests \ {r} : stage'[q] = stage[q]
    BY <1>3, <1>8 DEF Notify, TxInv, TxTypeOK
  <2>2. FreshReads(r)' /\ Flying(r)
    BY <2>1 DEF FreshReads, Flying, InTxStages, SerialInv
  <2> QED
    BY <1>2, <2>1, <2>2, SerialFrame DEF SerialInv
<1> QED
  BY <1>1, <1>4, <1>5, <1>6, <1>7, <1>8 DEF Next

\* ImplementsLedger: requests that do not overlap implement the abstract ledger.
THEOREM SerialImplementsLedger ==
  ASSUME MaxInFlight = 1
  PROVE  Spec => ImplementsLedger
<1>1. Init => SerialInv
  BY DEF Init, TxInit, SerialInv, Flying, FreshReads, InTxStages
<1>2. IInv /\ JournalInv /\ SerialInv /\ [Next]_vars => SerialInv'
  BY NextSerial
<1>3. Spec => []SerialInv
  BY <1>1, <1>2, JournalInvariant, PTL DEF Spec
<1>4. SerialInv => tainted = {}
  BY DEF SerialInv
<1> QED
  BY <1>3, <1>4, CleanImplementsLedger, PTL

-----------------------------------------------------------------------------
(***************************************************************************)
(* The monthly counts.  While a month goes on, the balance of a row less   *)
(* what the journal has moved on it since the month began is the balance   *)
(* it began with; a call that is not torn has read both of the two at one  *)
(* moment, or is between its queries with nothing committed in between.    *)
(***************************************************************************)

\* What a query or a record may hold: quantities of some of the rows.
IsSnapshot(f) == DOMAIN f \subseteq Rows /\ f \in [DOMAIN f -> Int]

IsCall(c) ==
    /\ c = [period |-> c.period, inventories |-> c.inventories,
            deltas |-> c.deltas, torn |-> c.torn]
    /\ c.period \in 0 .. month
    /\ c.inventories = NoCount \/ IsSnapshot(c.inventories)
    /\ c.deltas \in [Rows -> Int] \cup {NoCount}
    /\ c.torn \in BOOLEAN
    /\ c.period = 0 => c = NoCall

CountsTypes ==
    /\ balance \in [Rows -> Nat]
    /\ present \in SUBSET Rows
    /\ stage \in [Requests -> Stages]
    /\ tainted = {}
    /\ JournalProper
    /\ month \in Periods
    /\ bookedIn \in [Ids -> Nat]
    /\ opening \in [Periods -> [Rows -> Int]]
    /\ revised \in [Periods -> SUBSET Rows]
    /\ counts = [period \in Periods |-> counts[period]]
    /\ call = [t \in Triggers |-> call[t]]
    /\ \A t \in Triggers : IsCall(call[t])

\* A request that has not started has created nothing; a movement is booked in
\* a month that has begun; a row that is absent is empty and always was.
Journal ==
    /\ \A r \in Requests : stage[r] = "idle" => movements[r] = NoMovement
    /\ \A id \in Ids : bookedIn[id] <= month
    /\ \A row \in Rows \ present :
         /\ balance[row] = 0
         /\ \A period \in 1 .. month : opening[period][row] = 0

History ==
    \A period \in 1 .. month : \A row \in Rows \ revised[period] :
        balance[row] - DeltaSince(period, row) = opening[period][row]

\* What the queries of a call have answered.
CallFits(t) ==
    LET c == call[t]
    IN  Reading(t) =>
          /\ c.inventories # NoCount =>
               \A row \in Rows \ DOMAIN c.inventories :
                   opening[c.period][row] = 0
          /\ ~c.torn =>
               /\ c.inventories # NoCount /\ c.deltas = NoCount =>
                    \A row \in DOMAIN c.inventories :
                        c.inventories[row] = balance[row]
               /\ c.inventories = NoCount /\ c.deltas # NoCount =>
                    \A row \in Rows : c.deltas[row] = DeltaSince(c.period, row)
               /\ c.inventories # NoCount /\ c.deltas # NoCount =>
                    \A row \in DOMAIN c.inventories \ revised[c.period] :
                        c.inventories[row] - c.deltas[row]
                            = opening[c.period][row]

RecordFits(period) ==
    counts[period] # NoCount =>
        /\ period <= month
        /\ ~counts[period].torn =>
             \A row \in Rows \ revised[period] :
                 IF row \in DOMAIN counts[period].lines
                 THEN counts[period].lines[row] = opening[period][row]
                 ELSE opening[period][row] = 0

CountsInv ==
    /\ CountsTypes
    /\ Journal
    /\ History
    /\ \A t \in Triggers : CallFits(t)
    /\ \A period \in Periods : RecordFits(period)


-----------------------------------------------------------------------------
\* The first postings of a plan, on a row.
LEMMA PostedFacts ==
  ASSUME NEW s \in Seq(Posting), NEW row \in Rows
  PROVE  /\ Posted(s, 0, row) = 0
         /\ Posted(s, Len(s), row) = Due(s, row)
         /\ \A i \in Nat : i + 1 <= Len(s) =>
               Posted(s, i + 1, row)
                 = Posted(s, i, row) + DeltaFor(s[i + 1], row)
         /\ \A i \in Nat : i <= Len(s) => Posted(s, i, row) \in Int
<1> DEFINE P(i) == [j \in 1 .. i |-> DeltaFor(s[j], row)]
<1>1. \A i : Posted(s, i, row) = SumFunctionOnSet(P(i), 1 .. i)
  BY DEF Posted, DeltaFor
<1>2. \A i \in Nat : i <= Len(s) =>
          IsFiniteSet(1 .. i) /\ \A j \in 1 .. i : P(i)[j] \in Int
  <2> SUFFICES ASSUME NEW i \in Nat, i <= Len(s)
               PROVE  IsFiniteSet(1 .. i) /\ \A j \in 1 .. i : P(i)[j] \in Int
    OBVIOUS
  <2>1. IsFiniteSet(1 .. i)
    BY FS_Interval
  <2>2. 1 .. i \subseteq 1 .. Len(s)
    BY DueSummands
  <2>3. \A j \in 1 .. i : DeltaFor(s[j], row) \in Int
    BY <2>2, DueSummands
  <2> QED
    BY <2>1, <2>3
<1>3. Posted(s, 0, row) = 0
  <2>1. 1 .. 0 = {}
    OBVIOUS
  <2>2. SumFunctionOnSet(P(0), {}) = 0
    BY SumEmpty
  <2> QED
    BY <1>1, <2>1, <2>2
<1>4. Posted(s, Len(s), row) = Due(s, row)
  BY <1>1 DEF Due
<1>5. ASSUME NEW i \in Nat, i + 1 <= Len(s)
      PROVE  Posted(s, i + 1, row)
               = Posted(s, i, row) + DeltaFor(s[i + 1], row)
  <2> DEFINE K == 1 .. i
             x == i + 1
             F == P(x)
             G == P(i)
  <2>1. 1 .. x = K \cup {x} /\ x \notin K
    <3>1. \A n \in Nat : 1 .. (n + 1) = (1 .. n) \cup {n + 1} /\ n + 1 \notin 1 .. n
      OBVIOUS
    <3> QED
      BY <3>1
  <2>2. Len(s) \in Nat
    BY DueSummands
  <2>3. IsFiniteSet(K) /\ \A j \in K \cup {x} : F[j] \in Int
    BY <1>2, <2>1, <2>2, <1>5
  <2>4. \A j \in K : G[j] \in Int /\ F[j] = G[j]
    BY <2>1, <2>3
  <2>5. F[x] = DeltaFor(s[i + 1], row)
    BY <2>1
  <2>6. /\ Posted(s, i + 1, row) = SumFunctionOnSet(F, K \cup {x})
        /\ Posted(s, i, row) = SumFunctionOnSet(G, K)
    BY <1>1, <2>1
  <2> HIDE DEF K, x, F, G
  <2>7. SumFunctionOnSet(F, K \cup {x}) = SumFunctionOnSet(F, K) + F[x]
    BY <2>1, <2>3, SumAdd
  <2>8. SumFunctionOnSet(F, K) = SumFunctionOnSet(G, K)
    BY <2>3, <2>4, SumSame
  <2> QED
    BY <2>5, <2>6, <2>7, <2>8
<1>6. ASSUME NEW i \in Nat, i <= Len(s)
      PROVE  Posted(s, i, row) \in Int
  <2> DEFINE K == 1 .. i
             F == P(i)
  <2>1. IsFiniteSet(K) /\ \A j \in K : F[j] \in Int
    BY <1>2, <1>6
  <2>2. Posted(s, i, row) = SumFunctionOnSet(F, K)
    BY <1>1
  <2> HIDE DEF K, F
  <2> QED
    BY <2>1, <2>2, SumInt
<1> QED
  BY <1>3, <1>4, <1>5, <1>6

\* Postings that are accepted and check what they take leave every balance at
\* zero or more, however they follow one another on a row.
LEMMA AcceptedStaysNonNegative ==
  ASSUME balance \in [Rows -> Nat], NEW s \in Seq(SafePosting), Accepted(s),
         NEW row \in Rows
  PROVE  balance[row] + Due(s, row) \in Nat
<1>1. s \in Seq(Posting)
  BY SafeIsPlan
<1>2. Len(s) \in Nat /\ \A i \in 1 .. Len(s) : s[i] \in SafePosting
  BY LenProperties, ElementOfSeq
<1> DEFINE A == {i \in Nat : i <= Len(s) =>
                               balance[row] + Posted(s, i, row) >= 0}
<1>3. 0 \in A
  BY <1>1, PostedFacts
<1>4. ASSUME NEW i \in Nat, i \in A PROVE i + 1 \in A
  <2> SUFFICES ASSUME i + 1 <= Len(s)
               PROVE  balance[row] + Posted(s, i + 1, row) >= 0
    OBVIOUS
  <2>1. i + 1 \in 1 .. Len(s) /\ i + 1 \in DOMAIN s /\ i <= Len(s)
    BY <1>2, LenProperties
  <2>2. s[i + 1] \in SafePosting
    BY <1>2, <2>1
  <2>3. /\ Posted(s, i + 1, row) = Posted(s, i, row) + DeltaFor(s[i + 1], row)
        /\ Posted(s, i, row) \in Int
    BY <1>1, <2>1, PostedFacts
  <2>4. balance[row] + Posted(s, i, row) >= 0
    BY <1>4, <2>1
  <2>5. CASE s[i + 1].row = row /\ s[i + 1].delta < 0
    <3>1. s[i + 1].guard = "check"
      BY <2>2, <2>5 DEF SafePosting
    <3> QED
      BY <2>1, <2>5, <3>1 DEF Accepted
  <2>6. CASE ~(s[i + 1].row = row /\ s[i + 1].delta < 0)
    <3>1. DeltaFor(s[i + 1], row) \in Nat
      BY <2>2, <2>6 DEF DeltaFor, SafePosting, Posting
    <3> QED
      BY <2>3, <2>4, <3>1
  <2> QED
    BY <2>5, <2>6
<1>5. Len(s) \in A
  <2> HIDE DEF A
  <2> QED
    BY <1>2, <1>3, <1>4, NatSet
<1>6. Due(s, row) \in Int /\ Posted(s, Len(s), row) = Due(s, row)
  BY <1>1, DueInt, PostedFacts
<1> QED
  BY <1>2, <1>5, <1>6

\* A row no posting is for gets nothing.
LEMMA DueElsewhere ==
  ASSUME NEW s \in Seq(Posting), NEW row \in Rows,
         \A i \in DOMAIN s : s[i].row # row
  PROVE  Due(s, row) = 0
<1> DEFINE F == [i \in 1 .. Len(s) |-> DeltaFor(s[i], row)]
           K == 1 .. Len(s)
<1>1. DOMAIN s = 1 .. Len(s)
  BY LenProperties
<1>2. \A i \in K : F[i] = 0
  BY <1>1 DEF DeltaFor
<1>3. IsFiniteSet(K)
  BY DueSummands
<1>4. Due(s, row) = SumFunctionOnSet(F, K)
  BY DEF Due
<1> HIDE DEF F, K
<1> QED
  BY <1>2, <1>3, <1>4, SumZero

-----------------------------------------------------------------------------
\* What the journal has moved since a month began.
MovedBy(entries, booked, period, row) ==
    [id \in Ids |-> IF booked[id] >= period THEN EntryEffect(entries[id], row)
                                            ELSE 0]

\* It is an integer, zero when nothing is booked in the month or later.
LEMMA DeltaSinceFacts ==
  ASSUME CountsTypes, NEW period \in Nat, NEW row \in Rows
  PROVE  /\ DeltaSince(period, row) \in Int
         /\ (\A id \in Ids : bookedIn[id] < period) => DeltaSince(period, row) = 0
<1> DEFINE F == MovedBy(movements, bookedIn, period, row)
<1>1. \A id \in Ids : /\ F[id] \in Int
                      /\ bookedIn[id] < period => F[id] = 0
  <2> SUFFICES ASSUME NEW id \in Ids
               PROVE  /\ F[id] \in Int
                      /\ bookedIn[id] < period => F[id] = 0
    OBVIOUS
  <2>1. bookedIn[id] \in Nat /\ EntryEffect(movements[id], row) \in Int
    BY EffectInt DEF CountsTypes, JournalProper
  <2>2. F[id] = IF bookedIn[id] >= period
                THEN EntryEffect(movements[id], row) ELSE 0
    BY DEF MovedBy
  <2> HIDE DEF F
  <2> QED
    BY <2>1, <2>2
<1>2. DeltaSince(period, row) = SumFunctionOnSet(F, Ids)
  BY DEF DeltaSince, MovedBy
<1> HIDE DEF F
<1> QED
  BY <1>1, <1>2, IdsAreFinite, SumInt, SumZero

\* The entry of the journal becomes new, booked in the month it was, if any.
Enters(id, new, booked) ==
    /\ id \in Ids
    /\ new \in ProperMovement \cup {NoMovement}
    /\ booked \in Nat
    /\ movements' = [movements EXCEPT ![id] = new]
    /\ bookedIn' = [bookedIn EXCEPT ![id] = booked]
    /\ movements[id] # NoMovement => booked = bookedIn[id]

\* An entry that changes changes it by the difference of the two effects, if
\* the entry is booked in the month or later, and not at all if it is older.
LEMMA DeltaSinceChanges ==
  ASSUME CountsTypes, NEW id, NEW new, NEW booked, Enters(id, new, booked),
         NEW period \in Nat, NEW row \in Rows
  PROVE  DeltaSince(period, row)' = DeltaSince(period, row)
            + IF booked >= period
              THEN EntryEffect(new, row) - EntryEffect(movements[id], row) ELSE 0
<1> DEFINE F == MovedBy(movements, bookedIn, period, row)
           H == MovedBy(movements', bookedIn', period, row)
<1>0. /\ id \in Ids
      /\ new \in ProperMovement \cup {NoMovement}
      /\ booked \in Nat
      /\ movements' = [movements EXCEPT ![id] = new]
      /\ bookedIn' = [bookedIn EXCEPT ![id] = booked]
      /\ movements[id] # NoMovement => booked = bookedIn[id]
  BY DEF Enters
<1>1. ASSUME NEW i \in Ids PROVE F[i] \in Int
  <2>1. EntryEffect(movements[i], row) \in Int
    BY EffectInt DEF CountsTypes, JournalProper
  <2> QED
    BY <2>1 DEF MovedBy
<1>2. \A i \in Ids \ {id} : H[i] = F[i]
  BY <1>0 DEF CountsTypes, JournalProper, MovedBy
<1>3. H[id] = IF booked >= period THEN EntryEffect(new, row) ELSE 0
  BY <1>0 DEF CountsTypes, JournalProper, MovedBy
<1>4. F[id] = IF booked >= period THEN EntryEffect(movements[id], row) ELSE 0
  <2>1. movements[id] = NoMovement => EntryEffect(movements[id], row) = 0
    BY DEF EntryEffect
  <2> QED
    BY <1>0, <2>1 DEF MovedBy
<1>5. EntryEffect(new, row) \in Int /\ EntryEffect(movements[id], row) \in Int
  BY <1>0, EffectInt DEF CountsTypes, JournalProper
<1>6. /\ DeltaSince(period, row) = SumFunctionOnSet(F, Ids)
      /\ DeltaSince(period, row)' = SumFunctionOnSet(H, Ids)
  BY DEF DeltaSince, MovedBy
<1> HIDE DEF F, H
<1>7. ChangesAt(F, H, Ids, id)
  BY <1>0, <1>1, <1>2, <1>3, <1>5 DEF ChangesAt
<1>8. SumFunctionOnSet(H, Ids) = SumFunctionOnSet(F, Ids) + (H[id] - F[id])
  BY <1>7, IdsAreFinite, SumUpdate
<1>9. SumFunctionOnSet(F, Ids) \in Int
  BY <1>1, IdsAreFinite, SumInt
<1> QED
  BY <1>3, <1>4, <1>5, <1>6, <1>8, <1>9

-----------------------------------------------------------------------------
\* What the requests hand to Transaction: checked postings that add up to what
\* the change of the entry does, on the rows of the entry.
Books(r, id, postings, new) ==
    /\ id \in Ids
    /\ new \in ProperMovement \cup {NoMovement}
    /\ postings \in Seq(SafePosting)
    /\ movements[id] = NoMovement => id = r
    /\ \A row \in Rows :
         Due(postings, row)
             = EntryEffect(new, row) - EntryEffect(movements[id], row)
    /\ movements[id] # NoMovement =>
         /\ RowsOf(movements[id]) \subseteq Rows
         /\ \A row \in Rows \ RowsOf(movements[id]) :
              EntryEffect(new, row) = 0 /\ EntryEffect(movements[id], row) = 0

\* What the transaction does to the balances, the journal and the marks.
LEMMA TransactionFacts ==
  ASSUME CountsInv, NEW r \in Requests, NEW id, NEW postings, NEW new,
         Books(r, id, postings, new), Transaction(r, id, postings, new)
  PROVE  /\ \A row \in Rows : /\ balance'[row] = balance[row] + Due(postings, row)
                              /\ balance'[row] \in Nat
         /\ balance' \in [Rows -> Nat]
         /\ present \subseteq present' /\ present' \in SUBSET Rows
         /\ \A row \in Rows \ present' : balance'[row] = balance[row]
         /\ movements' = [movements EXCEPT ![id] = new]
         /\ stage' = [stage EXCEPT ![r] = "done"] /\ stage[r] = "idle"
         /\ \A t \in Triggers :
               call'[t] = [call[t] EXCEPT !.torn = @ \/ HalfRead(t)]
         /\ \A period \in Periods : /\ revised[period] \subseteq revised'[period]
                                    /\ revised'[period] \in SUBSET Rows
         /\ UNCHANGED <<month, counts, opening, tainted>>
<1>1. postings \in Seq(Posting) /\ postings \in Seq(SafePosting)
  BY SafeIsPlan DEF Books
<1>2. balance \in [Rows -> Nat] /\ Accepted(postings)
  BY DEF CountsInv, CountsTypes, Transaction
<1>3. ASSUME NEW row \in Rows
      PROVE  /\ balance'[row] = balance[row] + Due(postings, row)
             /\ balance'[row] \in Nat
  <2>1. Posted(postings, Len(postings), row) = Due(postings, row)
    BY <1>1, PostedFacts
  <2>2. balance[row] + Due(postings, row) \in Nat
    BY <1>1, <1>2, AcceptedStaysNonNegative
  <2> QED
    BY <2>1, <2>2 DEF Transaction
<1>4. balance' \in [Rows -> Nat]
  <2>1. DOMAIN balance' = Rows /\ balance' = [row \in Rows |-> balance'[row]]
    BY DEF Transaction
  <2> QED
    BY <1>3, <2>1
<1>5. \A i \in DOMAIN postings : postings[i].row \in Rows
  <2>1. \A i \in 1 .. Len(postings) : postings[i] \in Posting
    BY <1>1, ElementOfSeq
  <2> QED
    BY <1>1, <2>1, LenProperties DEF Posting
<1>6. present' = present \cup {postings[i].row : i \in DOMAIN postings}
  BY DEF Transaction
<1>7. present \subseteq present' /\ present' \in SUBSET Rows
  BY <1>5, <1>6 DEF CountsInv, CountsTypes
<1>8. ASSUME NEW row \in Rows \ present' PROVE balance'[row] = balance[row]
  <2>1. Due(postings, row) = 0
    BY <1>1, <1>6, DueElsewhere
  <2> QED
    BY <1>2, <1>3, <2>1
<1>9. ASSUME NEW period \in Periods
      PROVE  /\ revised[period] \subseteq revised'[period]
             /\ revised'[period] \in SUBSET Rows
  <2>1. \/ revised'[period] = revised[period]
        \/ /\ movements[id] # NoMovement
           /\ revised'[period] = revised[period] \cup RowsOf(movements[id])
    BY DEF Transaction
  <2>2. revised[period] \in SUBSET Rows
    BY DEF CountsInv, CountsTypes
  <2> QED
    BY <2>1, <2>2 DEF Books
<1>10. /\ movements' = [movements EXCEPT ![id] = new]
       /\ stage' = [stage EXCEPT ![r] = "done"] /\ stage[r] = "idle"
       /\ \A t \in Triggers :
             call'[t] = [call[t] EXCEPT !.torn = @ \/ HalfRead(t)]
       /\ UNCHANGED <<month, counts, opening, tainted>>
  BY DEF Transaction
<1> QED
  BY <1>3, <1>4, <1>7, <1>8, <1>9, <1>10

\* The history holds on: what the balance moves by, the journal of the months
\* the movement is booked in moves by too; the months before it was booked in
\* are marked.
LEMMA TransactionHistory ==
  ASSUME CountsInv, NEW r \in Requests, NEW id, NEW postings, NEW new,
         Books(r, id, postings, new), Transaction(r, id, postings, new)
  PROVE  /\ History'
         /\ bookedIn' \in [Ids -> Nat]
         /\ \A i \in Ids : bookedIn'[i] <= month
<1>0. PICK booked :
          booked = IF movements[id] = NoMovement THEN month ELSE bookedIn[id]
  OBVIOUS
<1>1. month \in Nat /\ booked \in Nat /\ booked <= month /\ id \in Ids
  BY <1>0, CountsAssumption DEF CountsInv, CountsTypes, Journal, Periods, Books
<1>2. bookedIn' = [bookedIn EXCEPT ![id] = booked]
  BY <1>0 DEF Transaction
<1>3. movements[id] # NoMovement => booked = bookedIn[id]
  BY <1>0
<1>4. movements[id] = NoMovement => booked = month
  BY <1>0
<1>5. \A period \in Periods :
          movements[id] # NoMovement /\ booked < period /\ period <= month =>
              revised'[period] = revised[period] \cup RowsOf(movements[id])
  BY <1>3 DEF Transaction
<1>6. ASSUME NEW period \in 1 .. month, NEW row \in Rows \ revised'[period]
      PROVE  balance'[row] - DeltaSince(period, row)' = opening'[period][row]
  <2>1. period \in Nat /\ period \in Periods /\ period <= month
    BY <1>1, CountsAssumption DEF CountsInv, CountsTypes, Periods
  <2>2. row \in Rows \ revised[period]
    BY <2>1, TransactionFacts
  <2>3. balance[row] - DeltaSince(period, row) = opening[period][row]
    BY <2>2 DEF CountsInv, History
  <2>4. DeltaSince(period, row)' = DeltaSince(period, row)
            + IF booked >= period
              THEN EntryEffect(new, row) - EntryEffect(movements[id], row) ELSE 0
    <3>1. movements' = [movements EXCEPT ![id] = new] /\ CountsTypes
      BY TransactionFacts DEF CountsInv
    <3>2. new \in ProperMovement \cup {NoMovement}
      BY DEF Books
    <3>3. Enters(id, new, booked)
      BY <1>1, <1>2, <1>3, <3>1, <3>2 DEF Enters
    <3> QED
      BY <2>1, <2>2, <3>1, <3>3, DeltaSinceChanges
  <2>5. balance'[row] = balance[row] + Due(postings, row)
        /\ opening' = opening /\ balance[row] \in Int
    BY TransactionFacts DEF CountsInv, CountsTypes
  <2>6. Due(postings, row) = EntryEffect(new, row) - EntryEffect(movements[id], row)
    BY DEF Books
  <2>7. /\ EntryEffect(new, row) \in Int /\ EntryEffect(movements[id], row) \in Int
        /\ DeltaSince(period, row) \in Int
    BY <1>1, <2>1, EffectInt, DeltaSinceFacts
       DEF CountsInv, CountsTypes, JournalProper, Books
  <2>8. CASE booked >= period
    BY <2>3, <2>4, <2>5, <2>6, <2>7, <2>8
  <2>9. CASE ~(booked >= period)
    <3>1. movements[id] # NoMovement /\ booked < period
      BY <1>1, <1>4, <2>1, <2>9
    <3>2. row \notin RowsOf(movements[id])
      BY <1>5, <2>1, <3>1
    <3>3. EntryEffect(new, row) = 0 /\ EntryEffect(movements[id], row) = 0
      BY <3>1, <3>2 DEF Books
    <3> QED
      BY <2>3, <2>4, <2>5, <2>6, <2>7, <2>9, <3>3
  <2> QED
    BY <2>8, <2>9
<1>7. month' = month
  BY TransactionFacts
<1>8. History'
  BY <1>6, <1>7 DEF History
<1>9. bookedIn' \in [Ids -> Nat] /\ \A i \in Ids : bookedIn'[i] <= month
  BY <1>1, <1>2 DEF CountsInv, CountsTypes, Journal
<1> QED
  BY <1>8, <1>9

\* A commit between the two queries of a call tears it; a call that has read
\* both, or neither, is as it was.
LEMMA TransactionKeeps ==
  ASSUME CountsInv, NEW r \in Requests, NEW id, NEW postings, NEW new,
         Books(r, id, postings, new), Transaction(r, id, postings, new)
  PROVE  CountsInv'
<1>1. /\ month' = month /\ opening' = opening /\ counts' = counts
      /\ tainted' = tainted
  BY TransactionFacts
<1>2. \A period \in Periods : revised[period] \subseteq revised'[period]
  BY TransactionFacts
<1>3. ASSUME NEW t \in Triggers
      PROVE  /\ IsCall(call[t])
             /\ call'[t].period = call[t].period
             /\ call'[t].inventories = call[t].inventories
             /\ call'[t].deltas = call[t].deltas
             /\ call'[t].torn = (call[t].torn \/ HalfRead(t))
             /\ IsCall(call'[t])
  <2>1. IsCall(call[t])
    BY DEF CountsInv, CountsTypes
  <2> DEFINE c == call[t]
             torn == c.torn \/ HalfRead(t)
  <2>2. call'[t] = [c EXCEPT !.torn = torn]
    BY TransactionFacts
  <2>3. torn \in BOOLEAN
    BY <2>1 DEF IsCall
  <2> HIDE DEF torn
  <2>4. call'[t] = [period |-> c.period, inventories |-> c.inventories,
                    deltas |-> c.deltas, torn |-> torn]
    BY <2>1, <2>2 DEF IsCall
  <2>5. c.period = 0 => ~torn
    BY <2>1 DEF IsCall, NoCall, HalfRead, torn
  <2>6. ASSUME c.period = 0 PROVE call'[t] = NoCall
    <3>1. torn = FALSE
      BY <2>3, <2>5, <2>6
    <3>2. c.inventories = NoCount /\ c.deltas = NoCount
      BY <2>1, <2>6 DEF IsCall, NoCall
    <3> QED
      BY <2>4, <2>6, <3>1, <3>2 DEF NoCall
  <2>7. IsCall(call'[t])
    BY <2>1, <2>3, <2>4, <2>6 DEF IsCall
  <2> QED
    BY <2>1, <2>4, <2>7 DEF torn
<1>4. CountsTypes'
  <2>1. JournalProper'
    <3>1. movements' = [movements EXCEPT ![id] = new] /\ JournalProper
      BY TransactionFacts DEF CountsInv, CountsTypes
    <3>2. new \in ProperMovement \cup {NoMovement}
      BY DEF Books
    <3> QED
      BY <3>1, <3>2 DEF JournalProper
  <2>2. balance' \in [Rows -> Nat] /\ present' \in SUBSET Rows
    BY TransactionFacts
  <2>3. stage' \in [Requests -> Stages]
    BY TransactionFacts DEF CountsInv, CountsTypes, Stages
  <2>4. bookedIn' \in [Ids -> Nat]
    BY TransactionHistory
  <2>5. revised' \in [Periods -> SUBSET Rows]
    <3>1. revised' = [period \in Periods |-> revised'[period]]
      BY DEF Transaction
    <3> QED
      BY <3>1, TransactionFacts
  <2>6. call' = [t \in Triggers |-> call'[t]]
    BY DEF Transaction
  <2>7. \A t \in Triggers : IsCall(call[t])'
    BY <1>1, <1>3 DEF IsCall
  <2> QED
    BY <1>1, <2>1, <2>2, <2>3, <2>4, <2>5, <2>6, <2>7 DEF CountsInv, CountsTypes
<1>5. Journal'
  <2>1. ASSUME NEW q \in Requests, stage'[q] = "idle"
        PROVE  movements'[q] = NoMovement
    <3>1. q # r /\ stage[q] = "idle"
      BY <2>1, TransactionFacts DEF CountsInv, CountsTypes
    <3>2. movements[q] = NoMovement /\ q \in Ids
      BY <3>1 DEF CountsInv, Journal, Ids
    <3>3. q # id
      BY <3>1, <3>2 DEF Books
    <3> QED
      BY <3>2, <3>3, TransactionFacts DEF CountsInv, CountsTypes, JournalProper
  <2>2. \A i \in Ids : bookedIn'[i] <= month'
    BY <1>1, TransactionHistory
  <2>3. ASSUME NEW row \in Rows \ present'
        PROVE  /\ balance'[row] = 0
               /\ \A period \in 1 .. month' : opening'[period][row] = 0
    <3>1. row \in Rows \ present
      BY TransactionFacts
    <3> QED
      BY <1>1, <3>1, TransactionFacts DEF CountsInv, Journal
  <2> QED
    BY <2>1, <2>2, <2>3 DEF Journal
<1>6. History'
  BY TransactionHistory
<1>7. ASSUME NEW t \in Triggers PROVE CallFits(t)'
  <2> DEFINE c == call[t]
  <2>1. CallFits(t)
    BY DEF CountsInv
  <2> SUFFICES ASSUME c.period # 0
               PROVE  CallFits(t)'
    BY <1>3 DEF CallFits, Reading
  <2>2. c.period \in Periods
    BY <1>3, CountsAssumption DEF IsCall, CountsInv, CountsTypes, Periods
  <2>3. c.inventories # NoCount =>
            \A row \in Rows \ DOMAIN c.inventories : opening'[c.period][row] = 0
    BY <1>1, <2>1 DEF CallFits, Reading
  <2>4. ~call'[t].torn => ~c.torn /\ ~HalfRead(t)
    BY <1>3 DEF IsCall
  <2>5. ~HalfRead(t) => (c.inventories = NoCount) = (c.deltas = NoCount)
    BY DEF HalfRead
  <2>6. ~c.torn /\ c.inventories # NoCount /\ c.deltas # NoCount =>
            \A row \in DOMAIN c.inventories \ revised'[c.period] :
                c.inventories[row] - c.deltas[row] = opening'[c.period][row]
    BY <1>1, <1>2, <2>1, <2>2 DEF CallFits, Reading
  <2>7. /\ call'[t].period = c.period /\ call'[t].inventories = c.inventories
        /\ call'[t].deltas = c.deltas
    BY <1>3
  <2> HIDE DEF c
  <2> QED
    BY <2>3, <2>4, <2>5, <2>6, <2>7 DEF CallFits, Reading
<1>8. ASSUME NEW period \in Periods PROVE RecordFits(period)'
  <2>1. RecordFits(period)
    BY DEF CountsInv
  <2> QED
    BY <1>1, <1>2, <2>1 DEF RecordFits
<1> QED
  BY <1>4, <1>5, <1>6, <1>7, <1>8 DEF CountsInv


\* create, update and remove book what they post.
LEMMA CreateBooks ==
  ASSUME CountsInv, NEW r \in Requests, Create(r)
  PROVE  \E id, postings, new : /\ Books(r, id, postings, new)
                                /\ Transaction(r, id, postings, new)
<1>1. PICK type \in Types, product \in Products, warehouse \in Warehouses,
           input \in Inputs : \E target \in Targets(type) :
        LET new == [type |-> type, product |-> product,
                    warehouse |-> warehouse, target |-> target,
                    quantity |-> SignedDelta(type, input)]
        IN  /\ ValidTarget(type, warehouse, target)
            /\ Transaction(r, r, CreatePostings(new), new)
  BY DEF Create
<1>2. PICK target \in Targets(type) :
        LET new == [type |-> type, product |-> product,
                    warehouse |-> warehouse, target |-> target,
                    quantity |-> SignedDelta(type, input)]
        IN  /\ ValidTarget(type, warehouse, target)
            /\ Transaction(r, r, CreatePostings(new), new)
  BY <1>1
<1>3. target \in Warehouses \cup {NoWarehouse}
  BY DEF Targets
<1> DEFINE new == [type |-> type, product |-> product,
                   warehouse |-> warehouse, target |-> target,
                   quantity |-> SignedDelta(type, input)]
<1>4. SignedDelta(type, input) \in Int
  BY StockAssumption DEF SignedDelta
<1>5. new \in ProperMovement
  BY <1>2, <1>3, <1>4 DEF ProperMovement, Movement, ValidTarget
<1>6. Transaction(r, r, CreatePostings(new), new)
  BY <1>2
<1> HIDE DEF new
<1>7. r \in Ids /\ movements[r] = NoMovement
  BY <1>6 DEF Transaction, CountsInv, Journal, Ids
<1>8. ASSUME NEW row \in Rows
      PROVE  Due(CreatePostings(new), row)
               = EntryEffect(new, row) - EntryEffect(movements[r], row)
  BY <1>5, <1>7, DueCreate, EffectInt DEF EntryEffect
<1>9. Books(r, r, CreatePostings(new), new)
  BY <1>5, <1>7, <1>8, CreatePostingsAreSafe DEF Books
<1> QED
  BY <1>6, <1>9

\* The rows of a movement are in the table.
LEMMA RowsOfAreRows ==
  ASSUME NEW m \in ProperMovement
  PROVE  RowsOf(m) \subseteq Rows
  BY SourceRowIsRow, RowsAssumption
     DEF RowsOf, TargetRow, ProperMovement, Movement

\* So does update, on the rows the movement keeps.
LEMMA UpdateBooks ==
  ASSUME CountsInv, NEW r \in Requests, Update(r)
  PROVE  \E id, postings, new : /\ Books(r, id, postings, new)
                                /\ Transaction(r, id, postings, new)
<1>1. PICK id \in Ids, type \in Types, input \in Inputs :
        LET new == [movements[id] EXCEPT !.type = type,
                                         !.quantity = SignedDelta(type, input)]
        IN  /\ movements[id] # NoMovement
            /\ (type = "TRANSFER") = (movements[id].type = "TRANSFER")
            /\ Transaction(r, id, UpdatePostings(movements[id], new), new)
  BY DEF Update
<1> DEFINE old == movements[id]
           new == [old EXCEPT !.type = type,
                              !.quantity = SignedDelta(type, input)]
<1>2. Transaction(r, id, UpdatePostings(old, new), new)
  BY <1>1
<1>3. old \in ProperMovement /\ old # NoMovement
  BY <1>1 DEF CountsInv, CountsTypes, JournalProper
<1>4. (type = "TRANSFER") = (old.type = "TRANSFER")
  BY <1>1
<1>5. SignedDelta(type, input) \in Int
  BY StockAssumption DEF SignedDelta
<1> HIDE DEF old
<1>6. new \in ProperMovement
  BY <1>3, <1>4, <1>5 DEF ProperMovement, Movement
<1>7. SameRows(new, old) /\ SameRows(old, old)
  BY <1>3, <1>4 DEF SameRows, SourceRow, TargetRow, ProperMovement, Movement
<1> HIDE DEF new
<1>8. \A row \in Rows : Due(UpdatePostings(old, new), row)
                          = EntryEffect(new, row) - EntryEffect(old, row)
  BY <1>3, <1>6, DueUpdate
<1>9. \A row \in Rows \ RowsOf(old) :
          EntryEffect(new, row) = 0 /\ EntryEffect(old, row) = 0
  BY <1>3, <1>6, <1>7, EffectOutsideRows
<1>10. UpdatePostings(old, new) \in Seq(SafePosting) /\ RowsOf(old) \subseteq Rows
  BY <1>3, <1>6, UpdatePostingsAreSafe, RowsOfAreRows
<1>11. Books(r, id, UpdatePostings(old, new), new)
  BY <1>3, <1>6, <1>8, <1>9, <1>10 DEF Books, old
<1> QED
  BY <1>2, <1>11

\* And remove, which leaves no effect on them.
LEMMA RemoveBooks ==
  ASSUME CountsInv, NEW r \in Requests, Remove(r)
  PROVE  \E id, postings, new : /\ Books(r, id, postings, new)
                                /\ Transaction(r, id, postings, new)
<1>1. PICK id \in Ids :
        /\ movements[id] # NoMovement
        /\ Transaction(r, id, ReversePostings(movements[id]), NoMovement)
  BY DEF Remove
<1> DEFINE old == movements[id]
<1>2. old \in ProperMovement /\ old # NoMovement
  BY <1>1 DEF CountsInv, CountsTypes, JournalProper
<1>3. Transaction(r, id, ReversePostings(old), NoMovement)
  BY <1>1
<1> HIDE DEF old
<1>4. \A row : EntryEffect(NoMovement, row) = 0
  BY DEF EntryEffect
<1>5. ASSUME NEW row \in Rows
      PROVE  Due(ReversePostings(old), row)
               = EntryEffect(NoMovement, row) - EntryEffect(old, row)
  BY <1>2, <1>4, DueReverse, EffectInt
<1>6. SameRows(old, old)
  BY DEF SameRows
<1>7. \A row \in Rows \ RowsOf(old) : EntryEffect(old, row) = 0
  BY <1>2, <1>6, EffectOutsideRows
<1>8. ReversePostings(old) \in Seq(SafePosting) /\ RowsOf(old) \subseteq Rows
  BY <1>2, ReversePostingsAreSafe, RowsOfAreRows
<1>9. Books(r, id, ReversePostings(old), NoMovement)
  BY <1>2, <1>4, <1>5, <1>7, <1>8 DEF Books, old
<1> QED
  BY <1>3, <1>9

-----------------------------------------------------------------------------
\* The month that begins opens with the balances, and nothing is booked in it.
LEMMA NewMonthKeeps == CountsInv /\ NewMonth => CountsInv'
<1> SUFFICES ASSUME CountsInv, NewMonth PROVE CountsInv'
  OBVIOUS
<1>1. /\ month \in Nat /\ month' = month + 1 /\ month' \in Periods
      /\ 1 .. month \subseteq Periods
  BY CountsAssumption DEF NewMonth, CountsInv, CountsTypes, Periods
<1>2. /\ balance' = balance /\ present' = present /\ stage' = stage
      /\ movements' = movements /\ tainted' = tainted
      /\ bookedIn' = bookedIn /\ counts' = counts /\ call' = call
      /\ revised' = revised
      /\ opening' = [opening EXCEPT ![month'] = balance]
  BY DEF NewMonth, vars, txVars
<1>3. /\ opening' \in [Periods -> [Rows -> Int]]
      /\ opening'[month'] = balance
      /\ \A period \in 1 .. month : opening'[period] = opening[period]
  BY <1>1, <1>2 DEF CountsInv, CountsTypes
<1>4. \A period \in 1 .. month' : period \in 1 .. month \/ period = month'
  BY <1>1
<1>5. ASSUME NEW t \in Triggers
      PROVE  /\ IsCall(call[t])'
             /\ call[t].period # 0 => call[t].period \in 1 .. month
  BY <1>1, <1>2 DEF IsCall, CountsInv, CountsTypes
<1>6. CountsTypes'
  BY <1>1, <1>2, <1>3, <1>5 DEF CountsInv, CountsTypes, JournalProper
<1>7. Journal'
  <2>1. \A id \in Ids : bookedIn'[id] <= month'
    BY <1>1, <1>2 DEF CountsInv, CountsTypes, Journal
  <2>2. ASSUME NEW row \in Rows \ present', NEW period \in 1 .. month'
        PROVE  opening'[period][row] = 0
    BY <1>2, <1>3, <1>4 DEF CountsInv, Journal
  <2> QED
    BY <1>2, <2>1, <2>2 DEF CountsInv, Journal
<1>8. ASSUME NEW period, NEW row
      PROVE  DeltaSince(period, row)' = DeltaSince(period, row)
  BY <1>2 DEF DeltaSince
<1>9. ASSUME NEW period \in 1 .. month', NEW row \in Rows \ revised'[period]
      PROVE  balance'[row] - DeltaSince(period, row)' = opening'[period][row]
  <2>1. CASE period \in 1 .. month
    <3>1. balance[row] - DeltaSince(period, row) = opening[period][row]
      BY <1>2, <2>1 DEF CountsInv, History
    <3> QED
      BY <1>2, <1>3, <1>8, <2>1, <3>1
  <2>2. CASE period = month'
    <3>1. \A id \in Ids : bookedIn[id] < period
      BY <1>1, <2>2 DEF CountsInv, CountsTypes, Journal
    <3>2. period \in Nat
      BY <1>1
    <3>3. DeltaSince(period, row) = 0
      BY <3>1, <3>2, DeltaSinceFacts DEF CountsInv
    <3>4. balance[row] \in Int
      BY DEF CountsInv, CountsTypes
    <3> QED
      BY <1>2, <1>3, <1>8, <2>2, <3>3, <3>4
  <2> QED
    BY <1>4, <2>1, <2>2
<1>10. ASSUME NEW t \in Triggers PROVE CallFits(t)'
  <2>1. CallFits(t)
    BY DEF CountsInv
  <2> QED
    BY <1>2, <1>3, <1>5, <1>8, <2>1 DEF CallFits, Reading
<1>11. ASSUME NEW period \in Periods PROVE RecordFits(period)'
  <2>1. RecordFits(period)
    BY DEF CountsInv
  <2>2. period <= month => period \in 1 .. month
    BY <1>1 DEF Periods
  <2>3. period <= month => period <= month'
    BY <1>1, <2>2
  <2> QED
    BY <1>2, <1>3, <2>1, <2>2, <2>3 DEF RecordFits
<1>12. History'
  BY <1>9 DEF History
<1> QED
  BY <1>6, <1>7, <1>10, <1>11, <1>12 DEF CountsInv

\* A query of a call, or its end, moves nothing else.
LEMMA QueryKeeps ==
  ASSUME CountsInv, NEW t \in Triggers, NEW c, IsCall(c),
         call' = [call EXCEPT ![t] = c],
         UNCHANGED <<vars, month, bookedIn, opening, revised>>,
         CallFits(t)',
         counts' = [period \in Periods |-> counts'[period]],
         \A period \in Periods : RecordFits(period)'
  PROVE  CountsInv'
<1>1. /\ balance' = balance /\ present' = present /\ stage' = stage
      /\ movements' = movements /\ tainted' = tainted
      /\ month' = month /\ bookedIn' = bookedIn
      /\ opening' = opening /\ revised' = revised
  BY DEF vars, txVars
<1>2. /\ call' = [u \in Triggers |-> call'[u]]
      /\ call'[t] = c
      /\ \A u \in Triggers \ {t} : call'[u] = call[u]
  BY DEF CountsInv, CountsTypes
<1>3. ASSUME NEW u \in Triggers PROVE IsCall(call[u])'
  <2>1. IsCall(call'[u])
    BY <1>2 DEF CountsInv, CountsTypes
  <2> QED
    BY <1>1, <2>1 DEF IsCall
<1>4. CountsTypes'
  BY <1>1, <1>2, <1>3 DEF CountsInv, CountsTypes, JournalProper
<1>5. Journal'
  BY <1>1 DEF CountsInv, Journal
<1>6. ASSUME NEW period, NEW row
      PROVE  DeltaSince(period, row)' = DeltaSince(period, row)
  BY <1>1 DEF DeltaSince
<1>7. History'
  BY <1>1, <1>6 DEF CountsInv, History
<1>8. ASSUME NEW u \in Triggers PROVE CallFits(u)'
  <2>1. CASE u = t
    BY <2>1
  <2>2. CASE u # t
    BY <1>1, <1>2, <1>6, <2>2 DEF CountsInv, CallFits, Reading
  <2> QED
    BY <2>1, <2>2
<1> QED
  BY <1>4, <1>5, <1>7, <1>8 DEF CountsInv

\* The records of the months stay as they are.
LEMMA RecordsStay ==
  ASSUME CountsInv, UNCHANGED <<month, counts, opening, revised>>
  PROVE  /\ counts' = [period \in Periods |-> counts'[period]]
         /\ \A period \in Periods : RecordFits(period)'
  BY DEF CountsInv, CountsTypes, RecordFits

\* A call that begins has read nothing, and no longer matters when it ends.
LEMMA BeginKeeps ==
  ASSUME CountsInv, NEW t \in Triggers, Generate(t) \/ Fail(t)
  PROVE  CountsInv'
<1>1. IsCall(call[t]) /\ month \in Nat \ {0}
  BY CountsAssumption DEF CountsInv, CountsTypes, Periods
<1>2. UNCHANGED <<vars, month, bookedIn, opening, revised, counts>>
  BY DEF Generate, Fail
<1>3. CASE Generate(t)
  <2> DEFINE c == [period |-> month, inventories |-> NoCall.inventories,
                   deltas |-> NoCall.deltas, torn |-> NoCall.torn]
  <2>1. call' = [call EXCEPT ![t] = c]
    <3>1. call[t].period = 0
      BY <1>3 DEF Generate, Reading
    <3>2. call[t] = NoCall
      BY <1>1, <3>1 DEF IsCall
    <3>3. NoCall = [period |-> NoCall.period,
                    inventories |-> NoCall.inventories,
                    deltas |-> NoCall.deltas, torn |-> NoCall.torn]
      BY DEF NoCall
    <3>4. [NoCall EXCEPT !.period = month] = c
      BY <3>3
    <3>5. call' = [call EXCEPT ![t] = [call[t] EXCEPT !.period = month]]
      BY <1>3 DEF Generate, CountsInv, CountsTypes
    <3> QED
      BY <3>2, <3>4, <3>5
  <2>2. IsCall(c)
    BY <1>1 DEF IsCall, NoCall
  <2>3. call'[t] = c
    BY <2>1 DEF CountsInv, CountsTypes
  <2>4. CallFits(t)'
    BY <2>3 DEF CallFits, NoCall
  <2> HIDE DEF c
  <2> QED
    BY <1>2, <2>1, <2>2, <2>4, RecordsStay, QueryKeeps
<1>4. CASE Fail(t)
  <2>1. IsCall(NoCall)
    BY <1>1 DEF IsCall, NoCall
  <2>2. call' = [call EXCEPT ![t] = NoCall] /\ call'[t] = NoCall
    BY <1>4 DEF Fail, CountsInv, CountsTypes
  <2>3. CallFits(t)'
    BY <2>2 DEF CallFits, Reading, NoCall
  <2> QED
    BY <1>2, <2>1, <2>2, <2>3, RecordsStay, QueryKeeps
<1> QED
  BY <1>3, <1>4

\* inventory.findMany answers with the balances of the moment.
LEMMA InventoriesKeep ==
  ASSUME CountsInv, NEW t \in Triggers, ReadInventories(t)
  PROVE  CountsInv'
<1> DEFINE old == call[t]
           c == [period |-> old.period,
                 inventories |-> [row \in present |-> balance[row]],
                 deltas |-> old.deltas, torn |-> old.torn]
<1>1. IsCall(old) /\ old.period # 0 /\ old.inventories = NoCount
  BY DEF CountsInv, CountsTypes, ReadInventories, Reading
<1>2. old.period \in 1 .. month /\ old.period \in Periods
  BY <1>1, CountsAssumption DEF CountsInv, CountsTypes, IsCall, Periods
<1>3. call' = [call EXCEPT ![t] = c]
  <2>1. old = [period |-> old.period, inventories |-> old.inventories,
               deltas |-> old.deltas, torn |-> old.torn]
    BY <1>1 DEF IsCall
  <2>2. [old EXCEPT !.inventories = [row \in present |-> balance[row]]] = c
    BY <2>1
  <2>3. call' = [call EXCEPT ![t] = [old EXCEPT !.inventories = [row \in present |-> balance[row]]]]
    BY DEF ReadInventories, CountsInv, CountsTypes
  <2> QED
    BY <2>2, <2>3
<1>4. /\ UNCHANGED <<vars, month, bookedIn, opening, revised, counts>>
      /\ balance' = balance /\ movements' = movements
  BY DEF ReadInventories, vars, txVars
<1>5. present \subseteq Rows /\ [row \in present |-> balance[row]] \in [present -> Int]
  BY DEF CountsInv, CountsTypes
<1>6. IsCall(c)
  <2>1. IsSnapshot([row \in present |-> balance[row]])
    BY <1>5 DEF IsSnapshot
  <2> QED
    BY <1>1, <2>1 DEF IsCall
<1>7. call'[t] = c
  BY <1>3 DEF CountsInv, CountsTypes
<1>8. \A row \in Rows \ present : opening[old.period][row] = 0
  BY <1>2 DEF CountsInv, Journal
<1>9. ASSUME ~old.torn, old.deltas # NoCount
      PROVE  \A row \in present \ revised[old.period] :
                 balance[row] - old.deltas[row] = opening[old.period][row]
  <2>1. \A row \in Rows : old.deltas[row] = DeltaSince(old.period, row)
    BY <1>1, <1>9 DEF CountsInv, CallFits, Reading
  <2>2. \A row \in Rows \ revised[old.period] :
            balance[row] - DeltaSince(old.period, row) = opening[old.period][row]
    BY <1>2 DEF CountsInv, History
  <2> QED
    BY <1>5, <2>1, <2>2
<1>10. ASSUME ~old.torn, old.deltas # NoCount
       PROVE  \A row \in Rows : old.deltas[row] = DeltaSince(old.period, row)
  BY <1>1, <1>10 DEF CountsInv, CallFits, Reading
<1>11. \A period, row : DeltaSince(period, row)' = DeltaSince(period, row)
  BY <1>4 DEF DeltaSince
<1>12. CallFits(t)'
  BY <1>4, <1>7, <1>8, <1>9, <1>10, <1>11 DEF CallFits
<1> HIDE DEF c
<1> QED
  BY <1>3, <1>4, <1>6, <1>12, RecordsStay, QueryKeeps

\* stockMovement.findMany answers with what the month has moved so far.
LEMMA MovementsKeep ==
  ASSUME CountsInv, NEW t \in Triggers, ReadMovements(t)
  PROVE  CountsInv'
<1> DEFINE old == call[t]
           moved == [row \in Rows |-> DeltaSince(old.period, row)]
           c == [period |-> old.period, inventories |-> old.inventories,
                 deltas |-> moved, torn |-> old.torn]
<1>1. IsCall(old) /\ old.period # 0 /\ old.deltas = NoCount
  BY DEF CountsInv, CountsTypes, ReadMovements, Reading
<1>2. old.period \in 1 .. month /\ old.period \in Periods /\ old.period \in Nat
  BY <1>1, CountsAssumption DEF CountsInv, CountsTypes, IsCall, Periods
<1>3. call' = [call EXCEPT ![t] = c]
  <2>1. old = [period |-> old.period, inventories |-> old.inventories,
               deltas |-> old.deltas, torn |-> old.torn]
    BY <1>1 DEF IsCall
  <2>2. [old EXCEPT !.deltas = moved] = c
    BY <2>1
  <2>3. call' = [call EXCEPT ![t] = [old EXCEPT !.deltas = moved]]
    BY DEF ReadMovements, CountsInv, CountsTypes
  <2> QED
    BY <2>2, <2>3
<1>4. /\ UNCHANGED <<vars, month, bookedIn, opening, revised, counts>>
      /\ balance' = balance /\ movements' = movements
  BY DEF ReadMovements, vars, txVars
<1>5. moved \in [Rows -> Int]
  BY <1>2, DeltaSinceFacts DEF CountsInv
<1>6. IsCall(c)
  BY <1>1, <1>5 DEF IsCall
<1>7. call'[t] = c
  BY <1>3 DEF CountsInv, CountsTypes
<1>8. ASSUME old.inventories # NoCount
      PROVE  /\ DOMAIN old.inventories \subseteq Rows
             /\ \A row \in Rows \ DOMAIN old.inventories :
                    opening[old.period][row] = 0
  BY <1>1, <1>8 DEF CountsInv, CallFits, Reading, IsCall, IsSnapshot
<1>9. ASSUME ~old.torn, old.inventories # NoCount
      PROVE  \A row \in DOMAIN old.inventories :
                 old.inventories[row] = balance[row]
  BY <1>1, <1>9 DEF CountsInv, CallFits, Reading
<1>10. \A row \in Rows \ revised[old.period] :
           balance[row] - moved[row] = opening[old.period][row]
  BY <1>2 DEF CountsInv, History
<1>11. \A period, row : DeltaSince(period, row)' = DeltaSince(period, row)
  BY <1>4 DEF DeltaSince
<1>12. \A row \in Rows : moved[row] = DeltaSince(old.period, row)
  OBVIOUS
<1> HIDE DEF moved
<1>13. CallFits(t)'
  BY <1>4, <1>7, <1>8, <1>9, <1>10, <1>11, <1>12 DEF CallFits
<1> HIDE DEF c
<1> QED
  BY <1>3, <1>4, <1>6, <1>13, RecordsStay, QueryKeeps

\* The record that is inserted is what the call has read.
LEMMA InsertKeeps ==
  ASSUME CountsInv, NEW t \in Triggers, Insert(t)
  PROVE  CountsInv'
<1> DEFINE c == call[t]
           record == [lines |-> Lines(c), torn |-> c.torn]
<1>1. /\ IsCall(c) /\ c.period # 0 /\ c.inventories # NoCount
      /\ c.deltas # NoCount
  BY DEF CountsInv, CountsTypes, Insert, Reading
<1>2. c.period \in 1 .. month /\ c.period \in Periods /\ c.period <= month
  BY <1>1, CountsAssumption DEF CountsInv, CountsTypes, IsCall, Periods
<1>3. UNCHANGED <<vars, month, bookedIn, opening, revised>>
  BY DEF Insert
<1>4. call' = [call EXCEPT ![t] = NoCall] /\ call'[t] = NoCall
  BY DEF Insert, CountsInv, CountsTypes
<1>5. IsCall(NoCall)
  BY CountsAssumption DEF IsCall, NoCall, CountsInv, CountsTypes, Periods
<1>6. CallFits(t)'
  BY <1>4 DEF CallFits, Reading, NoCall
<1>7. counts' = counts \/ counts' = [counts EXCEPT ![c.period] = record]
  BY DEF Insert
<1>8. counts' = [period \in Periods |-> counts'[period]]
  BY <1>7 DEF CountsInv, CountsTypes
<1>9. ASSUME ~record.torn, NEW row \in Rows \ revised[c.period]
      PROVE  IF row \in DOMAIN record.lines
             THEN record.lines[row] = opening[c.period][row]
             ELSE opening[c.period][row] = 0
  BY <1>1, <1>9 DEF CountsInv, CallFits, Reading, Lines
<1> HIDE DEF record
<1>10. ASSUME NEW period \in Periods PROVE RecordFits(period)'
  <2>1. RecordFits(period)
    BY DEF CountsInv
  <2>2. CASE counts'[period] = counts[period]
    BY <1>3, <2>1, <2>2 DEF RecordFits
  <2>3. CASE period = c.period /\ counts'[period] = record
    BY <1>2, <1>3, <1>9, <2>3 DEF RecordFits
  <2> QED
    BY <1>7, <2>2, <2>3 DEF CountsInv, CountsTypes
<1> QED
  BY <1>3, <1>4, <1>5, <1>6, <1>8, <1>10, QueryKeeps

-----------------------------------------------------------------------------
\* Every month opens, at start, with the opening stock.
LEMMA InitCounts == CountsInit => CountsInv
<1> SUFFICES ASSUME CountsInit PROVE CountsInv
  OBVIOUS
<1>1. Init /\ IInv
  BY InitInv DEF CountsInit
<1>2. /\ balance = OpeningStock /\ OpeningStock \in [Rows -> Nat]
      /\ present = {row \in Rows : OpeningStock[row] # 0}
      /\ tainted = {} /\ stage = [r \in Requests |-> "idle"]
      /\ movements = [id \in Ids |-> IF id \in Rows /\ OpeningStock[id] # 0
                                     THEN OpeningMovement(id) ELSE NoMovement]
  BY <1>1, StockAssumption DEF Init, TxInit
<1>3. /\ month = 1 /\ 1 \in Periods
      /\ bookedIn = [id \in Ids |-> 0]
      /\ counts = [period \in Periods |-> NoCount]
      /\ call = [t \in Triggers |-> NoCall]
      /\ opening = [period \in Periods |-> OpeningStock]
      /\ revised = [period \in Periods |-> {}]
  BY <1>2, CountsAssumption DEF CountsInit, Periods
<1>4. IsCall(NoCall)
  BY <1>3 DEF IsCall, NoCall
<1>5. CountsTypes
  <2>1. JournalProper
    BY <1>1 DEF IInv
  <2>2. stage \in [Requests -> Stages]
    BY <1>2 DEF Stages
  <2>3. \A t \in Triggers : IsCall(call[t])
    BY <1>3, <1>4
  <2>4. bookedIn \in [Ids -> Nat]
    BY <1>3
  <2>5. /\ opening \in [Periods -> [Rows -> Int]]
        /\ revised \in [Periods -> SUBSET Rows]
    BY <1>2, <1>3
  <2> QED
    BY <1>2, <1>3, <2>1, <2>2, <2>3, <2>4, <2>5 DEF CountsTypes
<1>6. Journal
  <2>1. \A r \in Requests : movements[r] = NoMovement
    BY <1>2, NamesAssumption DEF Ids
  <2>2. \A id \in Ids : bookedIn[id] <= month
    BY <1>3
  <2>3. \A row \in Rows \ present :
            /\ balance[row] = 0
            /\ \A period \in 1 .. month : opening[period][row] = 0
    BY <1>2, <1>3
  <2> QED
    BY <2>1, <2>2, <2>3 DEF Journal
<1>7. ASSUME NEW period \in 1 .. month, NEW row \in Rows
      PROVE  balance[row] - DeltaSince(period, row) = opening[period][row]
  <2>1. period = 1
    BY <1>3
  <2>2. \A id \in Ids : bookedIn[id] < 1
    BY <1>3
  <2>3. DeltaSince(1, row) = 0
    BY <1>5, <2>2, DeltaSinceFacts
  <2> QED
    BY <1>2, <1>3, <2>1, <2>3
<1>8. History
  BY <1>7 DEF History
<1>9. /\ \A t \in Triggers : CallFits(t)
      /\ \A period \in Periods : RecordFits(period)
  BY <1>3 DEF CallFits, RecordFits, Reading, NoCall
<1> QED
  BY <1>5, <1>6, <1>8, <1>9 DEF CountsInv

LEMMA NextCounts == CountsInv /\ [CountsNext]_countsVars => CountsInv'
<1> SUFFICES ASSUME CountsInv, [CountsNext]_countsVars PROVE CountsInv'
  OBVIOUS
<1>1. ASSUME NEW r \in Requests, Create(r) \/ Update(r) \/ Remove(r)
      PROVE  CountsInv'
  <2>1. \E id, postings, new : /\ Books(r, id, postings, new)
                               /\ Transaction(r, id, postings, new)
    BY <1>1, CreateBooks, UpdateBooks, RemoveBooks
  <2> QED
    BY <2>1, TransactionKeeps
<1>2. CASE NewMonth
  BY <1>2, NewMonthKeeps
<1>3. ASSUME NEW t \in Triggers, \/ Generate(t) \/ ReadInventories(t)
                                 \/ ReadMovements(t) \/ Insert(t) \/ Fail(t)
      PROVE  CountsInv'
  BY <1>3, BeginKeeps, InventoriesKeep, MovementsKeep, InsertKeeps
<1>4. CASE UNCHANGED countsVars
  BY <1>4 DEF countsVars, vars, txVars, CountsInv, CountsTypes, JournalProper,
              IsCall, Journal, History, DeltaSince, CallFits, Reading, RecordFits
<1> QED
  BY <1>1, <1>2, <1>3, <1>4 DEF CountsNext

\* The invariant of the counts.
THEOREM CountsInvariant == CountsSpec => []CountsInv
<1>1. CountsSpec => []CountsInv
  BY InitCounts, NextCounts, PTL DEF CountsSpec
<1> QED
  BY <1>1

\* The opening stock a record plays back from the journal is the stock the
\* month began with, whatever was moved, corrected or removed since, and
\* whenever the record was generated.
THEOREM OpeningIsHistory == CountsSpec => []CleanOpeningIsHistory
<1>1. CountsInv => CleanOpeningIsHistory
  BY DEF CountsInv, CountsTypes, RecordFits, CleanOpeningIsHistory
<1> QED
  BY <1>1, CountsInvariant, PTL

=============================================================================
