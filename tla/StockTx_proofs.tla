---------------------------- MODULE StockTx_proofs ----------------------------
(***************************************************************************)
(* What the steps of the transaction engine preserve, whatever requests    *)
(* run on it: an inductive invariant for the absence of lost updates, and  *)
(* a second one, on top of it, for balances that stay at or above zero.    *)
(* The modules with a specification cite these lemmas, one per step.       *)
(***************************************************************************)
EXTENDS StockTx, SequenceTheorems, SumTheorems, TLAPS

\* A row is written by one transaction at a time.
Exclusive ==
    \A r, other \in Requests :
        r # other => touched[r] \cap touched[other] = {}

\* A request that has a statement to run on a row has the posting for it.
HasPosting ==
    \A r \in Requests : stage[r] \in {"check", "find", "write"} => todo[r] # << >>

\* An uncommitted quantity is the committed one and what the request has
\* added, unless the request computed it from a stale read.
DraftsAgree ==
    \A r \in Requests, row \in Rows :
        /\ row \notin touched[r] => net[r][row] = 0
        /\ row \in touched[r] /\ row \notin dirty[r]
             => draft[r][row] = balance[row] + net[r][row]

BalancesAgree == \A row \in Rows \ tainted : balance[row] = posted[row]

TxInv == TxTypeOK /\ Exclusive /\ HasPosting /\ DraftsAgree /\ BalancesAgree

\* A posting the request still has, and those after it.
LEMMA PostingFacts ==
  ASSUME NEW S, NEW s \in Seq(S), s # << >>
  PROVE  Head(s) \in S /\ Tail(s) \in Seq(S)
  BY HeadTailProperties

\* The stage a request enters has its posting.
LEMMA FirstStageFacts ==
  ASSUME NEW s \in Seq(Posting)
  PROVE  /\ FirstStage(s) \in Stages
         /\ FirstStage(s) \in {"check", "find"} => s # << >>
         /\ FirstStage(s) \in {"check", "find", "journal"}
         /\ FirstStage(s) = "find" => Head(s).guard = "none"
<1>1. CASE s = << >>
  BY <1>1 DEF FirstStage, Stages, InTxStages
<1>2. CASE s # << >>
  <2>1. FirstStage(s) = IF Head(s).guard # "none" THEN "check" ELSE "find"
    BY <1>2 DEF FirstStage
  <2> QED
    BY <1>2, <2>1 DEF Stages, InTxStages
<1> QED
  BY <1>1, <1>2

\* The engine starts in a state of the invariant, from any opening stock.
LEMMA TxInitInv ==
  ASSUME NEW stock \in [Rows -> Int], TxInit(stock)
  PROVE  TxInv
<1>1. TxTypeOK
  BY EmptySeq DEF TxInit, TxTypeOK, Stages
<1> QED
  BY <1>1 DEF TxInit, TxInv, Exclusive, HasPosting, DraftsAgree, BalancesAgree

\* Opening a transaction touches nothing but the plan of the request.
LEMMA BeginInv ==
  ASSUME TxInv, NEW r \in Requests, NEW postings \in Seq(Posting),
         Begin(r, postings)
  PROVE  TxInv'
<1> USE DEF TxInv
<1>1. TxTypeOK'
  BY FirstStageFacts DEF Begin, TxTypeOK
<1>2. HasPosting'
  BY FirstStageFacts DEF Begin, TxTypeOK, HasPosting
<1> QED
  BY <1>1, <1>2 DEF Begin, Exclusive, DraftsAgree, BalancesAgree

\* A rollback leaves the committed state alone and forgets the rest.
LEMMA RollbackInv ==
  ASSUME TxInv, NEW r \in Requests, Rollback(r)
  PROVE  TxInv'
<1> USE DEF TxInv
<1>1. TxTypeOK'
  <2>1. todo' \in [Requests -> Seq(Posting)]
    BY EmptySeq DEF Rollback, TxTypeOK
  <2>2. stage' \in [Requests -> Stages]
    BY DEF Rollback, TxTypeOK, Stages
  <2>3. /\ draft' \in [Requests -> [Rows -> Int]]
        /\ net' \in [Requests -> [Rows -> Int]]
    BY DEF Rollback, TxTypeOK
  <2>4. /\ touched' \in [Requests -> SUBSET Rows]
        /\ dirty' \in [Requests -> SUBSET Rows]
    BY DEF Rollback, TxTypeOK
  <2>5. /\ before' \in [Requests -> Int]
        /\ seen' \in [Requests -> [found : BOOLEAN, quantity : Int]]
    BY DEF Rollback, ForgetReads, TxTypeOK
  <2> QED
    BY <2>1, <2>2, <2>3, <2>4, <2>5 DEF Rollback, TxTypeOK
<1>2. Exclusive'
  BY DEF Rollback, Exclusive, TxTypeOK
<1>3. HasPosting'
  BY DEF Rollback, HasPosting, TxTypeOK
<1>4. DraftsAgree'
  BY DEF Rollback, DraftsAgree, TxTypeOK
<1>5. BalancesAgree'
  BY DEF Rollback, BalancesAgree
<1> QED
  BY <1>1, <1>2, <1>3, <1>4, <1>5

\* The two reads change the locals of the request only.
LEMMA ReadInv ==
  ASSUME TxInv, NEW r \in Requests, GetQuantity(r) \/ FindRow(r)
  PROVE  TxInv'
<1> USE DEF TxInv
<1>1. todo[r] # << >>
  BY DEF HasPosting, GetQuantity, FindRow
<1>2. Head(todo[r]) \in Posting
  BY <1>1, PostingFacts DEF TxTypeOK
<1>3. Quantity(r, Head(todo[r]).row) \in Int
  BY <1>2 DEF Quantity, Posting, TxTypeOK
<1>4. Found(r, Head(todo[r]).row) \in BOOLEAN
  BY DEF Found
<1>5. TxTypeOK'
  <2>1. CASE GetQuantity(r)
    BY <2>1, <1>3 DEF GetQuantity, TxTypeOK, Stages, InTxStages
  <2>2. CASE FindRow(r)
    <3>1. seen' \in [Requests -> [found : BOOLEAN, quantity : Int]]
      BY <2>2, <1>3, <1>4 DEF FindRow, TxTypeOK
    <3>2. stage' \in [Requests -> Stages]
      BY <2>2 DEF FindRow, TxTypeOK, Stages, InTxStages
    <3>3. UNCHANGED <<balance, present, todo, before, draft, touched, net,
                      dirty, posted, tainted>>
      BY <2>2 DEF FindRow
    <3> QED
      BY <3>1, <3>2, <3>3 DEF TxTypeOK
  <2> QED
    BY <2>1, <2>2
<1>6. HasPosting'
  BY <1>1 DEF GetQuantity, FindRow, HasPosting, TxTypeOK
<1> QED
  BY <1>5, <1>6 DEF GetQuantity, FindRow, Exclusive, DraftsAgree, BalancesAgree

\* A write locks its row, and adds its delta to what the row held unless it
\* was computed from a stale read.
LEMMA WriteInv ==
  ASSUME TxInv, NEW r \in Requests, CreateRow(r) \/ UpdateRow(r)
  PROVE  TxInv'
<1> USE DEF TxInv
<1> DEFINE posting == Head(todo[r])
<1>1. todo[r] # << >>
  BY DEF HasPosting, CreateRow, UpdateRow
<1>2. posting \in Posting /\ Tail(todo[r]) \in Seq(Posting)
  BY <1>1, PostingFacts DEF TxTypeOK
<1>3. WriteRow(r) /\ ~LockedByOther(r, posting.row)
  BY DEF CreateRow, UpdateRow
<1>4. NewQuantity(r) \in Int /\ posting.row \in Rows /\ posting.delta \in Int
  BY <1>2 DEF NewQuantity, Posting, TxTypeOK
<1>5. TxTypeOK'
  <2>1. /\ todo' \in [Requests -> Seq(Posting)]
        /\ stage' \in [Requests -> Stages]
    BY <1>2, <1>3, FirstStageFacts DEF WriteRow, TxTypeOK
  <2>2. /\ draft' \in [Requests -> [Rows -> Int]]
        /\ net' \in [Requests -> [Rows -> Int]]
    BY <1>3, <1>4 DEF WriteRow, TxTypeOK
  <2>3. /\ touched' \in [Requests -> SUBSET Rows]
        /\ dirty' \in [Requests -> SUBSET Rows]
    BY <1>3, <1>4 DEF WriteRow, TxTypeOK
  <2> QED
    BY <1>3, <2>1, <2>2, <2>3 DEF WriteRow, TxTypeOK
<1>6. Exclusive'
  BY <1>2, <1>3 DEF WriteRow, Exclusive, LockedByOther, TxTypeOK
<1>7. HasPosting'
  BY <1>2, <1>3, FirstStageFacts DEF WriteRow, HasPosting, TxTypeOK
<1>8. DraftsAgree'
  <2> SUFFICES ASSUME NEW q \in Requests, NEW row \in Rows
               PROVE  /\ row \notin touched'[q] => net'[q][row] = 0
                      /\ row \in touched'[q] /\ row \notin dirty'[q]
                           => draft'[q][row] = balance'[row] + net'[q][row]
    BY DEF DraftsAgree
  <2>1. CASE q # r \/ row # posting.row
    BY <2>1, <1>3, <1>4 DEF WriteRow, DraftsAgree, TxTypeOK
  <2>2. CASE q = r /\ row = posting.row
    <3>1. row \in touched'[r]
      BY <2>2, <1>3 DEF WriteRow, TxTypeOK
    <3>2. ASSUME row \notin dirty'[r]
          PROVE  draft'[r][row] = balance'[row] + net'[r][row]
      <4>1. ~ReadIsStale(r) /\ row \notin dirty[r]
        BY <2>2, <3>2, <1>3 DEF WriteRow, TxTypeOK
      <4>2. seen[r].quantity = Quantity(r, row)
        BY <2>2, <4>1 DEF ReadIsStale
      <4>3. Quantity(r, row) = balance[row] + net[r][row]
        BY <4>1 DEF Quantity, DraftsAgree, TxTypeOK
      <4>4. draft'[r][row] = seen[r].quantity + posting.delta
        BY <2>2, <1>3, <1>4 DEF WriteRow, NewQuantity, TxTypeOK
      <4>5. net'[r][row] = net[r][row] + posting.delta
        BY <2>2, <1>3, <1>4 DEF WriteRow, TxTypeOK
      <4>6. balance' = balance
        BY <1>3 DEF WriteRow
      <4>7. balance[row] \in Int /\ net[r][row] \in Int
        BY DEF TxTypeOK
      <4> QED
        BY <4>2, <4>3, <4>4, <4>5, <4>6, <4>7, <1>4
    <3> QED
      BY <2>2, <3>1, <3>2
  <2> QED
    BY <2>1, <2>2
<1>9. BalancesAgree'
  BY <1>3 DEF WriteRow, BalancesAgree
<1> QED
  BY <1>5, <1>6, <1>7, <1>8, <1>9

\* Every statement of a posting preserves the invariant.
LEMMA TxStepInv ==
  ASSUME TxInv, NEW r \in Requests, TxStep(r)
  PROVE  TxInv'
  BY ReadInv, WriteInv, RollbackInv
     DEF TxStep, Insufficient, DuplicateRow

\* A commit publishes rows nobody else writes, and marks those it computed
\* from stale reads.
LEMMA CommitInv ==
  ASSUME TxInv, NEW r \in Requests, NEW stale \in SUBSET Rows,
         NEW next \in Stages \ InTxStages, CommitTx(r, next, stale)
  PROVE  TxInv'
<1> USE DEF TxInv
<1>1. TxTypeOK'
  BY DEF CommitTx, ForgetReads, TxTypeOK
<1>2. Exclusive'
  BY DEF CommitTx, Exclusive, TxTypeOK
<1>3. HasPosting'
  BY DEF CommitTx, HasPosting, TxTypeOK, InTxStages
<1>4. DraftsAgree'
  <2> SUFFICES ASSUME NEW q \in Requests, NEW row \in Rows
               PROVE  /\ row \notin touched'[q] => net'[q][row] = 0
                      /\ row \in touched'[q] /\ row \notin dirty'[q]
                           => draft'[q][row] = balance'[row] + net'[q][row]
    BY DEF DraftsAgree
  <2>1. CASE q = r
    BY <2>1 DEF CommitTx, TxTypeOK
  <2>2. CASE q # r
    <3>1. /\ touched'[q] = touched[q] /\ net'[q] = net[q]
          /\ draft'[q] = draft[q] /\ dirty'[q] = dirty[q]
      BY <2>2 DEF CommitTx, TxTypeOK
    <3>2. row \in touched[q] => balance'[row] = balance[row]
      BY <2>2 DEF CommitTx, Exclusive
    <3> QED
      BY <3>1, <3>2 DEF DraftsAgree
  <2> QED
    BY <2>1, <2>2
<1>5. BalancesAgree'
  BY DEF CommitTx, BalancesAgree, DraftsAgree, TxTypeOK
<1> QED
  BY <1>1, <1>2, <1>3, <1>4, <1>5

-----------------------------------------------------------------------------
\* A posting that checks what it takes.
SafePosting == {posting \in Posting : posting.delta < 0 => posting.guard = "check"}

SafePlans == todo \in [Requests -> Seq(SafePosting)]

\* A request past its check has read enough.
Checked ==
    \A r \in Requests :
        /\ stage[r] \in {"find", "write"}
        /\ Head(todo[r]).guard = "check"
        => before[r] + Head(todo[r]).delta >= 0

DraftsNonNegative ==
    \A r \in Requests, row \in Rows :
        /\ row \in touched[r] /\ row \notin dirty[r] /\ row \notin tainted
        => draft[r][row] >= 0

BalancesNonNegative == \A row \in Rows \ tainted : balance[row] >= 0

NonNegInv == SafePlans /\ Checked /\ DraftsNonNegative /\ BalancesNonNegative

\* A request that opens a transaction with checked postings keeps the balances
\* at or above zero.
LEMMA BeginNonNeg ==
  ASSUME TxInv, NonNegInv, NEW r \in Requests,
         NEW postings \in Seq(SafePosting), Begin(r, postings)
  PROVE  NonNegInv'
<1> USE DEF NonNegInv
<1>1. postings \in Seq(Posting)
  BY SeqMonotonic DEF SafePosting
<1>2. SafePlans'
  BY DEF Begin, SafePlans, TxInv, TxTypeOK
<1>3. Checked'
  BY <1>1, FirstStageFacts DEF Begin, Checked, TxInv, TxTypeOK
<1> QED
  BY <1>2, <1>3 DEF Begin, DraftsNonNegative, BalancesNonNegative

\* So does a rollback.
LEMMA RollbackNonNeg ==
  ASSUME TxInv, NonNegInv, NEW r \in Requests, Rollback(r)
  PROVE  NonNegInv'
<1> USE DEF NonNegInv
<1>1. SafePlans'
  BY EmptySeq DEF Rollback, SafePlans, TxInv, TxTypeOK
<1>2. Checked'
  BY DEF Rollback, ForgetReads, Checked, TxInv, TxTypeOK
<1>3. DraftsNonNegative'
  BY DEF Rollback, DraftsNonNegative, TxInv, TxTypeOK
<1>4. BalancesNonNegative'
  BY DEF Rollback, BalancesNonNegative
<1> QED
  BY <1>1, <1>2, <1>3, <1>4

\* So does a read: one that checks has passed its check.
LEMMA ReadNonNeg ==
  ASSUME TxInv, NonNegInv, NEW r \in Requests, GetQuantity(r) \/ FindRow(r)
  PROVE  NonNegInv'
<1> USE DEF NonNegInv
<1>1. SafePlans'
  BY DEF GetQuantity, FindRow, SafePlans
<1>2. Checked'
  <2> SUFFICES ASSUME NEW q \in Requests, stage'[q] \in {"find", "write"},
                      Head(todo'[q]).guard = "check"
               PROVE  before'[q] + Head(todo'[q]).delta >= 0
    BY DEF Checked
  <2>1. todo' = todo
    BY DEF GetQuantity, FindRow
  <2>2. CASE q # r
    BY <2>1, <2>2 DEF GetQuantity, FindRow, Checked, TxInv, TxTypeOK
  <2>3. CASE q = r /\ GetQuantity(r)
    BY <2>1, <2>3 DEF GetQuantity, Covers, TxInv, TxTypeOK
  <2>4. CASE q = r /\ FindRow(r)
    BY <2>1, <2>4 DEF FindRow, Checked, TxInv, TxTypeOK
  <2> QED
    BY <2>2, <2>3, <2>4
<1>3. DraftsNonNegative'
  BY DEF GetQuantity, FindRow, DraftsNonNegative
<1>4. BalancesNonNegative'
  BY DEF GetQuantity, FindRow, BalancesNonNegative
<1> QED
  BY <1>1, <1>2, <1>3, <1>4

\* So does a write: the balance it adds to is the one it has checked, unless
\* the row is marked dirty.
LEMMA WriteNonNeg ==
  ASSUME TxInv, NonNegInv, NEW r \in Requests, CreateRow(r) \/ UpdateRow(r)
  PROVE  NonNegInv'
<1> USE DEF NonNegInv
<1> DEFINE posting == Head(todo[r])
<1>1. todo[r] # << >> /\ stage[r] = "write" /\ WriteRow(r)
  BY DEF TxInv, HasPosting, CreateRow, UpdateRow
<1>2. posting \in SafePosting /\ Tail(todo[r]) \in Seq(SafePosting)
  BY <1>1, PostingFacts DEF SafePlans
<1>3. Tail(todo[r]) \in Seq(Posting)
  BY <1>2, SeqMonotonic DEF SafePosting
<1>4. /\ posting.row \in Rows /\ posting.delta \in Int
      /\ posting.delta < 0 => posting.guard = "check"
  BY <1>2 DEF SafePosting, Posting
<1>5. SafePlans'
  BY <1>1, <1>2 DEF WriteRow, SafePlans
<1>6. Checked'
  BY <1>1, <1>3, FirstStageFacts DEF WriteRow, Checked, TxInv, TxTypeOK
<1>7. DraftsNonNegative'
  <2> SUFFICES ASSUME NEW q \in Requests, NEW row \in Rows,
                      row \in touched'[q], row \notin dirty'[q],
                      row \notin tainted'
               PROVE  draft'[q][row] >= 0
    BY DEF DraftsNonNegative
  <2>1. CASE q # r \/ row # posting.row
    BY <2>1, <1>1, <1>4 DEF WriteRow, DraftsNonNegative, TxInv, TxTypeOK
  <2>2. CASE q = r /\ row = posting.row
    <3>1. ~ReadIsStale(r) /\ row \notin dirty[r] /\ row \notin tainted
      BY <2>2, <1>1 DEF WriteRow, TxInv, TxTypeOK
    <3>2. /\ seen[r].quantity = Quantity(r, row)
          /\ posting.guard = "check" => before[r] = Quantity(r, row)
      BY <2>2, <3>1 DEF ReadIsStale
    <3>3. Quantity(r, row) \in Int /\ Quantity(r, row) >= 0
      BY <3>1 DEF Quantity, DraftsNonNegative, BalancesNonNegative, TxInv,
                  TxTypeOK
    <3>4. posting.guard = "check" => before[r] + posting.delta >= 0
      BY <1>1 DEF Checked
    <3>5. draft'[r][row] = seen[r].quantity + posting.delta
      BY <2>2, <1>1, <1>4 DEF WriteRow, NewQuantity, TxInv, TxTypeOK
    <3> QED
      BY <2>2, <3>2, <3>3, <3>4, <3>5, <1>4
  <2> QED
    BY <2>1, <2>2
<1>8. BalancesNonNegative'
  BY <1>1 DEF WriteRow, BalancesNonNegative
<1> QED
  BY <1>5, <1>6, <1>7, <1>8

\* Every statement of a checked posting keeps the balances non-negative.
LEMMA TxStepNonNeg ==
  ASSUME TxInv, NonNegInv, NEW r \in Requests, TxStep(r)
  PROVE  NonNegInv'
  BY ReadNonNeg, WriteNonNeg, RollbackNonNeg
     DEF TxStep, Insufficient, DuplicateRow

\* And so does a commit.
LEMMA CommitNonNeg ==
  ASSUME TxInv, NonNegInv, NEW r \in Requests, NEW stale \in SUBSET Rows,
         NEW next \in Stages \ InTxStages, CommitTx(r, next, stale)
  PROVE  NonNegInv'
<1> USE DEF NonNegInv
<1>1. SafePlans'
  BY DEF CommitTx, SafePlans
<1>2. Checked'
  BY DEF CommitTx, ForgetReads, Checked, InTxStages, TxInv, TxTypeOK
<1>3. DraftsNonNegative'
  BY DEF CommitTx, DraftsNonNegative, TxInv, TxTypeOK
<1>4. BalancesNonNegative'
  BY DEF CommitTx, BalancesNonNegative, DraftsNonNegative, TxInv, TxTypeOK
<1> QED
  BY <1>1, <1>2, <1>3, <1>4

-----------------------------------------------------------------------------
\* The sum of the deltas a sequence of postings has for a row.
DeltaFor(posting, row) == IF posting.row = row THEN posting.delta ELSE 0
Due(s, row) ==
    SumFunctionOnSet([i \in 1 .. Len(s) |-> DeltaFor(s[i], row)], 1 .. Len(s))

\* Its summands are integers.
LEMMA DueSummands ==
  ASSUME NEW s \in Seq(Posting), NEW row \in Rows
  PROVE  /\ Len(s) \in Nat
         /\ IsFiniteSet(1 .. Len(s))
         /\ \A i \in 1 .. Len(s) : DeltaFor(s[i], row) \in Int
<1>1. Len(s) \in Nat /\ \A i \in 1 .. Len(s) : s[i] \in Posting
  BY LenProperties, ElementOfSeq
<1>2. IsFiniteSet(1 .. Len(s))
  BY <1>1, FS_Interval
<1> QED
  BY <1>1, <1>2 DEF DeltaFor, Posting

\* So is the sum.
LEMMA DueInt ==
  ASSUME NEW s \in Seq(Posting), NEW row \in Rows
  PROVE  Due(s, row) \in Int
<1> DEFINE S == 1 .. Len(s)
           F == [i \in S |-> DeltaFor(s[i], row)]
<1>1. IsFiniteSet(S) /\ \A i \in S : F[i] \in Int
  BY DueSummands
<1>2. SumFunctionOnSet(F, S) \in Int
  <2> HIDE DEF S, F
  <2> QED
    BY <1>1, SumInt
<1> QED
  BY <1>2 DEF Due

\* No postings.
LEMMA DueEmpty ==
  ASSUME NEW row
  PROVE  Due(<< >>, row) = 0
<1>1. 1 .. Len(<< >>) = {}
  BY EmptySeq
<1> QED
  BY <1>1, SumEmpty DEF Due

\* One posting.
LEMMA DueOne ==
  ASSUME NEW posting \in Posting, NEW row \in Rows
  PROVE  Due(<< posting >>, row) = DeltaFor(posting, row)
<1> DEFINE F == [i \in {1} |-> DeltaFor(posting, row)]
<1>1. /\ 1 .. Len(<< posting >>) = {1}
      /\ [i \in 1 .. Len(<< posting >>) |-> DeltaFor(<< posting >>[i], row)] = F
  OBVIOUS
<1>2. F[1] = DeltaFor(posting, row) /\ F[1] \in Int
  BY DEF DeltaFor, Posting
<1>3. SumFunctionOnSet(F, {1}) = F[1]
  <2> HIDE DEF F
  <2> QED
    BY <1>2, SumSingleton
<1> QED
  BY <1>1, <1>2, <1>3 DEF Due

\* Postings that follow others.
LEMMA DueConcat ==
  ASSUME NEW s \in Seq(Posting), NEW t \in Seq(Posting), NEW row \in Rows
  PROVE  Due(s \o t, row) = Due(s, row) + Due(t, row)
<1> DEFINE m == Len(s)
           n == Len(t)
           F == [i \in 1 .. m |-> DeltaFor(s[i], row)]
           G == [i \in 1 .. n |-> DeltaFor(t[i], row)]
           H == [i \in 1 .. (m + n) |-> DeltaFor((s \o t)[i], row)]
<1>1. m \in Nat /\ n \in Nat /\ Len(s \o t) = m + n
  BY LenProperties, ConcatProperties
<1>2. \A i \in 1 .. m : F[i] \in Int /\ H[i] = F[i]
  <2> SUFFICES ASSUME NEW i \in 1 .. m PROVE F[i] \in Int /\ H[i] = F[i]
    OBVIOUS
  <2>1. (s \o t)[i] = s[i] /\ i \in 1 .. (m + n)
    BY <1>1, ConcatProperties
  <2> QED
    BY <2>1, DueSummands
<1>3. \A i \in 1 .. n : G[i] \in Int /\ H[m + i] = G[i]
  <2> SUFFICES ASSUME NEW i \in 1 .. n PROVE G[i] \in Int /\ H[m + i] = G[i]
    OBVIOUS
  <2>1. m + i \in 1 .. (m + n) /\ m + i > m /\ (m + i) - m = i
    BY <1>1
  <2>2. (s \o t)[m + i] = t[i]
    BY <1>1, <2>1, ConcatProperties
  <2> QED
    BY <2>1, <2>2, DueSummands
<1>4. SumFunctionOnSet(H, 1 .. (m + n))
        = SumFunctionOnSet(F, 1 .. m) + SumFunctionOnSet(G, 1 .. n)
  <2> DEFINE S == 1 .. (m + n)
  <2>1. m \in Nat /\ n \in Nat /\ S = 1 .. (m + n)
    BY <1>1
  <2> HIDE DEF m, n, F, G, H, S
  <2>2. Follow(F, m, G, n, H)
    BY <1>2, <1>3 DEF Follow
  <2>3. SumFunctionOnSet(H, S)
          = SumFunctionOnSet(F, 1 .. m) + SumFunctionOnSet(G, 1 .. n)
    BY <2>1, <2>2, SumConcat
  <2> QED
    BY <2>3 DEF S
<1> QED
  BY <1>1, <1>4 DEF Due

\* The first posting and the rest.
LEMMA DueTail ==
  ASSUME NEW s \in Seq(Posting), s # << >>, NEW row \in Rows
  PROVE  Due(s, row) = DeltaFor(Head(s), row) + Due(Tail(s), row)
<1>1. Head(s) \in Posting /\ Tail(s) \in Seq(Posting)
  BY PostingFacts
<1>2. s = << Head(s) >> \o Tail(s)
  BY HeadTailProperties
<1>3. << Head(s) >> \in Seq(Posting)
  BY <1>1
<1>4. Due(<< Head(s) >> \o Tail(s), row)
        = Due(<< Head(s) >>, row) + Due(Tail(s), row)
  BY <1>1, <1>3, DueConcat
<1> QED
  BY <1>1, <1>2, <1>4, DueOne

-----------------------------------------------------------------------------
\* A transaction holds rows while it runs, and has written its plan when it
\* comes to its last statement.
PlanInv ==
    \A r \in Requests :
        /\ stage[r] \notin InTxStages => touched[r] = {}
        /\ stage[r] = "journal" => todo[r] = << >>

\* What the commit of a request will have added to a row: what it has written,
\* and what it has still to write.
Owed(r, row) == net[r][row] + Due(todo[r], row)

\* Opening a transaction commits the request to its plan.
LEMMA BeginPlan ==
  ASSUME TxInv, PlanInv, NEW r \in Requests, stage[r] \notin InTxStages,
         NEW postings \in Seq(Posting), Begin(r, postings)
  PROVE  /\ PlanInv'
         /\ \A row \in Rows : Owed(r, row)' = Due(postings, row)
         /\ \A q \in Requests \ {r} : /\ stage'[q] = stage[q]
                                      /\ \A row \in Rows : Owed(q, row)' = Owed(q, row)
<1>1. PlanInv'
  <2>1. FirstStage(postings) \in {"check", "find", "journal"}
    BY FirstStageFacts
  <2>2. FirstStage(postings) = "journal" => postings = << >>
    BY DEF FirstStage
  <2>3. touched[r] = {}
    BY DEF PlanInv
  <2> QED
    BY <2>1, <2>2, <2>3 DEF Begin, PlanInv, TxInv, TxTypeOK, InTxStages
<1>2. ASSUME NEW row \in Rows PROVE Owed(r, row)' = Due(postings, row)
  <2>1. net[r][row] = 0 /\ net' = net /\ todo'[r] = postings
    BY DEF PlanInv, TxInv, TxTypeOK, DraftsAgree, Begin
  <2>2. Due(postings, row) \in Int
    BY DueInt
  <2> QED
    BY <2>1, <2>2 DEF Owed
<1>3. ASSUME NEW q \in Requests \ {r}
      PROVE  /\ stage'[q] = stage[q]
             /\ \A row \in Rows : Owed(q, row)' = Owed(q, row)
  <2>1. net' = net /\ todo'[q] = todo[q] /\ stage'[q] = stage[q]
    BY DEF TxInv, TxTypeOK, Begin
  <2> QED
    BY <2>1 DEF Owed
<1> QED
  BY <1>1, <1>2, <1>3

\* A rollback frees the request of its plan.
LEMMA RollbackPlan ==
  ASSUME TxInv, PlanInv, NEW r \in Requests, Rollback(r)
  PROVE  /\ PlanInv'
         /\ stage'[r] = "failed"
         /\ posted' = posted /\ balance' = balance
         /\ \A q \in Requests \ {r} : /\ stage'[q] = stage[q]
                                      /\ \A row \in Rows : Owed(q, row)' = Owed(q, row)
<1>1. PlanInv'
  BY DEF Rollback, PlanInv, TxInv, TxTypeOK, InTxStages
<1>2. ASSUME NEW q \in Requests \ {r}
      PROVE  /\ stage'[q] = stage[q]
             /\ \A row \in Rows : Owed(q, row)' = Owed(q, row)
  <2>1. net'[q] = net[q] /\ todo'[q] = todo[q] /\ stage'[q] = stage[q]
    BY DEF TxInv, TxTypeOK, Rollback
  <2> QED
    BY <2>1 DEF Owed
<1> QED
  BY <1>1, <1>2 DEF Rollback, TxInv, TxTypeOK

\* A write moves its delta from what is to be written to what is.
LEMMA WritePlan ==
  ASSUME TxInv, PlanInv, NEW r \in Requests, CreateRow(r) \/ UpdateRow(r)
  PROVE  /\ PlanInv'
         /\ \A q \in Requests, row \in Rows : Owed(q, row)' = Owed(q, row)
<1> DEFINE posting == Head(todo[r])
<1>1. todo[r] # << >> /\ WriteRow(r) /\ stage[r] = "write"
  BY DEF TxInv, HasPosting, CreateRow, UpdateRow
<1>2. posting \in Posting /\ Tail(todo[r]) \in Seq(Posting)
  BY <1>1, PostingFacts DEF TxInv, TxTypeOK
<1>3. PlanInv'
  <2>1. FirstStage(Tail(todo[r])) \in {"check", "find", "journal"}
    BY <1>2, FirstStageFacts
  <2>2. FirstStage(Tail(todo[r])) = "journal" => Tail(todo[r]) = << >>
    BY DEF FirstStage
  <2> QED
    BY <1>1, <2>1, <2>2 DEF WriteRow, PlanInv, TxInv, TxTypeOK, InTxStages
<1>4. ASSUME NEW q \in Requests, NEW row \in Rows
      PROVE  Owed(q, row)' = Owed(q, row)
  <2>1. CASE q # r
    <3>1. net'[q] = net[q] /\ todo'[q] = todo[q]
      BY <1>1, <2>1 DEF TxInv, TxTypeOK, WriteRow
    <3> QED
      BY <3>1 DEF Owed
  <2>2. CASE q = r
    <3>1. todo'[r] = Tail(todo[r])
      BY <1>1 DEF TxInv, TxTypeOK, WriteRow
    <3>2. net'[r][row] = net[r][row] + DeltaFor(posting, row)
      <4>1. /\ net \in [Requests -> [Rows -> Int]]
            /\ net' = [net EXCEPT ![r][posting.row] = @ + posting.delta]
            /\ posting.row \in Rows
        BY <1>1, <1>2 DEF TxInv, TxTypeOK, WriteRow, Posting
      <4> HIDE DEF posting
      <4>2. CASE posting.row = row
        BY <4>1, <4>2 DEF DeltaFor
      <4>3. CASE posting.row # row
        BY <4>1, <4>3 DEF DeltaFor
      <4> QED
        BY <4>2, <4>3
    <3>3. Due(todo[r], row) = DeltaFor(posting, row) + Due(Tail(todo[r]), row)
      BY <1>1, DueTail DEF TxInv, TxTypeOK
    <3>4. /\ net[r][row] \in Int /\ DeltaFor(posting, row) \in Int
          /\ Due(Tail(todo[r]), row) \in Int
      <4>1. net[r][row] \in Int
        BY DEF TxInv, TxTypeOK
      <4>2. DeltaFor(posting, row) \in Int
        BY <1>2 DEF DeltaFor, Posting
      <4> QED
        BY <1>2, <4>1, <4>2, DueInt
    <3>5. Owed(r, row)' = net'[r][row] + Due(Tail(todo[r]), row)
      BY <3>1 DEF Owed
    <3> QED
      BY <2>2, <3>2, <3>3, <3>4, <3>5 DEF Owed
  <2> QED
    BY <2>1, <2>2
<1> QED
  BY <1>3, <1>4

\* A statement of a posting keeps the request at its plan, or ends it.
LEMMA TxStepPlan ==
  ASSUME TxInv, PlanInv, NEW r \in Requests, TxStep(r)
  PROVE  /\ PlanInv'
         /\ stage[r] \in InTxStages
         /\ stage'[r] \in InTxStages \cup {"failed"}
         /\ posted' = posted /\ balance' = balance /\ tainted' = tainted
         /\ \A q \in Requests \ {r} : stage'[q] = stage[q]
         /\ \A q \in Requests, row \in Rows :
               stage'[q] # "failed" => Owed(q, row)' = Owed(q, row)
<1>1. CASE GetQuantity(r) \/ FindRow(r)
  <2>1. UNCHANGED <<todo, net, touched, posted, balance, tainted>>
    BY <1>1 DEF GetQuantity, FindRow
  <2>2. /\ stage[r] \in {"check", "find"} /\ stage'[r] \in {"find", "write"}
        /\ \A q \in Requests \ {r} : stage'[q] = stage[q]
    BY <1>1 DEF GetQuantity, FindRow, TxInv, TxTypeOK
  <2>3. PlanInv'
    BY <2>1, <2>2 DEF PlanInv, InTxStages
  <2>4. \A q \in Requests, row \in Rows : Owed(q, row)' = Owed(q, row)
    BY <2>1 DEF Owed
  <2> QED
    BY <2>1, <2>2, <2>3, <2>4 DEF InTxStages
<1>2. CASE Insufficient(r) \/ DuplicateRow(r)
  <2>1. Rollback(r) /\ stage[r] \in InTxStages
    BY <1>2 DEF Insufficient, DuplicateRow, InTxStages
  <2>2. tainted' = tainted
    BY <2>1 DEF Rollback
  <2> QED
    BY <2>1, <2>2, RollbackPlan
<1>3. CASE CreateRow(r) \/ UpdateRow(r)
  <2>1. WriteRow(r) /\ stage[r] = "write" /\ todo[r] # << >>
    BY <1>3 DEF CreateRow, UpdateRow, TxInv, HasPosting
  <2>2. FirstStage(Tail(todo[r])) \in {"check", "find", "journal"}
    BY <2>1, PostingFacts, FirstStageFacts DEF TxInv, TxTypeOK
  <2>3. /\ posted' = posted /\ balance' = balance /\ tainted' = tainted
        /\ stage'[r] \in InTxStages
        /\ \A q \in Requests \ {r} : stage'[q] = stage[q]
    BY <2>1, <2>2 DEF WriteRow, InTxStages, TxInv, TxTypeOK
  <2> QED
    BY <1>3, <2>1, <2>3, WritePlan DEF InTxStages
<1> QED
  BY <1>1, <1>2, <1>3 DEF TxStep

\* A commit adds to every row what the request owed it.
LEMMA CommitPlan ==
  ASSUME TxInv, PlanInv, NEW r \in Requests, stage[r] = "journal",
         NEW stale \in SUBSET Rows, NEW next \in Stages \ InTxStages,
         CommitTx(r, next, stale)
  PROVE  /\ PlanInv'
         /\ stage'[r] = next
         /\ \A row \in Rows : posted'[row] = posted[row] + Owed(r, row)
         /\ tainted \cup stale \subseteq tainted'
         /\ \A q \in Requests \ {r} : /\ stage'[q] = stage[q]
                                      /\ \A row \in Rows : Owed(q, row)' = Owed(q, row)
<1>1. PlanInv'
  BY DEF CommitTx, PlanInv, TxInv, TxTypeOK, InTxStages
<1>2. ASSUME NEW row \in Rows PROVE posted'[row] = posted[row] + Owed(r, row)
  <2>1. Due(todo[r], row) = 0
    BY DueEmpty DEF PlanInv
  <2> QED
    BY <2>1 DEF CommitTx, Owed, TxInv, TxTypeOK
<1>3. ASSUME NEW q \in Requests \ {r}
      PROVE  /\ stage'[q] = stage[q]
             /\ \A row \in Rows : Owed(q, row)' = Owed(q, row)
  <2>1. net'[q] = net[q] /\ todo'[q] = todo[q] /\ stage'[q] = stage[q]
    BY DEF TxInv, TxTypeOK, CommitTx
  <2> QED
    BY <2>1 DEF Owed
<1> QED
  BY <1>1, <1>2, <1>3 DEF CommitTx, TxInv, TxTypeOK

=============================================================================
