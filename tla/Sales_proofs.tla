----------------------------- MODULE Sales_proofs -----------------------------
(***************************************************************************)
(* Sales is proved correct, for any sales, lines, opening stock and number *)
(* of requests: the balances are the opening stock less the sales          *)
(* validated, a balance goes below zero only through a validation that was *)
(* allowed to, a sale worked on one request at a time is settled once, and *)
(* the alerts are the crossings of the reorder point.                      *)
(*                                                                         *)
(* The invariant has five parts.  Base is that of the engine.  BalanceInv  *)
(* relates each validation to its sale: what it has written and has still  *)
(* to write is what the lines take.  NegativeInv keeps a validation at the *)
(* postings of its lines, past their checks.  SettleInv says who works on  *)
(* a sale.  AlertInv says that the map of quantities read holds, for a row *)
(* written from a current read, the committed balance.                     *)
(***************************************************************************)
EXTENDS Sales, StockTx_proofs

\* The stages of a validation belong to a validation.
JobsFit ==
    \A r \in Requests :
        stage[r] \in InTxStages \cup {"notify"} => job[r].kind = "validate"

Base == TxInv /\ PlanInv /\ TypeOK /\ JobsFit

InTx(r) == stage[r] \in InTxStages

\* What a validation has written and has still to write is its sale.
PlansFit ==
    \A r \in Requests, row \in Rows :
        InTx(r) => Owed(r, row) = -Taken(job[r].sale, row)

\* What has been committed is the sales, on every row.
PostedIsSales == \A row \in Rows : posted[row] = OpeningStock[row] - Sold(row)

BalanceInv == PlansFit /\ PostedIsSales

\* The postings of a validation are those of lines of its sale.
PostingsOf(sale, allow) ==
    {LinePostings(sale, allow)[i] : i \in DOMAIN Lines[sale]}
RowsOf(sale) == {Lines[sale][i].row : i \in DOMAIN Lines[sale]}

LinesFit(r) ==
    InTx(r) => /\ todo[r] \in Seq(PostingsOf(job[r].sale, job[r].allow))
               /\ touched[r] \subseteq RowsOf(job[r].sale)

\* A validation past its check has read enough, and has written no less than
\* zero.
Covered(r) ==
    InTx(r) /\ ~job[r].allow =>
       /\ stage[r] \in {"find", "write"} =>
            before[r] + Head(todo[r]).delta >= 0
       /\ \A row \in touched[r] \ dirty[r] : draft[r][row] >= 0

NegativeInv ==
    /\ \A r \in Requests : LinesFit(r) /\ Covered(r)
    /\ CleanNegativeOnlyIfAllowed

On(r, sale) == Working(r) /\ job[r].sale = sale

\* A sale worked on one request at a time is a draft while one works on it.
SettleInv ==
    /\ \A sale \in SaleIds \ overlapped :
          /\ \A r, other \in Requests :
                On(r, sale) /\ On(other, sale) => r = other
          /\ \A r \in Requests : On(r, sale) => status[sale] = "DRAFT"
    /\ SettledOnce

\* A product on the line i only of a sale.
Alone(sale, i) ==
    \A j \in DOMAIN Lines[sale] \ {i} : Lines[sale][j].row # Lines[sale][i].row

Announced(r) ==
    InTx(r) /\ ~job[r].allow =>
       /\ stage[r] \in {"find", "write"} =>
            beforeByProduct[r][Head(todo[r]).row] = before[r]
       /\ \A i \in DOMAIN Lines[job[r].sale] :
            LET line == Lines[job[r].sale][i]
            IN  Alone(job[r].sale, i) /\ line.row \in touched[r] =>
                  /\ net[r][line.row] = -line.quantity
                  /\ line.row \notin dirty[r] =>
                       beforeByProduct[r][line.row] = balance[line.row]

AlertInv == \A r \in Requests : Announced(r)

-----------------------------------------------------------------------------
\* A step of a request outside its transaction leaves the engine alone.
Outside(r, next) ==
    /\ ~InTx(r)
    /\ next \in Stages \ InTxStages
    /\ stage' = [stage EXCEPT ![r] = next]
    /\ UNCHANGED <<balance, present, todo, before, seen, draft, touched, net,
                   dirty, posted, tainted>>

LEMMA OutsideInv ==
  ASSUME TxInv, PlanInv, NEW r \in Requests, NEW next, Outside(r, next)
  PROVE  /\ TxInv' /\ PlanInv'
         /\ stage'[r] = next
         /\ \A q \in Requests \ {r} : stage'[q] = stage[q]
         /\ \A q \in Requests, row \in Rows : Owed(q, row)' = Owed(q, row)
<1> USE DEF Outside, InTx
<1>1. TxTypeOK'
  BY DEF TxInv, TxTypeOK
<1>2. HasPosting'
  BY DEF TxInv, TxTypeOK, HasPosting, InTxStages
<1>3. TxInv'
  BY <1>1, <1>2 DEF TxInv, Exclusive, DraftsAgree, BalancesAgree
<1>4. PlanInv'
  BY DEF PlanInv, TxInv, TxTypeOK, InTxStages
<1>5. \A q \in Requests, row \in Rows : Owed(q, row)' = Owed(q, row)
  BY DEF Owed
<1> QED
  BY <1>3, <1>4, <1>5 DEF TxInv, TxTypeOK

\* The steps of Sales that are outside a transaction.
LEMMA OutsideSteps ==
  ASSUME NEW r \in Requests
  PROVE  /\ \A kind, sale : ReadSale(r, kind, sale) => Outside(r, "checked")
         /\ Notify(r) => Outside(r, "done")
         /\ CommitCancel(r) => Outside(r, "done")
  BY DEF Outside, InTx, InTxStages, Stages, ReadSale, Notify, CommitCancel

\* The lines of a sale.
LEMMA LineFacts ==
  ASSUME NEW sale \in SaleIds
  PROVE  /\ Lines[sale] \in Seq(SaleLine) /\ Len(Lines[sale]) \in Nat
         /\ DOMAIN Lines[sale] = 1 .. Len(Lines[sale])
         /\ IsFiniteSet(DOMAIN Lines[sale])
         /\ DOMAIN Lines[sale] \subseteq Nat
         /\ \A i \in DOMAIN Lines[sale] : /\ Lines[sale][i].row \in Rows
                                          /\ Lines[sale][i].quantity \in Nat \ {0}
<1>1. /\ Lines[sale] \in Seq(SaleLine) /\ Len(Lines[sale]) \in Nat
      /\ DOMAIN Lines[sale] = 1 .. Len(Lines[sale])
  BY LinesAssumption, LenProperties
<1>2. \A i \in DOMAIN Lines[sale] : Lines[sale][i] \in SaleLine
  BY <1>1, ElementOfSeq
<1>3. IsFiniteSet(1 .. Len(Lines[sale]))
  BY <1>1, FS_Interval
<1> QED
  BY <1>1, <1>2, <1>3 DEF SaleLine

\* Their postings are postings.
LEMMA LinePostingFacts ==
  ASSUME NEW sale \in SaleIds, NEW allow \in BOOLEAN
  PROVE  /\ LinePostings(sale, allow) \in Seq(PostingsOf(sale, allow))
         /\ PostingsOf(sale, allow) \subseteq Posting
         /\ LinePostings(sale, allow) \in Seq(Posting)
<1>1. LinePostings(sale, allow)
        \in [1 .. Len(Lines[sale]) -> PostingsOf(sale, allow)]
  BY LineFacts DEF LinePostings, PostingsOf
<1>2. LinePostings(sale, allow) \in Seq(PostingsOf(sale, allow))
  BY <1>1, LineFacts, SeqDef
<1>3. \A i \in DOMAIN Lines[sale] : LinePostings(sale, allow)[i] \in Posting
  BY LineFacts DEF LinePostings, Posting, Guards
<1>4. PostingsOf(sale, allow) \subseteq Posting
  BY <1>3 DEF PostingsOf
<1> QED
  BY <1>2, <1>4, SeqMonotonic

\* The first state.
LEMMA InitBase ==
  Init => Base
<1> SUFFICES ASSUME Init PROVE Base
  OBVIOUS
<1>1. OpeningStock \in [Rows -> Int]
  BY SaleStockAssumption
<1>2. TxInv
  BY <1>1, TxInitInv DEF Init
<1>3. PlanInv
  BY DEF Init, TxInit, PlanInv
<1>4. (CHOOSE sale \in SaleIds : TRUE) \in SaleIds
  BY SaleIdsAssumption
<1>5. TypeOK
  <2>1. job \in [Requests -> Job]
    BY <1>4 DEF Init, Job
  <2>2. /\ status \in [SaleIds -> SaleStatus]
        /\ exits \in [SaleIds -> Nat]
        /\ beforeByProduct \in [Requests -> [Rows -> Int]]
    BY DEF Init, SaleStatus
  <2>3. /\ alerts \in SUBSET (Requests \X Nat)
        /\ overlapped \in SUBSET SaleIds
        /\ allowNegative \in BOOLEAN
    BY DEF Init
  <2> QED
    BY <1>2, <2>1, <2>2, <2>3 DEF TypeOK, TxInv
<1>6. JobsFit
  BY DEF Init, TxInit, JobsFit, InTxStages
<1> QED
  BY <1>2, <1>3, <1>5, <1>6 DEF Base

\* Every step keeps the engine in its invariant and the variables in their
\* types.
LEMMA NextBase ==
  ASSUME Base, [Next]_vars
  PROVE  Base'
<1> USE DEF Base
<1>0. ASSUME UNCHANGED vars PROVE Base'
  BY <1>0 DEF vars, txVars, saleVars, TxInv, TxTypeOK, Exclusive, HasPosting,
              DraftsAgree, BalancesAgree, PlanInv, TypeOK, JobsFit
<1>1. ASSUME NEW sale \in SaleIds, Create(sale) PROVE Base'
  <2>1. UNCHANGED txVars
    BY <1>1 DEF Create
  <2>2. TxInv' /\ PlanInv'
    BY <2>1 DEF txVars, TxInv, TxTypeOK, Exclusive, HasPosting, DraftsAgree,
                BalancesAgree, PlanInv
  <2> QED
    BY <1>1, <2>1, <2>2 DEF Create, txVars, TypeOK, TxInv, SaleStatus, JobsFit
<1>2. ASSUME SetPolicy PROVE Base'
  <2>1. UNCHANGED txVars
    BY <1>2 DEF SetPolicy
  <2>2. TxInv' /\ PlanInv'
    BY <2>1 DEF txVars, TxInv, TxTypeOK, Exclusive, HasPosting, DraftsAgree,
                BalancesAgree, PlanInv
  <2> QED
    BY <1>2, <2>1, <2>2 DEF SetPolicy, txVars, TypeOK, TxInv, JobsFit
<1>3. ASSUME NEW r \in Requests, NEW kind \in {"validate", "cancel"},
             NEW sale \in SaleIds, ReadSale(r, kind, sale)
      PROVE  Base'
  <2>1. TxInv' /\ PlanInv' /\ stage'[r] = "checked"
        /\ \A q \in Requests \ {r} : stage'[q] = stage[q]
    BY <1>3, OutsideSteps, OutsideInv
  <2>2. job' \in [Requests -> Job]
    BY <1>3 DEF ReadSale, TypeOK, Job
  <2>3. TypeOK'
    BY <1>3, <2>1, <2>2 DEF ReadSale, TypeOK, TxInv
  <2>4. JobsFit'
    BY <1>3, <2>1 DEF ReadSale, TypeOK, JobsFit, InTxStages
  <2> QED
    BY <2>1, <2>3, <2>4
<1>4. ASSUME NEW r \in Requests, ReadPolicy(r) PROVE Base'
  <2> DEFINE plan == LinePostings(job[r].sale, allowNegative)
  <2>1. job[r].sale \in SaleIds /\ allowNegative \in BOOLEAN /\ job[r] \in Job
    BY DEF TypeOK, Job
  <2>2. plan \in Seq(Posting) /\ Begin(r, plan) /\ stage[r] \notin InTxStages
    BY <1>4, <2>1, LinePostingFacts DEF ReadPolicy, InTxStages
  <2>3. /\ TxInv' /\ PlanInv'
        /\ \A q \in Requests \ {r} : stage'[q] = stage[q]
    BY <2>2, BeginInv, BeginPlan
  <2>4. job' \in [Requests -> Job]
    BY <1>4, <2>1 DEF ReadPolicy, TypeOK, Job
  <2>5. TypeOK'
    BY <1>4, <2>3, <2>4 DEF ReadPolicy, TypeOK, TxInv
  <2>6. /\ \A q \in Requests \ {r} : job'[q] = job[q]
        /\ job'[r].kind = "validate"
    BY <1>4, <2>1 DEF ReadPolicy, TypeOK, Job
  <2>7. JobsFit'
    BY <2>3, <2>6 DEF JobsFit
  <2> QED
    BY <2>3, <2>5, <2>7
<1>5. ASSUME NEW r \in Requests, LineStep(r) PROVE Base'
  <2>1. TxStep(r)
    BY <1>5 DEF LineStep
  <2>2. /\ TxInv' /\ PlanInv'
        /\ stage[r] \in InTxStages
        /\ \A q \in Requests \ {r} : stage'[q] = stage[q]
    BY <2>1, TxStepInv, TxStepPlan
  <2>3. beforeByProduct' \in [Requests -> [Rows -> Int]]
    <3>1. CASE stage[r] = "check"
      <4>1. Head(todo[r]) \in Posting
        BY <3>1, PostingFacts DEF TxInv, TxTypeOK, HasPosting
      <4>2. before'[r] \in Int
        BY <2>2 DEF TxInv, TxTypeOK
      <4> QED
        BY <1>5, <3>1, <4>1, <4>2 DEF LineStep, TypeOK, Posting
    <3>2. CASE stage[r] # "check"
      BY <1>5, <3>2 DEF LineStep, TypeOK
    <3> QED
      BY <3>1, <3>2
  <2>4. TypeOK'
    BY <1>5, <2>2, <2>3 DEF LineStep, TypeOK, TxInv
  <2>5. JobsFit'
    BY <1>5, <2>2 DEF LineStep, JobsFit
  <2> QED
    BY <2>2, <2>4, <2>5
<1>6. ASSUME NEW r \in Requests, CommitValidate(r) PROVE Base'
  <2>1. /\ stage[r] = "journal" /\ CommitTx(r, "notify", {})
        /\ "notify" \in Stages \ InTxStages /\ {} \in SUBSET Rows
    BY <1>6 DEF CommitValidate, Stages, InTxStages
  <2>2. /\ TxInv' /\ PlanInv'
        /\ \A q \in Requests \ {r} : stage'[q] = stage[q]
    BY <2>1, CommitInv, CommitPlan
  <2>3. TypeOK'
    BY <1>6, <2>2 DEF CommitValidate, TypeOK, TxInv, SaleStatus, Job
  <2>4. JobsFit'
    BY <1>6, <2>1, <2>2 DEF CommitValidate, JobsFit, InTxStages
  <2> QED
    BY <2>2, <2>3, <2>4
<1>7. ASSUME NEW r \in Requests, Notify(r) PROVE Base'
  <2>1. /\ TxInv' /\ PlanInv' /\ stage'[r] = "done"
        /\ \A q \in Requests \ {r} : stage'[q] = stage[q]
    BY <1>7, OutsideSteps, OutsideInv
  <2>2. RupturedLines(r) \subseteq Nat
    <3>1. job[r].sale \in SaleIds
      BY DEF TypeOK, Job
    <3>2. DOMAIN Lines[job[r].sale] \subseteq Nat
      BY <3>1, LineFacts
    <3> QED
      BY <3>2 DEF RupturedLines
  <2>3. TypeOK'
    BY <1>7, <2>1, <2>2 DEF Notify, TypeOK, TxInv
  <2>4. JobsFit'
    BY <1>7, <2>1 DEF Notify, JobsFit, InTxStages
  <2> QED
    BY <2>1, <2>3, <2>4
<1>8. ASSUME NEW r \in Requests, CommitCancel(r) PROVE Base'
  <2>1. /\ TxInv' /\ PlanInv' /\ stage'[r] = "done"
        /\ \A q \in Requests \ {r} : stage'[q] = stage[q]
    BY <1>8, OutsideSteps, OutsideInv
  <2>2. TypeOK'
    BY <1>8, <2>1 DEF CommitCancel, TypeOK, TxInv, SaleStatus, Job
  <2>3. JobsFit'
    BY <1>8, <2>1 DEF CommitCancel, JobsFit, InTxStages
  <2> QED
    BY <2>1, <2>2, <2>3
<1>9. ASSUME NEW r \in Requests, Abort(r) PROVE Base'
  <2>1. Rollback(r) /\ UNCHANGED saleVars
    BY <1>9 DEF Abort, AbortTx
  <2>2. /\ TxInv' /\ PlanInv' /\ stage'[r] = "failed"
        /\ \A q \in Requests \ {r} : stage'[q] = stage[q]
    BY <2>1, RollbackInv, RollbackPlan
  <2> QED
    BY <2>1, <2>2 DEF saleVars, TypeOK, TxInv, JobsFit, InTxStages
<1> QED
  BY <1>0, <1>1, <1>2, <1>3, <1>4, <1>5, <1>6, <1>7, <1>8, <1>9 DEF Next

-----------------------------------------------------------------------------
\* What the line of a sale takes from a row.
TakenBy(sale, row) ==
    [i \in DOMAIN Lines[sale] |-> IF Lines[sale][i].row = row
                                  THEN Lines[sale][i].quantity ELSE 0]

LEMMA TakenFacts ==
  ASSUME NEW sale \in SaleIds, NEW row \in Rows
  PROVE  /\ Taken(sale, row) = SumFunctionOnSet(TakenBy(sale, row),
                                                DOMAIN Lines[sale])
         /\ \A i \in DOMAIN Lines[sale] : TakenBy(sale, row)[i] \in Nat
         /\ Taken(sale, row) \in Nat
<1>1. Taken(sale, row) = SumFunctionOnSet(TakenBy(sale, row), DOMAIN Lines[sale])
  BY DEF Taken, TakenBy
<1>2. \A i \in DOMAIN Lines[sale] : TakenBy(sale, row)[i] \in Nat
  BY LineFacts DEF TakenBy
<1> QED
  BY <1>1, <1>2, LineFacts, SumNat

\* The plan of a validation takes from a row what its lines do.
LEMMA DuePlan ==
  ASSUME NEW sale \in SaleIds, NEW allow \in BOOLEAN, NEW row \in Rows
  PROVE  Due(LinePostings(sale, allow), row) = -Taken(sale, row)
<1> DEFINE plan == LinePostings(sale, allow)
           S == DOMAIN Lines[sale]
           F == TakenBy(sale, row)
           H == [i \in 1 .. Len(plan) |-> DeltaFor(plan[i], row)]
<1>1. 1 .. Len(plan) = S
  BY LineFacts DEF LinePostings
<1>2. \A i \in S : F[i] \in Int /\ H[i] = -F[i]
  <2> SUFFICES ASSUME NEW i \in S PROVE F[i] \in Int /\ H[i] = -F[i]
    OBVIOUS
  <2>1. F[i] \in Nat
    BY TakenFacts
  <2>2. H[i] = DeltaFor(plan[i], row)
    BY <1>1
  <2>3. plan[i].row = Lines[sale][i].row /\ plan[i].delta = -Lines[sale][i].quantity
    BY DEF LinePostings
  <2>4. F[i] = IF Lines[sale][i].row = row THEN Lines[sale][i].quantity ELSE 0
    BY DEF TakenBy
  <2> QED
    BY <2>1, <2>2, <2>3, <2>4 DEF DeltaFor
<1>3. IsFiniteSet(S)
  BY LineFacts
<1>4. SumFunctionOnSet(H, S) = -SumFunctionOnSet(F, S)
  <2> HIDE DEF F, H, S
  <2> QED
    BY <1>2, <1>3, SumNeg
<1>5. Due(plan, row) = SumFunctionOnSet(H, S)
  BY <1>1 DEF Due
<1> QED
  BY <1>4, <1>5, TakenFacts

\* One more validation of a sale.
LEMMA SoldOnceMore ==
  ASSUME TypeOK, NEW sale \in SaleIds, NEW row \in Rows,
         exits' = [exits EXCEPT ![sale] = @ + 1]
  PROVE  Sold(row)' = Sold(row) + Taken(sale, row)
<1> DEFINE E == [s \in SaleIds |-> exits[s] * Taken(s, row)]
           H == [s \in SaleIds |-> exits'[s] * Taken(s, row)]
<1>1. \A s \in SaleIds : exits[s] \in Nat /\ exits'[s] \in Nat
  BY DEF TypeOK
<1>2. \A s \in SaleIds : Taken(s, row) \in Nat
  BY TakenFacts
<1>3. \A e, t \in Nat : e * t \in Int /\ (e + 1) * t = e * t + t
  OBVIOUS
<1>4. \A s \in SaleIds : E[s] \in Int /\ H[s] \in Int
  BY <1>1, <1>2, <1>3
<1>5. \A s \in SaleIds \ {sale} : H[s] = E[s]
  BY DEF TypeOK
<1>6. H[sale] = E[sale] + Taken(sale, row)
  <2>1. exits'[sale] = exits[sale] + 1
    BY DEF TypeOK
  <2> QED
    BY <1>1, <1>2, <1>3, <2>1
<1>7. Sold(row) = SumFunctionOnSet(E, SaleIds)
  BY DEF Sold
<1>8. Sold(row)' = SumFunctionOnSet(H, SaleIds)
  BY DEF Sold, Taken
<1>9. E[sale] \in Int /\ H[sale] \in Int /\ Taken(sale, row) \in Int
  BY <1>2, <1>4
<1> HIDE DEF E, H
<1>10. ChangesAt(E, H, SaleIds, sale)
  BY <1>4, <1>5 DEF ChangesAt
<1>11. SumFunctionOnSet(H, SaleIds)
         = SumFunctionOnSet(E, SaleIds) + (H[sale] - E[sale])
  BY <1>10, SaleIdsAssumption, SumUpdate
<1>12. SumFunctionOnSet(E, SaleIds) \in Int
  BY <1>4, SaleIdsAssumption, SumInt
<1> QED
  BY <1>6, <1>7, <1>8, <1>9, <1>11, <1>12

LEMMA SoldInt ==
  ASSUME TypeOK, NEW row \in Rows
  PROVE  Sold(row) \in Int
<1> DEFINE E == [s \in SaleIds |-> exits[s] * Taken(s, row)]
<1>1. \A s \in SaleIds : exits[s] \in Nat /\ Taken(s, row) \in Nat
  BY TakenFacts DEF TypeOK
<1>2. \A e, t \in Nat : e * t \in Int
  OBVIOUS
<1>3. \A s \in SaleIds : E[s] \in Int
  BY <1>1, <1>2
<1>4. Sold(row) = SumFunctionOnSet(E, SaleIds)
  BY DEF Sold
<1> HIDE DEF E
<1> QED
  BY <1>3, <1>4, SaleIdsAssumption, SumInt

\* A step that ends no validation leaves every account as it is, and any
\* request it takes into a transaction owes its sale.
LEMMA SameSales ==
  ASSUME Base, BalanceInv, UNCHANGED <<posted, exits>>,
         \A q \in Requests : InTx(q)' =>
            \/ /\ InTx(q) /\ job'[q] = job[q]
               /\ \A row \in Rows : Owed(q, row)' = Owed(q, row)
            \/ \A row \in Rows : Owed(q, row)' = -Taken(job'[q].sale, row)
  PROVE  BalanceInv'
<1>1. PlansFit'
  <2> SUFFICES ASSUME NEW q \in Requests, NEW row \in Rows, InTx(q)'
               PROVE  Owed(q, row)' = -Taken(job'[q].sale, row)
    BY DEF PlansFit, Taken
  <2> QED
    BY DEF BalanceInv, PlansFit
<1>2. PostedIsSales'
  <2>1. \A row \in Rows : Sold(row)' = Sold(row)
    BY DEF Sold, Taken
  <2> QED
    BY <2>1 DEF BalanceInv, PostedIsSales
<1> QED
  BY <1>1, <1>2 DEF BalanceInv

LEMMA InitBalance ==
  Init => BalanceInv
<1> SUFFICES ASSUME Init PROVE BalanceInv
  OBVIOUS
<1>1. PlansFit
  BY DEF Init, TxInit, PlansFit, InTx, InTxStages
<1>2. ASSUME NEW row \in Rows PROVE posted[row] = OpeningStock[row] - Sold(row)
  <2> DEFINE E == [s \in SaleIds |-> exits[s] * Taken(s, row)]
  <2>1. \A s \in SaleIds : E[s] = 0
    <3>1. \A s \in SaleIds : exits[s] = 0 /\ Taken(s, row) \in Nat
      BY TakenFacts DEF Init
    <3>2. \A t \in Nat : 0 * t = 0
      OBVIOUS
    <3> QED
      BY <3>1, <3>2
  <2>2. Sold(row) = SumFunctionOnSet(E, SaleIds)
    BY DEF Sold
  <2> HIDE DEF E
  <2>3. Sold(row) = 0
    BY <2>1, <2>2, SaleIdsAssumption, SumZero
  <2> QED
    BY <2>3, SaleStockAssumption DEF Init, TxInit
<1> QED
  BY <1>1, <1>2 DEF BalanceInv, PostedIsSales

\* Every step keeps the accounts.
LEMMA NextBalance ==
  ASSUME Base, BalanceInv, [Next]_vars
  PROVE  BalanceInv'
<1>0. ASSUME UNCHANGED vars PROVE BalanceInv'
  <2>1. \A q \in Requests, row \in Rows : Owed(q, row)' = Owed(q, row)
    BY <1>0 DEF vars, txVars, Owed
  <2> QED
    BY <1>0, <2>1, SameSales DEF vars, txVars, saleVars, InTx
<1>1. ASSUME SetPolicy \/ \E sale \in SaleIds : Create(sale) PROVE BalanceInv'
  <2>1. UNCHANGED <<txVars, job, exits>>
    BY <1>1 DEF SetPolicy, Create
  <2>2. \A q \in Requests, row \in Rows : Owed(q, row)' = Owed(q, row)
    BY <2>1 DEF txVars, Owed
  <2> QED
    BY <2>1, <2>2, SameSales DEF txVars, InTx
<1>2. ASSUME NEW r \in Requests, NEW kind \in {"validate", "cancel"},
             NEW sale \in SaleIds,
             ReadSale(r, kind, sale) \/ Notify(r) \/ CommitCancel(r)
      PROVE  BalanceInv'
  <2>1. PICK next : Outside(r, next)
    BY <1>2, OutsideSteps
  <2>2. /\ stage'[r] \notin InTxStages
        /\ \A q \in Requests \ {r} : stage'[q] = stage[q]
        /\ \A q \in Requests, row \in Rows : Owed(q, row)' = Owed(q, row)
    BY <2>1, OutsideInv DEF Base, Outside
  <2>3. /\ UNCHANGED <<posted, exits>>
        /\ \A q \in Requests \ {r} : job'[q] = job[q]
    BY <1>2 DEF ReadSale, Notify, CommitCancel, Base, TypeOK
  <2> QED
    BY <2>2, <2>3, SameSales DEF InTx
<1>3. ASSUME NEW r \in Requests, ReadPolicy(r) PROVE BalanceInv'
  <2> DEFINE plan == LinePostings(job[r].sale, allowNegative)
  <2>1. job[r].sale \in SaleIds /\ allowNegative \in BOOLEAN /\ job[r] \in Job
    BY DEF Base, TypeOK, Job
  <2>2. plan \in Seq(Posting) /\ Begin(r, plan) /\ stage[r] \notin InTxStages
    BY <1>3, <2>1, LinePostingFacts DEF ReadPolicy, InTxStages
  <2>3. /\ \A row \in Rows : Owed(r, row)' = Due(plan, row)
        /\ \A q \in Requests \ {r} :
              /\ stage'[q] = stage[q]
              /\ \A row \in Rows : Owed(q, row)' = Owed(q, row)
    BY <2>2, BeginPlan DEF Base
  <2>4. /\ job'[r].sale = job[r].sale
        /\ \A q \in Requests \ {r} : job'[q] = job[q]
        /\ UNCHANGED <<posted, exits>>
    BY <1>3, <2>1 DEF ReadPolicy, Begin, Base, TypeOK, Job
  <2>5. \A row \in Rows : Owed(r, row)' = -Taken(job'[r].sale, row)
    BY <2>1, <2>3, <2>4, DuePlan
  <2> QED
    BY <2>3, <2>4, <2>5, SameSales DEF InTx
<1>4. ASSUME NEW r \in Requests, LineStep(r) PROVE BalanceInv'
  <2>1. TxStep(r) /\ UNCHANGED <<job, exits>>
    BY <1>4 DEF LineStep
  <2>2. /\ stage[r] \in InTxStages
        /\ posted' = posted
        /\ \A q \in Requests \ {r} : stage'[q] = stage[q]
        /\ \A q \in Requests, row \in Rows :
              stage'[q] # "failed" => Owed(q, row)' = Owed(q, row)
    BY <2>1, TxStepPlan DEF Base
  <2>3. "failed" \notin InTxStages
    BY DEF InTxStages
  <2> QED
    BY <2>1, <2>2, <2>3, SameSales DEF InTx
<1>5. ASSUME NEW r \in Requests, CommitValidate(r) PROVE BalanceInv'
  <2>1. /\ stage[r] = "journal" /\ CommitTx(r, "notify", {})
        /\ "notify" \in Stages \ InTxStages /\ {} \in SUBSET Rows
        /\ UNCHANGED job /\ exits' = [exits EXCEPT ![job[r].sale] = @ + 1]
    BY <1>5 DEF CommitValidate, Stages, InTxStages
  <2>2. /\ stage'[r] = "notify"
        /\ \A row \in Rows : posted'[row] = posted[row] + Owed(r, row)
        /\ \A q \in Requests \ {r} :
              /\ stage'[q] = stage[q]
              /\ \A row \in Rows : Owed(q, row)' = Owed(q, row)
    BY <2>1, CommitPlan DEF Base
  <2>3. job[r].sale \in SaleIds /\ TypeOK
    BY DEF Base, TypeOK, Job
  <2>4. PlansFit'
    <3> SUFFICES ASSUME NEW q \in Requests, NEW row \in Rows, InTx(q)'
                 PROVE  Owed(q, row)' = -Taken(job'[q].sale, row)
      BY DEF PlansFit, Taken
    <3>1. q # r
      BY <2>1, <2>2 DEF InTx
    <3> QED
      BY <2>1, <2>2, <3>1 DEF BalanceInv, PlansFit, InTx
  <2>5. ASSUME NEW row \in Rows
        PROVE  posted'[row] = OpeningStock[row] - Sold(row)'
    <3>1. Sold(row)' = Sold(row) + Taken(job[r].sale, row)
      BY <2>1, <2>3, SoldOnceMore
    <3>2. Owed(r, row) = -Taken(job[r].sale, row)
      BY <2>1 DEF BalanceInv, PlansFit, InTx, InTxStages
    <3>3. posted[row] = OpeningStock[row] - Sold(row)
      BY DEF BalanceInv, PostedIsSales
    <3>4. /\ Sold(row) \in Int /\ Taken(job[r].sale, row) \in Int
          /\ OpeningStock[row] \in Int
      BY <2>3, SoldInt, TakenFacts, SaleStockAssumption
    <3> QED
      BY <2>2, <3>1, <3>2, <3>3, <3>4
  <2> QED
    BY <2>4, <2>5 DEF BalanceInv, PostedIsSales
<1>6. ASSUME NEW r \in Requests, Abort(r) PROVE BalanceInv'
  <2>1. Rollback(r) /\ UNCHANGED <<job, exits>>
    BY <1>6 DEF Abort, AbortTx, saleVars
  <2>2. /\ stage'[r] = "failed" /\ posted' = posted
        /\ \A q \in Requests \ {r} :
              /\ stage'[q] = stage[q]
              /\ \A row \in Rows : Owed(q, row)' = Owed(q, row)
    BY <2>1, RollbackPlan DEF Base
  <2>3. "failed" \notin InTxStages
    BY DEF InTxStages
  <2> QED
    BY <2>1, <2>2, <2>3, SameSales DEF InTx
<1>7. (\E r \in Requests : Notify(r) \/ CommitCancel(r)) => BalanceInv'
  BY <1>2, SaleIdsAssumption
<1> QED
  BY <1>0, <1>1, <1>2, <1>3, <1>4, <1>5, <1>6, <1>7 DEF Next

-----------------------------------------------------------------------------
\* A step of a request leaves the locals of the others alone.
StepOf(r) ==
    \/ \E kind \in {"validate", "cancel"}, sale \in SaleIds :
         ReadSale(r, kind, sale)
    \/ ReadPolicy(r)
    \/ LineStep(r)
    \/ CommitValidate(r)
    \/ Notify(r)
    \/ CommitCancel(r)
    \/ Abort(r)

Same(q) ==
    /\ stage'[q] = stage[q] /\ job'[q] = job[q] /\ todo'[q] = todo[q]
    /\ touched'[q] = touched[q] /\ before'[q] = before[q]
    /\ draft'[q] = draft[q] /\ dirty'[q] = dirty[q] /\ net'[q] = net[q]
    /\ beforeByProduct'[q] = beforeByProduct[q]

LEMMA OthersSame ==
  ASSUME Base, NEW r \in Requests, StepOf(r), NEW q \in Requests \ {r}
  PROVE  Same(q)
<1> USE DEF Base, TypeOK, TxTypeOK, Same
<1>1. CASE \E kind \in {"validate", "cancel"}, sale \in SaleIds :
             ReadSale(r, kind, sale)
  BY <1>1 DEF ReadSale
<1>2. CASE ReadPolicy(r)
  BY <1>2 DEF ReadPolicy, Begin
<1>3. CASE LineStep(r)
  <2>1. job' = job /\ beforeByProduct'[q] = beforeByProduct[q]
    BY <1>3 DEF LineStep
  <2>2. CASE GetQuantity(r) \/ FindRow(r)
    BY <2>1, <2>2 DEF GetQuantity, FindRow
  <2>3. CASE Insufficient(r) \/ DuplicateRow(r)
    BY <2>1, <2>3 DEF Insufficient, DuplicateRow, Rollback, ForgetReads
  <2>4. CASE CreateRow(r) \/ UpdateRow(r)
    BY <2>1, <2>4 DEF CreateRow, UpdateRow, WriteRow
  <2> QED
    BY <1>3, <2>2, <2>3, <2>4 DEF LineStep, TxStep
<1>4. CASE CommitValidate(r)
  BY <1>4 DEF CommitValidate, CommitTx, ForgetReads
<1>5. CASE Notify(r)
  BY <1>5 DEF Notify
<1>6. CASE CommitCancel(r)
  BY <1>6 DEF CommitCancel
<1>7. CASE Abort(r)
  BY <1>7 DEF Abort, AbortTx, Rollback, ForgetReads, saleVars
<1> QED
  BY <1>1, <1>2, <1>3, <1>4, <1>5, <1>6, <1>7 DEF StepOf

\* The committed balances change with a validation only.
LEMMA OnlyCommits ==
  ASSUME Base, NEW r \in Requests, StepOf(r), ~CommitValidate(r)
  PROVE  UNCHANGED <<balance, tainted>>
<1>1. CASE LineStep(r)
  BY <1>1, TxStepPlan DEF LineStep, Base
<1>2. CASE ~LineStep(r)
  BY <1>2 DEF StepOf, ReadSale, ReadPolicy, Begin, Notify, CommitCancel, Abort,
              AbortTx, Rollback
<1> QED
  BY <1>1, <1>2

\* The end of a validation keeps what it has read of the policy.
LEMMA EndStays ==
  ASSUME Base, NEW r \in Requests, StepOf(r), stage[r] \in {"notify", "done"}
  PROVE  stage'[r] \in {"notify", "done"} /\ job'[r] = job[r]
<1>1. ~LineStep(r) /\ ~CommitValidate(r) /\ ~Abort(r)
  BY TxStepPlan DEF LineStep, CommitValidate, Abort, AbortTx, InTxStages, Base
<1>2. Notify(r)
  BY <1>1 DEF StepOf, ReadSale, ReadPolicy, CommitCancel
<1> QED
  BY <1>2 DEF Notify, Base, TxInv, TxTypeOK

\* The postings of a sale: what they take, where and how.
LEMMA PostingOfFacts ==
  ASSUME NEW sale \in SaleIds, NEW allow \in BOOLEAN,
         NEW posting \in PostingsOf(sale, allow)
  PROVE  /\ posting \in Posting
         /\ posting.guard = IF allow THEN "read" ELSE "check"
         /\ posting.row \in Rows /\ posting.delta \in Int
         /\ \E i \in DOMAIN Lines[sale] :
               /\ posting.row = Lines[sale][i].row
               /\ posting.delta = -Lines[sale][i].quantity
<1>1. PICK i \in DOMAIN Lines[sale] : posting = LinePostings(sale, allow)[i]
  BY DEF PostingsOf
<1>2. /\ posting.row = Lines[sale][i].row
      /\ posting.delta = -Lines[sale][i].quantity
      /\ posting.guard = IF allow THEN "read" ELSE "check"
  BY <1>1 DEF LinePostings
<1>3. posting \in Posting
  BY LinePostingFacts
<1> QED
  BY <1>1, <1>2, <1>3 DEF Posting

\* A sale takes something from the rows of its lines.
LEMMA LineTakes ==
  ASSUME NEW sale \in SaleIds, NEW row \in RowsOf(sale)
  PROVE  Taken(sale, row) > 0
<1>1. PICK i \in DOMAIN Lines[sale] : Lines[sale][i].row = row
  BY DEF RowsOf
<1>2. row \in Rows /\ TakenBy(sale, row)[i] = Lines[sale][i].quantity
  BY <1>1, LineFacts DEF TakenBy
<1> DEFINE S == DOMAIN Lines[sale]
           F == TakenBy(sale, row)
<1>3. IsFiniteSet(S) /\ \A j \in S : F[j] \in Nat
  BY <1>2, LineFacts, TakenFacts
<1>4. F[i] <= SumFunctionOnSet(F, S)
  <2> HIDE DEF F, S
  <2> QED
    BY <1>1, <1>3, SumBound DEF S
<1>5. /\ Taken(sale, row) = SumFunctionOnSet(F, S) /\ Taken(sale, row) \in Nat
      /\ Lines[sale][i].quantity \in Nat \ {0}
  BY <1>1, <1>2, LineFacts, TakenFacts
<1> QED
  BY <1>2, <1>4, <1>5

\* The rows below zero stay explained while the balances do not change.
LEMMA NegativeStays ==
  ASSUME Base, CleanNegativeOnlyIfAllowed, UNCHANGED <<balance, tainted>>,
         \A q \in Requests : stage[q] \in {"notify", "done"} =>
            stage'[q] \in {"notify", "done"} /\ job'[q] = job[q]
  PROVE  CleanNegativeOnlyIfAllowed'
<1> SUFFICES ASSUME NEW row \in Rows \ tainted', balance'[row] < 0
             PROVE  \E q \in Requests :
                       /\ job'[q].kind = "validate" /\ job'[q].allow
                       /\ stage'[q] \in {"notify", "done"}
                       /\ Taken(job'[q].sale, row) > 0
  BY DEF CleanNegativeOnlyIfAllowed, Taken
<1>1. PICK q \in Requests : /\ job[q].kind = "validate" /\ job[q].allow
                            /\ stage[q] \in {"notify", "done"}
                            /\ Taken(job[q].sale, row) > 0
  BY DEF CleanNegativeOnlyIfAllowed
<1>2. stage'[q] \in {"notify", "done"} /\ job'[q] = job[q]
  BY <1>1
<1> QED
  BY <1>1, <1>2

LEMMA InitNegative ==
  Init => NegativeInv
<1> SUFFICES ASSUME Init PROVE NegativeInv
  OBVIOUS
<1>1. \A r \in Requests : LinesFit(r) /\ Covered(r)
  BY DEF Init, TxInit, LinesFit, Covered, InTx, InTxStages
<1>2. CleanNegativeOnlyIfAllowed
  <2>1. \A row \in Rows : balance[row] \in Nat
    BY SaleStockAssumption DEF Init, TxInit
  <2>2. \A n \in Nat : ~(n < 0)
    OBVIOUS
  <2> QED
    BY <2>1, <2>2 DEF CleanNegativeOnlyIfAllowed
<1> QED
  BY <1>1, <1>2 DEF NegativeInv

\* Under the policy that forbids it, a line begins with its check.
LEMMA CheckedFirst ==
  ASSUME NEW sale \in SaleIds, NEW allow \in BOOLEAN, ~allow,
         NEW s \in Seq(PostingsOf(sale, allow))
  PROVE  FirstStage(s) \notin {"find", "write"}
<1>1. CASE s = << >>
  BY <1>1 DEF FirstStage
<1>2. CASE s # << >>
  <2>1. Head(s) \in PostingsOf(sale, allow)
    BY <1>2, PostingFacts
  <2>2. Head(s).guard = "check"
    BY <2>1, PostingOfFacts
  <2> QED
    BY <1>2, <2>2 DEF FirstStage
<1> QED
  BY <1>1, <1>2

\* A statement of a line keeps the validation at the lines of its sale.
LEMMA LineStepFits ==
  ASSUME Base, NEW r \in Requests, LinesFit(r), Covered(r), LineStep(r)
  PROVE  LinesFit(r)' /\ Covered(r)'
<1>1. TxStep(r) /\ job' = job /\ InTx(r) /\ Base'
  BY TxStepPlan, NextBase DEF LineStep, Base, InTx, Next
<1>2. job[r].sale \in SaleIds /\ job[r].allow \in BOOLEAN
  BY DEF Base, TypeOK, Job
<1> DEFINE lines == PostingsOf(job[r].sale, job[r].allow)
           posting == Head(todo[r])
<1>3. todo[r] \in Seq(lines) /\ touched[r] \subseteq RowsOf(job[r].sale)
  BY <1>1 DEF LinesFit
<1>4. CASE Insufficient(r) \/ DuplicateRow(r)
  <2>1. stage'[r] = "failed"
    BY <1>4, RollbackPlan DEF Insufficient, DuplicateRow, Base
  <2> QED
    BY <2>1 DEF LinesFit, Covered, InTx, InTxStages
<1>5. CASE GetQuantity(r)
  <2>1. /\ todo' = todo /\ touched' = touched /\ draft' = draft
        /\ dirty' = dirty
        /\ before'[r] = Quantity(r, posting.row) /\ stage[r] = "check"
        /\ Covers(Quantity(r, posting.row), posting)
    BY <1>5 DEF GetQuantity, Base, TypeOK, TxTypeOK
  <2>2. LinesFit(r)'
    BY <1>1, <1>3, <2>1 DEF LinesFit
  <2>3. posting \in lines
    BY <1>3, <2>1, PostingFacts DEF Base, TxInv, HasPosting
  <2>4. ~job[r].allow => before'[r] + posting.delta >= 0
    BY <1>2, <2>1, <2>3, PostingOfFacts DEF Covers
  <2> QED
    BY <1>1, <2>1, <2>2, <2>4 DEF Covered
<1>6. CASE FindRow(r)
  <2>1. /\ todo' = todo /\ touched' = touched /\ draft' = draft
        /\ dirty' = dirty /\ before' = before /\ stage[r] = "find"
    BY <1>6 DEF FindRow
  <2> QED
    BY <1>1, <1>3, <2>1 DEF LinesFit, Covered
<1>7. CASE CreateRow(r) \/ UpdateRow(r)
  <2>1. WriteRow(r) /\ stage[r] = "write" /\ todo[r] # << >>
    BY <1>7 DEF CreateRow, UpdateRow, Base, TxInv, HasPosting
  <2>2. posting \in lines /\ Tail(todo[r]) \in Seq(lines)
    BY <1>3, <2>1, PostingFacts
  <2>3. /\ posting \in Posting /\ posting.row \in Rows /\ posting.delta \in Int
        /\ posting.guard = IF job[r].allow THEN "read" ELSE "check"
        /\ posting.row \in RowsOf(job[r].sale)
    BY <1>2, <2>2, PostingOfFacts DEF RowsOf
  <2>4. /\ todo'[r] = Tail(todo[r])
        /\ touched'[r] = touched[r] \cup {posting.row}
        /\ stage'[r] = FirstStage(Tail(todo[r]))
        /\ draft'[r] = [draft[r] EXCEPT ![posting.row] = NewQuantity(r)]
        /\ dirty'[r] = IF ReadIsStale(r) THEN dirty[r] \cup {posting.row}
                                         ELSE dirty[r]
    BY <2>1 DEF WriteRow, Base, TypeOK, TxTypeOK
  <2>5. LinesFit(r)'
    BY <1>1, <1>3, <2>2, <2>3, <2>4 DEF LinesFit
  <2>6. ~job[r].allow => stage'[r] \notin {"find", "write"}
    BY <1>2, <2>2, <2>4, CheckedFirst
  <2>7. ASSUME ~job[r].allow, NEW row \in touched'[r] \ dirty'[r]
        PROVE  draft'[r][row] >= 0
    <3>1. CASE row # posting.row
      <4>1. row \in touched[r] \ dirty[r] /\ row \in Rows
        BY <2>4, <2>7, <3>1 DEF Base, TypeOK, TxTypeOK
      <4>2. draft'[r][row] = draft[r][row]
        BY <2>4, <3>1, <4>1 DEF Base, TypeOK, TxTypeOK
      <4> QED
        BY <1>1, <2>7, <4>1, <4>2 DEF Covered
    <3>2. CASE row = posting.row
      <4>1. ~ReadIsStale(r)
        BY <2>4, <2>7, <3>2
      <4>2. seen[r].quantity = before[r]
        BY <2>3, <2>7, <4>1 DEF ReadIsStale
      <4>3. draft'[r][row] = seen[r].quantity + posting.delta
        BY <2>3, <2>4, <3>2 DEF NewQuantity, Base, TypeOK, TxTypeOK
      <4>4. before[r] + posting.delta >= 0
        BY <1>1, <2>1, <2>7 DEF Covered
      <4> QED
        BY <4>2, <4>3, <4>4
    <3> QED
      BY <3>1, <3>2
  <2> QED
    BY <1>1, <2>5, <2>6, <2>7 DEF Covered
<1> QED
  BY <1>1, <1>4, <1>5, <1>6, <1>7 DEF TxStep

\* So does every other step of its request.
LEMMA StepFits ==
  ASSUME Base, NEW r \in Requests, LinesFit(r), Covered(r), StepOf(r)
  PROVE  LinesFit(r)' /\ Covered(r)'
<1>1. CASE ReadPolicy(r)
  <2> DEFINE plan == LinePostings(job[r].sale, allowNegative)
  <2>1. job[r].sale \in SaleIds /\ allowNegative \in BOOLEAN /\ job[r] \in Job
    BY DEF Base, TypeOK, Job
  <2>2. job'[r].sale = job[r].sale /\ job'[r].allow = allowNegative
    BY <1>1, <2>1 DEF ReadPolicy, Base, TypeOK, Job
  <2>3. /\ todo'[r] = plan /\ stage'[r] = FirstStage(plan)
        /\ touched'[r] = touched[r] /\ stage[r] = "checked"
    BY <1>1 DEF ReadPolicy, Begin, Base, TypeOK, TxTypeOK
  <2>4. touched[r] = {}
    BY <2>3 DEF Base, PlanInv, InTxStages
  <2>5. plan \in Seq(PostingsOf(job[r].sale, allowNegative))
    BY <2>1, LinePostingFacts
  <2>6. LinesFit(r)'
    <3>1. PostingsOf(job[r].sale, job[r].allow)'
            = PostingsOf(job[r].sale, allowNegative)
      BY <2>2 DEF PostingsOf, LinePostings
    <3> QED
      BY <2>3, <2>4, <2>5, <3>1 DEF LinesFit
  <2>7. ~allowNegative => stage'[r] \notin {"find", "write"}
    BY <2>1, <2>3, <2>5, CheckedFirst
  <2> QED
    BY <2>2, <2>3, <2>4, <2>6, <2>7 DEF Covered
<1>2. CASE LineStep(r)
  BY <1>2, LineStepFits
<1>3. CASE ~ReadPolicy(r) /\ ~LineStep(r)
  <2>1. stage'[r] \notin InTxStages
    BY <1>3 DEF StepOf, ReadSale, CommitValidate, CommitTx, Notify,
                CommitCancel, Abort, AbortTx, Rollback, Base, TypeOK, TxTypeOK,
                InTxStages
  <2> QED
    BY <2>1 DEF LinesFit, Covered, InTx
<1> QED
  BY <1>1, <1>2, <1>3

\* And those of the other requests.
LEMMA SameFits ==
  ASSUME NEW q \in Requests, LinesFit(q), Covered(q), Same(q)
  PROVE  LinesFit(q)' /\ Covered(q)'
  BY DEF Same, LinesFit, Covered, InTx, PostingsOf, LinePostings, RowsOf

\* Only a validation that read the policy while it allowed it commits a row
\* below zero.
LEMMA CommitNegative ==
  ASSUME Base, NegativeInv, NEW r \in Requests, CommitValidate(r)
  PROVE  CleanNegativeOnlyIfAllowed'
<1>1. /\ stage[r] = "journal" /\ CommitTx(r, "notify", {}) /\ job' = job
      /\ InTx(r) /\ job[r].kind = "validate"
  BY DEF CommitValidate, InTx, InTxStages, Base, JobsFit
<1>2. /\ stage' = [stage EXCEPT ![r] = "notify"]
      /\ tainted' = tainted \cup dirty[r]
      /\ \A row \in Rows : balance'[row] = IF row \in touched[r]
                                           THEN draft[r][row] ELSE balance[row]
  BY <1>1 DEF CommitTx
<1>3. job[r].sale \in SaleIds /\ job[r].allow \in BOOLEAN
  BY DEF Base, TypeOK, Job
<1> SUFFICES ASSUME NEW row \in Rows \ tainted', balance'[row] < 0
             PROVE  \E q \in Requests :
                       /\ job'[q].kind = "validate" /\ job'[q].allow
                       /\ stage'[q] \in {"notify", "done"}
                       /\ Taken(job'[q].sale, row) > 0
  BY DEF CleanNegativeOnlyIfAllowed, Taken
<1>4. CASE row \in touched[r]
  <2>1. row \in RowsOf(job[r].sale)
    BY <1>1, <1>4 DEF NegativeInv, LinesFit
  <2>2. Taken(job[r].sale, row) > 0
    BY <1>3, <2>1, LineTakes
  <2>3. job[r].allow
    <3>1. draft[r][row] < 0 /\ row \notin dirty[r]
      BY <1>2, <1>4
    <3>2. draft[r][row] \in Int
      BY DEF Base, TypeOK, TxTypeOK
    <3>3. ~job[r].allow => draft[r][row] >= 0
      BY <1>1, <1>4, <3>1 DEF NegativeInv, Covered
    <3> QED
      BY <3>1, <3>2, <3>3
  <2>4. stage'[r] = "notify"
    BY <1>2 DEF Base, TypeOK, TxTypeOK
  <2> QED
    BY <1>1, <2>2, <2>3, <2>4
<1>5. CASE row \notin touched[r]
  <2>1. balance[row] < 0 /\ row \in Rows \ tainted
    BY <1>2, <1>5
  <2>2. PICK q \in Requests : /\ job[q].kind = "validate" /\ job[q].allow
                              /\ stage[q] \in {"notify", "done"}
                              /\ Taken(job[q].sale, row) > 0
    BY <2>1 DEF NegativeInv, CleanNegativeOnlyIfAllowed
  <2>3. stage'[q] \in {"notify", "done"}
    BY <1>2, <2>2 DEF Base, TypeOK, TxTypeOK
  <2> QED
    BY <1>1, <2>2, <2>3
<1> QED
  BY <1>4, <1>5

\* A step that is no request's, or no step at all.
LEMMA NextCases ==
  ASSUME [Next]_vars
  PROVE  \/ \E r \in Requests : StepOf(r)
         \/ /\ UNCHANGED <<txVars, job, beforeByProduct, exits, overlapped>>
            /\ UNCHANGED status \/ \E sale \in SaleIds : Create(sale)
  BY DEF Next, StepOf, Create, SetPolicy, vars, saleVars

LEMMA NextNegative ==
  ASSUME Base, NegativeInv, [Next]_vars
  PROVE  NegativeInv'
<1>1. ASSUME NEW r \in Requests, StepOf(r) PROVE NegativeInv'
  <2>1. ASSUME NEW q \in Requests PROVE LinesFit(q)' /\ Covered(q)'
    <3>1. LinesFit(q) /\ Covered(q)
      BY DEF NegativeInv
    <3> QED
      BY <1>1, <3>1, StepFits, OthersSame, SameFits
  <2>2. CleanNegativeOnlyIfAllowed'
    <3>1. CASE CommitValidate(r)
      BY <3>1, CommitNegative
    <3>2. CASE ~CommitValidate(r)
      <4>1. \A q \in Requests : stage[q] \in {"notify", "done"} =>
               stage'[q] \in {"notify", "done"} /\ job'[q] = job[q]
        BY <1>1, EndStays, OthersSame DEF Same
      <4> QED
        BY <1>1, <3>2, <4>1, OnlyCommits, NegativeStays DEF NegativeInv
    <3> QED
      BY <3>1, <3>2
  <2> QED
    BY <2>1, <2>2 DEF NegativeInv
<1>2. ASSUME UNCHANGED <<txVars, job, beforeByProduct>> PROVE NegativeInv'
  <2>1. \A q \in Requests : Same(q)
    BY <1>2 DEF txVars, Same
  <2>2. CleanNegativeOnlyIfAllowed'
    BY <1>2, NegativeStays DEF txVars, NegativeInv
  <2> QED
    BY <2>1, <2>2, SameFits DEF NegativeInv
<1> QED
  BY <1>1, <1>2, NextCases

-----------------------------------------------------------------------------
\* Who works on a sale does not change but for the request that steps.
LEMMA SameOn ==
  ASSUME NEW q \in Requests, NEW sale \in SaleIds, Same(q)
  PROVE  On(q, sale)' <=> On(q, sale)
  BY DEF Same, On, Working

\* A request that takes no new sale, and leaves the status of those it works
\* on, keeps every sale settled as it was.
LEMMA SettleStays ==
  ASSUME Base, SettleInv, UNCHANGED <<status, exits, overlapped>>,
         \A q \in Requests, sale \in SaleIds : On(q, sale)' => On(q, sale)
  PROVE  SettleInv'
<1>1. \A sale \in SaleIds \ overlapped' :
         /\ \A r, other \in Requests :
               On(r, sale)' /\ On(other, sale)' => r = other
         /\ \A r \in Requests : On(r, sale)' => status'[sale] = "DRAFT"
  BY DEF SettleInv
<1>2. SettledOnce'
  BY DEF SettleInv, SettledOnce
<1> QED
  BY <1>1, <1>2 DEF SettleInv

LEMMA InitSettle ==
  Init => SettleInv
<1> SUFFICES ASSUME Init PROVE SettleInv
  OBVIOUS
<1>1. \A r \in Requests, sale \in SaleIds : ~On(r, sale)
  BY DEF Init, TxInit, On, Working, InTxStages
<1>2. SettledOnce
  BY DEF Init, SettledOnce
<1> QED
  BY <1>1, <1>2 DEF SettleInv

\* The statement that takes a sale marks it if another request works on it.
LEMMA ReadSettle ==
  ASSUME Base, SettleInv, NEW r \in Requests, NEW kind, NEW sale \in SaleIds,
         ReadSale(r, kind, sale), StepOf(r)
  PROVE  SettleInv'
<1>1. /\ stage[r] = "idle" /\ status[sale] = "DRAFT"
      /\ UNCHANGED <<status, exits>>
      /\ job'[r].sale = sale /\ stage'[r] = "checked"
      /\ overlapped \subseteq overlapped'
  BY DEF ReadSale, Settleable, Base, TypeOK, TxTypeOK
<1>2. sale \notin overlapped' =>
         \A other \in Requests : ~On(other, sale)
  BY DEF ReadSale, On
<1>3. \A q \in Requests \ {r}, s \in SaleIds : On(q, s)' <=> On(q, s)
  BY OthersSame, SameOn
<1>4. \A s \in SaleIds : On(r, s)' => s = sale
  BY <1>1 DEF On
<1> SUFFICES ASSUME NEW s \in SaleIds \ overlapped'
             PROVE  /\ \A q, other \in Requests :
                          On(q, s)' /\ On(other, s)' => q = other
                    /\ \A q \in Requests : On(q, s)' => status'[s] = "DRAFT"
                    /\ exits'[s] = IF status'[s] = "VALIDATED" THEN 1 ELSE 0
  BY DEF SettleInv, SettledOnce
<1>5. s \in SaleIds \ overlapped
  BY <1>1
<1>6. exits'[s] = IF status'[s] = "VALIDATED" THEN 1 ELSE 0
  BY <1>1, <1>5 DEF SettleInv, SettledOnce
<1>7. CASE s = sale
  <2>1. \A q \in Requests \ {r} : ~On(q, s)'
    BY <1>2, <1>3, <1>7
  <2> QED
    BY <1>1, <1>6, <1>7, <2>1
<1>8. CASE s # sale
  <2>1. ~On(r, s)'
    BY <1>4, <1>8
  <2> QED
    BY <1>1, <1>3, <1>5, <1>6, <2>1 DEF SettleInv
<1> QED
  BY <1>7, <1>8

\* The statement that settles a sale finds it a draft, unless another request
\* has worked on it in the meantime, and leaves nobody working on it.
LEMMA WriteSettle ==
  ASSUME Base, SettleInv, NEW r \in Requests,
         CommitValidate(r) \/ CommitCancel(r), StepOf(r)
  PROVE  SettleInv'
<1> DEFINE sale == job[r].sale
<1>1. sale \in SaleIds /\ On(r, sale)
  BY DEF CommitValidate, CommitCancel, On, Working, InTxStages, Base, TypeOK, Job
<1>2. /\ overlapped' = overlapped /\ ~Working(r)'
      /\ \A s \in SaleIds \ {sale} : /\ status'[s] = status[s]
                                     /\ exits'[s] = exits[s]
      /\ \/ CommitValidate(r) /\ status'[sale] = "VALIDATED"
            /\ exits'[sale] = exits[sale] + 1
         \/ CommitCancel(r) /\ status'[sale] = "CANCELLED"
            /\ exits'[sale] = exits[sale]
  <2> USE DEF Base, TypeOK, TxTypeOK, Working, InTxStages
  <2>1. CASE CommitValidate(r)
    <3>1. /\ status' = [status EXCEPT ![sale] = "VALIDATED"]
          /\ exits' = [exits EXCEPT ![sale] = @ + 1]
          /\ overlapped' = overlapped /\ stage'[r] = "notify"
      BY <2>1 DEF CommitValidate, CommitTx
    <3> QED
      BY <1>1, <2>1, <3>1
  <2>2. CASE CommitCancel(r)
    <3>1. /\ status' = [status EXCEPT ![sale] = "CANCELLED"]
          /\ exits' = exits /\ overlapped' = overlapped /\ stage'[r] = "done"
      BY <2>2 DEF CommitCancel
    <3> QED
      BY <1>1, <2>2, <3>1
  <2> QED
    BY <2>1, <2>2
<1>3. \A q \in Requests \ {r}, s \in SaleIds : On(q, s)' <=> On(q, s)
  BY OthersSame, SameOn
<1>4. \A s \in SaleIds : ~On(r, s)'
  BY <1>2 DEF On
<1> SUFFICES ASSUME NEW s \in SaleIds \ overlapped
             PROVE  /\ \A q, other \in Requests :
                          On(q, s)' /\ On(other, s)' => q = other
                    /\ \A q \in Requests : On(q, s)' => status'[s] = "DRAFT"
                    /\ exits'[s] = IF status'[s] = "VALIDATED" THEN 1 ELSE 0
  BY <1>2 DEF SettleInv, SettledOnce
<1>5. \A q, other \in Requests : On(q, s)' /\ On(other, s)' => q = other
  BY <1>3, <1>4 DEF SettleInv
<1>6. CASE s = sale
  <2>1. \A q \in Requests : ~On(q, s)'
    BY <1>1, <1>3, <1>4, <1>6 DEF SettleInv
  <2>2. status[s] = "DRAFT" /\ exits[s] = 0
    BY <1>1, <1>6 DEF SettleInv, SettledOnce
  <2> QED
    BY <1>2, <1>6, <2>1, <2>2
<1>7. CASE s # sale
  <2>1. \A q \in Requests : On(q, s)' => status'[s] = "DRAFT"
    BY <1>2, <1>3, <1>4, <1>7 DEF SettleInv
  <2>2. exits'[s] = IF status'[s] = "VALIDATED" THEN 1 ELSE 0
    BY <1>2, <1>7 DEF SettleInv, SettledOnce
  <2> QED
    BY <1>5, <2>1, <2>2
<1> QED
  BY <1>6, <1>7

LEMMA NextSettle ==
  ASSUME Base, SettleInv, [Next]_vars
  PROVE  SettleInv'
<1>1. ASSUME NEW r \in Requests, StepOf(r) PROVE SettleInv'
  <2>1. CASE \E kind \in {"validate", "cancel"}, sale \in SaleIds :
               ReadSale(r, kind, sale)
    BY <1>1, <2>1, ReadSettle
  <2>2. CASE CommitValidate(r) \/ CommitCancel(r)
    BY <1>1, <2>2, WriteSettle
  <2>3. CASE ReadPolicy(r) \/ LineStep(r) \/ Notify(r) \/ Abort(r)
    <3>1. UNCHANGED <<status, exits, overlapped>>
      BY <2>3 DEF ReadPolicy, LineStep, Notify, Abort, saleVars
    <3>2. ASSUME NEW sale \in SaleIds, On(r, sale)' PROVE On(r, sale)
      <4>1. CASE ReadPolicy(r)
        BY <3>2, <4>1 DEF ReadPolicy, On, Working, Base, TypeOK, Job
      <4>2. CASE LineStep(r)
        BY <3>2, <4>2, TxStepPlan DEF LineStep, On, Working, Base
      <4>3. CASE Notify(r)
        BY <3>2, <4>3 DEF Notify, On, Working, InTxStages, Base, TypeOK,
                          TxTypeOK
      <4>4. CASE Abort(r)
        BY <3>2, <4>4 DEF Abort, AbortTx, saleVars, On, Working
      <4> QED
        BY <2>3, <4>1, <4>2, <4>3, <4>4
    <3>3. \A q \in Requests, sale \in SaleIds : On(q, sale)' => On(q, sale)
      BY <1>1, <3>2, OthersSame, SameOn
    <3> QED
      BY <3>1, <3>3, SettleStays
  <2> QED
    BY <1>1, <2>1, <2>2, <2>3 DEF StepOf
<1>2. ASSUME UNCHANGED <<txVars, job, beforeByProduct, exits, overlapped>>,
             UNCHANGED status \/ \E sale \in SaleIds : Create(sale)
      PROVE  SettleInv'
  <2>1. \A q \in Requests, sale \in SaleIds : On(q, sale)' <=> On(q, sale)
    BY <1>2 DEF txVars, On, Working
  <2>2. CASE UNCHANGED status
    BY <1>2, <2>1, <2>2, SettleStays
  <2>3. ASSUME NEW sale \in SaleIds, Create(sale) PROVE SettleInv'
    <3>1. /\ status[sale] = "ABSENT" /\ status'[sale] = "DRAFT"
          /\ \A s \in SaleIds \ {sale} : status'[s] = status[s]
      BY <2>3 DEF Create, Base, TypeOK
    <3>2. \A s \in SaleIds \ overlapped, q \in Requests :
             On(q, s) => status'[s] = "DRAFT"
      BY <3>1 DEF SettleInv
    <3>3. SettledOnce'
      BY <1>2, <3>1 DEF SettleInv, SettledOnce
    <3> QED
      BY <1>2, <2>1, <3>2, <3>3 DEF SettleInv
  <2> QED
    BY <1>2, <2>2, <2>3
<1> QED
  BY <1>1, <1>2, NextCases

-----------------------------------------------------------------------------
\* A product on one line of a sale is taken once, by the quantity of the line.
LEMMA AloneTakes ==
  ASSUME NEW sale \in SaleIds, NEW i \in DOMAIN Lines[sale], Alone(sale, i)
  PROVE  Taken(sale, Lines[sale][i].row) = Lines[sale][i].quantity
<1> DEFINE S == DOMAIN Lines[sale]
           F == TakenBy(sale, Lines[sale][i].row)
<1>1. /\ Lines[sale][i].row \in Rows /\ Lines[sale][i].quantity \in Nat
      /\ IsFiniteSet(S)
  BY LineFacts
<1>2. F[i] = Lines[sale][i].quantity /\ \A j \in S \ {i} : F[j] = 0
  BY DEF TakenBy, Alone
<1>3. SumFunctionOnSet(F, S) = F[i]
  <2>1. i \in S /\ F[i] \in Int
    BY <1>1, <1>2
  <2> HIDE DEF F, S
  <2> QED
    BY <1>1, <1>2, <2>1, SumOne
<1> QED
  BY <1>1, <1>2, <1>3, TakenFacts

\* The lines of a sale add nothing.
LEMMA DueNotPositive ==
  ASSUME NEW sale \in SaleIds, NEW allow \in BOOLEAN, NEW row \in Rows,
         NEW s \in Seq(PostingsOf(sale, allow))
  PROVE  Due(s, row) <= 0 /\ Due(s, row) \in Int
<1> DEFINE S == 1 .. Len(s)
           F == [i \in S |-> -DeltaFor(s[i], row)]
           H == [i \in S |-> DeltaFor(s[i], row)]
<1>1. s \in Seq(Posting)
  BY LinePostingFacts, SeqMonotonic
<1>2. IsFiniteSet(S)
  BY <1>1, DueSummands
<1>3. ASSUME NEW i \in S PROVE F[i] \in Nat /\ H[i] = -F[i]
  <2>1. s[i] \in PostingsOf(sale, allow)
    BY ElementOfSeq
  <2>2. PICK j \in DOMAIN Lines[sale] : s[i].delta = -Lines[sale][j].quantity
    BY <2>1, PostingOfFacts
  <2>3. Lines[sale][j].quantity \in Nat
    BY LineFacts
  <2> QED
    BY <2>2, <2>3 DEF DeltaFor
<1>4. \A i \in S : F[i] \in Nat /\ F[i] \in Int /\ H[i] = -F[i]
  BY <1>3
<1>5. Due(s, row) = SumFunctionOnSet(H, S)
  BY DEF Due
<1> HIDE DEF F, H, S
<1>6. SumFunctionOnSet(F, S) \in Nat
  BY <1>2, <1>4, SumNat
<1>7. SumFunctionOnSet(H, S) = -SumFunctionOnSet(F, S)
  BY <1>2, <1>4, SumNeg
<1> QED
  BY <1>5, <1>6, <1>7

\* It is therefore written once.
LEMMA WrittenOnce ==
  ASSUME Base, BalanceInv, NEW r \in Requests, LinesFit(r), Announced(r),
         InTx(r), ~job[r].allow, todo[r] # << >>,
         NEW i \in DOMAIN Lines[job[r].sale], Alone(job[r].sale, i),
         Head(todo[r]).row = Lines[job[r].sale][i].row
  PROVE  /\ Lines[job[r].sale][i].row \notin touched[r]
         /\ Head(todo[r]).delta = -Lines[job[r].sale][i].quantity
<1> DEFINE sale == job[r].sale
           row == Lines[sale][i].row
           quantity == Lines[sale][i].quantity
<1>1. sale \in SaleIds /\ job[r].allow \in BOOLEAN
  BY DEF Base, TypeOK, Job
<1>2. row \in Rows /\ quantity \in Nat \ {0}
  BY <1>1, LineFacts
<1>3. /\ Head(todo[r]) \in PostingsOf(sale, job[r].allow)
      /\ Tail(todo[r]) \in Seq(PostingsOf(sale, job[r].allow))
  BY PostingFacts DEF LinesFit
<1>4. Head(todo[r]).delta = -quantity
  <2>1. PICK j \in DOMAIN Lines[sale] :
           /\ Head(todo[r]).row = Lines[sale][j].row
           /\ Head(todo[r]).delta = -Lines[sale][j].quantity
    BY <1>1, <1>3, PostingOfFacts
  <2>2. j = i
    BY <2>1 DEF Alone
  <2> QED
    BY <2>1, <2>2
<1>5. Due(todo[r], row) = -quantity + Due(Tail(todo[r]), row)
  <2>1. todo[r] \in Seq(Posting)
    BY DEF Base, TypeOK, TxTypeOK
  <2>2. DeltaFor(Head(todo[r]), row) = -quantity
    BY <1>4 DEF DeltaFor
  <2> QED
    BY <1>2, <2>1, <2>2, DueTail
<1>6. Due(Tail(todo[r]), row) <= 0 /\ Due(Tail(todo[r]), row) \in Int
  BY <1>1, <1>2, <1>3, DueNotPositive
<1>7. net[r][row] + Due(todo[r], row) = -quantity
  <2>1. Owed(r, row) = -Taken(sale, row)
    BY <1>2 DEF BalanceInv, PlansFit
  <2> QED
    BY <1>1, <2>1, AloneTakes DEF Owed
<1>8. row \in touched[r] => net[r][row] = -quantity
  BY DEF Announced
<1> QED
  BY <1>2, <1>4, <1>5, <1>6, <1>7, <1>8

\* A statement of a line reads, or adds to, what the validation announces.
LEMMA LineStepAnnounced ==
  ASSUME Base, BalanceInv, NEW r \in Requests, LinesFit(r), Announced(r),
         LineStep(r)
  PROVE  Announced(r)'
<1> DEFINE sale == job[r].sale
           posting == Head(todo[r])
<1>1. TxStep(r) /\ job' = job /\ balance' = balance /\ InTx(r)
  BY TxStepPlan DEF LineStep, Base, InTx
<1>2. sale \in SaleIds /\ job[r].allow \in BOOLEAN
  BY DEF Base, TypeOK, Job
<1> SUFFICES ASSUME InTx(r)', ~job[r].allow
             PROVE  /\ stage'[r] \in {"find", "write"} =>
                         beforeByProduct'[r][Head(todo'[r]).row] = before'[r]
                    /\ \A i \in DOMAIN Lines[sale] :
                         Alone(sale, i) /\ Lines[sale][i].row \in touched'[r] =>
                           /\ net'[r][Lines[sale][i].row] = -Lines[sale][i].quantity
                           /\ Lines[sale][i].row \notin dirty'[r] =>
                                beforeByProduct'[r][Lines[sale][i].row]
                                  = balance'[Lines[sale][i].row]
  BY <1>1 DEF Announced, Alone
<1>3. /\ stage[r] \in {"find", "write"} =>
           beforeByProduct[r][posting.row] = before[r]
      /\ \A i \in DOMAIN Lines[sale] :
           Alone(sale, i) /\ Lines[sale][i].row \in touched[r] =>
             /\ net[r][Lines[sale][i].row] = -Lines[sale][i].quantity
             /\ Lines[sale][i].row \notin dirty[r] =>
                  beforeByProduct[r][Lines[sale][i].row]
                    = balance[Lines[sale][i].row]
  BY <1>1 DEF Announced
<1>4. CASE Insufficient(r) \/ DuplicateRow(r)
  <2>1. stage'[r] = "failed"
    BY <1>4, RollbackPlan DEF Insufficient, DuplicateRow, Base
  <2> QED
    BY <2>1 DEF InTx, InTxStages
<1>5. CASE GetQuantity(r)
  <2>1. /\ UNCHANGED <<todo, touched, dirty, net>> /\ stage[r] = "check"
        /\ todo[r] # << >>
    BY <1>5 DEF GetQuantity, Base, TxInv, HasPosting
  <2>2. posting.row \in Rows
    <3>1. posting \in PostingsOf(sale, job[r].allow)
      BY <1>1, <2>1, PostingFacts DEF LinesFit
    <3> QED
      BY <1>2, <3>1, PostingOfFacts
  <2>3. /\ beforeByProduct'[r][posting.row] = before'[r]
        /\ \A row \in Rows \ {posting.row} :
              beforeByProduct'[r][row] = beforeByProduct[r][row]
    BY <2>1, <2>2 DEF LineStep, Base, TypeOK
  <2>4. ASSUME NEW i \in DOMAIN Lines[sale], Alone(sale, i),
               Lines[sale][i].row \in touched[r]
        PROVE  Lines[sale][i].row \in Rows \ {posting.row}
    BY <1>1, <1>2, <2>1, <2>4, WrittenOnce, LineFacts
  <2> QED
    BY <1>1, <1>3, <2>1, <2>3, <2>4
<1>6. CASE FindRow(r)
  <2>1. /\ UNCHANGED <<todo, touched, dirty, net, before>> /\ stage[r] = "find"
    BY <1>6 DEF FindRow
  <2>2. beforeByProduct' = beforeByProduct
    BY <2>1 DEF LineStep
  <2> QED
    BY <1>1, <1>3, <2>1, <2>2
<1>7. CASE CreateRow(r) \/ UpdateRow(r)
  <2>1. WriteRow(r) /\ stage[r] = "write" /\ todo[r] # << >>
    BY <1>7 DEF CreateRow, UpdateRow, Base, TxInv, HasPosting
  <2>2. beforeByProduct' = beforeByProduct
    BY <2>1 DEF LineStep
  <2>3. /\ posting \in PostingsOf(sale, job[r].allow)
        /\ Tail(todo[r]) \in Seq(PostingsOf(sale, job[r].allow))
    BY <1>1, <2>1, PostingFacts DEF LinesFit
  <2>4. posting.row \in Rows /\ posting.delta \in Int /\ posting.guard = "check"
    BY <1>2, <2>3, PostingOfFacts
  <2>5. /\ stage'[r] = FirstStage(Tail(todo[r]))
        /\ touched'[r] = touched[r] \cup {posting.row}
        /\ net'[r] = [net[r] EXCEPT ![posting.row] = @ + posting.delta]
        /\ dirty'[r] = IF ReadIsStale(r) THEN dirty[r] \cup {posting.row}
                                         ELSE dirty[r]
    BY <2>1 DEF WriteRow, Base, TypeOK, TxTypeOK
  <2>6. stage'[r] \notin {"find", "write"}
    BY <1>2, <2>3, <2>5, CheckedFirst
  <2>7. ASSUME NEW i \in DOMAIN Lines[sale], Alone(sale, i),
               Lines[sale][i].row \in touched'[r]
        PROVE  /\ net'[r][Lines[sale][i].row] = -Lines[sale][i].quantity
               /\ Lines[sale][i].row \notin dirty'[r] =>
                    beforeByProduct'[r][Lines[sale][i].row]
                      = balance'[Lines[sale][i].row]
    <3> DEFINE row == Lines[sale][i].row
    <3>1. row \in Rows /\ Lines[sale][i].quantity \in Nat
      BY <1>2, LineFacts
    <3>2. CASE row # posting.row
      <4>1. row \in touched[r] /\ net'[r][row] = net[r][row]
        BY <2>4, <2>5, <2>7, <3>1, <3>2 DEF Base, TypeOK, TxTypeOK
      <4> QED
        BY <1>1, <1>3, <2>2, <2>5, <2>7, <3>2, <4>1
    <3>3. CASE row = posting.row
      <4>1. row \notin touched[r] /\ posting.delta = -Lines[sale][i].quantity
        BY <1>1, <2>1, <2>7, <3>3, WrittenOnce
      <4>2. net[r][row] = 0
        BY <3>1, <4>1 DEF Base, TxInv, DraftsAgree
      <4>3. net'[r][row] = net[r][row] + posting.delta
        BY <2>4, <2>5, <3>3 DEF Base, TypeOK, TxTypeOK
      <4>4. net'[r][row] = -Lines[sale][i].quantity
        BY <3>1, <4>1, <4>2, <4>3
      <4>5. ASSUME row \notin dirty'[r]
            PROVE  beforeByProduct'[r][row] = balance'[row]
        <5>1. before[r] = Quantity(r, row)
          BY <2>4, <2>5, <3>3, <4>5 DEF ReadIsStale
        <5>2. Quantity(r, row) = balance[row]
          BY <4>1 DEF Quantity
        <5> QED
          BY <1>1, <1>3, <2>1, <2>2, <3>3, <5>1, <5>2
      <4> QED
        BY <4>4, <4>5
    <3> QED
      BY <3>2, <3>3
  <2> QED
    BY <2>6, <2>7
<1> QED
  BY <1>1, <1>4, <1>5, <1>6, <1>7 DEF TxStep

\* So does every other step of its request.
LEMMA StepAnnounced ==
  ASSUME Base, BalanceInv, NEW r \in Requests, LinesFit(r), Announced(r),
         StepOf(r)
  PROVE  Announced(r)'
<1>1. CASE ReadPolicy(r)
  <2> DEFINE plan == LinePostings(job[r].sale, allowNegative)
  <2>1. job[r].sale \in SaleIds /\ allowNegative \in BOOLEAN /\ job[r] \in Job
    BY DEF Base, TypeOK, Job
  <2>2. job'[r].allow = allowNegative
    BY <1>1, <2>1 DEF ReadPolicy, Base, TypeOK, Job
  <2>3. /\ stage'[r] = FirstStage(plan)
        /\ touched'[r] = touched[r] /\ stage[r] = "checked"
    BY <1>1 DEF ReadPolicy, Begin, Base, TypeOK, TxTypeOK
  <2>4. touched[r] = {}
    BY <2>3 DEF Base, PlanInv, InTxStages
  <2>5. plan \in Seq(PostingsOf(job[r].sale, allowNegative))
    BY <2>1, LinePostingFacts
  <2>6. ~allowNegative => stage'[r] \notin {"find", "write"}
    BY <2>1, <2>3, <2>5, CheckedFirst
  <2> QED
    BY <2>2, <2>3, <2>4, <2>6 DEF Announced
<1>2. CASE LineStep(r)
  BY <1>2, LineStepAnnounced
<1>3. CASE ~ReadPolicy(r) /\ ~LineStep(r)
  <2>1. stage'[r] \notin InTxStages
    BY <1>3 DEF StepOf, ReadSale, CommitValidate, CommitTx, Notify,
                CommitCancel, Abort, AbortTx, Rollback, Base, TypeOK, TxTypeOK,
                InTxStages
  <2> QED
    BY <2>1 DEF Announced, InTx
<1> QED
  BY <1>1, <1>2, <1>3

\* A request whose rows keep their committed balance announces what it did.
LEMMA SameAnnounced ==
  ASSUME Base, NEW q \in Requests, Announced(q), Same(q),
         \A row \in touched[q] : balance'[row] = balance[row]
  PROVE  Announced(q)'
  BY DEF Same, Announced, InTx, Alone

LEMMA NextAlert ==
  ASSUME Base, BalanceInv, NegativeInv, AlertInv, [Next]_vars
  PROVE  AlertInv'
<1>1. ASSUME NEW r \in Requests, StepOf(r), NEW q \in Requests
      PROVE  Announced(q)'
  <2>1. CASE q = r
    BY <1>1, <2>1, StepAnnounced DEF NegativeInv, AlertInv
  <2>2. CASE q # r
    <3>1. \A row \in touched[q] : balance'[row] = balance[row]
      <4>1. CASE CommitValidate(r)
        <5>1. touched[q] \cap touched[r] = {} /\ touched[q] \subseteq Rows
          BY <2>2 DEF Base, TxInv, Exclusive, TxTypeOK
        <5> QED
          BY <4>1, <5>1 DEF CommitValidate, CommitTx
      <4>2. CASE ~CommitValidate(r)
        BY <1>1, <4>2, OnlyCommits
      <4> QED
        BY <4>1, <4>2
    <3> QED
      BY <1>1, <2>2, <3>1, OthersSame, SameAnnounced DEF AlertInv
  <2> QED
    BY <2>1, <2>2
<1>2. ASSUME UNCHANGED <<txVars, job, beforeByProduct>> PROVE AlertInv'
  <2>1. \A q \in Requests : Same(q)
    BY <1>2 DEF txVars, Same
  <2> QED
    BY <1>2, <2>1, SameAnnounced DEF txVars, AlertInv
<1> QED
  BY <1>1, <1>2, NextCases DEF AlertInv

\* What the commit of a validation does to a product of one line.
LEMMA CommitCrosses ==
  ASSUME Base, BalanceInv, AlertInv, NEW r \in Requests, CommitValidate(r),
         ~job[r].allow, NEW i \in DOMAIN Lines[job[r].sale],
         Alone(job[r].sale, i), Lines[job[r].sale][i].row \notin tainted'
  PROVE  LET line == Lines[job[r].sale][i]
         IN  /\ beforeByProduct[r][line.row] = balance[line.row]
             /\ balance'[line.row] = balance[line.row] - line.quantity
<1> DEFINE sale == job[r].sale
           row == Lines[sale][i].row
           quantity == Lines[sale][i].quantity
<1>1. sale \in SaleIds
  BY DEF Base, TypeOK, Job
<1>2. row \in Rows /\ quantity \in Nat \ {0}
  BY <1>1, LineFacts
<1>3. stage[r] = "journal" /\ CommitTx(r, "notify", {}) /\ InTx(r)
  BY DEF CommitValidate, InTx, InTxStages
<1>4. row \notin dirty[r]
  BY <1>3 DEF CommitTx
<1>5. net[r][row] = -quantity
  <2>1. todo[r] = << >>
    BY <1>3 DEF Base, PlanInv
  <2>2. Due(todo[r], row) = 0
    BY <2>1, DueEmpty
  <2>3. Owed(r, row) = -quantity
    BY <1>1, <1>2, <1>3, AloneTakes DEF BalanceInv, PlansFit
  <2>4. net[r][row] \in Int
    BY <1>2 DEF Base, TypeOK, TxTypeOK
  <2> QED
    BY <2>2, <2>3, <2>4 DEF Owed
<1>6. row \in touched[r]
  BY <1>2, <1>5 DEF Base, TxInv, DraftsAgree
<1>7. draft[r][row] = balance[row] + net[r][row]
  BY <1>2, <1>4, <1>6 DEF Base, TxInv, DraftsAgree
<1>8. balance'[row] = draft[r][row]
  BY <1>2, <1>3, <1>6 DEF CommitTx
<1>9. beforeByProduct[r][row] = balance[row]
  BY <1>3, <1>4, <1>6 DEF AlertInv, Announced
<1>10. balance[row] \in Int
  BY <1>2 DEF Base, TypeOK, TxTypeOK
<1> QED
  BY <1>2, <1>5, <1>7, <1>8, <1>9, <1>10

-----------------------------------------------------------------------------
IInv == Base /\ BalanceInv /\ NegativeInv /\ SettleInv /\ AlertInv

\* The inductive invariant of the sales: of the engine of transactions, and of
\* what each request is about to write, announce and settle.
THEOREM SalesInvariant ==
  Spec => []IInv
<1>1. Init => IInv
  <2>1. Init => AlertInv
    BY DEF Init, TxInit, AlertInv, Announced, InTx, InTxStages
  <2> QED
    BY <2>1, InitBase, InitBalance, InitNegative, InitSettle DEF IInv
<1>2. IInv /\ [Next]_vars => IInv'
  BY NextBase, NextBalance, NextNegative, NextSettle, NextAlert DEF IInv
<1> QED
  BY <1>1, <1>2, PTL DEF Spec

\* The variables keep their types.
THEOREM TypeCorrect ==
  Spec => []TypeOK
<1>1. IInv => TypeOK
  BY DEF IInv, Base
<1> QED
  BY <1>1, SalesInvariant, PTL

\* All the lines of a sale or none, for any number of sales and requests: a
\* row no stale read has written is at its opening stock less the lines of the
\* sales whose validation has committed.
THEOREM BalancesAreTheSales ==
  Spec => []CleanBalanceIsSales
<1>1. IInv => CleanBalanceIsSales
  BY DEF IInv, Base, TxInv, BalancesAgree, BalanceInv, PostedIsSales,
         CleanBalanceIsSales
<1> QED
  BY <1>1, SalesInvariant, PTL

\* A row no stale read has written goes below zero through a validation that
\* read the policy while it allowed that, and through no other.
THEOREM NegativeOnlyIfAllowed ==
  Spec => []CleanNegativeOnlyIfAllowed
<1>1. IInv => CleanNegativeOnlyIfAllowed
  BY DEF IInv, NegativeInv
<1> QED
  BY <1>1, SalesInvariant, PTL

\* A sale worked on one request at a time leaves the stock once, if it is
\* validated, and never otherwise.
THEOREM SalesSettleOnce ==
  Spec => []SettledOnce
<1>1. IInv => SettledOnce
  BY DEF IInv, SettleInv
<1> QED
  BY <1>1, SalesInvariant, PTL

\* The alert of a product sold on one line is raised by the validation that
\* takes its balance into rupture and by no other.
THEOREM AlertsAreCrossings ==
  Spec => AlertIffCrossing
<1> DEFINE Raised(r, i) ==
             LET row == Lines[job[r].sale][i].row
             IN  /\ row \notin tainted'
                 /\ \A j \in DOMAIN Lines[job[r].sale] \ {i} :
                       Lines[job[r].sale][j].row # row
                 => (i \in RupturedLines(r)
                     <=> Crosses(row, balance[row], balance'[row]))
<1>1. ASSUME IInv, NEW r \in Requests, CommitValidate(r), ~job[r].allow,
             NEW i \in DOMAIN Lines[job[r].sale]
      PROVE  Raised(r, i)
  <2> DEFINE line == Lines[job[r].sale][i]
  <2> SUFFICES ASSUME line.row \notin tainted', Alone(job[r].sale, i)
               PROVE  i \in RupturedLines(r)
                      <=> Crosses(line.row, balance[line.row],
                                  balance'[line.row])
    BY DEF Alone
  <2>1. /\ beforeByProduct[r][line.row] = balance[line.row]
        /\ balance'[line.row] = balance[line.row] - line.quantity
    BY <1>1, CommitCrosses DEF IInv
  <2> QED
    BY <2>1 DEF RupturedLines
<1>2. IInv /\ [Next]_vars =>
        [\A r \in Requests :
           LET lines == Lines[job[r].sale]
           IN  CommitValidate(r) /\ ~job[r].allow =>
               \A i \in DOMAIN lines :
                  LET row == lines[i].row
                  IN  /\ row \notin tainted'
                      /\ \A j \in DOMAIN lines \ {i} : lines[j].row # row
                      => (i \in RupturedLines(r)
                          <=> Crosses(row, balance[row], balance'[row]))]_vars
  BY <1>1
<1> QED
  BY <1>2, SalesInvariant, PTL DEF Spec, AlertIffCrossing

=============================================================================
