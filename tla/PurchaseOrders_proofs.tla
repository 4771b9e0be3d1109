------------------------ MODULE PurchaseOrders_proofs ------------------------
(***************************************************************************)
(* What holds of the purchase orders for any orders, any number of lines   *)
(* and any number of requests in flight.                                   *)
(*                                                                         *)
(* The handlers trust what they read, so each claim about an order is      *)
(* carried by what the handlers in flight have already done for it: the    *)
(* e-mails accepted but not logged yet (Unlogged) and the receptions that  *)
(* stand between two lines (Ahead) are counted with the committed rows.    *)
(***************************************************************************)
EXTENDS PurchaseOrders, FiniteSetTheorems, TLAPS

\* The sendings of the order that are accepted and not logged yet.
Unlogged(order) ==
    {h \in Handlers :
        stage[h] = "log" /\ job[h].order = order /\ job[h].success}

\* The receptions of the order that have entered every line before this one.
Ahead(order, line) ==
    {h \in Handlers :
        stage[h] = "line" /\ job[h].order = order /\ job[h].line = line}

\* What a handler has in hand: an order that exists; a sending has an approved
\* order and writes its status after an e-mail is logged; a reception of a
\* supplier's order has a logged e-mail, and writes its status after the last
\* line.
HandFits(h) ==
    LET order == job[h].order
    IN  /\ stage[h] \in {"email", "log"} => job[h].kind = "send"
        /\ stage[h] = "line" =>
             job[h].kind = "receive" /\ job[h].line \in Lines(order)
        /\ stage[h] # "idle" => status[order] # "ABSENT"
        /\ stage[h] # "idle" /\ job[h].kind = "send" => order \in approved
        /\ stage[h] = "write" /\ job[h].kind = "send" => logged[order] > 0
        /\ stage[h] # "idle" /\ job[h].kind = "receive" /\ order \in supplied
             => logged[order] > 0
        /\ stage[h] = "write" /\ job[h].kind = "receive" =>
             /\ job[h].line = LineCount[order] + 1
             /\ entries[order][LineCount[order]] > 0

\* What the status of an order says of it.
StatusFits(order) ==
    /\ status[order] \in {"ABSENT", "ISSUED"} => order \notin supplied
    /\ status[order] \in {"VALIDATED", "SENT_TO_SUPPLIER"} => order \in approved
    /\ \/ status[order] = "SENT_TO_SUPPLIER"
       \/ status[order] = "RECEIVED" /\ order \in supplied
       => logged[order] > 0
    /\ emails[order] > 0 => order \in approved
    /\ status[order] = "RECEIVED" => entries[order][LineCount[order]] > 0

\* The e-mails cover the log and what is still to be logged.
EmailsCoverLog(order) ==
    logged[order] + Cardinality(Unlogged(order)) <= emails[order]

\* A line is entered less often than the one before it by at least the
\* receptions that stand between the two.
LinesInOrder(order) ==
    \A line \in Lines(order) \ {1} :
        entries[order][line] + Cardinality(Ahead(order, line))
            <= entries[order][line - 1]

\* The statuses from which a handler of a kind starts.
StartsFrom(kind) ==
    CASE kind = "submit" -> {"DRAFT"}
      [] kind = "validate" -> {"PENDING_VALIDATION"}
      [] kind = "send" -> {"VALIDATED", "SENT_TO_SUPPLIER"}
      [] kind = "receive" -> {"ISSUED", "SENT_TO_SUPPLIER"}

\* An order that is not spoilt has one handler, which still finds the status
\* it started from, and in stock once each line of an order received and each
\* line its reception has passed.
Clean(order) ==
    order \notin spoilt =>
        /\ \A h, other \in Handlers :
              Working(h, order) /\ Working(other, order) => h = other
        /\ \A h \in Handlers :
              Working(h, order) => status[order] \in StartsFrom(job[h].kind)
        /\ \A line \in Lines(order) :
              entries[order][line] =
                IF \/ status[order] = "RECEIVED"
                   \/ \E h \in Handlers : /\ Working(h, order)
                                          /\ job[h].kind = "receive"
                                          /\ line < job[h].line
                THEN 1 ELSE 0

IInv ==
    /\ TypeOK
    /\ \A h \in Handlers : HandFits(h)
    /\ \A order \in Orders : /\ StatusFits(order)
                             /\ EmailsCoverLog(order)
                             /\ LinesInOrder(order)
                             /\ Clean(order)

-----------------------------------------------------------------------------
LEMMA JobFacts ==
    ASSUME TypeOK, NEW h \in Handlers
    PROVE  /\ job[h] \in Job
           /\ job[h].kind \in Kinds
           /\ job[h].order \in Orders
           /\ job[h].line \in Nat
           /\ job[h].success \in BOOLEAN
<1>1. job[h] \in Job
    BY DEF TypeOK
<1> QED BY <1>1 DEF Job

LEMMA OrderFacts ==
    ASSUME TypeOK, NEW order \in Orders
    PROVE  /\ LineCount[order] \in Nat \ {0}
           /\ LineCount[order] \in Lines(order)
           /\ entries[order] \in [Lines(order) -> Nat]
           /\ emails[order] \in Nat
           /\ logged[order] \in Nat
<1>1. LineCount[order] \in Nat \ {0}
    BY OrdersAssumption
<1> QED BY <1>1 DEF TypeOK, Lines

LEMMA CountFacts ==
    ASSUME NEW order, NEW line
    PROVE  /\ IsFiniteSet(Unlogged(order))
           /\ IsFiniteSet(Ahead(order, line))
           /\ Cardinality(Unlogged(order)) \in Nat
           /\ Cardinality(Ahead(order, line)) \in Nat
<1>1. Unlogged(order) \subseteq Handlers /\ Ahead(order, line) \subseteq Handlers
    BY DEF Unlogged, Ahead
<1>2. IsFiniteSet(Unlogged(order)) /\ IsFiniteSet(Ahead(order, line))
    BY <1>1, FS_Subset, OrdersAssumption
<1> QED BY <1>2, FS_CardinalityType

LEMMA InitIInv ==
    Init => IInv
<1> SUFFICES ASSUME Init PROVE IInv
    OBVIOUS
<1>1. TypeOK
    <2>1. (CHOOSE order \in Orders : TRUE) \in Orders
        BY OrdersAssumption
    <2>2. [kind |-> "submit", line |-> 1, success |-> FALSE,
           order |-> CHOOSE order \in Orders : TRUE] \in Job
        BY <2>1 DEF Job, Kinds
    <2>3. job \in [Handlers -> Job]
        BY <2>2 DEF Init
    <2> QED BY <2>3 DEF Init, TypeOK, Status
<1>2. \A h \in Handlers : HandFits(h)
    BY DEF Init, HandFits
<1>3. ASSUME NEW order \in Orders
      PROVE  /\ StatusFits(order)
             /\ EmailsCoverLog(order)
             /\ LinesInOrder(order)
             /\ Clean(order)
    <2>1. Unlogged(order) = {} /\ \A line : Ahead(order, line) = {}
        BY DEF Init, Unlogged, Ahead
    <2>2. Cardinality({}) = 0
        BY FS_EmptySet
    <2>3. EmailsCoverLog(order)
        BY <2>1, <2>2 DEF Init, EmailsCoverLog
    <2>4. LinesInOrder(order)
        <3> SUFFICES ASSUME NEW line \in Lines(order) \ {1}
                     PROVE  entries[order][line] + 0 <= entries[order][line - 1]
            BY <2>1, <2>2 DEF LinesInOrder
        <3>1. line \in Lines(order) /\ line - 1 \in Lines(order)
            BY OrdersAssumption DEF Lines
        <3> QED BY <3>1 DEF Init
    <2>5. StatusFits(order) /\ Clean(order)
        BY DEF Init, StatusFits, Clean, Working
    <2> QED BY <2>3, <2>4, <2>5
<1> QED BY <1>1, <1>2, <1>3 DEF IInv

-----------------------------------------------------------------------------
\* What a step keeps of an order whose counts it does not raise.

LEMMA LogKept ==
    ASSUME IInv, NEW order \in Orders,
           Unlogged(order)' \subseteq Unlogged(order),
           logged'[order] = logged[order], emails'[order] = emails[order]
    PROVE  EmailsCoverLog(order)'
<1>1. Cardinality(Unlogged(order)') <= Cardinality(Unlogged(order))
    BY CountFacts, FS_Subset
<1>2. Cardinality(Unlogged(order)') \in Nat
    BY CountFacts, FS_Subset, FS_CardinalityType
<1>3. logged[order] + Cardinality(Unlogged(order)) <= emails[order]
    BY DEF IInv, EmailsCoverLog
<1>4. Cardinality(Unlogged(order)) \in Nat
    BY CountFacts
<1>5. logged[order] \in Nat /\ emails[order] \in Nat
    BY OrderFacts DEF IInv
<1>6. logged[order] + Cardinality(Unlogged(order)') <= emails[order]
    BY <1>1, <1>2, <1>3, <1>4, <1>5
<1> QED BY <1>6 DEF EmailsCoverLog

LEMMA LinesKept ==
    ASSUME IInv, NEW order \in Orders,
           \A line \in Lines(order) : Ahead(order, line)' \subseteq
                IF line = 1 THEN Handlers ELSE Ahead(order, line),
           entries'[order] = entries[order]
    PROVE  LinesInOrder(order)'
<1>1. ASSUME NEW line \in Lines(order) \ {1}
      PROVE  entries[order][line] + Cardinality(Ahead(order, line)')
                <= entries[order][line - 1]
    <2>1. Ahead(order, line)' \subseteq Ahead(order, line)
        OBVIOUS
    <2>2. Cardinality(Ahead(order, line)') <= Cardinality(Ahead(order, line))
        BY <2>1, CountFacts, FS_Subset
    <2>3. Cardinality(Ahead(order, line)') \in Nat
        BY <2>1, CountFacts, FS_Subset, FS_CardinalityType
    <2>4. line \in Lines(order) /\ line - 1 \in Lines(order)
        BY OrderFacts DEF IInv, Lines
    <2>5. entries[order][line] + Cardinality(Ahead(order, line))
              <= entries[order][line - 1]
        BY DEF IInv, LinesInOrder
    <2>6. entries[order][line] \in Nat /\ entries[order][line - 1] \in Nat
        BY <2>4, OrderFacts DEF IInv
    <2> QED BY <2>2, <2>3, <2>5, <2>6, CountFacts
<1> QED BY <1>1 DEF LinesInOrder, Lines

LEMMA CountsKept ==
    ASSUME IInv, UNCHANGED <<emails, logged, entries>>,
           \A h \in Handlers : stage'[h] \in {"log", "line"} =>
               \/ stage'[h] = stage[h] /\ job'[h] = job[h]
               \/ stage'[h] = "line" /\ job'[h].line = 1
    PROVE  (\A order \in Orders : EmailsCoverLog(order) /\ LinesInOrder(order))'
<1> SUFFICES ASSUME NEW order \in Orders
             PROVE  EmailsCoverLog(order)' /\ LinesInOrder(order)'
    OBVIOUS
<1>1. Unlogged(order)' \subseteq Unlogged(order)
    BY DEF Unlogged
<1>2. \A line \in Lines(order) : Ahead(order, line)' \subseteq
          IF line = 1 THEN Handlers ELSE Ahead(order, line)
    BY DEF Ahead
<1>3. EmailsCoverLog(order)'
    BY <1>1, LogKept
<1>4. LinesInOrder(order)'
    BY <1>2, LinesKept
<1> QED BY <1>3, <1>4

\* A handler that stops without having changed the status or the stock leaves
\* the clean orders clean, unless it leaves a reception half way and says so.
LEMMA CleanKept ==
    ASSUME IInv, NEW h \in Handlers,
           UNCHANGED <<status, entries>>, spoilt \subseteq spoilt',
           \A s \in Handlers \ {h} : stage'[s] = stage[s],
           \A s \in Handlers : /\ job'[s].order = job[s].order
                               /\ job'[s].kind = job[s].kind
                               /\ job'[s].line = job[s].line,
           stage[h] # "idle",
           stage'[h] = "idle" /\ job[h].kind = "receive" /\ job[h].line > 1
               => job[h].order \in spoilt'
    PROVE  (\A order \in Orders : Clean(order))'
<1> SUFFICES ASSUME NEW order \in Orders, order \notin spoilt'
             PROVE  Clean(order)'
    BY DEF Clean
<1>1. order \notin spoilt /\ Clean(order)
    BY DEF IInv
<1>2. \A s \in Handlers : Working(s, order)' => Working(s, order)
    BY DEF Working
<1>3. \A s \in Handlers, line \in Lines(order) :
          Working(s, order) /\ job[s].kind = "receive" /\ line < job[s].line
             => Working(s, order)'
    <2> SUFFICES ASSUME NEW s \in Handlers, NEW line \in Lines(order),
                        Working(s, order), job[s].kind = "receive",
                        line < job[s].line
                 PROVE  stage'[s] # "idle"
        BY DEF Working
    <2>1. job[s].line > 1
        BY JobFacts, OrderFacts DEF IInv, Lines
    <2> QED BY <2>1 DEF Working
<1> QED BY <1>1, <1>2, <1>3 DEF Clean

-----------------------------------------------------------------------------
\* One lemma for each step.

LEMMA CreateKeeps ==
    ASSUME IInv, NEW order \in Orders, CreateDraft(order) \/ CreateIssued(order)
    PROVE  IInv'
<1>1. TypeOK'
    BY DEF IInv, TypeOK, CreateDraft, CreateIssued, Status
<1>2. \A o \in Orders : o # order =>
          status'[o] = status[o] /\ (o \in supplied' <=> o \in supplied)
    BY DEF IInv, TypeOK, CreateDraft, CreateIssued
<1>3. /\ status[order] = "ABSENT"
      /\ status'[order] \in {"DRAFT", "ISSUED"}
      /\ status'[order] = "ISSUED" => order \notin supplied'
    BY DEF IInv, TypeOK, CreateDraft, CreateIssued, StatusFits
<1>4. UNCHANGED <<approved, emails, logged, entries, stage, job, spoilt>>
    BY DEF CreateDraft, CreateIssued
<1>5. \A h \in Handlers : stage[h] # "idle" =>
          job[h].order \in Orders /\ job[h].order # order
    BY <1>3, JobFacts DEF IInv, HandFits
<1>6. (\A h \in Handlers : HandFits(h))'
    BY <1>2, <1>4, <1>5 DEF IInv, HandFits
<1>7. (\A o \in Orders : StatusFits(o))'
    BY <1>2, <1>3, <1>4 DEF IInv, StatusFits
<1>8. (\A o \in Orders : EmailsCoverLog(o) /\ LinesInOrder(o))'
    BY <1>4, CountsKept
<1>9. (\A o \in Orders : Clean(o))'
    <2> SUFFICES ASSUME NEW o \in Orders PROVE Clean(o)'
        OBVIOUS
    <2>1. CASE o = order
        BY <2>1, <1>3, <1>4, <1>5 DEF IInv, Clean, Working
    <2>2. CASE o # order
        BY <2>2, <1>2, <1>4 DEF IInv, Clean, Working
    <2> QED BY <2>1, <2>2
<1> QED BY <1>1, <1>6, <1>7, <1>8, <1>9 DEF IInv

LEMMA UpdateSupplierKeeps ==
    ASSUME IInv, UpdateSupplier
    PROVE  IInv'
<1>1. TypeOK'
    BY DEF IInv, TypeOK, UpdateSupplier
<1>2. (\A h \in Handlers : HandFits(h))'
    BY DEF IInv, UpdateSupplier, HandFits
<1>3. (\A order \in Orders : EmailsCoverLog(order) /\ LinesInOrder(order))'
    BY CountsKept DEF UpdateSupplier
<1>4. (\A order \in Orders : StatusFits(order) /\ Clean(order))'
    BY DEF IInv, UpdateSupplier, StatusFits, Clean, Working
<1> QED BY <1>1, <1>2, <1>3, <1>4 DEF IInv

LEMMA ReadKeeps ==
    ASSUME IInv, NEW h \in Handlers, NEW kind \in Kinds, NEW order \in Orders,
           Read(h, kind, order)
    PROVE  IInv'
<1> DEFINE new == [kind |-> kind, order |-> order, line |-> 1, success |-> FALSE]
<1>1. /\ stage[h] = "idle"
      /\ stage' = [stage EXCEPT ![h] = FirstStage(kind)]
      /\ job' = [job EXCEPT ![h] = new]
      /\ UNCHANGED <<status, supplied, reachable, approved, emails, logged,
                     entries>>
    BY DEF Read, Goto
<1>2. /\ FirstStage(kind) \in {"email", "line", "write"}
      /\ FirstStage(kind) = "email" <=> kind = "send"
      /\ FirstStage(kind) = "line" <=> kind = "receive"
    BY DEF FirstStage, Kinds
<1>3. /\ status[order] \in StartsFrom(kind)
      /\ kind = "send" => order \in supplied
    BY DEF Read, Allowed, StartsFrom, Kinds
<1>4. /\ stage'[h] = FirstStage(kind) /\ job'[h] = new
      /\ \A s \in Handlers \ {h} : stage'[s] = stage[s] /\ job'[s] = job[s]
    BY <1>1 DEF IInv, TypeOK
<1>5. TypeOK'
    <2>1. new \in Job
        BY DEF Job
    <2>2. job' \in [Handlers -> Job]
        BY <1>1, <2>1 DEF IInv, TypeOK
    <2>3. stage' \in [Handlers -> {"idle", "email", "log", "line", "write"}]
        BY <1>1, <1>2 DEF IInv, TypeOK
    <2>4. spoilt' \in SUBSET Orders
        BY DEF IInv, TypeOK, Read
    <2> QED BY <1>1, <2>2, <2>3, <2>4 DEF IInv, TypeOK
<1>6. (\A s \in Handlers : HandFits(s))'
    <2>1. HandFits(h)'
        <3>1. status[order] # "ABSENT"
            BY <1>3 DEF StartsFrom, Kinds
        <3>2. kind = "send" => order \in approved
            BY <1>3 DEF StartsFrom, IInv, StatusFits
        <3>3. kind = "receive" /\ order \in supplied => logged[order] > 0
            BY <1>3 DEF StartsFrom, IInv, StatusFits
        <3>4. 1 \in Lines(order)
            BY OrderFacts DEF IInv, Lines
        <3> QED BY <1>1, <1>2, <1>4, <3>1, <3>2, <3>3, <3>4 DEF HandFits
    <2>2. \A s \in Handlers \ {h} : HandFits(s)'
        BY <1>1, <1>4 DEF IInv, HandFits
    <2> QED BY <2>1, <2>2
<1>7. (\A o \in Orders : EmailsCoverLog(o) /\ LinesInOrder(o))'
    BY <1>1, <1>2, <1>4, CountsKept
<1>8. (\A o \in Orders : StatusFits(o))'
    BY <1>1 DEF IInv, StatusFits
<1>9. (\A o \in Orders : Clean(o))'
    <2> SUFFICES ASSUME NEW o \in Orders, o \notin spoilt'
                 PROVE Clean(o)'
        BY DEF Clean
    <2>1. o \notin spoilt /\ Clean(o)
        BY DEF Read, IInv
    <2>2. CASE o = order
        <3>1. \A s \in Handlers : ~Working(s, order)
            BY <2>2 DEF Read
        <3>2. \A s \in Handlers : Working(s, order)' <=> s = h
            BY <1>2, <1>4, <3>1 DEF Working
        <3>3. \A line \in Lines(order) : ~(line < 1)
            BY OrderFacts DEF IInv, Lines
        <3> QED BY <1>1, <1>3, <1>4, <2>1, <2>2, <3>1, <3>2, <3>3 DEF Clean
    <2>3. CASE o # order
        <3>1. \A s \in Handlers : Working(s, o)' <=> Working(s, o)
            BY <1>1, <1>4, <2>3 DEF Working
        <3>2. \A s \in Handlers : Working(s, o) => job'[s] = job[s]
            BY <1>1, <1>4 DEF Working
        <3> QED BY <1>1, <2>1, <3>1, <3>2 DEF Clean
    <2> QED BY <2>2, <2>3
<1> QED BY <1>5, <1>6, <1>7, <1>8, <1>9 DEF IInv

LEMMA EmailKeeps ==
    ASSUME IInv, NEW h \in Handlers, Email(h)
    PROVE  IInv'
<1> DEFINE order == job[h].order
<1>1. PICK accepted \in BOOLEAN, success \in BOOLEAN :
          /\ success => accepted
          /\ emails' = [emails EXCEPT ![order] = IF accepted THEN @ + 1 ELSE @]
          /\ job' = [job EXCEPT ![h].success = success]
    BY DEF Email
<1>2. /\ stage[h] = "email"
      /\ stage' = [stage EXCEPT ![h] = "log"]
      /\ UNCHANGED <<status, supplied, reachable, approved, logged, entries,
                     spoilt>>
    BY DEF Email, Goto
<1>3. job[h] \in Job /\ order \in Orders /\ job[h].kind = "send"
    BY <1>2, JobFacts DEF IInv, HandFits
<1>4. /\ \A s \in Handlers \ {h} : stage'[s] = stage[s] /\ job'[s] = job[s]
      /\ stage'[h] = "log"
      /\ job'[h] = [job[h] EXCEPT !.success = success]
    BY <1>1, <1>2 DEF IInv, TypeOK
<1>5. /\ job'[h] \in Job
      /\ job'[h].order = order /\ job'[h].kind = "send"
      /\ job'[h].line = job[h].line /\ job'[h].success = success
    BY <1>3, <1>4 DEF Job
<1>6. /\ \A o \in Orders \ {order} : emails'[o] = emails[o]
      /\ emails'[order] = IF accepted THEN emails[order] + 1 ELSE emails[order]
      /\ emails' \in [Orders -> Nat]
    BY <1>1, <1>3 DEF IInv, TypeOK
<1> HIDE DEF order
<1>7. TypeOK'
    <2>1. job' \in [Handlers -> Job]
        BY <1>1, <1>5, <1>4 DEF IInv, TypeOK
    <2>2. stage' \in [Handlers -> {"idle", "email", "log", "line", "write"}]
        BY <1>2 DEF IInv, TypeOK
    <2> QED BY <1>2, <1>6, <2>1, <2>2 DEF IInv, TypeOK
<1>8. (\A s \in Handlers : HandFits(s))'
    <2>1. HandFits(h)'
        BY <1>2, <1>3, <1>4, <1>5 DEF IInv, HandFits, order
    <2>2. \A s \in Handlers \ {h} : HandFits(s)'
        BY <1>2, <1>4 DEF IInv, HandFits
    <2> QED BY <2>1, <2>2
<1>9. (\A o \in Orders : StatusFits(o))'
    <2>1. order \in approved
        BY <1>2, <1>3 DEF IInv, HandFits, order
    <2> QED BY <1>2, <1>6, <2>1 DEF IInv, StatusFits
<1>10. ASSUME NEW o \in Orders PROVE EmailsCoverLog(o)'
    <2>1. CASE o # order \/ ~success
        <3>1. Unlogged(o)' \subseteq Unlogged(o)
            BY <2>1, <1>2, <1>4, <1>5 DEF Unlogged
        <3>2. CASE emails'[o] = emails[o]
            BY <3>1, <3>2, <1>2, LogKept
        <3>3. CASE emails'[o] # emails[o]
            <4>1. emails'[o] = emails[o] + 1
                BY <1>6, <3>3
            <4>2. Cardinality(Unlogged(o)') <= Cardinality(Unlogged(o))
                BY <3>1, CountFacts, FS_Subset
            <4>3. Cardinality(Unlogged(o)') \in Nat
                BY <3>1, CountFacts, FS_Subset, FS_CardinalityType
            <4>4. logged[o] + Cardinality(Unlogged(o)) <= emails[o]
                BY DEF IInv, EmailsCoverLog
            <4>5. logged[o] + Cardinality(Unlogged(o)') <= emails[o] + 1
                BY <4>2, <4>3, <4>4, CountFacts, OrderFacts DEF IInv
            <4> QED BY <4>1, <4>5, <1>2 DEF EmailsCoverLog
        <3> QED BY <3>2, <3>3
    <2>2. CASE o = order /\ success
        <3>1. Unlogged(o)' = Unlogged(o) \cup {h} /\ h \notin Unlogged(o)
            BY <2>2, <1>2, <1>4, <1>5 DEF Unlogged, order
        <3>2. Cardinality(Unlogged(o) \cup {h}) = Cardinality(Unlogged(o)) + 1
            BY <3>1, CountFacts, FS_AddElement
        <3>3. emails'[o] = emails[o] + 1
            BY <2>2, <1>1, <1>6
        <3>4. logged[o] + Cardinality(Unlogged(o)) <= emails[o]
            BY DEF IInv, EmailsCoverLog
        <3>5. logged[o] + (Cardinality(Unlogged(o)) + 1) <= emails[o] + 1
            BY <3>4, CountFacts, OrderFacts DEF IInv
        <3> QED BY <3>1, <3>2, <3>3, <3>5, <1>2 DEF EmailsCoverLog
    <2> QED BY <2>1, <2>2
<1>11. ASSUME NEW o \in Orders PROVE LinesInOrder(o)'
    <2>1. \A line \in Lines(o) : Ahead(o, line)' \subseteq Ahead(o, line)
        BY <1>4 DEF Ahead
    <2>2. \A line \in Lines(o) : Ahead(o, line) \subseteq Handlers
        BY DEF Ahead
    <2> QED BY <1>2, <2>1, <2>2, LinesKept
<1>12. (\A o \in Orders : Clean(o))'
    <2>1. \A s \in Handlers : /\ job'[s].order = job[s].order
                              /\ job'[s].kind = job[s].kind
                              /\ job'[s].line = job[s].line
        BY <1>3, <1>4, <1>5 DEF order
    <2> QED BY <1>2, <1>4, <2>1, CleanKept
<1> QED BY <1>7, <1>8, <1>9, <1>10, <1>11, <1>12 DEF IInv

LEMMA LogKeeps ==
    ASSUME IInv, NEW h \in Handlers, Log(h)
    PROVE  IInv'
<1> DEFINE order == job[h].order
<1>1. /\ stage[h] = "log"
      /\ logged' = [logged EXCEPT ![order] =
                      IF job[h].success THEN @ + 1 ELSE @]
      /\ stage' = [stage EXCEPT ![h] = IF job[h].success THEN "write" ELSE "idle"]
      /\ UNCHANGED <<status, supplied, reachable, approved, emails, entries,
                     job, spoilt>>
    BY DEF Log, Goto, AfterLog
<1>2. order \in Orders /\ job[h].kind = "send" /\ job[h].success \in BOOLEAN
    BY <1>1, JobFacts DEF IInv, HandFits
<1>3. /\ \A s \in Handlers \ {h} : stage'[s] = stage[s]
      /\ stage'[h] = IF job[h].success THEN "write" ELSE "idle"
    BY <1>1 DEF IInv, TypeOK
<1>4. /\ \A o \in Orders \ {order} : logged'[o] = logged[o]
      /\ logged'[order] = IF job[h].success THEN logged[order] + 1
                                            ELSE logged[order]
      /\ logged' \in [Orders -> Nat]
    BY <1>1, <1>2 DEF IInv, TypeOK
<1>5. \A o \in Orders : logged[o] > 0 => logged'[o] > 0
    BY <1>4, OrderFacts DEF IInv
<1> HIDE DEF order
<1>6. TypeOK'
    BY <1>1, <1>4 DEF IInv, TypeOK
<1>7. (\A s \in Handlers : HandFits(s))'
    <2>1. HandFits(h)'
        <3>1. job[h].success => logged'[order] > 0
            BY <1>2, <1>4, OrderFacts DEF IInv
        <3> QED BY <1>1, <1>2, <1>3, <3>1 DEF IInv, HandFits, order
    <2>2. \A s \in Handlers \ {h} : HandFits(s)'
        BY <1>1, <1>3, <1>5, JobFacts DEF IInv, HandFits
    <2> QED BY <2>1, <2>2
<1>8. (\A o \in Orders : StatusFits(o))'
    BY <1>1, <1>5 DEF IInv, StatusFits
<1>9. ASSUME NEW o \in Orders PROVE EmailsCoverLog(o)'
    <2>1. CASE o # order \/ ~job[h].success
        <3>1. Unlogged(o)' \subseteq Unlogged(o)
            BY <1>1, <1>3 DEF Unlogged
        <3>2. logged'[o] = logged[o] /\ emails'[o] = emails[o]
            BY <2>1, <1>1, <1>4
        <3> QED BY <3>1, <3>2, LogKept
    <2>2. CASE o = order /\ job[h].success
        <3>1. Unlogged(o)' = Unlogged(o) \ {h} /\ h \in Unlogged(o)
            BY <2>2, <1>1, <1>3 DEF Unlogged, order
        <3>2. Cardinality(Unlogged(o) \ {h}) = Cardinality(Unlogged(o)) - 1
            BY <3>1, CountFacts, FS_RemoveElement
        <3>3. logged'[o] = logged[o] + 1 /\ emails'[o] = emails[o]
            BY <2>2, <1>1, <1>4
        <3>4. logged[o] + Cardinality(Unlogged(o)) <= emails[o]
            BY DEF IInv, EmailsCoverLog
        <3>5. (logged[o] + 1) + (Cardinality(Unlogged(o)) - 1) <= emails[o]
            BY <3>4, CountFacts, OrderFacts DEF IInv
        <3> QED BY <3>1, <3>2, <3>3, <3>5 DEF EmailsCoverLog
    <2> QED BY <2>1, <2>2
<1>10. ASSUME NEW o \in Orders PROVE LinesInOrder(o)'
    <2>1. \A line \in Lines(o) : Ahead(o, line)' \subseteq Ahead(o, line)
        BY <1>1, <1>3 DEF Ahead
    <2>2. \A line \in Lines(o) : Ahead(o, line) \subseteq Handlers
        BY DEF Ahead
    <2> QED BY <1>1, <2>1, <2>2, LinesKept
<1>11. (\A o \in Orders : Clean(o))'
    BY <1>1, <1>2, <1>3, CleanKept
<1> QED BY <1>6, <1>7, <1>8, <1>9, <1>10, <1>11 DEF IInv

\* The reception of a line moves the handler from the count of that line to
\* the count of the next one.
LEMMA ReceiveLineKeeps ==
    ASSUME IInv, NEW h \in Handlers, ReceiveLine(h)
    PROVE  IInv'
<1> DEFINE order == job[h].order
           line == job[h].line
           last == LineCount[order]
<1>1. /\ stage[h] = "line"
      /\ entries' = [entries EXCEPT ![order][line] = @ + 1]
      /\ job' = [job EXCEPT ![h].line = line + 1]
      /\ stage' = [stage EXCEPT ![h] = IF line < last THEN "line" ELSE "write"]
      /\ UNCHANGED <<status, supplied, reachable, approved, emails, logged,
                     spoilt>>
    BY DEF ReceiveLine, Goto, AfterLine
<1>2. /\ job[h] \in Job /\ order \in Orders
      /\ job[h].kind = "receive" /\ line \in Lines(order)
    BY <1>1, JobFacts DEF IInv, HandFits
<1>3. line \in Nat /\ 1 <= line /\ line <= last /\ last \in Nat
    BY <1>2, OrderFacts DEF IInv, Lines
<1>4. /\ \A s \in Handlers \ {h} : stage'[s] = stage[s] /\ job'[s] = job[s]
      /\ stage'[h] = IF line < last THEN "line" ELSE "write"
      /\ job'[h] = [job[h] EXCEPT !.line = line + 1]
    BY <1>1 DEF IInv, TypeOK
<1>5. /\ job'[h] \in Job
      /\ job'[h].order = order /\ job'[h].kind = "receive"
      /\ job'[h].line = line + 1
    BY <1>2, <1>3, <1>4 DEF Job
<1>6. /\ DOMAIN entries' = Orders
      /\ \A o \in Orders \ {order} : entries'[o] = entries[o]
      /\ entries'[order] = [entries[order] EXCEPT ![line] = @ + 1]
    BY <1>1, <1>2 DEF IInv, TypeOK
<1>7. /\ entries[order] \in [Lines(order) -> Nat]
      /\ entries'[order] \in [Lines(order) -> Nat]
      /\ entries'[order][line] = entries[order][line] + 1
      /\ \A l \in Lines(order) \ {line} : entries'[order][l] = entries[order][l]
    BY <1>2, <1>6, OrderFacts DEF IInv
<1>8. \A o \in Orders : \A l \in Lines(o) :
          entries[o][l] > 0 => entries'[o][l] > 0
    BY <1>6, <1>7
<1> HIDE DEF order, line, last
<1>9. TypeOK'
    <2>1. job' \in [Handlers -> Job]
        BY <1>1, <1>4, <1>5 DEF IInv, TypeOK
    <2>2. stage' \in [Handlers -> {"idle", "email", "log", "line", "write"}]
        BY <1>1 DEF IInv, TypeOK
    <2>3. \A o \in Orders : entries'[o] \in [Lines(o) -> Nat]
        BY <1>6, <1>7 DEF IInv, TypeOK
    <2> QED BY <1>1, <1>6, <2>1, <2>2, <2>3 DEF IInv, TypeOK
<1>10. (\A s \in Handlers : HandFits(s))'
    <2>1. HandFits(h)'
        <3>1. CASE line < last
            BY <3>1, <1>1, <1>2, <1>3, <1>4, <1>5
               DEF IInv, HandFits, Lines, order, last, line
        <3>2. CASE ~(line < last)
            <4>1. line = last /\ entries'[order][last] > 0
                BY <3>2, <1>2, <1>3, <1>7
            <4> QED BY <3>2, <4>1, <1>1, <1>2, <1>3, <1>4, <1>5
                    DEF IInv, HandFits, order, last, line
        <3> QED BY <3>1, <3>2
    <2>2. ASSUME NEW s \in Handlers \ {h} PROVE HandFits(s)'
        <3>1. job[s].order \in Orders
            BY JobFacts DEF IInv
        <3>2. LineCount[job[s].order] \in Lines(job[s].order)
            BY <3>1, OrderFacts DEF IInv
        <3> QED BY <1>1, <1>4, <1>8, <3>1, <3>2 DEF IInv, HandFits
    <2> QED BY <2>1, <2>2
<1>11. (\A o \in Orders : StatusFits(o))'
    <2> SUFFICES ASSUME NEW o \in Orders PROVE StatusFits(o)'
        OBVIOUS
    <2>1. LineCount[o] \in Lines(o)
        BY OrderFacts DEF IInv
    <2> QED BY <1>1, <1>8, <2>1 DEF IInv, StatusFits
<1>12. ASSUME NEW o \in Orders PROVE EmailsCoverLog(o)'
    <2>1. Unlogged(o)' \subseteq Unlogged(o)
        BY <1>4 DEF Unlogged
    <2> QED BY <1>1, <2>1, LogKept
<1>13. ASSUME NEW o \in Orders PROVE LinesInOrder(o)'
    <2>1. CASE o # order
        <3>1. \A l \in Lines(o) : Ahead(o, l)' \subseteq Ahead(o, l)
            BY <2>1, <1>4, <1>5 DEF Ahead
        <3>2. \A l \in Lines(o) : Ahead(o, l) \subseteq Handlers
            BY DEF Ahead
        <3>3. entries'[o] = entries[o]
            BY <2>1, <1>6
        <3>4. \A l \in Lines(o) : Ahead(o, l)' \subseteq
                  IF l = 1 THEN Handlers ELSE Ahead(o, l)
            BY <3>1, <3>2
        <3> QED BY <3>3, <3>4, LinesKept
    <2>2. CASE o = order
        <3> SUFFICES ASSUME NEW l \in Lines(o) \ {1}
                     PROVE  entries'[o][l] + Cardinality(Ahead(o, l)')
                              <= entries'[o][l - 1]
            BY DEF LinesInOrder, Lines
        <3>1. l \in Lines(order) /\ l - 1 \in Lines(order) /\ l \in Nat
            BY <2>2, <1>3 DEF Lines, last
        <3>2. entries[order][l] + Cardinality(Ahead(order, l))
                 <= entries[order][l - 1]
            BY <2>2, <1>2 DEF IInv, LinesInOrder
        <3>3. entries[order][l] \in Nat /\ entries[order][l - 1] \in Nat
            BY <3>1, <1>7
        <3>4. IsFiniteSet(Ahead(order, l)) /\ Cardinality(Ahead(order, l)) \in Nat
            BY CountFacts
        <3>5. CASE l = line
            <4>1. h \in Ahead(order, l) /\ Ahead(o, l)' = Ahead(order, l) \ {h}
                BY <2>2, <3>5, <1>1, <1>3, <1>4, <1>5 DEF Ahead, order, line
            <4>2. Cardinality(Ahead(order, l) \ {h})
                     = Cardinality(Ahead(order, l)) - 1
                BY <4>1, <3>4, FS_RemoveElement
            <4>3. /\ entries'[order][l] = entries[order][l] + 1
                  /\ entries'[order][l - 1] = entries[order][l - 1]
                BY <3>1, <3>5, <1>7
            <4>4. (entries[order][l] + 1) + (Cardinality(Ahead(order, l)) - 1)
                     <= entries[order][l - 1]
                BY <3>2, <3>3, <3>4
            <4> QED BY <2>2, <4>1, <4>2, <4>3, <4>4
        <3>6. CASE l = line + 1
            <4>1. h \notin Ahead(order, l)
                BY <3>6, <1>3 DEF Ahead, line
            <4>2. Ahead(o, l)' \subseteq Ahead(order, l) \cup {h}
                BY <2>2, <1>4 DEF Ahead
            <4>3. /\ IsFiniteSet(Ahead(order, l) \cup {h})
                  /\ Cardinality(Ahead(order, l) \cup {h})
                       = Cardinality(Ahead(order, l)) + 1
                BY <4>1, <3>4, FS_AddElement
            <4>4. /\ Cardinality(Ahead(o, l)')
                       <= Cardinality(Ahead(order, l) \cup {h})
                  /\ IsFiniteSet(Ahead(o, l)')
                BY <4>2, <4>3, FS_Subset
            <4>5. Cardinality(Ahead(o, l)') \in Nat
                BY <4>4, FS_CardinalityType
            <4>6. /\ entries'[order][l] = entries[order][l]
                  /\ entries'[order][l - 1] = entries[order][l - 1] + 1
                BY <3>1, <3>6, <1>3, <1>7
            <4>7. entries[order][l] + Cardinality(Ahead(o, l)')
                     <= entries[order][l - 1] + 1
                BY <3>2, <3>3, <3>4, <4>3, <4>4, <4>5
            <4> QED BY <2>2, <4>6, <4>7
        <3>7. CASE l # line /\ l # line + 1
            <4>1. Ahead(o, l)' \subseteq Ahead(order, l)
                BY <2>2, <3>7, <1>4, <1>5 DEF Ahead
            <4>2. /\ Cardinality(Ahead(o, l)') <= Cardinality(Ahead(order, l))
                  /\ IsFiniteSet(Ahead(o, l)')
                BY <4>1, <3>4, FS_Subset
            <4>3. Cardinality(Ahead(o, l)') \in Nat
                BY <4>2, FS_CardinalityType
            <4>4. /\ entries'[order][l] = entries[order][l]
                  /\ entries'[order][l - 1] = entries[order][l - 1]
                BY <3>1, <3>7, <1>3, <1>7
            <4> QED BY <2>2, <4>2, <4>3, <4>4, <3>2, <3>3, <3>4
        <3> QED BY <3>5, <3>6, <3>7
    <2> QED BY <2>1, <2>2
<1>14. ASSUME NEW o \in Orders, o \notin spoilt' PROVE Clean(o)'
    <2>1. o \notin spoilt /\ Clean(o)
        BY <1>1, <1>14 DEF IInv
    <2>2. \A s \in Handlers : Working(s, o)' <=> Working(s, o)
        BY <1>1, <1>4, <1>5 DEF Working, order
    <2>3. \A s \in Handlers : job'[s].kind = job[s].kind
        BY <1>2, <1>4, <1>5
    <2>4. CASE o # order
        <3>1. \A s \in Handlers : Working(s, o) => job'[s] = job[s]
            BY <2>4, <1>4 DEF Working, order
        <3> QED BY <2>1, <2>2, <2>3, <2>4, <3>1, <1>1, <1>6 DEF Clean
    <2>5. CASE o = order
        <3>1. Working(h, order)
            BY <1>1 DEF Working, order
        <3>2. \A s \in Handlers : Working(s, order) => s = h
            BY <2>1, <2>5, <3>1 DEF Clean
        <3>3. status[order] \in {"ISSUED", "SENT_TO_SUPPLIER"}
            BY <2>1, <2>5, <3>1, <1>2 DEF Clean, StartsFrom
        <3>4. \A l \in Lines(order) :
                  entries[order][l] = IF l < line THEN 1 ELSE 0
            BY <2>1, <2>5, <3>1, <3>2, <3>3, <1>2 DEF Clean, line
        <3>5. \A l \in Lines(order) :
                  entries'[order][l] = IF l < line + 1 THEN 1 ELSE 0
            BY <3>4, <1>2, <1>3, <1>7 DEF Lines
        <3> QED BY <2>1, <2>2, <2>3, <2>5, <3>1, <3>2, <3>3, <3>5, <1>1, <1>2,
                   <1>5 DEF Clean
    <2> QED BY <2>4, <2>5
<1> QED BY <1>9, <1>10, <1>11, <1>12, <1>13, <1>14 DEF IInv, Clean

LEMMA WriteKeeps ==
    ASSUME IInv, NEW h \in Handlers, Write(h)
    PROVE  IInv'
<1> DEFINE order == job[h].order
           kind == job[h].kind
<1>1. /\ stage[h] = "write"
      /\ status' = [status EXCEPT ![order] = NewStatus(kind)]
      /\ approved' = IF kind = "validate" THEN approved \cup {order}
                                          ELSE approved
      /\ stage' = [stage EXCEPT ![h] = "idle"]
      /\ UNCHANGED <<supplied, reachable, emails, logged, entries, job, spoilt>>
    BY DEF Write, Goto
<1>2. order \in Orders /\ kind \in Kinds
    BY JobFacts DEF IInv
<1>3. NewStatus(kind) = CASE kind = "submit" -> "PENDING_VALIDATION"
                          [] kind = "validate" -> "VALIDATED"
                          [] kind = "send" -> "SENT_TO_SUPPLIER"
                          [] kind = "receive" -> "RECEIVED"
    BY DEF NewStatus
<1>4. /\ \A s \in Handlers \ {h} : stage'[s] = stage[s]
      /\ stage'[h] = "idle"
      /\ \A o \in Orders \ {order} : status'[o] = status[o]
      /\ status'[order] = NewStatus(kind)
    BY <1>1, <1>2 DEF IInv, TypeOK
<1>5. /\ kind = "send" => order \in approved /\ logged[order] > 0
      /\ kind = "receive" => entries[order][LineCount[order]] > 0
      /\ kind = "receive" /\ order \in supplied => logged[order] > 0
      /\ kind = "receive" => job[h].line = LineCount[order] + 1
    BY <1>1 DEF IInv, HandFits
<1>a. \A s \in Handlers : Working(s, order) /\ Working(h, order) /\ order \notin spoilt => s = h
    BY <1>2 DEF IInv, Clean
<1>b. order \notin spoilt => status[order] \in StartsFrom(kind)
    BY <1>1, <1>2 DEF IInv, Clean, Working
<1>c. Working(h, order)
    BY <1>1 DEF Working
<1> HIDE DEF order, kind
<1>6. TypeOK'
    <2>1. NewStatus(kind) \in Status
        BY <1>2, <1>3 DEF Kinds, Status
    <2> QED BY <1>1, <1>2, <2>1 DEF IInv, TypeOK
<1>7. (\A s \in Handlers : HandFits(s))'
    <2>1. \A o \in Orders : status[o] # "ABSENT" => status'[o] # "ABSENT"
        BY <1>2, <1>3, <1>4 DEF Kinds
    <2> QED BY <1>1, <1>4, <2>1, JobFacts DEF IInv, HandFits
<1>8. (\A o \in Orders : StatusFits(o))'
    <2> SUFFICES ASSUME NEW o \in Orders PROVE StatusFits(o)'
        OBVIOUS
    <2>1. CASE o = order
        BY <2>1, <1>1, <1>2, <1>3, <1>4, <1>5 DEF IInv, StatusFits, Kinds
    <2>2. CASE o # order
        BY <2>2, <1>1, <1>4 DEF IInv, StatusFits
    <2> QED BY <2>1, <2>2
<1>9. (\A o \in Orders : EmailsCoverLog(o) /\ LinesInOrder(o))'
    BY <1>1, <1>4, CountsKept
<1>10. ASSUME NEW o \in Orders, o \notin spoilt' PROVE Clean(o)'
    <2>1. o \notin spoilt /\ Clean(o)
        BY <1>1, <1>10 DEF IInv
    <2>2. CASE o # order
        <3>1. \A s \in Handlers : Working(s, o)' <=> Working(s, o)
            BY <1>1, <1>4, <2>2 DEF Working, order
        <3> QED BY <2>1, <2>2, <3>1, <1>1, <1>4 DEF Clean
    <2>3. CASE o = order
        <3>1. \A s \in Handlers : ~Working(s, o)'
            BY <2>1, <2>3, <1>1, <1>4, <1>a, <1>c DEF Working
        <3>2. \A l \in Lines(order) : entries[order][l] =
                  IF kind = "receive" THEN 1 ELSE 0
            <4>1. status[order] # "RECEIVED"
                BY <2>1, <2>3, <1>2, <1>b DEF StartsFrom, Kinds
            <4>2. \A l \in Lines(order) : l < LineCount[order] + 1
                BY <1>2, OrderFacts DEF IInv, Lines
            <4> QED BY <2>1, <2>3, <4>1, <4>2, <1>5, <1>a, <1>c DEF Clean, kind
        <3>3. status'[order] = "RECEIVED" <=> kind = "receive"
            BY <1>2, <1>3, <1>4 DEF Kinds
        <3> QED BY <2>3, <3>1, <3>2, <3>3, <1>1 DEF Clean
    <2> QED BY <2>2, <2>3
<1> QED BY <1>6, <1>7, <1>8, <1>9, <1>10 DEF IInv, Clean

LEMMA AbortKeeps ==
    ASSUME IInv, NEW h \in Handlers, Abort(h)
    PROVE  IInv'
<1>1. /\ stage[h] # "idle"
      /\ stage' = [stage EXCEPT ![h] = "idle"]
      /\ spoilt' = IF job[h].kind = "receive" /\ job[h].line > 1
                   THEN spoilt \cup {job[h].order} ELSE spoilt
      /\ UNCHANGED <<status, supplied, reachable, approved, emails, logged,
                     entries, job>>
    BY DEF Abort, Goto
<1>2. /\ \A s \in Handlers \ {h} : stage'[s] = stage[s]
      /\ stage'[h] = "idle"
    BY <1>1 DEF IInv, TypeOK
<1>3. TypeOK'
    BY <1>1, JobFacts DEF IInv, TypeOK
<1>4. (\A s \in Handlers : HandFits(s))'
    BY <1>1, <1>2 DEF IInv, HandFits
<1>5. (\A order \in Orders : StatusFits(order))'
    BY <1>1 DEF IInv, StatusFits
<1>6. (\A order \in Orders : EmailsCoverLog(order) /\ LinesInOrder(order))'
    BY <1>1, <1>2, CountsKept
<1>7. (\A order \in Orders : Clean(order))'
    BY <1>1, <1>2, CleanKept
<1> QED BY <1>3, <1>4, <1>5, <1>6, <1>7 DEF IInv

LEMMA NextIInv ==
    IInv /\ [Next]_vars => IInv'
<1> SUFFICES ASSUME IInv, [Next]_vars PROVE IInv'
    OBVIOUS
<1>1. ASSUME NEW order \in Orders, CreateDraft(order) \/ CreateIssued(order)
      PROVE  IInv'
    BY <1>1, CreateKeeps
<1>2. CASE UpdateSupplier
    BY <1>2, UpdateSupplierKeeps
<1>3. ASSUME NEW h \in Handlers, NEW kind \in Kinds, NEW order \in Orders,
             Read(h, kind, order)
      PROVE  IInv'
    BY <1>3, ReadKeeps
<1>4. ASSUME NEW h \in Handlers,
             Email(h) \/ Log(h) \/ ReceiveLine(h) \/ Write(h) \/ Abort(h)
      PROVE  IInv'
    BY <1>4, EmailKeeps, LogKeeps, ReceiveLineKeeps, WriteKeeps, AbortKeeps
<1>5. CASE UNCHANGED vars
    <2>1. TypeOK'
        BY <1>5 DEF vars, IInv, TypeOK
    <2>2. (\A h \in Handlers : HandFits(h))'
        BY <1>5 DEF vars, IInv, HandFits
    <2>3. (\A order \in Orders : EmailsCoverLog(order) /\ LinesInOrder(order))'
        BY <1>5, CountsKept DEF vars
    <2>4. (\A order \in Orders : StatusFits(order) /\ Clean(order))'
        BY <1>5 DEF vars, IInv, StatusFits, Clean, Working
    <2> QED BY <2>1, <2>2, <2>3, <2>4 DEF IInv
<1> QED BY <1>1, <1>2, <1>3, <1>4, <1>5 DEF Next

-----------------------------------------------------------------------------
\* The e-mails, the receptions and the orders whose handlers never overlap, at
\* every moment, by the two facts above.
THEOREM OrdersInvariant == Spec => []IInv
BY InitIInv, NextIInv, PTL DEF Spec

\* The rows and the locals of PurchaseOrdersService keep their types.
THEOREM TypeCorrect == Spec => []TypeOK
<1>1. IInv => TypeOK
    BY DEF IInv
<1> QED BY <1>1, OrdersInvariant, PTL

\* Whatever handlers overlap or stop half way, for any number of them: what is
\* SENT_TO_SUPPLIER was validated, e-mailed and logged as sent.
THEOREM SendingIsConfirmed == Spec => []SentIsConfirmed
<1>1. IInv => SentIsConfirmed
    <2> SUFFICES ASSUME IInv, NEW order \in Orders
                 PROVE  logged[order] <= emails[order]
        BY DEF IInv, StatusFits, SentIsConfirmed
    <2>1. logged[order] + Cardinality(Unlogged(order)) <= emails[order]
        BY DEF IInv, EmailsCoverLog
    <2>2. Cardinality(Unlogged(order)) \in Nat
        BY CountFacts
    <2>3. logged[order] \in Nat /\ emails[order] \in Nat
        BY OrderFacts DEF IInv
    <2> QED BY <2>1, <2>2, <2>3
<1> QED BY <1>1, OrdersInvariant, PTL

\* For orders of any length: the lines are entered in order, and all of them
\* before the order is RECEIVED.
THEOREM ReceptionIsComplete == Spec => []ReceivedIsComplete
<1>1. IInv => ReceivedIsComplete
    <2> SUFFICES ASSUME IInv, NEW order \in Orders,
                        NEW line \in Lines(order) \ {1}
                 PROVE  entries[order][line] <= entries[order][line - 1]
        BY DEF IInv, StatusFits, ReceivedIsComplete
    <2>1. entries[order][line] + Cardinality(Ahead(order, line))
              <= entries[order][line - 1]
        BY DEF IInv, LinesInOrder
    <2>2. Cardinality(Ahead(order, line)) \in Nat
        BY CountFacts
    <2>3. line \in Lines(order) /\ line - 1 \in Lines(order)
        BY OrderFacts DEF IInv, Lines
    <2>4. entries[order][line] \in Nat /\ entries[order][line - 1] \in Nat
        BY <2>3, OrderFacts DEF IInv
    <2> QED BY <2>1, <2>2, <2>4
<1> QED BY <1>1, OrdersInvariant, PTL

\* An order whose handlers never overlap and never stop between two lines is
\* in stock once when it is RECEIVED and not at all before.
THEOREM CleanReceptionOnce == Spec => []CleanReceivedOnce
<1>1. IInv => CleanReceivedOnce
    BY DEF IInv, Clean, CleanReceivedOnce
<1> QED BY <1>1, OrdersInvariant, PTL

\* The status of such an order never goes back.
THEOREM CleanStatusNeverGoesBack == Spec => CleanStatusAdvances
<1> DEFINE Advances ==
        \A order \in Orders :
            order \notin spoilt' => Rank(status[order]) <= Rank(status'[order])
<1>1. ASSUME IInv, [Next]_vars PROVE [Advances]_vars
    <2>1. ASSUME NEW order \in Orders, status'[order] = status[order]
          PROVE  Rank(status[order]) <= Rank(status'[order])
        <3>1. status[order] \in Status
            BY <1>1 DEF IInv, TypeOK
        <3>2. Rank(status[order]) \in Nat
            BY <3>1 DEF Status, Rank
        <3> QED BY <2>1, <3>2
    <2>2. ASSUME UNCHANGED status PROVE Advances
        BY <2>1, <2>2
    <2>3. ASSUME NEW order \in Orders, CreateDraft(order) \/ CreateIssued(order)
          PROVE  Advances
        <3>1. /\ status[order] = "ABSENT"
              /\ status'[order] \in {"DRAFT", "ISSUED"}
              /\ \A o \in Orders \ {order} : status'[o] = status[o]
            BY <1>1, <2>3 DEF IInv, TypeOK, CreateDraft, CreateIssued
        <3>2. Rank(status[order]) <= Rank(status'[order])
            BY <3>1 DEF Rank
        <3> QED BY <3>1, <3>2, <2>1
    <2>4. ASSUME NEW h \in Handlers, Write(h)
          PROVE  Advances
        <3> DEFINE order == job[h].order
                   kind == job[h].kind
        <3>1. order \in Orders /\ kind \in Kinds
            BY <1>1, JobFacts DEF IInv
        <3>2. /\ Working(h, order) /\ UNCHANGED spoilt
              /\ status'[order] = NewStatus(kind)
              /\ \A o \in Orders \ {order} : status'[o] = status[o]
            BY <1>1, <2>4, <3>1 DEF IInv, TypeOK, Write, Goto, Working
        <3>3. order \notin spoilt => status[order] \in StartsFrom(kind)
            BY <1>1, <3>1, <3>2 DEF IInv, Clean
        <3>4. order \notin spoilt => Rank(status[order]) <= Rank(status'[order])
            BY <3>1, <3>2, <3>3 DEF Kinds, StartsFrom, NewStatus, Rank
        <3> QED BY <3>2, <3>4, <2>1
    <2>5. CASE UpdateSupplier
        BY <2>5, <2>2 DEF UpdateSupplier
    <2>6. ASSUME NEW h \in Handlers, NEW kind \in Kinds, NEW order \in Orders,
                 Read(h, kind, order)
          PROVE  Advances
        BY <2>6, <2>2 DEF Read
    <2>7. ASSUME NEW h \in Handlers,
                 Email(h) \/ Log(h) \/ ReceiveLine(h) \/ Abort(h)
          PROVE  Advances
        BY <2>7, <2>2 DEF Email, Log, ReceiveLine, Abort
    <2> QED BY <1>1, <2>3, <2>4, <2>5, <2>6, <2>7 DEF Next
<1>2. IInv /\ [Next]_vars => [Advances]_vars
    BY <1>1
<1> QED BY <1>2, OrdersInvariant, PTL DEF Spec, CleanStatusAdvances

=============================================================================
