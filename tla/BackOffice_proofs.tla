-------------------------- MODULE BackOffice_proofs --------------------------
(***************************************************************************)
(* The services around the stock and the sales are proved correct, for any *)
(* number of requests and any rows: the theorems are at the end.           *)
(*                                                                         *)
(* No service decides on a table of another one, so the invariant is the   *)
(* conjunction of one invariant for each, and a section for each proves    *)
(* that its own steps keep it:                                             *)
(*   - SessionInv: what a request has read when it is about to issue a     *)
(*     token is the last of its session, which has no valid one; a ticket  *)
(*     used is found by no request;                                        *)
(*   - AccountInv: what a request has read of an invitation and of a user  *)
(*     still holds, or the row is marked;                                  *)
(*   - Register!TypeOK, inductive as it stands;                            *)
(*   - NumberInv: the references of a year are 1 .. the documents that     *)
(*     count in it, and a reference drawn is one of them or the next;      *)
(*   - ListInv: a row due and not yet seen is past the pages already read; *)
(*   - CatalogInv: codes are unique; the reference of a product is below   *)
(*     the counter of the type that gave it, whose codes it bears as long  *)
(*     as they have not changed; what a request has read holds or is       *)
(*     marked; an import nothing changed beside holds the catalogue.       *)
(***************************************************************************)
EXTENDS BackOffice, SumTheorems, SequenceTheorems, FiniteSetTheorems, TLAPS

-----------------------------------------------------------------------------
\* Sets and tables.

\* The components count and search with operators of the libraries they extend.
LEMMA SameCardinality ==
    /\ \A S : Number!Cardinality(S) = Cardinality(S)
    /\ \A S : Session!Cardinality(S) = Cardinality(S)
    /\ \A S : Account!Cardinality(S) = Cardinality(S)
    /\ \A S : Catalogue!Cardinality(S) = Cardinality(S)
    /\ \A S : Lists!Cardinality(S) = Cardinality(S)
<1>1. \A S : Number!Cardinality(S) = Cardinality(S)
    BY Zenon DEF Number!Cardinality, Cardinality
<1>2. \A S : Session!Cardinality(S) = Cardinality(S)
    BY Zenon DEF Session!Cardinality, Cardinality
<1>3. \A S : Account!Cardinality(S) = Cardinality(S)
    BY Zenon DEF Account!Cardinality, Cardinality
<1>4. \A S : Catalogue!Cardinality(S) = Cardinality(S)
    BY Zenon DEF Catalogue!Cardinality, Cardinality
<1>5. \A S : Lists!Cardinality(S) = Cardinality(S)
    BY Zenon DEF Lists!Cardinality, Cardinality
<1> QED BY <1>1, <1>2, <1>3, <1>4, <1>5

\* A set whose elements are all equal has one at most.
LEMMA AtMostOne ==
    ASSUME NEW S, \A x, y \in S : x = y
    PROVE  /\ Cardinality(S) <= 1
           /\ S = {} => Cardinality(S) <= 0
<1>1. CASE S = {}
    BY <1>1, FS_EmptySet
<1>2. CASE S # {}
    <2>1. PICK x \in S : TRUE
        BY <1>2
    <2>2. S = {x}
        BY <2>1
    <2> QED BY <1>2, <2>2, FS_Singleton
<1> QED BY <1>1, <1>2

\* A function of the first natural numbers is a table.
LEMMA TableOf ==
    ASSUME NEW S, NEW n \in Nat, NEW f \in [1..n -> S]
    PROVE  /\ f \in Seq(S)
           /\ Len(f) = n
<1>1. f \in Seq(S)
    BY SeqDef
<1>2. DOMAIN f = 1..n /\ DOMAIN f = 1..Len(f) /\ Len(f) \in Nat
    BY <1>1, LenProperties
<1> QED BY <1>1, <1>2

\* A row is inserted: it is the last.
LEMMA InsertRow ==
    ASSUME NEW S, NEW s \in Seq(S), NEW row \in S
    PROVE  /\ Append(s, row) \in Seq(S)
           /\ Len(s) \in Nat
           /\ Len(Append(s, row)) = Len(s) + 1
           /\ DOMAIN s = 1..Len(s)
           /\ DOMAIN Append(s, row) = 1..(Len(s) + 1)
           /\ DOMAIN Append(s, row) = DOMAIN s \cup {Len(s) + 1}
           /\ Len(s) + 1 \notin DOMAIN s
           /\ \A k \in DOMAIN s : Append(s, row)[k] = s[k]
           /\ Append(s, row)[Len(s) + 1] = row
<1>1. /\ Append(s, row) \in Seq(S)
      /\ Len(s) \in Nat
      /\ Len(Append(s, row)) = Len(s) + 1
      /\ \A k \in 1..Len(s) : Append(s, row)[k] = s[k]
      /\ Append(s, row)[Len(s) + 1] = row
    OBVIOUS
<1>2. DOMAIN s = 1..Len(s) /\ DOMAIN Append(s, row) = 1..Len(Append(s, row))
    BY <1>1, LenProperties
<1>3. ASSUME NEW n \in Nat PROVE 1..(n + 1) = (1..n) \cup {n + 1} /\ n + 1 \notin 1..n
    OBVIOUS
<1> QED BY <1>1, <1>2, <1>3

\* The rows of a table are changed one by one.
LEMMA ChangeRows ==
    ASSUME NEW S, NEW s \in Seq(S), NEW f \in [DOMAIN s -> S]
    PROVE  /\ f \in Seq(S)
           /\ Len(f) = Len(s)
           /\ DOMAIN f = DOMAIN s
<1>1. DOMAIN s = 1..Len(s) /\ Len(s) \in Nat
    BY LenProperties
<1> QED BY <1>1, TableOf

\* .. or one of them.
LEMMA ChangeRow ==
    ASSUME NEW S, NEW s \in Seq(S), NEW i \in DOMAIN s, NEW row \in S,
           NEW new, new = [s EXCEPT ![i] = row]
    PROVE  /\ new \in Seq(S)
           /\ Len(new) = Len(s)
           /\ DOMAIN new = DOMAIN s
           /\ \A j \in DOMAIN s : new[j] = IF j = i THEN row ELSE s[j]
<1>1. s \in [DOMAIN s -> S]
    BY LenProperties
<1>2. new \in [DOMAIN s -> S]
    BY <1>1
<1> QED BY <1>1, <1>2, ChangeRows

LEMMA RowType ==
    ASSUME NEW S, NEW s \in Seq(S)
    PROVE  /\ \A i \in DOMAIN s : s[i] \in S
           /\ DOMAIN s = 1..Len(s)
           /\ Len(s) \in Nat
BY LenProperties
-----------------------------------------------------------------------------
\* Sessions.  A token a request is about to issue counts as well: the request
\* is open when nothing has overtaken it.

Token == [chain : Nat \ {0}, opened : 1..MaxPasswords, raced : BOOLEAN,
          valid : BOOLEAN]
Ticket == [kind : Session!Kinds, valid : BOOLEAN, uses : Nat, raced : BOOLEAN]
SessionStages == {"idle", "retire", "create", "found", "verified", "issue",
                  "write", "written"}
SessionJob == [token : Nat, ticket : Nat, chain : Nat, opened : Nat,
               raced : BOOLEAN]

\* What a request holds at its stage.
SessionRequest(r) ==
    /\ sessionStage[r] = "verified" =>
           /\ sessionJob[r].token \in DOMAIN tokens
           /\ sessionJob[r].chain = tokens[sessionJob[r].token].chain
    /\ sessionStage[r] \in {"verified", "issue"} =>
           /\ sessionJob[r].ticket = 0
           /\ sessionJob[r].chain \in {0} \cup DOMAIN tokens
           /\ sessionJob[r].opened \in 1..MaxPasswords
    /\ sessionStage[r] = "found" => sessionJob[r].ticket \in DOMAIN tickets
    /\ sessionStage[r] \notin {"verified", "issue", "found"} =>
           sessionJob[r] = Session!NoJob

SessionTyped ==
    /\ password \in 1..MaxPasswords
    /\ tokens \in Seq(Token)
    /\ tickets \in Seq(Ticket)
    /\ sessionStage \in [Requests -> SessionStages]
    /\ sessionJob \in [Requests -> SessionJob]
    /\ ended \subseteq DOMAIN tokens
    /\ torn \in BOOLEAN
    /\ \A t \in DOMAIN tokens : tokens[t].chain \in DOMAIN tokens
    /\ \A r \in Requests : SessionRequest(r)

\* The request will issue a token on what it has read, and nothing has undone
\* that.
Open(r) == sessionStage[r] \in {"verified", "issue"} /\ ~ sessionJob[r].raced

\* The password is the one of the user, or its tokens are still to be revoked.
PasswordHolds(version) ==
    \/ version = password
    \/ torn
    \/ \E r \in Requests : sessionStage[r] = "written"

\* No token of the session is younger.
IsLast(t, c) == \A u \in DOMAIN tokens : tokens[u].chain = c => u <= t

ValidToken(t, c) == t \in DOMAIN tokens /\ tokens[t].chain = c /\ tokens[t].valid

\* What makes a session end: a valid token is the last of its session, and so
\* is the token an open request refreshes; once it is revoked none is valid and
\* no other open request has it.
ChainLives(c) ==
    /\ \A t \in DOMAIN tokens :
          ValidToken(t, c) => /\ c \notin ended
                              /\ IsLast(t, c)
                              /\ PasswordHolds(tokens[t].opened)
    /\ \A r \in Requests :
          Open(r) /\ sessionJob[r].chain = c =>
              /\ c \notin ended
              /\ IsLast(sessionJob[r].token, c)
    /\ \A r \in Requests :
          Open(r) /\ sessionJob[r].chain = c /\ sessionStage[r] = "issue" =>
              /\ \A t \in DOMAIN tokens : ~ ValidToken(t, c)
              /\ \A q \in Requests \ {r} : Open(q) => sessionJob[q].chain # c

ChainInv ==
    /\ \A r \in Requests :
          Open(r) => \/ PasswordHolds(sessionJob[r].opened)
                     \/ Session!RacedChain(sessionJob[r].chain)
    /\ \A c \in DOMAIN tokens : Session!RacedChain(c) \/ ChainLives(c)

\* What makes a ticket good for one use: nobody has found it any more.
TicketInv ==
    /\ \A k \in DOMAIN tickets :
          \/ tickets[k].raced
          \/ tickets[k].uses = 0
          \/ /\ tickets[k].uses = 1
             /\ ~ tickets[k].valid
             /\ \A r \in Requests : sessionJob[r].ticket # k
    /\ \A k, l \in Session!OpenCodes :
          tickets[k].raced \/ tickets[l].raced \/ k = l
    /\ \A r \in Requests : sessionStage[r] = "create" =>
          \A k \in Session!OpenCodes : tickets[k].raced

SessionInv == SessionTyped /\ ChainInv /\ TicketInv

\* A request enters a stage with what it holds from there.
SessionMoves(r, s, new) ==
    /\ sessionStage' = [sessionStage EXCEPT ![r] = s]
    /\ sessionJob' = [sessionJob EXCEPT ![r] = new]

\* The tables lose no row, and no token changes session.
SessionTablesGrow ==
    /\ tokens' \in Seq(Token)
    /\ tickets' \in Seq(Ticket)
    /\ DOMAIN tokens \subseteq DOMAIN tokens'
    /\ DOMAIN tickets \subseteq DOMAIN tickets'
    /\ \A t \in DOMAIN tokens : tokens'[t].chain = tokens[t].chain
    /\ \A t \in DOMAIN tokens' : tokens'[t].chain \in DOMAIN tokens'

\* No token is issued and none becomes valid.
TokensStay ==
    /\ tokens' \in Seq(Token)
    /\ DOMAIN tokens' = DOMAIN tokens
    /\ \A t \in DOMAIN tokens :
          /\ tokens'[t].chain = tokens[t].chain
          /\ tokens'[t].opened = tokens[t].opened
          /\ tokens'[t].raced = tokens[t].raced
          /\ tokens'[t].valid => tokens[t].valid

\* No ticket is made or used and none becomes valid.
TicketsStay ==
    /\ tickets' \in Seq(Ticket)
    /\ DOMAIN tickets' = DOMAIN tickets
    /\ \A k \in DOMAIN tickets :
          /\ tickets'[k].kind = tickets[k].kind
          /\ tickets'[k].uses = tickets[k].uses
          /\ tickets'[k].raced = tickets[k].raced
          /\ tickets'[k].valid => tickets[k].valid

\* No session begins beside those there, and none is ended.
NothingOpens ==
    \A r \in Requests : Open(r)' =>
        \/ /\ Open(r)
           /\ sessionStage'[r] = sessionStage[r]
           /\ sessionJob'[r].chain = sessionJob[r].chain
           /\ sessionJob'[r].token = sessionJob[r].token
           /\ sessionJob'[r].opened = sessionJob[r].opened
        \/ /\ sessionJob'[r].chain = 0
           /\ sessionJob'[r].opened = password'

PasswordsHold == \A version : PasswordHolds(version) => PasswordHolds(version)'

LEMMA SessionMovesTyped ==
    ASSUME SessionTyped, NEW r \in Requests, NEW s \in SessionStages,
           NEW new \in SessionJob, SessionMoves(r, s, new), SessionTablesGrow,
           password' \in 1..MaxPasswords, ended' \subseteq DOMAIN tokens',
           torn' \in BOOLEAN, SessionRequest(r)'
    PROVE  SessionTyped'
<1>1. sessionStage' \in [Requests -> SessionStages]
    BY DEF SessionTyped, SessionMoves
<1>2. sessionJob' \in [Requests -> SessionJob]
    BY DEF SessionTyped, SessionMoves
<1>3. ASSUME NEW q \in Requests, q # r PROVE SessionRequest(q)'
    <2>1. sessionStage'[q] = sessionStage[q] /\ sessionJob'[q] = sessionJob[q]
        BY <1>3 DEF SessionTyped, SessionMoves
    <2>2. SessionRequest(q)
        BY DEF SessionTyped
    <2> QED BY <2>1, <2>2 DEF SessionRequest, SessionTablesGrow
<1>4. \A q \in Requests : SessionRequest(q)'
    BY <1>3
<1>5. /\ tokens' \in Seq(Token)
      /\ tickets' \in Seq(Ticket)
      /\ \A t \in DOMAIN tokens' : tokens'[t].chain \in DOMAIN tokens'
    BY DEF SessionTablesGrow
<1> QED BY <1>1, <1>2, <1>4, <1>5 DEF SessionTyped

LEMMA TablesStay ==
    ASSUME SessionTyped, TokensStay, TicketsStay
    PROVE  SessionTablesGrow
BY DEF SessionTyped, TokensStay, TicketsStay, SessionTablesGrow

LEMMA UnchangedTokens ==
    ASSUME SessionTyped, UNCHANGED tokens
    PROVE  TokensStay
BY DEF SessionTyped, TokensStay

LEMMA UnchangedTickets ==
    ASSUME SessionTyped, UNCHANGED tickets
    PROVE  TicketsStay
BY DEF SessionTyped, TicketsStay

\* The sessions go on as they were when none begins and no password changes
\* behind them.
LEMMA ChainsStay ==
    ASSUME SessionTyped, ChainInv, TokensStay, UNCHANGED ended,
           NothingOpens, PasswordsHold
    PROVE  ChainInv'
<1>1. ASSUME NEW c PROVE Session!RacedChain(c)' <=> Session!RacedChain(c)
    BY DEF Session!RacedChain, TokensStay
<1>2. ASSUME NEW r \in Requests, Open(r)'
      PROVE  \/ PasswordHolds(sessionJob[r].opened)'
             \/ Session!RacedChain(sessionJob[r].chain)'
    <2>1. CASE /\ Open(r)
               /\ sessionJob'[r].chain = sessionJob[r].chain
               /\ sessionJob'[r].opened = sessionJob[r].opened
        <3>1. \/ PasswordHolds(sessionJob[r].opened)
              \/ Session!RacedChain(sessionJob[r].chain)
            BY <2>1 DEF ChainInv
        <3> QED BY <1>1, <2>1, <3>1 DEF PasswordsHold, PasswordHolds
    <2>2. CASE sessionJob'[r].opened = password'
        BY <2>2 DEF PasswordHolds
    <2> QED BY <1>2, <2>1, <2>2 DEF NothingOpens
<1>3. ASSUME NEW c \in DOMAIN tokens, ChainLives(c)
      PROVE  ChainLives(c)'
    <2>1. ASSUME NEW t \in DOMAIN tokens', ValidToken(t, c)'
          PROVE  c \notin ended' /\ IsLast(t, c)' /\ PasswordHolds(tokens[t].opened)'
        <3>1. /\ t \in DOMAIN tokens
              /\ ValidToken(t, c)
              /\ tokens'[t].opened = tokens[t].opened
            BY <2>1 DEF ValidToken, TokensStay
        <3>2. c \notin ended /\ IsLast(t, c) /\ PasswordHolds(tokens[t].opened)
            BY <1>3, <3>1 DEF ChainLives
        <3>3. IsLast(t, c)'
            BY <3>2 DEF IsLast, TokensStay
        <3> QED BY <3>1, <3>2, <3>3 DEF PasswordsHold, PasswordHolds
    <2>2. ASSUME NEW r \in Requests, Open(r)', sessionJob'[r].chain = c
          PROVE  /\ Open(r)
                 /\ sessionStage'[r] = sessionStage[r]
                 /\ sessionJob[r].chain = c
                 /\ sessionJob'[r].token = sessionJob[r].token
        <3>1. c # 0
            BY RowType DEF SessionTyped
        <3> QED BY <2>2, <3>1 DEF NothingOpens
    <2>3. ASSUME NEW r \in Requests, Open(r)', sessionJob'[r].chain = c
          PROVE  c \notin ended' /\ IsLast(sessionJob[r].token, c)'
        <3>1. c \notin ended /\ IsLast(sessionJob[r].token, c)
            BY <1>3, <2>2, <2>3 DEF ChainLives
        <3> QED BY <2>2, <2>3, <3>1 DEF IsLast, TokensStay
    <2>4. ASSUME NEW r \in Requests, Open(r)', sessionJob'[r].chain = c,
                 sessionStage'[r] = "issue"
          PROVE  /\ \A t \in DOMAIN tokens' : ~ ValidToken(t, c)'
                 /\ \A q \in Requests \ {r} : Open(q)' => sessionJob'[q].chain # c
        <3>1. /\ \A t \in DOMAIN tokens : ~ ValidToken(t, c)
              /\ \A q \in Requests \ {r} : Open(q) => sessionJob[q].chain # c
            BY <1>3, <2>2, <2>4 DEF ChainLives
        <3>2. \A t \in DOMAIN tokens' : ~ ValidToken(t, c)'
            BY <3>1 DEF ValidToken, TokensStay
        <3> QED BY <2>2, <3>1, <3>2
    <2> QED BY <2>1, <2>3, <2>4 DEF ChainLives
<1>4. \A c \in DOMAIN tokens' : Session!RacedChain(c)' \/ ChainLives(c)'
    BY <1>1, <1>3 DEF ChainInv, TokensStay
<1> QED BY <1>2, <1>4 DEF ChainInv

\* The tickets are as good as they were when none is made, found or used.
LEMMA TicketsKeep ==
    ASSUME SessionTyped, TicketInv, TicketsStay,
           \A r \in Requests : sessionJob'[r].ticket \in {0, sessionJob[r].ticket},
           \A r \in Requests : sessionStage'[r] = "create" => sessionStage[r] = "create"
    PROVE  TicketInv'
<1>1. ASSUME NEW k \in Session!OpenCodes'
      PROVE  k \in Session!OpenCodes /\ tickets'[k].raced = tickets[k].raced
    BY <1>1 DEF Session!OpenCodes, TicketsStay
<1>2. ASSUME NEW k \in DOMAIN tickets'
      PROVE  \/ tickets'[k].raced
             \/ tickets'[k].uses = 0
             \/ /\ tickets'[k].uses = 1
                /\ ~ tickets'[k].valid
                /\ \A r \in Requests : sessionJob'[r].ticket # k
    <2>1. k # 0
        BY RowType DEF SessionTyped, TicketsStay
    <2> QED BY <2>1 DEF TicketInv, TicketsStay
<1>3. \A k, l \in Session!OpenCodes' :
          tickets'[k].raced \/ tickets'[l].raced \/ k = l
    BY <1>1 DEF TicketInv
<1>4. \A r \in Requests : sessionStage'[r] = "create" =>
          \A k \in Session!OpenCodes' : tickets'[k].raced
    BY <1>1 DEF TicketInv
<1> QED BY <1>2, <1>3, <1>4 DEF TicketInv

\* One request moves; the others hold what they held.
LEMMA OthersStay ==
    ASSUME SessionTyped, NEW r \in Requests, NEW s, NEW new, SessionMoves(r, s, new)
    PROVE  /\ sessionStage'[r] = s /\ sessionJob'[r] = new
           /\ \A q \in Requests \ {r} : /\ sessionStage'[q] = sessionStage[q]
                                        /\ sessionJob'[q] = sessionJob[q]
                                        /\ Open(q)' <=> Open(q)
BY DEF SessionTyped, SessionMoves, Open

\* A request that comes for a new session, or leaves.
Unlinked(new) == new.chain = 0 /\ new.ticket = 0 /\ new.raced = FALSE

LEMMA UnlinkedKeeps ==
    ASSUME SessionInv, NEW r \in Requests, NEW s \in SessionStages \ {"create"},
           NEW new \in SessionJob, SessionMoves(r, s, new), Unlinked(new),
           s \in {"verified", "issue"} => new.opened = password',
           TokensStay, TicketsStay, UNCHANGED ended, password' \in 1..MaxPasswords,
           torn' \in BOOLEAN, PasswordsHold, SessionRequest(r)'
    PROVE  SessionInv'
<1>1. SessionTyped /\ ChainInv /\ TicketInv
    BY DEF SessionInv
<1>2. SessionTablesGrow
    BY <1>1, TablesStay
<1>3. SessionTyped'
    BY <1>1, <1>2, SessionMovesTyped DEF SessionTyped, TokensStay
<1>4. /\ sessionStage'[r] = s /\ sessionJob'[r] = new
      /\ \A q \in Requests \ {r} : /\ sessionStage'[q] = sessionStage[q]
                                   /\ sessionJob'[q] = sessionJob[q]
                                   /\ Open(q)' <=> Open(q)
    BY <1>1, OthersStay
<1>5. NothingOpens
    BY <1>4 DEF NothingOpens, Open, Unlinked
<1>6. ChainInv'
    BY <1>1, <1>5, ChainsStay
<1>7. TicketInv'
    BY <1>1, <1>4, TicketsKeep DEF Unlinked
<1> QED BY <1>3, <1>6, <1>7 DEF SessionInv

\* The first step of a log-in, an accepted invitation, a code to be sent or a
\* change of password.
LEMMA BeginKeeps ==
    ASSUME SessionInv, NEW r \in Requests,
           \/ Session!Login(r)
           \/ Session!SendLoginCode(r)
           \/ Session!IssueSessionForUser(r)
           \/ Session!ChangePassword(r)
    PROVE  SessionInv'
<1>1. SessionTyped
    BY DEF SessionInv
<1>2. TokensStay /\ TicketsStay
    BY <1>1, UnchangedTokens, UnchangedTickets
    DEF Session!Login, Session!SendLoginCode, Session!IssueSessionForUser,
        Session!ChangePassword
<1>3. UNCHANGED <<password, tokens, tickets, ended, torn>>
    BY DEF Session!Login, Session!SendLoginCode, Session!IssueSessionForUser,
           Session!ChangePassword
<1>4. password' \in 1..MaxPasswords /\ torn' \in BOOLEAN
    BY <1>1, <1>3 DEF SessionTyped
<1>5. CASE Session!Login(r) \/ Session!IssueSessionForUser(r)
    <2> DEFINE new == [Session!NoJob EXCEPT !.opened = password]
    <2>1. /\ new \in SessionJob
          /\ Unlinked(new)
          /\ new.opened = password
        <3>1. Session!NoJob \in SessionJob
            BY DEF SessionJob, Session!NoJob
        <3>2. password \in Nat
            BY <1>1, BackOfficeAssumption DEF SessionTyped
        <3>3. new \in SessionJob
            BY <3>1, <3>2 DEF SessionJob
        <3>4. Unlinked(new) /\ new.opened = password
            BY DEF Session!NoJob, Unlinked
        <3> QED BY <3>3, <3>4
    <2>2. sessionStage[r] = "idle" /\ SessionMoves(r, "issue", new)
        BY <1>5 DEF Session!Login, Session!IssueSessionForUser, Session!Begin,
                    Session!At, Session!Go, SessionMoves
    <2> HIDE DEF new
    <2>3. PasswordsHold
        BY <1>1, <1>3, <2>2 DEF PasswordsHold, PasswordHolds, SessionMoves,
                                SessionTyped
    <2>4. SessionRequest(r)'
        BY <1>1, <1>3, <2>1, <2>2 DEF SessionRequest, SessionMoves, SessionTyped, Unlinked
    <2> QED BY <1>2, <1>3, <1>4, <2>1, <2>2, <2>3, <2>4, UnlinkedKeeps
            DEF SessionStages
<1>6. CASE Session!ChangePassword(r)
    <2>1. Session!NoJob \in SessionJob /\ Unlinked(Session!NoJob)
        BY DEF SessionJob, Session!NoJob, Unlinked
    <2>2. sessionStage[r] = "idle" /\ SessionMoves(r, "write", Session!NoJob)
        BY <1>6 DEF Session!ChangePassword, Session!Begin,
                    Session!At, Session!Go, SessionMoves
    <2>3. PasswordsHold
        BY <1>1, <1>3, <2>2 DEF PasswordsHold, PasswordHolds, SessionMoves,
                                SessionTyped
    <2>4. SessionRequest(r)'
        BY <1>1, <1>3, <2>1, <2>2 DEF SessionRequest, SessionMoves, SessionTyped
    <2> QED BY <1>2, <1>3, <1>4, <2>1, <2>2, <2>3, <2>4, UnlinkedKeeps
            DEF SessionStages
<1>7. CASE Session!SendLoginCode(r)
    <2>1. Session!NoJob \in SessionJob /\ Unlinked(Session!NoJob)
        BY DEF SessionJob, Session!NoJob, Unlinked
    <2>2. sessionStage[r] = "idle" /\ SessionMoves(r, "retire", Session!NoJob)
        BY <1>7 DEF Session!SendLoginCode, Session!Begin,
                    Session!At, Session!Go, SessionMoves
    <2>3. PasswordsHold
        BY <1>1, <1>3, <2>2 DEF PasswordsHold, PasswordHolds, SessionMoves,
                                SessionTyped
    <2>4. SessionRequest(r)'
        BY <1>1, <1>3, <2>1, <2>2 DEF SessionRequest, SessionMoves, SessionTyped
    <2> QED BY <1>2, <1>3, <1>4, <2>1, <2>2, <2>3, <2>4, UnlinkedKeeps
            DEF SessionStages
<1> QED BY <1>5, <1>6, <1>7

\* A request ends: if it was to revoke the tokens after a change of password,
\* that is remembered.
LEMMA SessionAbortKeeps ==
    ASSUME SessionInv, NEW r \in Requests, Session!Abort(r)
    PROVE  SessionInv'
<1>1. SessionTyped
    BY DEF SessionInv
<1>2. /\ SessionMoves(r, "idle", Session!NoJob)
      /\ torn' = (torn \/ sessionStage[r] = "written")
      /\ UNCHANGED <<password, tokens, tickets, ended>>
    BY DEF Session!Abort, Session!Finish, Session!Go, Session!At, SessionMoves
<1>3. TokensStay /\ TicketsStay
    BY <1>1, <1>2, UnchangedTokens, UnchangedTickets
<1>4. password' \in 1..MaxPasswords /\ torn' \in BOOLEAN
    BY <1>1, <1>2 DEF SessionTyped
<1>5. Session!NoJob \in SessionJob /\ Unlinked(Session!NoJob)
    BY DEF SessionJob, Session!NoJob, Unlinked
<1>6. PasswordsHold
    BY <1>1, <1>2 DEF PasswordsHold, PasswordHolds, SessionMoves, SessionTyped
<1>7. SessionRequest(r)'
    BY <1>1, <1>2 DEF SessionRequest, SessionMoves, SessionTyped
<1> QED BY <1>2, <1>3, <1>4, <1>5, <1>6, <1>7, UnlinkedKeeps DEF SessionStages

\* The new password: its writer is still to revoke the tokens.
LEMMA WritePasswordKeeps ==
    ASSUME SessionInv, NEW r \in Requests, Session!WritePassword(r)
    PROVE  SessionInv'
<1>1. SessionTyped
    BY DEF SessionInv
<1>2. sessionJob[r] = Session!NoJob
    BY <1>1 DEF SessionTyped, SessionRequest, Session!WritePassword, Session!At
<1>3. SessionMoves(r, "written", Session!NoJob)
    BY <1>1, <1>2 DEF Session!WritePassword, Session!Go, SessionMoves, SessionTyped
<1>4. /\ password' = password + 1
      /\ password < MaxPasswords
      /\ UNCHANGED <<tokens, tickets, ended, torn>>
    BY DEF Session!WritePassword
<1>5. TokensStay /\ TicketsStay
    BY <1>1, <1>4, UnchangedTokens, UnchangedTickets
<1>6. password' \in 1..MaxPasswords /\ torn' \in BOOLEAN
    BY <1>1, <1>4, BackOfficeAssumption DEF SessionTyped
<1>7. Session!NoJob \in SessionJob /\ Unlinked(Session!NoJob)
    BY DEF SessionJob, Session!NoJob, Unlinked
<1>8. PasswordsHold
    BY <1>1, <1>3 DEF PasswordsHold, PasswordHolds, SessionMoves, SessionTyped
<1>9. SessionRequest(r)'
    BY <1>1, <1>3 DEF SessionRequest, SessionMoves, SessionTyped
<1> QED BY <1>3, <1>4, <1>5, <1>6, <1>7, <1>8, <1>9, UnlinkedKeeps DEF SessionStages

\* No request moves, no token or ticket is made, no session ends.
LEMMA StandstillKeeps ==
    ASSUME SessionInv, TokensStay, TicketsStay,
           UNCHANGED <<password, ended, torn, sessionStage, sessionJob>>
    PROVE  SessionInv'
<1>1. SessionTyped /\ ChainInv /\ TicketInv
    BY DEF SessionInv
<1>2. PasswordsHold /\ NothingOpens
    BY DEF PasswordsHold, PasswordHolds, NothingOpens, Open
<1>3. ChainInv'
    BY <1>1, <1>2, ChainsStay
<1>4. TicketInv'
    BY <1>1, TicketsKeep
<1>5. \A q \in Requests : SessionRequest(q)'
    BY <1>1, TablesStay DEF SessionTyped, SessionRequest, SessionTablesGrow
<1>6. \A t \in DOMAIN tokens' : tokens'[t].chain \in DOMAIN tokens'
    BY <1>1, TablesStay DEF SessionTablesGrow
<1>7. SessionTyped'
    BY <1>1, <1>5, <1>6 DEF SessionTyped, TokensStay, TicketsStay
<1> QED BY <1>3, <1>4, <1>7 DEF SessionInv

\* A token that is revoked or expires,
LEMMA RevokedToken ==
    ASSUME SessionTyped, NEW t \in DOMAIN tokens,
           tokens' = [tokens EXCEPT ![t].valid = FALSE]
    PROVE  TokensStay /\ ~ tokens'[t].valid
<1> DEFINE row == [tokens[t] EXCEPT !.valid = FALSE]
<1>1. tokens \in Seq(Token) /\ tokens[t] \in Token
    BY RowType DEF SessionTyped
<1>2. /\ row \in Token
      /\ row.chain = tokens[t].chain
      /\ row.opened = tokens[t].opened
      /\ row.raced = tokens[t].raced
      /\ row.valid = FALSE
    BY <1>1 DEF Token
<1>3. tokens' = [tokens EXCEPT ![t] = row]
    BY <1>1
<1> HIDE DEF row
<1>4. row \in Token
    BY <1>2
<1>5. tokens \in Seq(Token)
    BY <1>1
<1>6. /\ tokens' \in Seq(Token)
      /\ DOMAIN tokens' = DOMAIN tokens
      /\ \A j \in DOMAIN tokens : tokens'[j] = IF j = t THEN row ELSE tokens[j]
    BY ONLY <1>3, <1>4, <1>5, t \in DOMAIN tokens, ChangeRow, Zenon
<1> QED BY <1>2, <1>6 DEF TokensStay

\* .. and a ticket that expires.
LEMMA ExpiredTicket ==
    ASSUME SessionTyped, NEW k \in DOMAIN tickets,
           tickets' = [tickets EXCEPT ![k].valid = FALSE]
    PROVE  TicketsStay
<1> DEFINE row == [tickets[k] EXCEPT !.valid = FALSE]
<1>1. tickets \in Seq(Ticket) /\ tickets[k] \in Ticket
    BY RowType DEF SessionTyped
<1>2. /\ row \in Ticket
      /\ row.kind = tickets[k].kind
      /\ row.uses = tickets[k].uses
      /\ row.raced = tickets[k].raced
      /\ row.valid = FALSE
    BY <1>1 DEF Ticket
<1>3. tickets' = [tickets EXCEPT ![k] = row]
    BY <1>1
<1> HIDE DEF row
<1>4. row \in Ticket
    BY <1>2
<1>5. tickets \in Seq(Ticket)
    BY <1>1
<1>6. /\ tickets' \in Seq(Ticket)
      /\ DOMAIN tickets' = DOMAIN tickets
      /\ \A j \in DOMAIN tickets : tickets'[j] = IF j = k THEN row ELSE tickets[j]
    BY ONLY <1>3, <1>4, <1>5, k \in DOMAIN tickets, ChangeRow, Zenon
<1> QED BY <1>2, <1>6 DEF TicketsStay

LEMMA ExpireKeeps ==
    ASSUME SessionInv,
           \/ \E t \in DOMAIN tokens : Session!ExpireToken(t)
           \/ \E k \in DOMAIN tickets : Session!ExpireTicket(k)
    PROVE  SessionInv'
<1>1. SessionTyped
    BY DEF SessionInv
<1>2. ASSUME NEW t \in DOMAIN tokens, Session!ExpireToken(t)
      PROVE  SessionInv'
    <2>1. TokensStay
        BY <1>1, <1>2, RevokedToken DEF Session!ExpireToken
    <2>2. TicketsStay
        BY <1>1, <1>2, UnchangedTickets DEF Session!ExpireToken
    <2> QED BY <1>2, <2>1, <2>2, StandstillKeeps DEF Session!ExpireToken
<1>3. ASSUME NEW k \in DOMAIN tickets, Session!ExpireTicket(k)
      PROVE  SessionInv'
    <2>1. TokensStay
        BY <1>1, <1>3, UnchangedTokens DEF Session!ExpireTicket
    <2>2. TicketsStay
        BY <1>1, <1>3, ExpiredTicket DEF Session!ExpireTicket
    <2> QED BY <1>3, <2>1, <2>2, StandstillKeeps DEF Session!ExpireTicket
<1> QED BY <1>2, <1>3

\* A request finds a ticket valid: it has not been used, or was overtaken.
LEMMA FindTicketKeeps ==
    ASSUME SessionInv, NEW r \in Requests, NEW k \in DOMAIN tickets,
           Session!FindTicket(r, k)
    PROVE  SessionInv'
<1> DEFINE new == [Session!NoJob EXCEPT !.ticket = k]
<1>1. SessionTyped /\ ChainInv /\ TicketInv
    BY DEF SessionInv
<1>2. /\ tickets[k].valid
      /\ SessionMoves(r, "found", new)
      /\ UNCHANGED <<password, tokens, tickets, ended, torn>>
    BY DEF Session!FindTicket, Session!Begin, Session!Go, SessionMoves
<1>3. new \in SessionJob /\ new.ticket = k
    <2>1. Session!NoJob \in SessionJob
        BY DEF SessionJob, Session!NoJob
    <2>2. k \in Nat
        BY <1>1, RowType DEF SessionTyped
    <2> QED BY <2>1, <2>2 DEF SessionJob
<1>3a. sessionStage[r] = "idle"
    BY DEF Session!FindTicket, Session!Begin, Session!At
<1> HIDE DEF new
<1>4. TokensStay /\ TicketsStay
    BY <1>1, <1>2, UnchangedTokens, UnchangedTickets
<1>5. /\ sessionStage'[r] = "found" /\ sessionJob'[r] = new
      /\ \A q \in Requests \ {r} : /\ sessionStage'[q] = sessionStage[q]
                                   /\ sessionJob'[q] = sessionJob[q]
                                   /\ Open(q)' <=> Open(q)
    BY <1>1, <1>2, OthersStay
<1>6. SessionTyped'
    <2>1. SessionRequest(r)'
        BY <1>2, <1>3, <1>5 DEF SessionRequest
    <2>2. password' \in 1..MaxPasswords /\ torn' \in BOOLEAN /\ ended' \subseteq DOMAIN tokens'
        BY <1>1, <1>2 DEF SessionTyped
    <2> QED BY <1>1, <1>2, <1>3, <1>4, <2>1, <2>2, TablesStay, SessionMovesTyped
            DEF SessionStages
<1>7. ChainInv'
    <2>1. NothingOpens
        BY <1>5 DEF NothingOpens, Open
    <2>2. PasswordsHold
        BY <1>2, <1>3a, <1>5 DEF PasswordsHold, PasswordHolds
    <2> QED BY <1>1, <1>2, <1>4, <2>1, <2>2, ChainsStay
<1>8. TicketInv'
    <2>1. \A j \in DOMAIN tickets :
             \/ tickets[j].raced
             \/ tickets[j].uses = 0
             \/ /\ tickets[j].uses = 1
                /\ ~ tickets[j].valid
                /\ \A q \in Requests : sessionJob'[q].ticket # j
        BY <1>1, <1>2, <1>3, <1>5 DEF TicketInv
    <2>2. Session!OpenCodes' = Session!OpenCodes
        BY <1>2 DEF Session!OpenCodes
    <2> QED BY <1>1, <1>2, <1>5, <2>1, <2>2 DEF TicketInv
<1> QED BY <1>6, <1>7, <1>8 DEF SessionInv

\* A ticket is made, with the mark it is made with.
TicketMade(kind, mark) ==
    tickets' = Append(tickets, [kind |-> kind, valid |-> TRUE, uses |-> 0,
                                raced |-> mark])

LEMMA MadeTicket ==
    ASSUME SessionTyped, NEW kind \in Session!Kinds, NEW mark \in BOOLEAN,
           TicketMade(kind, mark)
    PROVE  /\ tickets' \in Seq(Ticket)
           /\ DOMAIN tickets \subseteq DOMAIN tickets'
           /\ \A k \in DOMAIN tickets : tickets'[k] = tickets[k]
           /\ \A k \in DOMAIN tickets' \ DOMAIN tickets :
                 /\ tickets'[k].kind = kind
                 /\ tickets'[k].uses = 0
                 /\ tickets'[k].raced = mark
           /\ \A k, l \in DOMAIN tickets' \ DOMAIN tickets : k = l
<1> DEFINE row == [kind |-> kind, valid |-> TRUE, uses |-> 0, raced |-> mark]
<1>1. /\ row \in Ticket
      /\ row.kind = kind
      /\ row.uses = 0
      /\ row.raced = mark
    BY DEF Ticket
<1>2. tickets' = Append(tickets, row)
    BY DEF TicketMade
<1> HIDE DEF row
<1>3. row \in Ticket
    BY <1>1
<1>4. tickets \in Seq(Ticket)
    BY DEF SessionTyped
<1>5. /\ Append(tickets, row) \in Seq(Ticket)
      /\ DOMAIN Append(tickets, row) = DOMAIN tickets \cup {Len(tickets) + 1}
      /\ Len(tickets) + 1 \notin DOMAIN tickets
      /\ \A k \in DOMAIN tickets : Append(tickets, row)[k] = tickets[k]
      /\ Append(tickets, row)[Len(tickets) + 1] = row
    BY <1>3, <1>4, InsertRow
<1> QED BY <1>1, <1>2, <1>5

\* A ticket that is not an open code disturbs nobody.
LEMMA MadeTicketKeeps ==
    ASSUME SessionTyped, TicketInv, NEW kind \in Session!Kinds, NEW mark \in BOOLEAN,
           TicketMade(kind, mark),
           \A r \in Requests : sessionJob'[r].ticket \in {0, sessionJob[r].ticket},
           \A r \in Requests : sessionStage'[r] = "create" => sessionStage[r] = "create",
           \/ kind # "code"
           \/ mark
           \/ /\ \A k \in Session!OpenCodes : tickets[k].raced
              /\ \A r \in Requests : sessionStage'[r] # "create"
    PROVE  TicketInv'
<1>1. /\ tickets' \in Seq(Ticket)
      /\ DOMAIN tickets \subseteq DOMAIN tickets'
      /\ \A k \in DOMAIN tickets : tickets'[k] = tickets[k]
      /\ \A k \in DOMAIN tickets' \ DOMAIN tickets :
            /\ tickets'[k].kind = kind
            /\ tickets'[k].uses = 0
            /\ tickets'[k].raced = mark
      /\ \A k, l \in DOMAIN tickets' \ DOMAIN tickets : k = l
    BY MadeTicket
<1>2. ASSUME NEW k \in DOMAIN tickets'
      PROVE  \/ tickets'[k].raced
             \/ tickets'[k].uses = 0
             \/ /\ tickets'[k].uses = 1
                /\ ~ tickets'[k].valid
                /\ \A r \in Requests : sessionJob'[r].ticket # k
    <2>1. CASE k \in DOMAIN tickets
        <3>1. k # 0
            BY <2>1, RowType DEF SessionTyped
        <3> QED BY <1>1, <2>1, <3>1 DEF TicketInv
    <2>2. CASE k \notin DOMAIN tickets
        BY <1>1, <2>2
    <2> QED BY <2>1, <2>2
<1>3. ASSUME NEW k \in Session!OpenCodes'
      PROVE  \/ k \in Session!OpenCodes /\ tickets'[k].raced = tickets[k].raced
             \/ k \notin DOMAIN tickets /\ kind = "code"
    BY <1>1, <1>3 DEF Session!OpenCodes
<1>4. ASSUME NEW k \in Session!OpenCodes', NEW l \in Session!OpenCodes'
      PROVE  tickets'[k].raced \/ tickets'[l].raced \/ k = l
    <2>1. k \in DOMAIN tickets' /\ l \in DOMAIN tickets'
        BY <1>4 DEF Session!OpenCodes
    <2> QED BY <1>1, <1>3, <2>1 DEF TicketInv
<1>5. ASSUME NEW r \in Requests, sessionStage'[r] = "create",
             NEW k \in Session!OpenCodes'
      PROVE  tickets'[k].raced
    <2>1. k \in DOMAIN tickets'
        BY <1>5 DEF Session!OpenCodes
    <2> QED BY <1>1, <1>3, <1>5, <2>1 DEF TicketInv
<1> QED BY <1>2, <1>4, <1>5 DEF TicketInv

\* The links: the older ones stay good.
LEMMA SendLinkKeeps ==
    ASSUME SessionInv, Session!ForgotPassword \/ Session!ResendVerificationEmail
    PROVE  SessionInv'
<1>1. SessionTyped /\ ChainInv /\ TicketInv
    BY DEF SessionInv
<1>2. PICK kind \in {"reset", "verify"} : TicketMade(kind, FALSE)
    BY DEF Session!ForgotPassword, Session!ResendVerificationEmail,
           Session!NewTicket, TicketMade
<1>3. UNCHANGED <<password, tokens, sessionStage, sessionJob, ended, torn>>
    BY DEF Session!ForgotPassword, Session!ResendVerificationEmail
<1>4. kind \in Session!Kinds /\ kind # "code"
    BY DEF Session!Kinds
<1>5. TokensStay
    BY <1>1, <1>3, UnchangedTokens
<1>6. /\ tickets' \in Seq(Ticket)
      /\ DOMAIN tickets \subseteq DOMAIN tickets'
    BY <1>1, <1>2, <1>4, MadeTicket
<1>7. SessionTyped'
    <2>1. \A r \in Requests : SessionRequest(r)'
        BY <1>1, <1>3, <1>6 DEF SessionTyped, SessionRequest
    <2> QED BY <1>1, <1>3, <1>6, <2>1 DEF SessionTyped
<1>8. ChainInv'
    <2>1. NothingOpens /\ PasswordsHold
        BY <1>3 DEF NothingOpens, Open, PasswordsHold, PasswordHolds
    <2> QED BY <1>1, <1>3, <1>5, <2>1, ChainsStay
<1>9. TicketInv'
    BY <1>1, <1>2, <1>3, <1>4, MadeTicketKeeps
<1> QED BY <1>7, <1>8, <1>9 DEF SessionInv

\* A login code: no other is open, or another request is about to make one.
LEMMA CreateLoginCodeKeeps ==
    ASSUME SessionInv, NEW r \in Requests, Session!CreateLoginCode(r)
    PROVE  SessionInv'
<1> DEFINE mark == \E q \in Requests \ {r} : sessionStage[q] = "create"
<1>1. SessionTyped /\ ChainInv /\ TicketInv
    BY DEF SessionInv
<1>2. /\ sessionStage[r] = "create"
      /\ SessionMoves(r, "idle", Session!NoJob)
      /\ UNCHANGED <<password, tokens, ended, torn>>
    BY DEF Session!CreateLoginCode, Session!Finish, Session!Go, Session!At, SessionMoves
<1>3. TicketMade("code", mark)
    BY DEF Session!CreateLoginCode, Session!NewTicket, Session!At, TicketMade
<1>4. mark \in BOOLEAN /\ "code" \in Session!Kinds
    BY DEF Session!Kinds
<1>5. /\ sessionStage'[r] = "idle" /\ sessionJob'[r] = Session!NoJob
      /\ \A q \in Requests \ {r} : /\ sessionStage'[q] = sessionStage[q]
                                   /\ sessionJob'[q] = sessionJob[q]
                                   /\ Open(q)' <=> Open(q)
    BY <1>1, <1>2, OthersStay
<1>6. mark \/ /\ \A k \in Session!OpenCodes : tickets[k].raced
              /\ \A q \in Requests : sessionStage'[q] # "create"
    BY <1>1, <1>2, <1>5 DEF TicketInv
<1> HIDE DEF mark
<1>7. TokensStay
    BY <1>1, <1>2, UnchangedTokens
<1>8. /\ tickets' \in Seq(Ticket)
      /\ DOMAIN tickets \subseteq DOMAIN tickets'
    BY <1>1, <1>3, <1>4, MadeTicket
<1>9. SessionTyped'
    <2>1. SessionTablesGrow
        BY <1>1, <1>2, <1>8 DEF SessionTyped, SessionTablesGrow
    <2>2. SessionRequest(r)'
        BY <1>5 DEF SessionRequest
    <2>3. password' \in 1..MaxPasswords /\ torn' \in BOOLEAN /\ ended' \subseteq DOMAIN tokens'
        BY <1>1, <1>2 DEF SessionTyped
    <2>4. "idle" \in SessionStages /\ Session!NoJob \in SessionJob
        BY DEF SessionStages, SessionJob, Session!NoJob
    <2> QED BY <1>1, <1>2, <2>1, <2>2, <2>3, <2>4, SessionMovesTyped
<1>10. ChainInv'
    <2>1. NothingOpens
        BY <1>5 DEF NothingOpens, Open
    <2>2. PasswordsHold
        BY <1>2, <1>5 DEF PasswordsHold, PasswordHolds
    <2> QED BY <1>1, <1>2, <1>7, <2>1, <2>2, ChainsStay
<1>11. TicketInv'
    <2>1. Session!NoJob.ticket = 0
        BY DEF Session!NoJob
    <2>2. \A q \in Requests : sessionJob'[q].ticket \in {0, sessionJob[q].ticket}
        BY <1>5, <2>1
    <2>3. \A q \in Requests : sessionStage'[q] = "create" => sessionStage[q] = "create"
        BY <1>5
    <2> QED BY <1>1, <1>3, <1>4, <1>6, <2>2, <2>3, MadeTicketKeeps
<1> QED BY <1>9, <1>10, <1>11 DEF SessionInv

\* Another request has found the ticket.
FoundByAnother(k, r) == \E q \in Requests \ {r} : sessionJob[q].ticket = k

\* The request uses tickets, or retires them.
TicketsSpent(K, r) ==
    /\ tickets' \in Seq(Ticket)
    /\ DOMAIN tickets' = DOMAIN tickets
    /\ \A k \in DOMAIN tickets \ K : tickets'[k] = tickets[k]
    /\ \A k \in K :
          /\ tickets'[k].kind = tickets[k].kind
          /\ ~ tickets'[k].valid
          /\ tickets'[k].raced = (tickets[k].raced \/ FoundByAnother(k, r))
          /\ tickets'[k].uses = IF tickets[k].raced \/ FoundByAnother(k, r)
                                THEN 0 ELSE tickets[k].uses + 1

LEMMA SpentTicket ==
    ASSUME SessionTyped, NEW r \in Requests, NEW k \in DOMAIN tickets
    PROVE  /\ Session!Spent(k, r) \in Ticket
           /\ Session!Spent(k, r).kind = tickets[k].kind
           /\ ~ Session!Spent(k, r).valid
           /\ Session!Spent(k, r).raced = (tickets[k].raced \/ FoundByAnother(k, r))
           /\ Session!Spent(k, r).uses = IF tickets[k].raced \/ FoundByAnother(k, r)
                                         THEN 0 ELSE tickets[k].uses + 1
<1> DEFINE found == FoundByAnother(k, r)
           mark  == tickets[k].raced \/ found
<1>1. tickets[k] \in Ticket
    BY RowType DEF SessionTyped
<1>2. Session!Spent(k, r) = [tickets[k] EXCEPT !.valid = FALSE, !.raced = mark,
                                               !.uses = IF mark THEN 0 ELSE @ + 1]
    BY DEF Session!Spent, FoundByAnother
<1>3. mark \in BOOLEAN
    BY <1>1 DEF Ticket
<1> HIDE DEF mark
<1> DEFINE n == IF mark THEN 0 ELSE tickets[k].uses + 1
<1>4. n \in Nat
    BY <1>1 DEF Ticket
<1>5. Session!Spent(k, r) = [tickets[k] EXCEPT !.valid = FALSE, !.raced = mark,
                                               !.uses = n]
    BY <1>2
<1> HIDE DEF n
<1>6. /\ Session!Spent(k, r) \in Ticket
      /\ Session!Spent(k, r).kind = tickets[k].kind
      /\ ~ Session!Spent(k, r).valid
      /\ Session!Spent(k, r).raced = mark
      /\ Session!Spent(k, r).uses = n
    BY <1>1, <1>3, <1>4, <1>5 DEF Ticket
<1> QED BY <1>6 DEF mark, n

\* A ticket spent was not used before, or was overtaken; now nobody has it.
LEMMA SpentKeeps ==
    ASSUME SessionTyped, TicketInv, NEW r \in Requests,
           NEW K \in SUBSET DOMAIN tickets, TicketsSpent(K, r),
           \A k \in K : tickets[k].raced \/ tickets[k].uses = 0,
           sessionJob'[r].ticket = 0,
           \A q \in Requests \ {r} : /\ sessionStage'[q] = sessionStage[q]
                                     /\ sessionJob'[q] = sessionJob[q],
           sessionStage'[r] = "create" => K = Session!OpenCodes
    PROVE  TicketInv'
<1>1. ASSUME NEW k \in DOMAIN tickets'
      PROVE  \/ tickets'[k].raced
             \/ tickets'[k].uses = 0
             \/ /\ tickets'[k].uses = 1
                /\ ~ tickets'[k].valid
                /\ \A q \in Requests : sessionJob'[q].ticket # k
    <2>1. k # 0
        BY RowType DEF SessionTyped, TicketsSpent
    <2>2. CASE k \in K
        <3>1. CASE tickets[k].raced \/ FoundByAnother(k, r)
            BY <2>2, <3>1 DEF TicketsSpent
        <3>2. CASE ~ tickets[k].raced /\ ~ FoundByAnother(k, r)
            BY <2>1, <2>2, <3>2 DEF TicketsSpent, FoundByAnother
        <3> QED BY <3>1, <3>2
    <2>3. CASE k \notin K
        BY <2>1, <2>3 DEF TicketInv, TicketsSpent
    <2> QED BY <2>2, <2>3
<1>2. ASSUME NEW k \in Session!OpenCodes'
      PROVE  k \in Session!OpenCodes \ K /\ tickets'[k].raced = tickets[k].raced
    BY <1>2 DEF Session!OpenCodes, TicketsSpent
<1>3. \A k, l \in Session!OpenCodes' : tickets'[k].raced \/ tickets'[l].raced \/ k = l
    BY <1>2 DEF TicketInv
<1>4. ASSUME NEW q \in Requests, sessionStage'[q] = "create",
             NEW k \in Session!OpenCodes'
      PROVE  tickets'[k].raced
    BY <1>2, <1>4 DEF TicketInv
<1> QED BY <1>1, <1>3, <1>4 DEF TicketInv

\* The codes not used yet are retired.
LEMMA RetireCodesKeeps ==
    ASSUME SessionInv, NEW r \in Requests, Session!RetireCodes(r)
    PROVE  SessionInv'
<1>1. SessionTyped /\ ChainInv /\ TicketInv
    BY DEF SessionInv
<1>2. sessionStage[r] = "retire" /\ sessionJob[r] = Session!NoJob
    BY <1>1 DEF SessionTyped, SessionRequest, Session!RetireCodes, Session!At
<1>3. /\ SessionMoves(r, "create", Session!NoJob)
      /\ UNCHANGED <<password, tokens, ended, torn>>
    BY <1>1, <1>2 DEF Session!RetireCodes, Session!Go, SessionMoves, SessionTyped
<1>4. /\ sessionStage'[r] = "create" /\ sessionJob'[r] = Session!NoJob
      /\ \A q \in Requests \ {r} : /\ sessionStage'[q] = sessionStage[q]
                                   /\ sessionJob'[q] = sessionJob[q]
                                   /\ Open(q)' <=> Open(q)
    BY <1>1, <1>3, OthersStay
<1>5. TicketsSpent(Session!OpenCodes, r)
    <2> DEFINE row(k) == IF k \in Session!OpenCodes THEN Session!Spent(k, r)
                                                     ELSE tickets[k]
    <2>1. tickets' = [k \in DOMAIN tickets |-> row(k)]
        BY DEF Session!RetireCodes
    <2>2. \A k \in DOMAIN tickets : row(k) \in Ticket
        BY <1>1, SpentTicket, RowType DEF SessionTyped
    <2>3. tickets' \in [DOMAIN tickets -> Ticket]
        BY <2>1, <2>2
    <2>4. tickets' \in Seq(Ticket)
        BY <1>1, <2>3, ChangeRows DEF SessionTyped
    <2>5. \A k \in Session!OpenCodes : k \in DOMAIN tickets /\ tickets'[k] = Session!Spent(k, r)
        BY <2>1 DEF Session!OpenCodes
    <2>6. \A k \in DOMAIN tickets \ Session!OpenCodes : tickets'[k] = tickets[k]
        BY <2>1
    <2> QED BY <1>1, <2>3, <2>4, <2>5, <2>6, SpentTicket DEF TicketsSpent
<1>6. TokensStay
    BY <1>1, <1>3, UnchangedTokens
<1>7. SessionTyped'
    <2>1. SessionTablesGrow
        BY <1>1, <1>3, <1>5 DEF SessionTyped, SessionTablesGrow, TicketsSpent
    <2>2. SessionRequest(r)'
        BY <1>4 DEF SessionRequest
    <2>3. password' \in 1..MaxPasswords /\ torn' \in BOOLEAN /\ ended' \subseteq DOMAIN tokens'
        BY <1>1, <1>3 DEF SessionTyped
    <2>4. "create" \in SessionStages /\ Session!NoJob \in SessionJob
        BY DEF SessionStages, SessionJob, Session!NoJob
    <2> QED BY <1>1, <1>3, <2>1, <2>2, <2>3, <2>4, SessionMovesTyped
<1>8. ChainInv'
    <2>1. NothingOpens
        BY <1>4 DEF NothingOpens, Open
    <2>2. PasswordsHold
        BY <1>2, <1>3, <1>4 DEF PasswordsHold, PasswordHolds
    <2> QED BY <1>1, <1>3, <1>6, <2>1, <2>2, ChainsStay
<1>9. TicketInv'
    <2>1. sessionJob'[r].ticket = 0
        BY <1>4 DEF Session!NoJob
    <2>2. /\ Session!OpenCodes \in SUBSET DOMAIN tickets
          /\ \A k \in Session!OpenCodes : tickets[k].raced \/ tickets[k].uses = 0
        BY <1>1 DEF TicketInv, Session!OpenCodes
    <2> QED BY <1>1, <1>4, <1>5, <2>1, <2>2, SpentKeeps
<1> QED BY <1>7, <1>8, <1>9 DEF SessionInv

\* A ticket is consumed, for what it is good for.
LEMMA ConsumeKeeps ==
    ASSUME SessionInv, NEW r \in Requests,
           \/ Session!ConsumePasswordResetToken(r)
           \/ Session!ConsumeEmailVerificationToken(r)
           \/ Session!ConsumeLoginVerificationCode(r)
    PROVE  SessionInv'
<1> DEFINE k == sessionJob[r].ticket
           login == [Session!NoJob EXCEPT !.opened = password]
<1>1. SessionTyped /\ ChainInv /\ TicketInv
    BY DEF SessionInv
<1>2. /\ sessionStage[r] = "found"
      /\ tickets' = [tickets EXCEPT ![k] = Session!Spent(k, r)]
      /\ UNCHANGED <<password, tokens, ended, torn>>
    BY DEF Session!ConsumePasswordResetToken, Session!ConsumeEmailVerificationToken,
           Session!ConsumeLoginVerificationCode, Session!Consume, Session!At
<1>3. k \in DOMAIN tickets
    BY <1>1, <1>2 DEF SessionTyped, SessionRequest
<1>4. /\ login \in SessionJob
      /\ Unlinked(login)
      /\ login.opened = password
    <2>1. Session!NoJob \in SessionJob
        BY DEF SessionJob, Session!NoJob
    <2>2. password \in Nat
        BY <1>1, BackOfficeAssumption DEF SessionTyped
    <2>3. login \in SessionJob
        BY <2>1, <2>2 DEF SessionJob
    <2>4. Unlinked(login) /\ login.opened = password
        BY DEF Session!NoJob, Unlinked
    <2> QED BY <2>3, <2>4
<1>5. Session!NoJob \in SessionJob /\ Unlinked(Session!NoJob)
    BY DEF SessionJob, Session!NoJob, Unlinked
<1>6. PICK s \in {"write", "idle", "issue"}, new \in {Session!NoJob, login} :
          SessionMoves(r, s, new) /\ (IF s = "issue" THEN new = login
                                                     ELSE new = Session!NoJob)
    BY DEF Session!ConsumePasswordResetToken, Session!ConsumeEmailVerificationToken,
           Session!ConsumeLoginVerificationCode, Session!Consume, Session!Go, SessionMoves
<1>7. /\ sessionStage'[r] = s /\ sessionJob'[r] = new
      /\ \A q \in Requests \ {r} : /\ sessionStage'[q] = sessionStage[q]
                                   /\ sessionJob'[q] = sessionJob[q]
                                   /\ Open(q)' <=> Open(q)
    BY <1>1, <1>6, OthersStay
<1> HIDE DEF login, k
<1>8. TicketsSpent({k}, r)
    <2>1. Session!Spent(k, r) \in Ticket
        BY <1>1, <1>3, SpentTicket
    <2>2. tickets \in Seq(Ticket)
        BY <1>1 DEF SessionTyped
    <2>3. tickets' = [tickets EXCEPT ![k] = Session!Spent(k, r)]
        BY <1>2
    <2>4. /\ tickets' \in Seq(Ticket)
          /\ DOMAIN tickets' = DOMAIN tickets
          /\ \A j \in DOMAIN tickets :
                tickets'[j] = IF j = k THEN Session!Spent(k, r) ELSE tickets[j]
        BY ONLY <1>3, <2>1, <2>2, <2>3, ChangeRow, Zenon
    <2> QED BY <1>1, <1>3, <2>4, SpentTicket DEF TicketsSpent
<1>9. TokensStay
    BY <1>1, <1>2, UnchangedTokens
<1>10. SessionTyped'
    <2>1. SessionTablesGrow
        BY <1>1, <1>2, <1>8 DEF SessionTyped, SessionTablesGrow, TicketsSpent
    <2>2. SessionRequest(r)'
        BY <1>1, <1>2, <1>4, <1>6, <1>7 DEF SessionRequest, Unlinked, SessionTyped
    <2>3. password' \in 1..MaxPasswords /\ torn' \in BOOLEAN /\ ended' \subseteq DOMAIN tokens'
        BY <1>1, <1>2 DEF SessionTyped
    <2>4. s \in SessionStages /\ new \in SessionJob
        BY <1>4, <1>5 DEF SessionStages
    <2> QED BY <1>1, <1>6, <2>1, <2>2, <2>3, <2>4, SessionMovesTyped
<1>11. ChainInv'
    <2>1. NothingOpens
        BY <1>2, <1>4, <1>6, <1>7 DEF NothingOpens, Open, Unlinked
    <2>2. PasswordsHold
        BY <1>2, <1>7 DEF PasswordsHold, PasswordHolds
    <2> QED BY <1>1, <1>2, <1>9, <2>1, <2>2, ChainsStay
<1>12. TicketInv'
    <2>1. sessionJob'[r].ticket = 0 /\ sessionStage'[r] # "create"
        BY <1>4, <1>5, <1>6, <1>7 DEF Unlinked
    <2>2. {k} \in SUBSET DOMAIN tickets
        BY <1>3
    <2>3. \A j \in {k} : tickets[j].raced \/ tickets[j].uses = 0
        BY <1>1, <1>3 DEF TicketInv, k
    <2> QED BY <1>1, <1>7, <1>8, <2>1, <2>2, <2>3, SpentKeeps
<1> QED BY <1>10, <1>11, <1>12 DEF SessionInv

\* A refresh begins: the token is the one its session lives by.
LEMMA VerifyKeeps ==
    ASSUME SessionInv, NEW r \in Requests, NEW t \in DOMAIN tokens,
           Session!VerifyRefreshToken(r, t)
    PROVE  SessionInv'
<1> DEFINE c   == tokens[t].chain
           new == [Session!NoJob EXCEPT !.token = t, !.chain = c,
                                        !.opened = tokens[t].opened]
<1>1. SessionTyped /\ ChainInv /\ TicketInv
    BY DEF SessionInv
<1>2. /\ tokens[t].valid
      /\ sessionStage[r] = "idle"
      /\ SessionMoves(r, "verified", new)
      /\ UNCHANGED <<password, tokens, tickets, ended, torn>>
    BY DEF Session!VerifyRefreshToken, Session!Begin, Session!Go, Session!At, SessionMoves
<1>3. tokens[t] \in Token /\ c \in DOMAIN tokens /\ t \in Nat /\ c \in Nat
    BY <1>1, RowType DEF SessionTyped
<1>4. tokens[t].opened \in Nat
    BY <1>3, BackOfficeAssumption DEF Token
<1>5. /\ new \in SessionJob
      /\ new.token = t /\ new.chain = c /\ new.opened = tokens[t].opened
      /\ new.ticket = 0
    <2>1. Session!NoJob \in SessionJob
        BY DEF SessionJob, Session!NoJob
    <2>2. Session!NoJob.ticket = 0
        BY DEF Session!NoJob
    <2> HIDE DEF c
    <2> QED BY <1>3, <1>4, <2>1, <2>2 DEF SessionJob
<1> HIDE DEF new
<1>6. /\ sessionStage'[r] = "verified" /\ sessionJob'[r] = new
      /\ \A q \in Requests \ {r} : /\ sessionStage'[q] = sessionStage[q]
                                   /\ sessionJob'[q] = sessionJob[q]
                                   /\ Open(q)' <=> Open(q)
    BY <1>1, <1>2, OthersStay
<1>7. TokensStay /\ TicketsStay
    BY <1>1, <1>2, UnchangedTokens, UnchangedTickets
<1>8. SessionTyped'
    <2>1. tokens[t].opened \in 1..MaxPasswords
        BY <1>3 DEF Token
    <2>2. SessionRequest(r)'
        BY <1>2, <1>3, <1>5, <1>6, <2>1 DEF SessionRequest
    <2>3. password' \in 1..MaxPasswords /\ torn' \in BOOLEAN /\ ended' \subseteq DOMAIN tokens'
        BY <1>1, <1>2 DEF SessionTyped
    <2> QED BY <1>1, <1>2, <1>5, <1>7, <2>2, <2>3, TablesStay, SessionMovesTyped
            DEF SessionStages
<1>9. TicketInv'
    BY <1>1, <1>5, <1>6, <1>7, TicketsKeep
<1>10. ASSUME NEW version PROVE PasswordHolds(version)' <=> PasswordHolds(version)
    BY <1>2, <1>6 DEF PasswordHolds
<1>11. ASSUME NEW d PROVE Session!RacedChain(d)' <=> Session!RacedChain(d)
    BY <1>2 DEF Session!RacedChain
<1>12. Session!RacedChain(c) \/ (c \notin ended /\ IsLast(t, c)
                                  /\ PasswordHolds(tokens[t].opened))
    BY <1>1, <1>2, <1>3 DEF ChainInv, ChainLives, ValidToken
<1>13. ASSUME NEW q \in Requests, Open(q)'
       PROVE  PasswordHolds(sessionJob[q].opened)' \/ Session!RacedChain(sessionJob[q].chain)'
    <2>1. CASE q = r
        BY <1>2, <1>5, <1>6, <1>10, <1>11, <1>12, <2>1 DEF PasswordHolds, Session!RacedChain
    <2>2. CASE q # r
        <3>1. \/ PasswordHolds(sessionJob[q].opened)
              \/ Session!RacedChain(sessionJob[q].chain)
            BY <1>1, <1>6, <1>13, <2>2 DEF ChainInv
        <3> QED BY <1>2, <1>6, <2>2, <3>1 DEF PasswordHolds, Session!RacedChain
    <2> QED BY <2>1, <2>2
<1>14. ASSUME NEW d \in DOMAIN tokens, ~ Session!RacedChain(d)
       PROVE  ChainLives(d)'
    <2>1. ChainLives(d)
        BY <1>1, <1>14 DEF ChainInv
    <2>2. ASSUME NEW u \in DOMAIN tokens', ValidToken(u, d)'
          PROVE  d \notin ended' /\ IsLast(u, d)' /\ PasswordHolds(tokens[u].opened)'
        <3>1. u \in DOMAIN tokens /\ ValidToken(u, d)
            BY <1>2, <2>2 DEF ValidToken
        <3>2. d \notin ended /\ IsLast(u, d) /\ PasswordHolds(tokens[u].opened)
            BY <2>1, <3>1 DEF ChainLives
        <3> QED BY <1>2, <1>6, <3>2 DEF IsLast, PasswordHolds
    <2>3. ASSUME NEW q \in Requests, Open(q)', sessionJob'[q].chain = d
          PROVE  d \notin ended' /\ IsLast(sessionJob[q].token, d)'
        <3>1. CASE q = r
            BY <1>2, <1>5, <1>6, <1>12, <1>14, <2>3, <3>1 DEF IsLast
        <3>2. CASE q # r
            <4>1. d \notin ended /\ IsLast(sessionJob[q].token, d)
                BY <1>6, <2>1, <2>3, <3>2 DEF ChainLives
            <4> QED BY <1>2, <1>6, <3>2, <4>1 DEF IsLast
        <3> QED BY <3>1, <3>2
    <2>4. ASSUME NEW q \in Requests, Open(q)', sessionJob'[q].chain = d,
                 sessionStage'[q] = "issue"
          PROVE  /\ \A u \in DOMAIN tokens' : ~ ValidToken(u, d)'
                 /\ \A p \in Requests \ {q} : Open(p)' => sessionJob'[p].chain # d
        <3>1. q # r
            BY <1>6, <2>4
        <3>2. /\ \A u \in DOMAIN tokens : ~ ValidToken(u, d)
              /\ \A p \in Requests \ {q} : Open(p) => sessionJob[p].chain # d
            BY <1>6, <2>1, <2>4, <3>1 DEF ChainLives
        <3>3. d # c
            BY <1>2, <3>2 DEF ValidToken
        <3>4. \A u \in DOMAIN tokens' : ~ ValidToken(u, d)'
            BY <1>2, <3>2 DEF ValidToken
        <3> QED BY <1>5, <1>6, <3>2, <3>3, <3>4
    <2> QED BY <2>2, <2>3, <2>4 DEF ChainLives
<1>15. ChainInv'
    BY <1>2, <1>11, <1>13, <1>14 DEF ChainInv
<1> QED BY <1>8, <1>9, <1>15 DEF SessionInv

\* A token is issued: it is the first of a new session, or the only valid one of
\* the session it refreshes, unless the request was overtaken.
LEMMA GenerateKeeps ==
    ASSUME SessionInv, NEW r \in Requests, Session!GenerateRefreshToken(r)
    PROVE  SessionInv'
<1>a. PICK n : n = Len(tokens) + 1
    OBVIOUS
<1>b. PICK c : c = IF sessionJob[r].chain = 0 THEN n ELSE sessionJob[r].chain
    OBVIOUS
<1> DEFINE row == [chain |-> c, opened |-> sessionJob[r].opened,
                   raced |-> sessionJob[r].raced, valid |-> TRUE]
<1>1. SessionTyped /\ ChainInv /\ TicketInv
    BY DEF SessionInv
<1>2. /\ sessionStage[r] = "issue"
      /\ tokens' = Append(tokens, row)
      /\ SessionMoves(r, "idle", Session!NoJob)
      /\ UNCHANGED <<password, tickets, ended, torn>>
    BY <1>a, <1>b DEF Session!GenerateRefreshToken, Session!Finish, Session!Go, Session!At, SessionMoves
<1>3. /\ sessionJob[r].chain \in {0} \cup DOMAIN tokens
      /\ sessionJob[r].opened \in 1..MaxPasswords
      /\ sessionJob[r].raced \in BOOLEAN
    BY <1>1, <1>2 DEF SessionTyped, SessionRequest, SessionJob
<1>4. tokens \in Seq(Token)
    BY <1>1 DEF SessionTyped
<1>5. DOMAIN tokens = 1..Len(tokens) /\ Len(tokens) \in Nat
    BY <1>4, RowType
<1>6. /\ n \in Nat \ {0}
      /\ c \in {n} \cup DOMAIN tokens
      /\ c \in Nat \ {0}
      /\ \A u \in DOMAIN tokens : u <= n
    BY <1>3, <1>5, <1>a, <1>b
<1>7. /\ row \in Token
      /\ row.chain = c
      /\ row.opened = sessionJob[r].opened
      /\ row.raced = sessionJob[r].raced
    BY <1>3, <1>6 DEF Token
<1> HIDE DEF row
<1>8. row \in Token
    BY <1>7
<1>9. /\ Append(tokens, row) \in Seq(Token)
      /\ DOMAIN Append(tokens, row) = DOMAIN tokens \cup {Len(tokens) + 1}
      /\ Len(tokens) + 1 \notin DOMAIN tokens
      /\ \A k \in DOMAIN tokens : Append(tokens, row)[k] = tokens[k]
      /\ Append(tokens, row)[Len(tokens) + 1] = row
    BY <1>4, <1>8, InsertRow
<1>10. /\ tokens' \in Seq(Token)
       /\ DOMAIN tokens' = DOMAIN tokens \cup {n}
       /\ n \notin DOMAIN tokens
       /\ \A k \in DOMAIN tokens : tokens'[k] = tokens[k]
       /\ tokens'[n] = row
    BY <1>2, <1>9, <1>a
<1>11. /\ sessionStage'[r] = "idle" /\ sessionJob'[r] = Session!NoJob
       /\ \A q \in Requests \ {r} : /\ sessionStage'[q] = sessionStage[q]
                                    /\ sessionJob'[q] = sessionJob[q]
                                    /\ Open(q)' <=> Open(q)
    BY <1>1, <1>2, OthersStay
<1>12. TicketsStay
    BY <1>1, <1>2, UnchangedTickets
<1>13. SessionTyped'
    <2>1. \A t \in DOMAIN tokens' : tokens'[t].chain \in DOMAIN tokens'
        BY <1>1, <1>6, <1>7, <1>10 DEF SessionTyped
    <2>2. SessionTablesGrow
        BY <1>1, <1>2, <1>10, <2>1 DEF SessionTyped, SessionTablesGrow
    <2>3. SessionRequest(r)'
        BY <1>11 DEF SessionRequest
    <2>4. password' \in 1..MaxPasswords /\ torn' \in BOOLEAN /\ ended' \subseteq DOMAIN tokens'
        BY <1>1, <1>2, <1>10 DEF SessionTyped
    <2>5. "idle" \in SessionStages /\ Session!NoJob \in SessionJob
        BY DEF SessionStages, SessionJob, Session!NoJob
    <2> QED BY <1>1, <1>2, <2>2, <2>3, <2>4, <2>5, SessionMovesTyped
<1>14. TicketInv'
    <2>1. Session!NoJob.ticket = 0
        BY DEF Session!NoJob
    <2> QED BY <1>1, <1>11, <1>12, <2>1, TicketsKeep
<1>15. ASSUME NEW version PROVE PasswordHolds(version)' <=> PasswordHolds(version)
    BY <1>2, <1>11 DEF PasswordHolds
<1>16. ASSUME NEW d
       PROVE  Session!RacedChain(d)' <=> Session!RacedChain(d)
                                           \/ (d = c /\ sessionJob[r].raced)
    BY <1>7, <1>10 DEF Session!RacedChain
<1>17. ASSUME NEW q \in Requests, Open(q)'
       PROVE  PasswordHolds(sessionJob[q].opened)' \/ Session!RacedChain(sessionJob[q].chain)'
    <2>1. q # r
        BY <1>11, <1>17 DEF Open
    <2>2. sessionJob'[q] = sessionJob[q]
        BY <1>11, <2>1
    <2>3. \/ PasswordHolds(sessionJob[q].opened)
          \/ Session!RacedChain(sessionJob[q].chain)
        BY <1>1, <1>11, <1>17, <2>1 DEF ChainInv
    <2>4. PasswordHolds(sessionJob[q].opened) => PasswordHolds(sessionJob[q].opened)'
        BY <1>2, <1>11, <2>2 DEF PasswordHolds
    <2>5. Session!RacedChain(sessionJob[q].chain) => Session!RacedChain(sessionJob[q].chain)'
        BY <1>10, <2>2 DEF Session!RacedChain
    <2> QED BY <2>3, <2>4, <2>5
\* The other sessions.
<1>18. ASSUME NEW d \in DOMAIN tokens, d # c, ~ Session!RacedChain(d)
       PROVE  ChainLives(d)'
    <2>1. ChainLives(d)
        BY <1>1, <1>18 DEF ChainInv
    <2>2. ASSUME NEW u \in DOMAIN tokens', ValidToken(u, d)'
          PROVE  d \notin ended' /\ IsLast(u, d)' /\ PasswordHolds(tokens[u].opened)'
        <3>1. u \in DOMAIN tokens /\ ValidToken(u, d) /\ tokens'[u] = tokens[u]
            BY <1>7, <1>10, <1>18, <2>2 DEF ValidToken
        <3>2. d \notin ended /\ IsLast(u, d) /\ PasswordHolds(tokens[u].opened)
            BY <2>1, <3>1 DEF ChainLives
        <3>3. IsLast(u, d)'
            BY <1>7, <1>10, <1>18, <3>2 DEF IsLast
        <3> QED BY <1>2, <1>11, <3>1, <3>2, <3>3 DEF PasswordHolds
    <2>3. ASSUME NEW q \in Requests, Open(q)', sessionJob'[q].chain = d
          PROVE  d \notin ended' /\ IsLast(sessionJob[q].token, d)'
        <3>1. q # r
            BY <1>11, <2>3 DEF Open
        <3>2. d \notin ended /\ IsLast(sessionJob[q].token, d)
            BY <1>11, <2>1, <2>3, <3>1 DEF ChainLives
        <3> QED BY <1>2, <1>7, <1>10, <1>11, <1>18, <3>1, <3>2 DEF IsLast
    <2>4. ASSUME NEW q \in Requests, Open(q)', sessionJob'[q].chain = d,
                 sessionStage'[q] = "issue"
          PROVE  /\ \A u \in DOMAIN tokens' : ~ ValidToken(u, d)'
                 /\ \A p \in Requests \ {q} : Open(p)' => sessionJob'[p].chain # d
        <3>1. q # r
            BY <1>11, <2>4 DEF Open
        <3>2. /\ \A u \in DOMAIN tokens : ~ ValidToken(u, d)
              /\ \A p \in Requests \ {q} : Open(p) => sessionJob[p].chain # d
            BY <1>11, <2>1, <2>4, <3>1 DEF ChainLives
        <3>3. \A u \in DOMAIN tokens' : ~ ValidToken(u, d)'
            BY <1>7, <1>10, <1>18, <3>2 DEF ValidToken
        <3>4. \A p \in Requests : Open(p)' => p # r
            BY <1>11 DEF Open
        <3> QED BY <1>11, <3>2, <3>3, <3>4
    <2> QED BY <2>2, <2>3, <2>4 DEF ChainLives
\* A session of the number of the new token, which begins none.
<1>19. ASSUME n # c
       PROVE  ChainLives(n)'
    <2>1. \A u \in DOMAIN tokens' : tokens'[u].chain # n
        BY <1>1, <1>7, <1>10, <1>19 DEF SessionTyped
    <2>2. ASSUME NEW q \in Requests, Open(q)' PROVE sessionJob'[q].chain # n
        <3>1. q # r /\ n # 0
            BY <1>6, <1>11, <2>2 DEF Open
        <3>2. Open(q) /\ sessionJob'[q] = sessionJob[q]
            BY <1>11, <2>2, <3>1
        <3> QED BY <1>1, <1>10, <3>1, <3>2 DEF SessionTyped, SessionRequest, Open
    <2> QED BY <2>1, <2>2 DEF ChainLives, ValidToken
\* The session of the new token.
<1>20. ASSUME ~ sessionJob[r].raced, ~ Session!RacedChain(c)
       PROVE  ChainLives(c)'
    <2>1. Open(r)
        BY <1>2, <1>20 DEF Open
    <2>2. /\ c \notin ended
          /\ \A u \in DOMAIN tokens : ~ ValidToken(u, c)
          /\ \A q \in Requests \ {r} : Open(q) => sessionJob[q].chain # c
          /\ PasswordHolds(sessionJob[r].opened)
        <3>1. CASE sessionJob[r].chain = 0
            <4>1. c = n
                BY <3>1, <1>b
            <4>2. n # 0
                BY <1>6
            <4>3. \A u \in DOMAIN tokens : tokens[u].chain # c
                BY <1>1, <1>10, <4>1 DEF SessionTyped
            <4>4. \A q \in Requests : Open(q) => sessionJob[q].chain # c
                BY <1>1, <1>10, <4>1, <4>2 DEF SessionTyped, SessionRequest, Open
            <4>5. c \notin ended
                BY <1>1, <1>10, <4>1 DEF SessionTyped
            <4>6. ~ Session!RacedChain(0)
                <5>1. 0 \notin DOMAIN tokens
                    BY <1>5
                <5> QED BY <1>1, <5>1 DEF Session!RacedChain, SessionTyped
            <4>7. PasswordHolds(sessionJob[r].opened)
                BY <1>1, <2>1, <3>1, <4>6 DEF ChainInv
            <4> QED BY <4>3, <4>4, <4>5, <4>7 DEF ValidToken
        <3>2. CASE sessionJob[r].chain # 0
            <4>1. c = sessionJob[r].chain /\ c \in DOMAIN tokens
                BY <1>3, <1>b, <3>2
            <4>2. ChainLives(c) /\ PasswordHolds(sessionJob[r].opened)
                BY <1>1, <1>20, <2>1, <4>1 DEF ChainInv
            <4> QED BY <1>2, <2>1, <4>1, <4>2 DEF ChainLives
        <3> QED BY <3>1, <3>2
    <2>3. \A q \in Requests : Open(q)' => sessionJob'[q].chain # c
        <3>1. \A q \in Requests : Open(q)' => q # r
            BY <1>11 DEF Open
        <3> QED BY <1>11, <2>2, <3>1
    <2>4. ASSUME NEW u \in DOMAIN tokens', ValidToken(u, c)'
          PROVE  c \notin ended' /\ IsLast(u, c)' /\ PasswordHolds(tokens[u].opened)'
        <3>1. u = n
            BY <1>10, <2>2, <2>4 DEF ValidToken
        <3>2. IsLast(n, c)'
            BY <1>6, <1>10 DEF IsLast
        <3>3. PasswordHolds(tokens[u].opened)'
            BY <1>2, <1>7, <1>10, <1>11, <2>2, <3>1 DEF PasswordHolds
        <3> QED BY <1>2, <2>2, <3>1, <3>2, <3>3
    <2> QED BY <2>3, <2>4 DEF ChainLives
<1>21. ASSUME NEW d \in DOMAIN tokens', ~ Session!RacedChain(d)'
       PROVE  ChainLives(d)'
    <2>1. CASE d = c
        BY <1>16, <1>20, <1>21, <2>1
    <2>2. CASE d # c /\ d = n
        BY <1>19, <2>2
    <2>3. CASE d # c /\ d # n
        BY <1>10, <1>16, <1>18, <1>21, <2>3
    <2> QED BY <2>1, <2>2, <2>3
<1>22. ChainInv'
    BY <1>17, <1>21 DEF ChainInv
<1> QED BY <1>13, <1>14, <1>22 DEF SessionInv

\* Requests are overtaken: they keep the rest of what they hold.
RequestsOvertaken(who) ==
    sessionJob' = [r \in Requests |->
                     [sessionJob[r] EXCEPT !.raced = @ \/ r \in who]]

LEMMA OvertakenRequest ==
    ASSUME SessionTyped, NEW who, RequestsOvertaken(who), NEW r \in Requests
    PROVE  /\ sessionJob'[r] \in SessionJob
           /\ sessionJob'[r].token = sessionJob[r].token
           /\ sessionJob'[r].ticket = sessionJob[r].ticket
           /\ sessionJob'[r].chain = sessionJob[r].chain
           /\ sessionJob'[r].opened = sessionJob[r].opened
           /\ sessionJob'[r].raced = (sessionJob[r].raced \/ r \in who)
           /\ r \notin who => sessionJob'[r] = sessionJob[r]
<1>1. sessionJob[r] \in SessionJob
    BY DEF SessionTyped
<1>2. PICK mark \in BOOLEAN : mark = (sessionJob[r].raced \/ r \in who)
    BY <1>1 DEF SessionJob
<1>3. sessionJob'[r] = [sessionJob[r] EXCEPT !.raced = mark]
    BY <1>2 DEF RequestsOvertaken
<1>4. /\ sessionJob'[r] \in SessionJob
      /\ sessionJob'[r].token = sessionJob[r].token
      /\ sessionJob'[r].ticket = sessionJob[r].ticket
      /\ sessionJob'[r].chain = sessionJob[r].chain
      /\ sessionJob'[r].opened = sessionJob[r].opened
      /\ sessionJob'[r].raced = mark
    BY <1>1, <1>3 DEF SessionJob
<1>5. r \notin who => sessionJob'[r] = sessionJob[r]
    BY <1>1, <1>2, <1>4 DEF SessionJob
<1> QED BY <1>2, <1>4, <1>5

\* The types, and what does not depend on the sessions, when tokens are revoked
\* and requests overtaken.
LEMMA OvertakenKeeps ==
    ASSUME SessionInv, TokensStay, UNCHANGED <<password, tickets>>,
           ended' \subseteq DOMAIN tokens, torn' \in BOOLEAN,
           NEW who \in SUBSET Session!Issuing, RequestsOvertaken(who),
           sessionStage' \in [Requests -> SessionStages],
           \A r \in Requests :
              \/ sessionStage'[r] = sessionStage[r]
              \/ sessionStage[r] = "verified" /\ sessionStage'[r] = "issue"
              \/ sessionStage[r] = "written" /\ sessionStage'[r] = "idle"
    PROVE  SessionTyped' /\ TicketInv'
<1>1. SessionTyped /\ TicketInv
    BY DEF SessionInv
<1>2. TicketsStay
    BY <1>1, UnchangedTickets
<1>3. SessionTablesGrow
    BY <1>1, <1>2, TablesStay
<1>4. \A r \in Requests : sessionJob'[r] \in SessionJob
    BY <1>1, OvertakenRequest
<1>5. sessionJob' \in [Requests -> SessionJob]
    BY <1>4 DEF RequestsOvertaken
<1>6. ASSUME NEW r \in Requests PROVE SessionRequest(r)'
    <2>1. SessionRequest(r)
        BY <1>1 DEF SessionTyped
    <2>2. /\ sessionJob'[r].token = sessionJob[r].token
          /\ sessionJob'[r].ticket = sessionJob[r].ticket
          /\ sessionJob'[r].chain = sessionJob[r].chain
          /\ sessionJob'[r].opened = sessionJob[r].opened
          /\ r \notin who => sessionJob'[r] = sessionJob[r]
        BY <1>1, OvertakenRequest
    <2>3. r \in who => sessionStage[r] \in {"verified", "issue"}
        BY DEF Session!Issuing
    <2>4. \/ sessionStage'[r] = sessionStage[r]
          \/ sessionStage[r] = "verified" /\ sessionStage'[r] = "issue"
          \/ sessionStage[r] = "written" /\ sessionStage'[r] = "idle"
        OBVIOUS
    <2>5. CASE sessionStage'[r] = sessionStage[r]
        BY <1>2, <2>1, <2>2, <2>3, <2>5 DEF SessionRequest, TokensStay, TicketsStay
    <2>6. CASE sessionStage[r] = "verified" /\ sessionStage'[r] = "issue"
        BY <2>1, <2>2, <2>6 DEF SessionRequest, TokensStay
    <2>7. CASE sessionStage[r] = "written" /\ sessionStage'[r] = "idle"
        BY <2>1, <2>2, <2>3, <2>7 DEF SessionRequest
    <2> QED BY <2>4, <2>5, <2>6, <2>7
<1>7. SessionTyped'
    <2>1. password' \in 1..MaxPasswords /\ tickets' \in Seq(Ticket)
        BY <1>1 DEF SessionTyped
    <2>2. ended' \subseteq DOMAIN tokens' /\ tokens' \in Seq(Token)
        BY DEF TokensStay
    <2>3. \A t \in DOMAIN tokens' : tokens'[t].chain \in DOMAIN tokens'
        BY <1>3 DEF SessionTablesGrow
    <2> QED BY <1>5, <1>6, <2>1, <2>2, <2>3 DEF SessionTyped
<1>8. TicketInv'
    <2>1. \A r \in Requests : sessionJob'[r].ticket \in {0, sessionJob[r].ticket}
        BY <1>1, OvertakenRequest
    <2>2. \A r \in Requests : sessionStage'[r] = "create" => sessionStage[r] = "create"
        OBVIOUS
    <2> QED BY <1>1, <1>2, <2>1, <2>2, TicketsKeep
<1> QED BY <1>7, <1>8

LEMMA TokenIsNumber ==
    ASSUME SessionTyped
    PROVE  \A t \in DOMAIN tokens : t \in Nat
<1>1. tokens \in Seq(Token)
    BY DEF SessionTyped
<1>2. DOMAIN tokens = 1..Len(tokens)
    BY <1>1, RowType
<1> QED BY <1>2

\* The token a request refreshes is revoked: the session is the request's, and
\* of no other that had found the token.
LEMMA RevokeVerifiedKeeps ==
    ASSUME SessionInv, NEW r \in Requests, Session!RevokeVerified(r)
    PROVE  SessionInv'
<1>a. PICK k : k = sessionJob[r].token
    OBVIOUS
<1>n. \A t \in DOMAIN tokens : t \in Nat
    BY TokenIsNumber DEF SessionInv
<1>b. PICK who : who = {q \in Session!Issuing \ {r} : sessionJob[q].token = sessionJob[r].token}
    OBVIOUS
<1>1. SessionTyped /\ ChainInv /\ TicketInv
    BY DEF SessionInv
<1>2. /\ sessionStage[r] = "verified"
      /\ tokens' = [tokens EXCEPT ![k].valid = FALSE]
      /\ sessionStage' = [sessionStage EXCEPT ![r] = "issue"]
      /\ RequestsOvertaken(who)
      /\ UNCHANGED <<password, tickets, ended, torn>>
    BY <1>a, <1>b DEF Session!RevokeVerified, Session!Revoke, Session!Go, Session!At,
           Session!Overtake, RequestsOvertaken
<1>3. k \in DOMAIN tokens /\ tokens[k].chain = sessionJob[r].chain
    BY <1>1, <1>2, <1>a DEF SessionTyped, SessionRequest
<1>4. TokensStay /\ ~ tokens'[k].valid
    BY <1>1, <1>2, <1>3, RevokedToken
<1>5. /\ sessionStage' \in [Requests -> SessionStages]
      /\ sessionStage'[r] = "issue"
      /\ \A q \in Requests \ {r} : sessionStage'[q] = sessionStage[q]
    BY <1>1, <1>2 DEF SessionTyped, SessionStages
<1>6. SessionTyped' /\ TicketInv'
    <2>1. who \in SUBSET Session!Issuing
        BY <1>b
    <2>2. ended' \subseteq DOMAIN tokens /\ torn' \in BOOLEAN
        BY <1>1, <1>2 DEF SessionTyped
    <2>3. \A q \in Requests :
              \/ sessionStage'[q] = sessionStage[q]
              \/ sessionStage[q] = "verified" /\ sessionStage'[q] = "issue"
              \/ sessionStage[q] = "written" /\ sessionStage'[q] = "idle"
        BY <1>2, <1>5
    <2> QED BY <1>2, <1>4, <1>5, <2>1, <2>2, <2>3, OvertakenKeeps
<1>7. ASSUME NEW q \in Requests, Open(q)'
      PROVE  /\ Open(q)
             /\ q \notin who
             /\ sessionJob'[q].chain = sessionJob[q].chain
             /\ sessionJob'[q].token = sessionJob[q].token
             /\ sessionJob'[q].opened = sessionJob[q].opened
    <2>1. /\ sessionJob'[q].chain = sessionJob[q].chain
          /\ sessionJob'[q].token = sessionJob[q].token
          /\ sessionJob'[q].opened = sessionJob[q].opened
          /\ sessionJob'[q].raced = (sessionJob[q].raced \/ q \in who)
        BY <1>1, <1>2, OvertakenRequest
    <2> QED BY <1>2, <1>5, <1>7, <2>1 DEF Open
<1>8. ASSUME NEW version, PasswordHolds(version) PROVE PasswordHolds(version)'
    BY <1>2, <1>5, <1>8 DEF PasswordHolds
<1>9. ASSUME NEW c PROVE Session!RacedChain(c)' <=> Session!RacedChain(c)
    BY <1>4 DEF Session!RacedChain, TokensStay
<1>10. ASSUME NEW q \in Requests, Open(q)'
       PROVE  PasswordHolds(sessionJob[q].opened)' \/ Session!RacedChain(sessionJob[q].chain)'
    <2>1. \/ PasswordHolds(sessionJob[q].opened)
          \/ Session!RacedChain(sessionJob[q].chain)
        BY <1>1, <1>7, <1>10 DEF ChainInv
    <2> QED BY <1>4, <1>7, <1>8, <1>10, <2>1
            DEF PasswordHolds, Session!RacedChain, TokensStay
<1>11. ASSUME NEW c \in DOMAIN tokens, ~ Session!RacedChain(c)
       PROVE  ChainLives(c)'
    <2>1. ChainLives(c)
        BY <1>1, <1>11 DEF ChainInv
    <2>2. ASSUME NEW u \in DOMAIN tokens', ValidToken(u, c)'
          PROVE  /\ u \in DOMAIN tokens
                 /\ ValidToken(u, c)
                 /\ u # k
                 /\ tokens'[u].opened = tokens[u].opened
        BY <1>4, <2>2 DEF ValidToken, TokensStay
    <2>3. ASSUME NEW u \in DOMAIN tokens', ValidToken(u, c)'
          PROVE  c \notin ended' /\ IsLast(u, c)' /\ PasswordHolds(tokens[u].opened)'
        <3>1. c \notin ended /\ IsLast(u, c) /\ PasswordHolds(tokens[u].opened)
            BY <2>1, <2>2, <2>3 DEF ChainLives
        <3>2. IsLast(u, c)'
            BY <1>4, <3>1 DEF IsLast, TokensStay
        <3>3. PasswordHolds(tokens[u].opened)'
            BY <1>8, <2>2, <2>3, <3>1 DEF PasswordHolds
        <3> QED BY <1>2, <3>1, <3>2, <3>3
    <2>4. ASSUME NEW q \in Requests, Open(q)', sessionJob'[q].chain = c
          PROVE  c \notin ended' /\ IsLast(sessionJob[q].token, c)'
        <3>1. c \notin ended /\ IsLast(sessionJob[q].token, c)
            BY <1>7, <2>1, <2>4 DEF ChainLives
        <3> QED BY <1>2, <1>4, <1>7, <2>4, <3>1 DEF IsLast, TokensStay
    <2>5. ASSUME NEW q \in Requests, Open(q)', sessionJob'[q].chain = c,
                 sessionStage'[q] = "issue"
          PROVE  /\ \A u \in DOMAIN tokens' : ~ ValidToken(u, c)'
                 /\ \A p \in Requests \ {q} : Open(p)' => sessionJob'[p].chain # c
        <3>1. CASE q # r
            <4>1. /\ \A u \in DOMAIN tokens : ~ ValidToken(u, c)
                  /\ \A p \in Requests \ {q} : Open(p) => sessionJob[p].chain # c
                BY <1>5, <1>7, <2>1, <2>5, <3>1 DEF ChainLives
            <4> QED BY <1>7, <2>2, <4>1
        <3>2. CASE q = r
            <4>1. Open(r) /\ sessionJob[r].chain = c /\ IsLast(k, c) /\ tokens[k].chain = c
                BY <1>3, <1>7, <1>a, <2>1, <2>5, <3>2 DEF ChainLives
            <4>2. ASSUME NEW u \in DOMAIN tokens', ValidToken(u, c)' PROVE FALSE
                <5>1. IsLast(u, c) /\ u <= k /\ k <= u
                    BY <1>3, <2>1, <2>2, <4>1, <4>2 DEF ChainLives, IsLast, ValidToken
                <5>2. u \in Nat /\ k \in Nat
                    BY <1>n, <1>3, <2>2, <4>2
                <5> QED BY <2>2, <4>2, <5>1, <5>2
            <4>3. ASSUME NEW p \in Requests \ {r}, Open(p)', sessionJob'[p].chain = c
                  PROVE  FALSE
                <5>1. Open(p) /\ sessionJob[p].chain = c /\ p \notin who
                    BY <1>7, <4>3
                <5>2. sessionStage[p] # "issue"
                    BY <2>1, <4>1, <5>1 DEF ChainLives
                <5>3. /\ sessionStage[p] = "verified"
                      /\ sessionJob[p].token \in DOMAIN tokens
                      /\ tokens[sessionJob[p].token].chain = c
                    BY <1>1, <5>1, <5>2 DEF Open, SessionTyped, SessionRequest
                <5>4. IsLast(sessionJob[p].token, c)
                    BY <2>1, <5>1 DEF ChainLives
                <5>5. sessionJob[p].token <= k /\ k <= sessionJob[p].token
                    BY <1>3, <4>1, <5>3, <5>4 DEF IsLast
                <5>6. sessionJob[p].token \in Nat /\ k \in Nat
                    BY <1>n, <1>3, <5>3
                <5>7. sessionJob[p].token = k
                    BY <5>5, <5>6
                <5>8. p \in Session!Issuing \ {r}
                    BY <5>3 DEF Session!Issuing
                <5> QED BY <1>a, <1>b, <5>1, <5>7, <5>8
            <4> QED BY <3>2, <4>2, <4>3
        <3> QED BY <3>1, <3>2
    <2> QED BY <2>3, <2>4, <2>5 DEF ChainLives
<1>12. ChainInv'
    <2>1. DOMAIN tokens' = DOMAIN tokens
        BY <1>4 DEF TokensStay
    <2> QED BY <1>9, <1>10, <1>11, <2>1 DEF ChainInv
<1> QED BY <1>6, <1>12 DEF SessionInv

\* A token is revoked and its session is over: no other token of it is valid, and
\* no request that had found another one is open.
LEMMA LogoutKeeps ==
    ASSUME SessionInv, NEW t \in DOMAIN tokens, Session!Logout(t)
    PROVE  SessionInv'
<1>b. PICK who : who = {q \in Session!Issuing : sessionJob[q].token = t}
    OBVIOUS
<1>n. \A u \in DOMAIN tokens : u \in Nat
    BY TokenIsNumber DEF SessionInv
<1>1. SessionTyped /\ ChainInv /\ TicketInv
    BY DEF SessionInv
<1>2. /\ tokens' = [tokens EXCEPT ![t].valid = FALSE]
      /\ ended' = IF tokens[t].valid THEN ended \cup {tokens[t].chain} ELSE ended
      /\ RequestsOvertaken(who)
      /\ UNCHANGED <<password, tickets, sessionStage, torn>>
    BY <1>b DEF Session!Logout, Session!Revoke, Session!Overtake, RequestsOvertaken
<1>4. TokensStay /\ ~ tokens'[t].valid
    BY <1>1, <1>2, RevokedToken
<1>6. SessionTyped' /\ TicketInv'
    <2>1. who \in SUBSET Session!Issuing
        BY <1>b
    <2>2. ended' \subseteq DOMAIN tokens /\ torn' \in BOOLEAN
        BY <1>1, <1>2 DEF SessionTyped
    <2>3. sessionStage' \in [Requests -> SessionStages]
        BY <1>1, <1>2 DEF SessionTyped
    <2>4. \A q \in Requests :
              \/ sessionStage'[q] = sessionStage[q]
              \/ sessionStage[q] = "verified" /\ sessionStage'[q] = "issue"
              \/ sessionStage[q] = "written" /\ sessionStage'[q] = "idle"
        BY <1>2
    <2> QED BY <1>2, <1>4, <2>1, <2>2, <2>3, <2>4, OvertakenKeeps
<1>7. ASSUME NEW q \in Requests, Open(q)'
      PROVE  /\ Open(q)
             /\ sessionStage'[q] = sessionStage[q]
             /\ sessionJob[q].token # t
             /\ sessionJob'[q].chain = sessionJob[q].chain
             /\ sessionJob'[q].token = sessionJob[q].token
             /\ sessionJob'[q].opened = sessionJob[q].opened
    <2>1. /\ sessionJob'[q].chain = sessionJob[q].chain
          /\ sessionJob'[q].token = sessionJob[q].token
          /\ sessionJob'[q].opened = sessionJob[q].opened
          /\ sessionJob'[q].raced = (sessionJob[q].raced \/ q \in who)
        BY <1>1, <1>2, OvertakenRequest
    <2>2. Open(q) /\ q \notin who
        BY <1>2, <1>7, <2>1 DEF Open
    <2>3. q \in Session!Issuing
        BY <2>2 DEF Open, Session!Issuing
    <2> QED BY <1>2, <1>b, <2>1, <2>2, <2>3
<1>8. \A version : PasswordHolds(version) => PasswordHolds(version)'
    BY <1>2 DEF PasswordHolds
<1>9. ASSUME NEW c PROVE Session!RacedChain(c)' <=> Session!RacedChain(c)
    BY <1>4 DEF Session!RacedChain, TokensStay
<1>10. ASSUME NEW q \in Requests, Open(q)'
       PROVE  PasswordHolds(sessionJob[q].opened)' \/ Session!RacedChain(sessionJob[q].chain)'
    <2>1. \/ PasswordHolds(sessionJob[q].opened)
          \/ Session!RacedChain(sessionJob[q].chain)
        BY <1>1, <1>7, <1>10 DEF ChainInv
    <2> QED BY <1>2, <1>4, <1>7, <1>10, <2>1
            DEF PasswordHolds, Session!RacedChain, TokensStay
<1>11. ASSUME NEW c \in DOMAIN tokens, ~ Session!RacedChain(c)
       PROVE  ChainLives(c)'
    <2>1. ChainLives(c)
        BY <1>1, <1>11 DEF ChainInv
    <2>2. ASSUME NEW u \in DOMAIN tokens', ValidToken(u, c)'
          PROVE  /\ u \in DOMAIN tokens
                 /\ ValidToken(u, c)
                 /\ u # t
                 /\ tokens'[u].opened = tokens[u].opened
        BY <1>4, <2>2 DEF ValidToken, TokensStay
    <2>a. c \in ended' => c \in ended \/ ValidToken(t, c)
        BY <1>2 DEF ValidToken
    <2>b. ValidToken(t, c) => IsLast(t, c) /\ tokens[t].chain = c
        BY <2>1 DEF ChainLives, ValidToken
    <2>3. ASSUME NEW u \in DOMAIN tokens', ValidToken(u, c)'
          PROVE  c \notin ended' /\ IsLast(u, c)' /\ PasswordHolds(tokens[u].opened)'
        <3>1. c \notin ended /\ IsLast(u, c) /\ PasswordHolds(tokens[u].opened)
            BY <2>1, <2>2, <2>3 DEF ChainLives
        <3>2. IsLast(u, c)'
            BY <1>4, <3>1 DEF IsLast, TokensStay
        <3>3. PasswordHolds(tokens[u].opened)'
            BY <1>8, <2>2, <2>3, <3>1 DEF PasswordHolds
        <3>4. ~ ValidToken(t, c)
            <4>1. SUFFICES ASSUME ValidToken(t, c) PROVE FALSE
                OBVIOUS
            <4>2. u <= t /\ t <= u
                BY <2>b, <2>2, <2>3, <3>1, <4>1 DEF IsLast, ValidToken
            <4> QED BY <1>n, <2>2, <2>3, <4>2
        <3> QED BY <2>a, <3>1, <3>2, <3>3, <3>4
    <2>4. ASSUME NEW q \in Requests, Open(q)', sessionJob'[q].chain = c
          PROVE  c \notin ended' /\ IsLast(sessionJob[q].token, c)'
        <3>0. Open(q) /\ sessionJob[q].chain = c /\ sessionJob[q].token # t
            BY <1>7, <2>4
        <3>1. c \notin ended /\ IsLast(sessionJob[q].token, c)
            BY <3>0, <2>1 DEF ChainLives
        <3>2. IsLast(sessionJob[q].token, c)'
            BY <1>4, <1>7, <2>4, <3>1 DEF IsLast, TokensStay
        <3>3. ~ ValidToken(t, c)
            <4>1. SUFFICES ASSUME ValidToken(t, c) PROVE FALSE
                OBVIOUS
            <4>2. sessionStage[q] # "issue"
                BY <2>1, <3>0, <4>1 DEF ChainLives
            <4>3. /\ sessionJob[q].token \in DOMAIN tokens
                  /\ tokens[sessionJob[q].token].chain = c
                BY <1>1, <3>0, <4>2 DEF Open, SessionTyped, SessionRequest
            <4>4. sessionJob[q].token <= t /\ t <= sessionJob[q].token
                BY <2>b, <3>1, <4>1, <4>3 DEF IsLast
            <4>5. sessionJob[q].token \in Nat /\ t \in Nat
                BY <1>n, <4>3
            <4> QED BY <3>0, <4>4, <4>5
        <3> QED BY <2>a, <3>1, <3>2, <3>3
    <2>5. ASSUME NEW q \in Requests, Open(q)', sessionJob'[q].chain = c,
                 sessionStage'[q] = "issue"
          PROVE  /\ \A u \in DOMAIN tokens' : ~ ValidToken(u, c)'
                 /\ \A p \in Requests \ {q} : Open(p)' => sessionJob'[p].chain # c
        <3>1. /\ \A u \in DOMAIN tokens : ~ ValidToken(u, c)
              /\ \A p \in Requests \ {q} : Open(p) => sessionJob[p].chain # c
            BY <1>7, <2>1, <2>5 DEF ChainLives
        <3> QED BY <1>7, <2>2, <3>1
    <2> QED BY <2>3, <2>4, <2>5 DEF ChainLives
<1>12. ChainInv'
    <2>1. DOMAIN tokens' = DOMAIN tokens
        BY <1>4 DEF TokensStay
    <2> QED BY <1>9, <1>10, <1>11, <2>1 DEF ChainInv
<1> QED BY <1>6, <1>12 DEF SessionInv

\* Every token is revoked: the requests still open know the new password.
LEMMA RevokeAllKeeps ==
    ASSUME SessionInv, NEW r \in Requests, Session!RevokeAll(r)
    PROVE  SessionInv'
<1>b. PICK who : who = {q \in Session!Issuing : sessionJob[q].opened # password}
    OBVIOUS
<1>1. SessionTyped /\ ChainInv /\ TicketInv
    BY DEF SessionInv
<1>2. /\ sessionStage[r] = "written"
      /\ tokens' = [t \in DOMAIN tokens |-> [tokens[t] EXCEPT !.valid = FALSE]]
      /\ sessionStage' = [sessionStage EXCEPT ![r] = "idle"]
      /\ RequestsOvertaken(who)
      /\ torn' = FALSE
      /\ UNCHANGED <<password, tickets, ended>>
    BY <1>b DEF Session!RevokeAll, Session!At, Session!Go, Session!Overtake,
                RequestsOvertaken
<1>3. TokensStay /\ \A t \in DOMAIN tokens : ~ tokens'[t].valid
    <2>0. tokens \in Seq(Token)
        BY <1>1 DEF SessionTyped
    <2>1. ASSUME NEW t \in DOMAIN tokens
          PROVE  /\ tokens'[t] \in Token
                 /\ tokens'[t].chain = tokens[t].chain
                 /\ tokens'[t].opened = tokens[t].opened
                 /\ tokens'[t].raced = tokens[t].raced
                 /\ tokens'[t].valid = FALSE
        <3>1. tokens[t] \in Token
            BY <2>0, RowType
        <3>2. tokens'[t] = [tokens[t] EXCEPT !.valid = FALSE]
            BY <1>2
        <3> QED BY <3>1, <3>2 DEF Token
    <2>2. tokens' \in [DOMAIN tokens -> Token]
        BY <1>2, <2>1
    <2>3. tokens' \in Seq(Token) /\ DOMAIN tokens' = DOMAIN tokens
        BY <2>0, <2>2, ChangeRows
    <2> QED BY <2>1, <2>3 DEF TokensStay
<1>5. /\ sessionStage' \in [Requests -> SessionStages]
      /\ sessionStage'[r] = "idle"
      /\ \A q \in Requests \ {r} : sessionStage'[q] = sessionStage[q]
    BY <1>1, <1>2 DEF SessionTyped, SessionStages
<1>6. SessionTyped' /\ TicketInv'
    <2>1. who \in SUBSET Session!Issuing
        BY <1>b
    <2>2. ended' \subseteq DOMAIN tokens /\ torn' \in BOOLEAN
        BY <1>1, <1>2 DEF SessionTyped
    <2>3. \A q \in Requests :
              \/ sessionStage'[q] = sessionStage[q]
              \/ sessionStage[q] = "verified" /\ sessionStage'[q] = "issue"
              \/ sessionStage[q] = "written" /\ sessionStage'[q] = "idle"
        BY <1>2, <1>5
    <2> QED BY <1>2, <1>3, <1>5, <2>1, <2>2, <2>3, OvertakenKeeps
<1>7. ASSUME NEW q \in Requests, Open(q)'
      PROVE  /\ Open(q)
             /\ sessionStage'[q] = sessionStage[q]
             /\ sessionJob'[q].chain = sessionJob[q].chain
             /\ sessionJob'[q].token = sessionJob[q].token
             /\ sessionJob'[q].opened = password'
    <2>1. /\ sessionJob'[q].chain = sessionJob[q].chain
          /\ sessionJob'[q].token = sessionJob[q].token
          /\ sessionJob'[q].opened = sessionJob[q].opened
          /\ sessionJob'[q].raced = (sessionJob[q].raced \/ q \in who)
        BY <1>1, <1>2, OvertakenRequest
    <2>2. q # r
        BY <1>5, <1>7 DEF Open
    <2>3. Open(q) /\ q \notin who /\ sessionStage'[q] = sessionStage[q]
        BY <1>5, <1>7, <2>1, <2>2 DEF Open
    <2>4. q \in Session!Issuing
        BY <2>3 DEF Open, Session!Issuing
    <2> QED BY <1>2, <1>b, <2>1, <2>3, <2>4
<1>9. ASSUME NEW c PROVE Session!RacedChain(c)' <=> Session!RacedChain(c)
    BY <1>3 DEF Session!RacedChain, TokensStay
<1>10. ASSUME NEW q \in Requests, Open(q)'
       PROVE  PasswordHolds(sessionJob[q].opened)'
    BY <1>7, <1>10 DEF PasswordHolds
<1>11. ASSUME NEW c \in DOMAIN tokens, ~ Session!RacedChain(c)
       PROVE  ChainLives(c)'
    <2>1. ChainLives(c)
        BY <1>1, <1>11 DEF ChainInv
    <2>2. \A u \in DOMAIN tokens' : ~ ValidToken(u, c)'
        BY <1>3 DEF ValidToken, TokensStay
    <2>4. ASSUME NEW q \in Requests, Open(q)', sessionJob'[q].chain = c
          PROVE  c \notin ended' /\ IsLast(sessionJob[q].token, c)'
        <3>1. c \notin ended /\ IsLast(sessionJob[q].token, c)
            BY <1>7, <2>1, <2>4 DEF ChainLives
        <3> QED BY <1>2, <1>3, <1>7, <2>4, <3>1 DEF IsLast, TokensStay
    <2>5. ASSUME NEW q \in Requests, Open(q)', sessionJob'[q].chain = c,
                 sessionStage'[q] = "issue"
          PROVE  \A p \in Requests \ {q} : Open(p)' => sessionJob'[p].chain # c
        <3>1. \A p \in Requests \ {q} : Open(p) => sessionJob[p].chain # c
            BY <1>7, <2>1, <2>5 DEF ChainLives
        <3> QED BY <1>7, <3>1
    <2> QED BY <2>2, <2>4, <2>5 DEF ChainLives
<1>12. ChainInv'
    <2>1. DOMAIN tokens' = DOMAIN tokens
        BY <1>3 DEF TokensStay
    <2> QED BY <1>9, <1>10, <1>11, <2>1 DEF ChainInv
<1> QED BY <1>6, <1>12 DEF SessionInv

LEMMA InitSession == Session!Init => SessionInv
<1> SUFFICES ASSUME Session!Init PROVE SessionInv
    OBVIOUS
<1> USE DEF Session!Init
<1>1. SessionTyped
    <2>1. password \in 1..MaxPasswords
        BY BackOfficeAssumption
    <2>2. tokens \in Seq(Token) /\ tickets \in Seq(Ticket) /\ DOMAIN tokens = {}
        OBVIOUS
    <2>3. Session!NoJob \in SessionJob
        BY DEF Session!NoJob, SessionJob
    <2>4. sessionStage \in [Requests -> SessionStages] /\ sessionJob \in [Requests -> SessionJob]
        BY <2>3 DEF SessionStages
    <2>5. \A r \in Requests : SessionRequest(r)
        BY DEF SessionRequest
    <2> QED BY <2>1, <2>2, <2>4, <2>5 DEF SessionTyped
<1>2. ChainInv
    <2>1. DOMAIN tokens = {}
        OBVIOUS
    <2>2. \A r \in Requests : ~ Open(r)
        BY DEF Open
    <2> QED BY <2>1, <2>2 DEF ChainInv
<1>3. TicketInv
    <2>1. DOMAIN tickets = {}
        OBVIOUS
    <2>2. \A r \in Requests : sessionStage[r] # "create"
        OBVIOUS
    <2> QED BY <2>1, <2>2 DEF TicketInv, Session!OpenCodes
<1> QED BY <1>1, <1>2, <1>3 DEF SessionInv

LEMMA NextSession == SessionInv /\ Session!Next => SessionInv'
<1> SUFFICES ASSUME SessionInv, Session!Next PROVE SessionInv'
    OBVIOUS
<1> USE DEF Session!Next
<1>1. ASSUME NEW r \in Requests,
             \/ Session!Login(r) \/ Session!SendLoginCode(r)
             \/ Session!IssueSessionForUser(r) \/ Session!ChangePassword(r)
             \/ \E k \in DOMAIN tickets : Session!FindTicket(r, k)
             \/ \E t \in DOMAIN tokens : Session!VerifyRefreshToken(r, t)
      PROVE  SessionInv'
    BY <1>1, BeginKeeps, FindTicketKeeps, VerifyKeeps
<1>2. ASSUME NEW r \in Requests,
             \/ Session!GenerateRefreshToken(r) \/ Session!RetireCodes(r)
             \/ Session!CreateLoginCode(r)
             \/ Session!ConsumePasswordResetToken(r)
             \/ Session!ConsumeEmailVerificationToken(r)
             \/ Session!ConsumeLoginVerificationCode(r)
             \/ Session!RevokeVerified(r)
             \/ Session!WritePassword(r) \/ Session!RevokeAll(r) \/ Session!Abort(r)
      PROVE  SessionInv'
    BY <1>2, GenerateKeeps, RetireCodesKeeps, CreateLoginCodeKeeps, ConsumeKeeps,
       RevokeVerifiedKeeps, WritePasswordKeeps, RevokeAllKeeps, SessionAbortKeeps
<1>3. ASSUME NEW t \in DOMAIN tokens, Session!Logout(t) PROVE SessionInv'
    BY <1>3, LogoutKeeps
<1>4. CASE Session!ForgotPassword \/ Session!ResendVerificationEmail
    BY <1>4, SendLinkKeeps
<1>5. CASE \/ \E t \in DOMAIN tokens : Session!ExpireToken(t)
           \/ \E k \in DOMAIN tickets : Session!ExpireTicket(k)
    BY <1>5, ExpireKeeps
<1> QED BY <1>1, <1>2, <1>3, <1>4, <1>5

\* What the properties of Sessions say of a state of the invariant.
LEMMA SessionProperties ==
    ASSUME SessionInv
    PROVE  Session!TypeOK /\ Session!CleanSessionEnds /\ Session!CleanTicketOnce
<1>1. SessionTyped /\ ChainInv /\ TicketInv
    BY DEF SessionInv
<1>n. \A u \in DOMAIN tokens : u \in Nat
    BY <1>1, TokenIsNumber
<1>2. Session!TypeOK
    BY <1>1 DEF SessionTyped, Session!TypeOK, Token, Ticket, SessionStages
<1>3. ASSUME NEW c \in {tokens[t].chain : t \in DOMAIN tokens}
      PROVE  Session!RacedChain(c) \/
             /\ Session!Cardinality(Session!ValidIn(c)) <= IF c \in ended THEN 0 ELSE 1
             /\ \A t \in Session!ValidIn(c) :
                   \/ tokens[t].opened = password
                   \/ torn
                   \/ \E r \in Requests : Session!At(r, "written")
    <2>1. c \in DOMAIN tokens
        BY <1>1 DEF SessionTyped
    <2>2. SUFFICES ASSUME ChainLives(c)
                   PROVE  /\ Session!Cardinality(Session!ValidIn(c)) <= IF c \in ended THEN 0 ELSE 1
                          /\ \A t \in Session!ValidIn(c) :
                                \/ tokens[t].opened = password
                                \/ torn
                                \/ \E r \in Requests : Session!At(r, "written")
        BY <1>1, <2>1 DEF ChainInv
    <2>3. \A t \in Session!ValidIn(c) : ValidToken(t, c) /\ t \in DOMAIN tokens
        BY DEF Session!ValidIn, ValidToken
    <2>4. \A t \in Session!ValidIn(c) : /\ c \notin ended
                                        /\ IsLast(t, c)
                                        /\ PasswordHolds(tokens[t].opened)
        BY <2>2, <2>3 DEF ChainLives
    <2>5. ASSUME NEW t \in Session!ValidIn(c), NEW u \in Session!ValidIn(c) PROVE t = u
        <3>1. t <= u /\ u <= t
            BY <2>3, <2>4 DEF IsLast, ValidToken
        <3> QED BY <1>n, <2>3, <3>1
    <2>6. /\ Cardinality(Session!ValidIn(c)) <= 1
          /\ Session!ValidIn(c) = {} => Cardinality(Session!ValidIn(c)) <= 0
        BY <2>5, AtMostOne
    <2>7. c \in ended => Session!ValidIn(c) = {}
        BY <2>4
    <2>8. Cardinality(Session!ValidIn(c)) <= IF c \in ended THEN 0 ELSE 1
        BY <2>6, <2>7
    <2>9. Session!Cardinality(Session!ValidIn(c)) = Cardinality(Session!ValidIn(c))
        BY SameCardinality
    <2>10. \A t \in Session!ValidIn(c) : \/ tokens[t].opened = password
                                         \/ torn
                                         \/ \E r \in Requests : Session!At(r, "written")
        BY <2>4 DEF PasswordHolds, Session!At
    <2> QED BY <2>8, <2>9, <2>10
<1>4. Session!CleanSessionEnds
    BY <1>3 DEF Session!CleanSessionEnds
<1>5. Session!CleanTicketOnce
    <2> DEFINE codes == {k \in DOMAIN tickets : /\ tickets[k].kind = "code"
                                                /\ tickets[k].valid
                                                /\ ~ tickets[k].raced}
    <2>1. \A k, l \in codes : k = l
        BY <1>1 DEF TicketInv, Session!OpenCodes
    <2>2. Session!Cardinality(codes) <= 1
        <3> HIDE DEF codes
        <3> QED BY <2>1, AtMostOne, SameCardinality
    <2>3. \A k \in DOMAIN tickets : tickets[k].raced \/ tickets[k].uses <= 1
        BY <1>1 DEF TicketInv
    <2> QED BY <2>2, <2>3 DEF Session!CleanTicketOnce
<1> QED BY <1>2, <1>4, <1>5
-----------------------------------------------------------------------------
\* Accounts.

Invitation == [email : Emails, status : Account!Status, expired : BOOLEAN,
               raced : BOOLEAN]
User == [email : Emails, active : BOOLEAN, gone : BOOLEAN, invitation : Nat,
         raced : BOOLEAN]
AccountStages == {"idle", "pending", "create", "write", "email", "commit", "delete"}
AccountJob == [kind : {"none", "invite", "resend", "revoke", "accept", "create", "delete"},
               email : Emails \cup {None}, invitation : Nat, user : Nat]

\* What a request has read names rows that exist,
JobRefers(j) ==
    /\ j.invitation \in {0} \cup DOMAIN invitations
    /\ j.user \in {0} \cup DOMAIN users
    /\ j.kind \in {"resend", "revoke", "accept"} => j.invitation \in DOMAIN invitations
    /\ j.kind = "delete" => j.user \in DOMAIN users
    /\ j.kind \in {"invite", "accept", "create"} => j.email \in Emails

\* .. and still holds, unless the row is marked.
JobIsFresh(j) ==
    /\ j.kind = "accept" => \/ invitations[j.invitation].raced
                            \/ invitations[j.invitation].status = "PENDING"
    /\ j.kind = "revoke" => \/ invitations[j.invitation].raced
                            \/ invitations[j.invitation].status # "ACCEPTED"
    /\ j.kind = "delete" => \/ users[j.user].raced
                            \/ ~ users[j.user].active

AccountTyped ==
    /\ invitations \in Seq(Invitation)
    /\ users \in Seq(User)
    /\ accountStage \in [Requests -> AccountStages]
    /\ accountJob \in [Requests -> AccountJob]
    /\ \A u \in DOMAIN users : users[u].invitation \in {0} \cup DOMAIN invitations
    /\ \A r \in Requests : JobRefers(accountJob[r])

\* One account came through an accepted invitation, and none through another.
Answered(i) ==
    \/ invitations[i].raced
    \/ /\ invitations[i].status = "ACCEPTED"
       /\ \E u \in DOMAIN users : Account!Through(i) = {u}
    \/ /\ invitations[i].status # "ACCEPTED"
       /\ Account!Through(i) = {}

DeletedInactive(u) == users[u].gone => ~ users[u].active \/ users[u].raced

AccountInv ==
    /\ AccountTyped
    /\ \A r \in Requests : JobIsFresh(accountJob[r])
    /\ \A i \in DOMAIN invitations : Answered(i)
    /\ \A u \in DOMAIN users : DeletedInactive(u)

\* A request enters a stage with what it holds from there.
AccountMoves(r, s, new) ==
    /\ accountStage' = [accountStage EXCEPT ![r] = s]
    /\ accountJob' = [accountJob EXCEPT ![r] = new]

\* The tables keep their rows, and an account keeps its invitation.
AccountTablesGrow ==
    /\ invitations' \in Seq(Invitation)
    /\ users' \in Seq(User)
    /\ DOMAIN invitations \subseteq DOMAIN invitations'
    /\ DOMAIN users \subseteq DOMAIN users'
    /\ \A u \in DOMAIN users' : users'[u].invitation \in {0} \cup DOMAIN invitations'

LEMMA NoAccountJob ==
    /\ Account!NoJob \in AccountJob
    /\ JobRefers(Account!NoJob)
    /\ JobIsFresh(Account!NoJob)
BY DEF Account!NoJob, AccountJob, JobRefers, JobIsFresh

LEMMA NoAccountJobLater ==
    /\ JobRefers(Account!NoJob)'
    /\ JobIsFresh(Account!NoJob)'
BY DEF Account!NoJob, JobRefers, JobIsFresh

LEMMA AccountTablesStay ==
    ASSUME AccountTyped, UNCHANGED <<invitations, users>>
    PROVE  AccountTablesGrow
BY DEF AccountTyped, AccountTablesGrow

\* A request moves while the tables grow.
LEMMA AccountMovesTyped ==
    ASSUME AccountTyped, NEW r \in Requests, NEW s \in AccountStages,
           NEW new \in AccountJob, AccountMoves(r, s, new), AccountTablesGrow,
           JobRefers(new)
    PROVE  /\ AccountTyped'
           /\ accountJob'[r] = new
           /\ \A q \in Requests \ {r} : accountJob'[q] = accountJob[q]
<1>1. accountStage' \in [Requests -> AccountStages]
    BY DEF AccountTyped, AccountMoves
<1>2. accountJob' \in [Requests -> AccountJob]
    BY DEF AccountTyped, AccountMoves
<1>3. /\ accountJob'[r] = new
      /\ \A q \in Requests \ {r} : accountJob'[q] = accountJob[q]
    BY DEF AccountTyped, AccountMoves
<1>4. ASSUME NEW j, JobRefers(j) PROVE JobRefers(j)'
    BY <1>4 DEF JobRefers, AccountTablesGrow
<1>5. \A q \in Requests : JobRefers(accountJob'[q])
    BY <1>3 DEF AccountTyped
<1>6. \A q \in Requests : JobRefers(accountJob[q])'
    BY <1>5 DEF JobRefers, AccountTablesGrow
<1> QED BY <1>1, <1>2, <1>3, <1>6 DEF AccountTyped, AccountTablesGrow

\* A request moves on what it has read, and nothing is written.
LEMMA AccountMovesKeep ==
    ASSUME AccountInv, NEW r \in Requests, NEW s \in AccountStages,
           NEW new \in AccountJob, AccountMoves(r, s, new),
           UNCHANGED <<invitations, users>>, JobRefers(new), JobIsFresh(new)
    PROVE  AccountInv'
<1>1. AccountTyped /\ AccountTablesGrow
    BY AccountTablesStay DEF AccountInv
<1>2. /\ AccountTyped'
      /\ accountJob'[r] = new
      /\ \A q \in Requests \ {r} : accountJob'[q] = accountJob[q]
    BY <1>1, AccountMovesTyped
<1>3. \A q \in Requests : JobIsFresh(accountJob[q])'
    BY <1>2 DEF JobIsFresh, AccountInv
<1>4. /\ \A i \in DOMAIN invitations' : Answered(i)'
      /\ \A u \in DOMAIN users' : DeletedInactive(u)'
    BY DEF Answered, Account!Through, DeletedInactive, AccountInv
<1> QED BY <1>2, <1>3, <1>4 DEF AccountInv

\* The reads that begin an invitation, an answer, a registration or a deletion.
LEMMA AccountBeginKeeps ==
    ASSUME AccountInv, NEW r \in Requests,
           Account!InvitationRoutes(r) \/ Account!UserRoutes(r)
    PROVE  AccountInv'
<1> USE NoAccountJob
<1>1. AccountTyped /\ invitations \in Seq(Invitation) /\ users \in Seq(User)
    BY DEF AccountInv, AccountTyped
<1>2. /\ \A i \in DOMAIN invitations : invitations[i] \in Invitation /\ i \in Nat
      /\ \A u \in DOMAIN users : u \in Nat
    BY <1>1, RowType
<1>3. ASSUME NEW s \in AccountStages, NEW new \in AccountJob, Account!Begin(r, s, new),
             UNCHANGED <<invitations, users>>, JobRefers(new), JobIsFresh(new)
      PROVE  AccountInv'
    <2>1. AccountMoves(r, s, new)
        BY <1>3 DEF Account!Begin, AccountMoves
    <2> QED BY <1>3, <2>1, AccountMovesKeep
<1>4. ASSUME NEW email \in Emails,
             Account!InviteCheckUser(r, email) \/ Account!CreateCheckUser(r, email)
      PROVE  AccountInv'
    <2>1. PICK kind \in {"invite", "create"}, s \in {"pending", "create"} :
              /\ Account!Begin(r, s, [Account!NoJob EXCEPT !.kind = kind, !.email = email])
              /\ UNCHANGED <<invitations, users>>
        BY <1>4 DEF Account!InviteCheckUser, Account!CreateCheckUser
    <2>2. PICK new : new = [Account!NoJob EXCEPT !.kind = kind, !.email = email]
        OBVIOUS
    <2>3. new \in AccountJob
        BY <2>2 DEF AccountJob
    <2>4. JobRefers(new) /\ JobIsFresh(new)
        BY <2>2 DEF JobRefers, JobIsFresh, Account!NoJob
    <2>5. s \in AccountStages
        BY DEF AccountStages
    <2> QED BY <1>3, <2>1, <2>2, <2>3, <2>4, <2>5
<1>5. ASSUME NEW i \in DOMAIN invitations, NEW kind \in {"resend", "revoke"},
             Account!ReadInvitation(r, i, kind)
      PROVE  AccountInv'
    <2>1. PICK new : new = [Account!NoJob EXCEPT !.kind = kind, !.invitation = i]
        OBVIOUS
    <2>2. Account!Begin(r, "write", new) /\ UNCHANGED <<invitations, users>>
        BY <1>5, <2>1 DEF Account!ReadInvitation
    <2>3. new \in AccountJob
        BY <1>2, <2>1 DEF AccountJob
    <2>4. JobRefers(new)
        BY <2>1 DEF JobRefers, Account!NoJob
    <2>5. kind = "revoke" => invitations[i].status # "ACCEPTED"
        BY <1>5 DEF Account!ReadInvitation, Account!Revocable
    <2>6. JobIsFresh(new)
        BY <2>1, <2>5 DEF JobIsFresh, Account!NoJob
    <2>7. "write" \in AccountStages
        BY DEF AccountStages
    <2> QED BY <1>3, <2>2, <2>3, <2>4, <2>6, <2>7
<1>6. ASSUME NEW i \in DOMAIN invitations, Account!AcceptLoad(r, i)
      PROVE  AccountInv'
    <2>1. PICK new : new = [Account!NoJob EXCEPT !.kind = "accept", !.invitation = i,
                                                 !.email = invitations[i].email]
        OBVIOUS
    <2>2. /\ Account!Begin(r, "email", new) /\ UNCHANGED <<invitations, users>>
          /\ invitations[i].status = "PENDING"
        BY <1>6, <2>1 DEF Account!AcceptLoad
    <2>a. invitations[i].email \in Emails
        BY <1>2 DEF Invitation
    <2>3. new \in AccountJob
        BY <1>2, <2>1, <2>a DEF AccountJob
    <2>4. JobRefers(new)
        BY <2>1, <2>a DEF JobRefers, Account!NoJob
    <2>6. JobIsFresh(new)
        BY <2>1, <2>2 DEF JobIsFresh, Account!NoJob
    <2>7. "email" \in AccountStages
        BY DEF AccountStages
    <2> QED BY <1>3, <2>2, <2>3, <2>4, <2>6, <2>7
<1>7. ASSUME NEW u \in DOMAIN users, Account!DeleteRead(r, u)
      PROVE  AccountInv'
    <2>1. PICK new : new = [Account!NoJob EXCEPT !.kind = "delete", !.user = u]
        OBVIOUS
    <2>2. /\ Account!Begin(r, "delete", new) /\ UNCHANGED <<invitations, users>>
          /\ ~ users[u].active
        BY <1>7, <2>1 DEF Account!DeleteRead, Account!Deletable
    <2>3. new \in AccountJob
        BY <1>2, <2>1 DEF AccountJob
    <2>4. JobRefers(new)
        BY <2>1 DEF JobRefers, Account!NoJob
    <2>6. JobIsFresh(new)
        BY <2>1, <2>2 DEF JobIsFresh, Account!NoJob
    <2>7. "delete" \in AccountStages
        BY DEF AccountStages
    <2> QED BY <1>3, <2>2, <2>3, <2>4, <2>6, <2>7
<1> QED BY <1>4, <1>5, <1>6, <1>7 DEF Account!InvitationRoutes, Account!UserRoutes

\* The next checks of a request that goes on, and the end of one that stops.
LEMMA AccountCheckKeeps ==
    ASSUME AccountInv, NEW r \in Requests,
           \/ Account!InviteCheckPending(r)
           \/ Account!AcceptCheckUser(r)
           \/ Account!Abort(r)
    PROVE  AccountInv'
<1>1. AccountTyped
    BY DEF AccountInv
<1>2. CASE Account!InviteCheckPending(r) \/ Account!AcceptCheckUser(r)
    <2>1. PICK s \in {"create", "commit"} : Account!Go(r, s)
        BY <1>2 DEF Account!InviteCheckPending, Account!AcceptCheckUser
    <2>2. AccountMoves(r, s, accountJob[r]) /\ UNCHANGED <<invitations, users>>
        BY <1>1, <1>2, <2>1 DEF Account!InviteCheckPending, Account!AcceptCheckUser, Account!Go,
                          AccountMoves, AccountTyped
    <2>3. accountJob[r] \in AccountJob /\ JobRefers(accountJob[r]) /\ JobIsFresh(accountJob[r])
        BY <1>1 DEF AccountTyped, AccountInv
    <2>4. s \in AccountStages
        BY DEF AccountStages
    <2> QED BY <2>2, <2>3, <2>4, AccountMovesKeep
<1>3. CASE Account!Abort(r)
    <2>1. AccountMoves(r, "idle", Account!NoJob) /\ UNCHANGED <<invitations, users>>
        BY <1>3 DEF Account!Abort, Account!Finish, AccountMoves
    <2>2. "idle" \in AccountStages
        BY DEF AccountStages
    <2> QED BY <2>1, <2>2, AccountMovesKeep, NoAccountJob
<1> QED BY <1>2, <1>3

\* An invitation changes.
LEMMA ChangedInvitation ==
    ASSUME AccountTyped, NEW i \in DOMAIN invitations, NEW row \in Invitation,
           NEW table2, table2 = [invitations EXCEPT ![i] = row], invitations' = table2,
           UNCHANGED users
    PROVE  /\ AccountTablesGrow
           /\ DOMAIN invitations' = DOMAIN invitations
           /\ invitations'[i] = row
           /\ \A k \in DOMAIN invitations \ {i} : invitations'[k] = invitations[k]
<1>1. invitations \in Seq(Invitation) /\ i \in DOMAIN invitations
    BY DEF AccountTyped
<1>2. /\ table2 \in Seq(Invitation)
      /\ DOMAIN table2 = DOMAIN invitations
      /\ \A j \in DOMAIN invitations : table2[j] = IF j = i THEN row ELSE invitations[j]
    <2>1. row \in Invitation
        OBVIOUS
    <2>2. table2 = [invitations EXCEPT ![i] = row]
        OBVIOUS
    <2> QED BY ONLY <1>1, <2>1, <2>2, ChangeRow, Zenon
<1> QED BY <1>2 DEF AccountTablesGrow, AccountTyped

\* A new term, or its end, answers nothing.
LEMMA TermKeeps ==
    ASSUME AccountInv, NEW i \in DOMAIN invitations, NEW expired \in BOOLEAN,
           invitations' = [invitations EXCEPT ![i].expired = expired],
           UNCHANGED users, accountStage' \in [Requests -> AccountStages],
           accountJob' \in [Requests -> AccountJob],
           \A q \in Requests : accountJob'[q] \in {accountJob[q], Account!NoJob}
    PROVE  AccountInv'
<1>1. AccountTyped
    BY DEF AccountInv
<1>2. PICK row : row = [invitations[i] EXCEPT !.expired = expired]
    OBVIOUS
<1>3. invitations[i] \in Invitation
    BY <1>1, RowType DEF AccountTyped
<1>4. /\ row \in Invitation
      /\ row.status = invitations[i].status
      /\ row.raced = invitations[i].raced
    BY <1>2, <1>3 DEF Invitation
<1>5. invitations' = [invitations EXCEPT ![i] = row]
    BY <1>2
<1>6. /\ AccountTablesGrow
      /\ DOMAIN invitations' = DOMAIN invitations
      /\ invitations'[i] = row
      /\ \A k \in DOMAIN invitations \ {i} : invitations'[k] = invitations[k]
    BY <1>1, <1>4, <1>5, ChangedInvitation
<1>7. \A k \in DOMAIN invitations : /\ invitations'[k].status = invitations[k].status
                                    /\ invitations'[k].raced = invitations[k].raced
    BY <1>4, <1>6
<1>8. ASSUME NEW q \in Requests PROVE JobRefers(accountJob[q])' /\ JobIsFresh(accountJob[q])'
    <2>1. CASE accountJob'[q] = Account!NoJob
        BY <2>1, NoAccountJob DEF JobRefers, JobIsFresh, Account!NoJob
    <2>2. CASE accountJob'[q] = accountJob[q]
        <3>1. JobRefers(accountJob[q]) /\ JobIsFresh(accountJob[q])
            BY <1>1 DEF AccountInv, AccountTyped
        <3> QED BY <1>6, <1>7, <2>2, <3>1 DEF JobRefers, JobIsFresh, AccountTablesGrow
    <2> QED BY <2>1, <2>2
<1>9. AccountTyped'
    BY <1>6, <1>8 DEF AccountTyped, AccountTablesGrow
<1>10. ASSUME NEW k \in DOMAIN invitations' PROVE Answered(k)'
    <2>1. Answered(k)
        BY <1>6 DEF AccountInv
    <2> QED BY <1>6, <1>7, <2>1 DEF Answered, Account!Through
<1>11. \A u \in DOMAIN users' : DeletedInactive(u)'
    BY DEF DeletedInactive, AccountInv
<1> QED BY <1>8, <1>9, <1>10, <1>11 DEF AccountInv

LEMMA AccountFinish ==
    ASSUME AccountTyped, NEW r \in Requests, Account!Finish(r)
    PROVE  /\ AccountMoves(r, "idle", Account!NoJob)
           /\ accountStage' \in [Requests -> AccountStages]
           /\ accountJob' \in [Requests -> AccountJob]
           /\ accountJob'[r] = Account!NoJob
           /\ \A q \in Requests \ {r} : accountJob'[q] = accountJob[q]
           /\ \A q \in Requests : accountJob'[q] \in {accountJob[q], Account!NoJob}
<1>1. AccountMoves(r, "idle", Account!NoJob)
    BY DEF Account!Finish, AccountMoves
<1>2. accountStage' \in [Requests -> AccountStages]
    BY <1>1 DEF AccountMoves, AccountTyped, AccountStages
<1>3. accountJob' \in [Requests -> AccountJob]
    BY <1>1, NoAccountJob DEF AccountMoves, AccountTyped
<1>4. accountJob'[r] = Account!NoJob /\ \A q \in Requests \ {r} : accountJob'[q] = accountJob[q]
    BY <1>1 DEF AccountMoves, AccountTyped
<1> QED BY <1>1, <1>2, <1>3, <1>4

LEMMA ResendKeeps ==
    ASSUME AccountInv, NEW r \in Requests, Account!Resend(r)
    PROVE  AccountInv'
<1>1. AccountTyped
    BY DEF AccountInv
<1>2. PICK i : i = accountJob[r].invitation
    OBVIOUS
<1>3. /\ invitations' = [invitations EXCEPT ![i].expired = FALSE]
      /\ Account!Finish(r)
      /\ UNCHANGED users
      /\ accountJob[r].kind = "resend"
    BY <1>2 DEF Account!Resend, Account!At
<1>4. i \in DOMAIN invitations
    BY <1>1, <1>2, <1>3 DEF AccountTyped, JobRefers
<1>5. /\ accountStage' \in [Requests -> AccountStages]
      /\ accountJob' \in [Requests -> AccountJob]
      /\ \A q \in Requests : accountJob'[q] \in {accountJob[q], Account!NoJob}
    BY <1>1, <1>3, AccountFinish
<1> QED BY <1>3, <1>4, <1>5, TermKeeps

LEMMA InvitationExpireKeeps ==
    ASSUME AccountInv, NEW i \in DOMAIN invitations, Account!Expire(i)
    PROVE  AccountInv'
<1>1. /\ invitations' = [invitations EXCEPT ![i].expired = TRUE]
      /\ UNCHANGED <<users, accountStage, accountJob>>
    BY DEF Account!Expire
<1>2. /\ accountStage' \in [Requests -> AccountStages]
      /\ accountJob' \in [Requests -> AccountJob]
      /\ \A q \in Requests : accountJob'[q] \in {accountJob[q], Account!NoJob}
    BY <1>1 DEF AccountInv, AccountTyped
<1> QED BY <1>1, <1>2, TermKeeps

\* The request that ends has answered an invitation: another that is about to
\* answer it finds it marked.
LEMMA RevokeInvitationKeeps ==
    ASSUME AccountInv, NEW r \in Requests, Account!Revoke(r)
    PROVE  AccountInv'
<1>1. AccountTyped
    BY DEF AccountInv
<1>2. PICK i : i = accountJob[r].invitation
    OBVIOUS
<1>3. /\ invitations' = [invitations EXCEPT ![i].status = "REVOKED",
                           ![i].raced = @ \/ Account!Answering(r, i, {"accept"})]
      /\ Account!Finish(r)
      /\ UNCHANGED users
      /\ accountJob[r].kind = "revoke"
    BY <1>2 DEF Account!Revoke, Account!At
<1>4. i \in DOMAIN invitations /\ invitations[i] \in Invitation
    BY <1>1, <1>2, <1>3, RowType DEF AccountTyped, JobRefers
<1>5. PICK mark \in BOOLEAN :
          mark = (invitations[i].raced \/ Account!Answering(r, i, {"accept"}))
    BY <1>4 DEF Invitation
<1>6. PICK row : row = [invitations[i] EXCEPT !.status = "REVOKED", !.raced = mark]
    OBVIOUS
<1>7. row \in Invitation /\ row.status = "REVOKED" /\ row.raced = mark
    BY <1>4, <1>6 DEF Invitation, Account!Status
<1>8. invitations' = [invitations EXCEPT ![i] = row]
    BY <1>3, <1>4, <1>5, <1>6
<1>9. /\ AccountTablesGrow
      /\ DOMAIN invitations' = DOMAIN invitations
      /\ invitations'[i] = row
      /\ \A k \in DOMAIN invitations \ {i} : invitations'[k] = invitations[k]
    BY <1>1, <1>3, <1>4, <1>7, <1>8, ChangedInvitation
<1>10. /\ AccountMoves(r, "idle", Account!NoJob)
       /\ accountJob'[r] = Account!NoJob
       /\ \A q \in Requests \ {r} : accountJob'[q] = accountJob[q]
    BY <1>1, <1>3, AccountFinish
<1>11. AccountTyped'
    BY <1>1, <1>9, <1>10, NoAccountJob, AccountMovesTyped DEF AccountStages
<1>12. ASSUME NEW q \in Requests PROVE JobIsFresh(accountJob[q])'
    <2>1. CASE q = r
        BY <1>10, <2>1 DEF JobIsFresh, Account!NoJob
    <2>2. CASE q # r
        <3>1. JobIsFresh(accountJob[q]) /\ JobRefers(accountJob[q])
            BY <1>1 DEF AccountInv, AccountTyped
        <3>2. accountJob[q].kind = "accept" /\ accountJob[q].invitation = i => mark
            BY <1>5, <2>2 DEF Account!Answering
        <3> QED BY <1>3, <1>7, <1>9, <1>10, <2>2, <3>1, <3>2 DEF JobIsFresh, JobRefers
    <2> QED BY <2>1, <2>2
<1>13. ASSUME NEW k \in DOMAIN invitations' PROVE Answered(k)'
    <2>1. Answered(k)
        BY <1>9 DEF AccountInv
    <2>2. Account!Through(k)' = Account!Through(k)
        BY <1>3 DEF Account!Through
    <2>3. CASE k # i
        BY <1>3, <1>9, <2>1, <2>2, <2>3 DEF Answered
    <2>4. CASE k = i
        <3>1. JobIsFresh(accountJob[r])
            BY DEF AccountInv
        <3>2. invitations[i].raced \/ invitations[i].status # "ACCEPTED"
            BY <1>2, <1>3, <3>1 DEF JobIsFresh
        <3> QED BY <1>5, <1>7, <1>9, <2>1, <2>2, <2>4, <3>2 DEF Answered
    <2> QED BY <2>3, <2>4
<1>14. \A u \in DOMAIN users' : DeletedInactive(u)'
    BY <1>3 DEF DeletedInactive, AccountInv
<1> QED BY <1>11, <1>12, <1>13, <1>14 DEF AccountInv

LEMMA InviteCreateKeeps ==
    ASSUME AccountInv, NEW r \in Requests, Account!InviteCreate(r)
    PROVE  AccountInv'
<1>1. AccountTyped
    BY DEF AccountInv
<1>2. PICK row : row = [email |-> accountJob[r].email, status |-> "PENDING",
                        expired |-> FALSE, raced |-> FALSE]
    OBVIOUS
<1>3. /\ invitations' = Append(invitations, row)
      /\ Account!Finish(r)
      /\ UNCHANGED users
      /\ accountJob[r].kind = "invite"
    BY <1>2 DEF Account!InviteCreate, Account!At
<1>4. row \in Invitation
    <2>1. accountJob[r].email \in Emails
        BY <1>1, <1>3 DEF AccountTyped, JobRefers
    <2> QED BY <1>2, <2>1 DEF Invitation, Account!Status
<1>5. /\ invitations' \in Seq(Invitation)
      /\ DOMAIN invitations' = DOMAIN invitations \cup {Len(invitations) + 1}
      /\ Len(invitations) + 1 \notin DOMAIN invitations
      /\ Len(invitations) \in Nat
      /\ \A k \in DOMAIN invitations : invitations'[k] = invitations[k]
      /\ invitations'[Len(invitations) + 1] = row
    BY <1>1, <1>3, <1>4, InsertRow DEF AccountTyped
<1>6. AccountTablesGrow
    BY <1>1, <1>3, <1>5 DEF AccountTablesGrow, AccountTyped
<1>7. /\ AccountMoves(r, "idle", Account!NoJob)
      /\ accountJob'[r] = Account!NoJob
      /\ \A q \in Requests \ {r} : accountJob'[q] = accountJob[q]
    BY <1>1, <1>3, AccountFinish
<1>8. AccountTyped'
    BY <1>1, <1>6, <1>7, NoAccountJob, AccountMovesTyped DEF AccountStages
<1>9. ASSUME NEW q \in Requests PROVE JobIsFresh(accountJob[q])'
    <2>1. CASE q = r
        BY <1>7, <2>1 DEF JobIsFresh, Account!NoJob
    <2>2. CASE q # r
        <3>1. JobIsFresh(accountJob[q]) /\ JobRefers(accountJob[q])
            BY <1>1 DEF AccountInv, AccountTyped
        <3> QED BY <1>3, <1>5, <1>7, <2>2, <3>1 DEF JobIsFresh, JobRefers
    <2> QED BY <2>1, <2>2
<1>10. ASSUME NEW k \in DOMAIN invitations' PROVE Answered(k)'
    <2>2. Account!Through(k)' = Account!Through(k)
        BY <1>3 DEF Account!Through
    <2>3. CASE k \in DOMAIN invitations
        <3>1. Answered(k)
            BY <2>3 DEF AccountInv
        <3> QED BY <1>3, <1>5, <2>2, <2>3, <3>1 DEF Answered
    <2>4. CASE k = Len(invitations) + 1
        <3>1. k # 0 /\ k \notin DOMAIN invitations
            BY <1>5, <2>4
        <3>2. \A u \in DOMAIN users : users[u].invitation # k
            BY <1>1, <3>1 DEF AccountTyped
        <3>3. Account!Through(k) = {}
            BY <3>2 DEF Account!Through
        <3>4. invitations'[k].status = "PENDING"
            BY <1>2, <1>5, <2>4
        <3> QED BY <2>2, <3>3, <3>4 DEF Answered
    <2> QED BY <1>5, <2>3, <2>4
<1>11. \A u \in DOMAIN users' : DeletedInactive(u)'
    BY <1>3 DEF DeletedInactive, AccountInv
<1> QED BY <1>8, <1>9, <1>10, <1>11 DEF AccountInv

\* An account is added.
LEMMA AddedUser ==
    ASSUME AccountTyped, NEW email \in Emails, NEW i \in {0} \cup DOMAIN invitations,
           Account!AddUser(email, i)
    PROVE  /\ users' \in Seq(User)
           /\ DOMAIN users' = DOMAIN users \cup {Len(users) + 1}
           /\ Len(users) + 1 \notin DOMAIN users
           /\ \A u \in DOMAIN users : users'[u] = users[u]
           /\ users'[Len(users) + 1].invitation = i
           /\ users'[Len(users) + 1].gone = FALSE
<1>1. PICK row : row = [email |-> email, active |-> TRUE, gone |-> FALSE,
                        invitation |-> i, raced |-> FALSE]
    OBVIOUS
<1>2. users' = Append(users, row) /\ users \in Seq(User)
    BY <1>1 DEF Account!AddUser, AccountTyped
<1>3. i \in Nat
    <2>1. invitations \in Seq(Invitation)
        BY DEF AccountTyped
    <2>2. DOMAIN invitations = 1..Len(invitations)
        BY <2>1, RowType
    <2> QED BY <2>2
<1>4. row \in User
    BY <1>1, <1>3 DEF User
<1>5. /\ users' \in Seq(User)
      /\ DOMAIN users' = DOMAIN users \cup {Len(users) + 1}
      /\ Len(users) + 1 \notin DOMAIN users
      /\ \A u \in DOMAIN users : users'[u] = users[u]
      /\ users'[Len(users) + 1] = row
    BY <1>2, <1>4, InsertRow
<1> QED BY <1>1, <1>5

LEMMA CreateUserKeeps ==
    ASSUME AccountInv, NEW r \in Requests, Account!CreateUser(r)
    PROVE  AccountInv'
<1>1. AccountTyped
    BY DEF AccountInv
<1>a. /\ Account!AddUser(accountJob[r].email, 0)
      /\ Account!Finish(r)
      /\ UNCHANGED invitations
      /\ accountJob[r].kind = "create"
    BY DEF Account!CreateUser, Account!At
<1>b. accountJob[r].email \in Emails
    BY <1>1, <1>a DEF AccountTyped, JobRefers
<1>2. PICK n : n = Len(users) + 1
    OBVIOUS
<1>3. /\ users' \in Seq(User)
      /\ DOMAIN users' = DOMAIN users \cup {n}
      /\ n \notin DOMAIN users
      /\ \A u \in DOMAIN users : users'[u] = users[u]
      /\ users'[n].invitation = 0
      /\ users'[n].gone = FALSE
    BY <1>1, <1>2, <1>a, <1>b, AddedUser
<1>4. AccountTablesGrow
    BY <1>1, <1>a, <1>3 DEF AccountTablesGrow, AccountTyped
<1>5. /\ AccountMoves(r, "idle", Account!NoJob)
      /\ accountJob'[r] = Account!NoJob
      /\ \A q \in Requests \ {r} : accountJob'[q] = accountJob[q]
    BY <1>1, <1>a, AccountFinish
<1>6. AccountTyped'
    BY <1>1, <1>4, <1>5, NoAccountJob, AccountMovesTyped DEF AccountStages
<1>7. ASSUME NEW q \in Requests PROVE JobIsFresh(accountJob[q])'
    <2>1. CASE q = r
        BY <1>5, <2>1 DEF JobIsFresh, Account!NoJob
    <2>2. CASE q # r
        <3>1. JobIsFresh(accountJob[q]) /\ JobRefers(accountJob[q])
            BY <1>1 DEF AccountInv, AccountTyped
        <3> QED BY <1>a, <1>3, <1>5, <2>2, <3>1 DEF JobIsFresh, JobRefers
    <2> QED BY <2>1, <2>2
<1>8. ASSUME NEW k \in DOMAIN invitations' PROVE Answered(k)'
    <2>1. Answered(k) /\ k \in DOMAIN invitations
        BY <1>8, <1>a DEF AccountInv
    <2>2. k # 0
        BY <1>1, <2>1, RowType DEF AccountTyped
    <2>3. Account!Through(k)' = Account!Through(k)
        BY <1>3, <2>2 DEF Account!Through
    <2> QED BY <1>a, <1>3, <2>1, <2>3 DEF Answered
<1>9. \A u \in DOMAIN users' : DeletedInactive(u)'
    BY <1>3 DEF DeletedInactive, AccountInv
<1> QED BY <1>6, <1>7, <1>8, <1>9 DEF AccountInv

\* The account and the answer are written together: it is the only account, or
\* the invitation was answered before, and is marked.
LEMMA AcceptCommitKeeps ==
    ASSUME AccountInv, NEW r \in Requests, Account!AcceptCommit(r)
    PROVE  AccountInv'
<1>1. AccountTyped
    BY DEF AccountInv
<1>i. PICK i : i = accountJob[r].invitation
    OBVIOUS
<1>a. /\ Account!AddUser(accountJob[r].email, i)
      /\ Account!Finish(r)
      /\ accountJob[r].kind = "accept"
      /\ invitations' = [invitations EXCEPT ![i].status = "ACCEPTED",
             ![i].raced = @ \/ Account!Answering(r, i, {"accept", "revoke"})]
    BY <1>i DEF Account!AcceptCommit, Account!At
<1>b. /\ accountJob[r].email \in Emails
      /\ i \in DOMAIN invitations
      /\ invitations[i] \in Invitation
      /\ i # 0
    BY <1>1, <1>a, <1>i, RowType DEF AccountTyped, JobRefers
<1>n. PICK n : n = Len(users) + 1
    OBVIOUS
<1>3. /\ users' \in Seq(User)
      /\ DOMAIN users' = DOMAIN users \cup {n}
      /\ n \notin DOMAIN users
      /\ \A u \in DOMAIN users : users'[u] = users[u]
      /\ users'[n].invitation = i
      /\ users'[n].gone = FALSE
    BY <1>1, <1>n, <1>a, <1>b, AddedUser
<1>4. PICK mark \in BOOLEAN :
          mark = (invitations[i].raced \/ Account!Answering(r, i, {"accept", "revoke"}))
    BY <1>b DEF Invitation
<1>5. PICK row : row = [invitations[i] EXCEPT !.status = "ACCEPTED", !.raced = mark]
    OBVIOUS
<1>6. row \in Invitation /\ row.status = "ACCEPTED" /\ row.raced = mark
    BY <1>b, <1>5 DEF Invitation, Account!Status
<1>7. PICK table2 : table2 = [invitations EXCEPT ![i] = row]
    OBVIOUS
<1>8. invitations' = table2
    BY <1>a, <1>b, <1>4, <1>5, <1>7
<1>9. /\ table2 \in Seq(Invitation)
      /\ DOMAIN table2 = DOMAIN invitations
      /\ \A j \in DOMAIN invitations : table2[j] = IF j = i THEN row ELSE invitations[j]
    <2>1. invitations \in Seq(Invitation) /\ i \in DOMAIN invitations
        BY <1>1, <1>b DEF AccountTyped
    <2>2. row \in Invitation
        BY <1>6
    <2> QED BY ONLY <1>7, <2>1, <2>2, ChangeRow, Zenon
<1>10. /\ DOMAIN invitations' = DOMAIN invitations
       /\ invitations'[i] = row
       /\ \A k \in DOMAIN invitations \ {i} : invitations'[k] = invitations[k]
    BY <1>b, <1>8, <1>9
<1>11. AccountTablesGrow
    BY <1>1, <1>b, <1>3, <1>8, <1>9 DEF AccountTablesGrow, AccountTyped
<1>12. /\ AccountMoves(r, "idle", Account!NoJob)
       /\ accountJob'[r] = Account!NoJob
       /\ \A q \in Requests \ {r} : accountJob'[q] = accountJob[q]
    BY <1>1, <1>a, AccountFinish
<1>13. AccountTyped'
    BY <1>1, <1>11, <1>12, NoAccountJob, AccountMovesTyped DEF AccountStages
<1>14. ASSUME NEW q \in Requests PROVE JobIsFresh(accountJob[q])'
    <2>1. CASE q = r
        BY <1>12, <2>1 DEF JobIsFresh, Account!NoJob
    <2>2. CASE q # r
        <3>1. JobIsFresh(accountJob[q]) /\ JobRefers(accountJob[q])
            BY <1>1 DEF AccountInv, AccountTyped
        <3>2. accountJob[q].kind \in {"accept", "revoke"} /\ accountJob[q].invitation = i => mark
            BY <1>4, <2>2 DEF Account!Answering
        <3> QED BY <1>3, <1>6, <1>10, <1>12, <2>2, <3>1, <3>2 DEF JobIsFresh, JobRefers
    <2> QED BY <2>1, <2>2
<1>15. ASSUME NEW k \in DOMAIN invitations' PROVE Answered(k)'
    <2>1. Answered(k) /\ k \in DOMAIN invitations
        BY <1>15, <1>10 DEF AccountInv
    <2>2. CASE k # i
        <3>1. Account!Through(k)' = Account!Through(k)
            BY <1>3, <2>2 DEF Account!Through
        <3> QED BY <1>3, <1>10, <2>1, <2>2, <3>1 DEF Answered
    <2>3. CASE k = i
        <3>1. JobIsFresh(accountJob[r])
            BY DEF AccountInv
        <3>2. invitations[i].raced \/ invitations[i].status = "PENDING"
            BY <1>i, <1>a, <3>1 DEF JobIsFresh
        <3>3. CASE invitations[i].raced
            BY <1>4, <1>6, <1>10, <2>3, <3>3 DEF Answered
        <3>4. CASE ~ invitations[i].raced
            <4>1. Account!Through(i) = {}
                BY <2>1, <2>3, <3>2, <3>4 DEF Answered
            <4>2. Account!Through(i)' = {n}
                BY <1>3, <4>1 DEF Account!Through
            <4> QED BY <1>3, <1>6, <1>10, <2>3, <4>2 DEF Answered
        <3> QED BY <3>3, <3>4
    <2> QED BY <2>2, <2>3
<1>16. \A u \in DOMAIN users' : DeletedInactive(u)'
    BY <1>3 DEF DeletedInactive, AccountInv
<1> QED BY <1>13, <1>14, <1>15, <1>16 DEF AccountInv

\* An account changes, but not the invitation it came through.
LEMMA ChangedUser ==
    ASSUME AccountInv, NEW u \in DOMAIN users, NEW row \in User,
           row.invitation = users[u].invitation,
           NEW table2, table2 = [users EXCEPT ![u] = row], users' = table2,
           UNCHANGED invitations
    PROVE  /\ AccountTablesGrow
           /\ DOMAIN users' = DOMAIN users
           /\ users'[u] = row
           /\ \A v \in DOMAIN users \ {u} : users'[v] = users[v]
           /\ \A i \in DOMAIN invitations' : Answered(i)'
<1>1. users \in Seq(User) /\ u \in DOMAIN users
    BY DEF AccountInv, AccountTyped
<1>2. /\ table2 \in Seq(User)
      /\ DOMAIN table2 = DOMAIN users
      /\ \A v \in DOMAIN users : table2[v] = IF v = u THEN row ELSE users[v]
    <2>1. row \in User
        OBVIOUS
    <2>2. table2 = [users EXCEPT ![u] = row]
        OBVIOUS
    <2> QED BY ONLY <1>1, <2>1, <2>2, ChangeRow, Zenon
<1>3. \A v \in DOMAIN users : users'[v].invitation = users[v].invitation
    BY <1>2
<1>4. AccountTablesGrow
    BY <1>2, <1>3 DEF AccountTablesGrow, AccountInv, AccountTyped
<1>5. ASSUME NEW i \in DOMAIN invitations PROVE Answered(i)'
    <2>1. Account!Through(i)' = Account!Through(i)
        BY <1>2, <1>3 DEF Account!Through
    <2> QED BY <1>2, <2>1 DEF Answered, AccountInv
<1> QED BY <1>2, <1>4, <1>5

LEMMA UpdateUserKeeps ==
    ASSUME AccountInv, NEW u \in DOMAIN users, NEW active \in BOOLEAN,
           Account!UpdateUser(u, active)
    PROVE  AccountInv'
<1>1. AccountTyped /\ users[u] \in User
    BY RowType DEF AccountInv, AccountTyped
<1>2. PICK mark \in BOOLEAN :
          mark = (users[u].raced \/ (active /\ \E r \in Requests : accountJob[r].user = u))
    BY <1>1 DEF User
<1>3. PICK row : row = [users[u] EXCEPT !.active = active, !.raced = mark]
    OBVIOUS
<1>4. /\ row \in User
      /\ row.invitation = users[u].invitation
      /\ row.active = active
      /\ row.raced = mark
      /\ row.gone = users[u].gone
    BY <1>1, <1>3 DEF User
<1>5. /\ users' = [users EXCEPT ![u] = row]
      /\ UNCHANGED <<invitations, accountStage, accountJob>>
      /\ ~ users[u].gone
    BY <1>2, <1>3 DEF Account!UpdateUser, Account!Present
<1>6. /\ AccountTablesGrow
      /\ DOMAIN users' = DOMAIN users
      /\ users'[u] = row
      /\ \A v \in DOMAIN users \ {u} : users'[v] = users[v]
      /\ \A i \in DOMAIN invitations' : Answered(i)'
    BY <1>4, <1>5, ChangedUser
<1>7. ASSUME NEW q \in Requests PROVE JobRefers(accountJob[q])' /\ JobIsFresh(accountJob[q])'
    <2>1. JobIsFresh(accountJob[q]) /\ JobRefers(accountJob[q])
        BY <1>1 DEF AccountInv, AccountTyped
    <2>2. accountJob[q].user = u => mark \/ (~ active /\ ~ users[u].raced)
        BY <1>2
    <2> QED BY <1>4, <1>5, <1>6, <2>1, <2>2 DEF JobIsFresh, JobRefers
<1>8. AccountTyped'
    BY <1>1, <1>5, <1>6, <1>7 DEF AccountTyped, AccountTablesGrow
<1>9. \A v \in DOMAIN users' : DeletedInactive(v)'
    BY <1>4, <1>5, <1>6 DEF DeletedInactive, AccountInv
<1> QED BY <1>6, <1>7, <1>8, <1>9 DEF AccountInv

LEMMA HardDeleteKeeps ==
    ASSUME AccountInv, NEW r \in Requests, Account!HardDelete(r)
    PROVE  AccountInv'
<1>u. PICK u : u = accountJob[r].user
    OBVIOUS
<1>1. AccountTyped
    BY DEF AccountInv
<1>2. /\ accountJob[r].kind = "delete"
      /\ users' = [users EXCEPT ![u].gone = TRUE]
      /\ Account!Finish(r)
      /\ UNCHANGED invitations
    BY <1>u DEF Account!HardDelete, Account!At
<1>3. u \in DOMAIN users /\ users[u] \in User
    BY <1>1, <1>2, <1>u, RowType DEF AccountTyped, JobRefers
<1>4. PICK row : row = [users[u] EXCEPT !.gone = TRUE]
    OBVIOUS
<1>5. /\ row \in User
      /\ row.invitation = users[u].invitation
      /\ row.active = users[u].active
      /\ row.raced = users[u].raced
    BY <1>3, <1>4 DEF User
<1>6. users' = [users EXCEPT ![u] = row]
    BY <1>2, <1>4
<1>7. /\ AccountTablesGrow
      /\ DOMAIN users' = DOMAIN users
      /\ users'[u] = row
      /\ \A v \in DOMAIN users \ {u} : users'[v] = users[v]
      /\ \A i \in DOMAIN invitations' : Answered(i)'
    BY <1>2, <1>3, <1>5, <1>6, ChangedUser
<1>8. /\ AccountMoves(r, "idle", Account!NoJob)
      /\ accountJob'[r] = Account!NoJob
      /\ \A q \in Requests \ {r} : accountJob'[q] = accountJob[q]
    BY <1>1, <1>2, AccountFinish
<1>9. AccountTyped'
    BY <1>1, <1>7, <1>8, NoAccountJob, AccountMovesTyped DEF AccountStages
<1>10. ASSUME NEW q \in Requests PROVE JobIsFresh(accountJob[q])'
    <2>1. CASE q = r
        BY <1>8, <2>1 DEF JobIsFresh, Account!NoJob
    <2>2. CASE q # r
        <3>1. JobIsFresh(accountJob[q]) /\ JobRefers(accountJob[q])
            BY <1>1 DEF AccountInv, AccountTyped
        <3> QED BY <1>2, <1>5, <1>7, <1>8, <2>2, <3>1 DEF JobIsFresh, JobRefers
    <2> QED BY <2>1, <2>2
<1>11. JobIsFresh(accountJob[r])
    BY DEF AccountInv
<1>12. users[u].raced \/ ~ users[u].active
    BY <1>u, <1>2, <1>11 DEF JobIsFresh
<1>13. \A v \in DOMAIN users' : DeletedInactive(v)'
    BY <1>5, <1>7, <1>12 DEF DeletedInactive, AccountInv
<1> QED BY <1>7, <1>9, <1>10, <1>13 DEF AccountInv

LEMMA InitAccount == Account!Init => AccountInv
<1> SUFFICES ASSUME Account!Init PROVE AccountInv
    OBVIOUS
<1> USE DEF Account!Init
<1>1. invitations \in Seq(Invitation) /\ users \in Seq(User)
      /\ DOMAIN invitations = {} /\ DOMAIN users = {}
    OBVIOUS
<1>2. accountStage \in [Requests -> AccountStages] /\ accountJob \in [Requests -> AccountJob]
    BY NoAccountJob DEF AccountStages
<1>3. \A r \in Requests : JobRefers(accountJob[r]) /\ JobIsFresh(accountJob[r])
    BY NoAccountJob
<1> QED BY <1>1, <1>2, <1>3 DEF AccountInv, AccountTyped

LEMMA NextAccount == AccountInv /\ Account!Next => AccountInv'
<1> SUFFICES ASSUME AccountInv, Account!Next PROVE AccountInv'
    OBVIOUS
<1>1. ASSUME NEW r \in Requests,
             \/ Account!InvitationRoutes(r) \/ Account!UserRoutes(r)
             \/ Account!InviteCheckPending(r) \/ Account!InviteCreate(r)
             \/ Account!Resend(r) \/ Account!Revoke(r)
             \/ Account!AcceptCheckUser(r) \/ Account!AcceptCommit(r)
             \/ Account!CreateUser(r) \/ Account!HardDelete(r) \/ Account!Abort(r)
      PROVE  AccountInv'
    BY <1>1, AccountBeginKeeps, AccountCheckKeeps, InviteCreateKeeps, ResendKeeps,
       RevokeInvitationKeeps, AcceptCommitKeeps, CreateUserKeeps, HardDeleteKeeps
<1>2. ASSUME NEW u \in DOMAIN users, Account!UpdateUser(u, TRUE) \/ Account!DeactivateUser(u)
      PROVE  AccountInv'
    BY <1>2, UpdateUserKeeps DEF Account!DeactivateUser
<1>3. ASSUME NEW i \in DOMAIN invitations, Account!Expire(i) PROVE AccountInv'
    BY <1>3, InvitationExpireKeeps
<1> QED BY <1>1, <1>2, <1>3 DEF Account!Next

\* What the properties of Accounts say of a state of the invariant.
LEMMA AccountProperties ==
    ASSUME AccountInv
    PROVE  Account!TypeOK /\ Account!CleanAnswerHolds
<1>1. AccountTyped
    BY DEF AccountInv
<1>2. Account!TypeOK
    <2>1. /\ {0} \cup DOMAIN invitations = 0..Len(invitations)
          /\ {0} \cup DOMAIN users = 0..Len(users)
        <3>1. /\ DOMAIN invitations = 1..Len(invitations) /\ Len(invitations) \in Nat
              /\ DOMAIN users = 1..Len(users) /\ Len(users) \in Nat
            BY <1>1, LenProperties DEF AccountTyped
        <3>2. ASSUME NEW n \in Nat PROVE {0} \cup (1..n) = 0..n
            OBVIOUS
        <3> QED BY <3>1, <3>2
    <2> DEFINE row == [email : Emails, active : BOOLEAN, gone : BOOLEAN,
                       invitation : 0..Len(invitations), raced : BOOLEAN]
    <2>2. users \in Seq(row)
        <3>1. \A u \in DOMAIN users : users[u] \in User
            BY <1>1, RowType DEF AccountTyped
        <3>2. \A u \in DOMAIN users : users[u].invitation \in 0..Len(invitations)
            BY <1>1, <2>1 DEF AccountTyped
        <3>3. \A u \in DOMAIN users : users[u] \in row
            BY <3>1, <3>2 DEF User
        <3>4. /\ users \in [DOMAIN users -> User]
              /\ DOMAIN users = 1..Len(users) /\ Len(users) \in Nat
            BY <1>1, LenProperties DEF AccountTyped
        <3> HIDE DEF row
        <3>5. users \in [1..Len(users) -> row]
            BY <3>3, <3>4
        <3> QED BY <3>4, <3>5, TableOf
    <2> QED BY <1>1, <2>1, <2>2
            DEF AccountTyped, Account!TypeOK, Invitation, AccountStages, JobRefers
<1>3. ASSUME NEW i \in DOMAIN invitations
      PROVE  \/ invitations[i].raced
             \/ Account!Cardinality(Account!Through(i))
                    = IF invitations[i].status = "ACCEPTED" THEN 1 ELSE 0
    <2>1. Answered(i)
        BY DEF AccountInv
    <2>2. Account!Cardinality(Account!Through(i)) = Cardinality(Account!Through(i))
        BY SameCardinality
    <2>3. Cardinality({}) = 0 /\ \A u : Cardinality({u}) = 1
        BY FS_EmptySet, FS_Singleton
    <2> QED BY <2>1, <2>2, <2>3 DEF Answered
<1>4. Account!CleanAnswerHolds
    BY <1>3 DEF Account!CleanAnswerHolds, AccountInv, DeletedInactive
<1> QED BY <1>2, <1>4
-----------------------------------------------------------------------------
\* Registry.

Row == [kind : Register!Kinds, key : Keys \cup {None}, target : Nat, active : BOOLEAN]

\* The target of a row in a register: a maintenance names a vehicle or an asset.
Targets(kind) == IF kind = "maintenance" THEN Register!Of({"vehicle", "asset"}) ELSE {0}

LEMMA RegisterTypes ==
    Register!TypeOK <=> /\ rows \in Seq(Row)
                        /\ \A i \in DOMAIN rows : rows[i].target \in Targets(rows[i].kind)
BY DEF Register!TypeOK, Row, Targets

\* A row is inserted with a target of its kind.
LEMMA InsertKeeps ==
    ASSUME Register!TypeOK, NEW kind \in Register!Kinds, NEW key \in Keys \cup {None},
           NEW target \in Targets(kind), Register!Insert(kind, key, target)
    PROVE  Register!TypeOK'
<1>1. PICK row : row = [kind |-> kind, key |-> key, target |-> target, active |-> TRUE]
    OBVIOUS
<1>2. rows \in Seq(Row) /\ rows' = Append(rows, row)
    BY <1>1, RegisterTypes DEF Register!Insert
<1>3. target \in Nat
    BY <1>2, RowType DEF Targets, Register!Of
<1>4. row \in Row
    BY <1>1, <1>3 DEF Row
<1>5. /\ rows' \in Seq(Row)
      /\ DOMAIN rows' = DOMAIN rows \cup {Len(rows) + 1}
      /\ \A i \in DOMAIN rows : rows'[i] = rows[i]
      /\ rows'[Len(rows) + 1] = row
    BY <1>2, <1>4, InsertRow
<1>6. ASSUME NEW i \in DOMAIN rows' PROVE (rows[i].target \in Targets(rows[i].kind))'
    <2>1. CASE i \in DOMAIN rows
        <3>1. rows[i].target \in Targets(rows[i].kind)
            BY <2>1, RegisterTypes
        <3> QED BY <1>5, <2>1, <3>1 DEF Targets, Register!Of
    <2>2. CASE i = Len(rows) + 1
        <3>1. rows'[i].target = target /\ rows'[i].kind = kind
            BY <1>1, <1>5, <2>2
        <3> QED BY <1>5, <3>1 DEF Targets, Register!Of
    <2> QED BY <1>5, <2>1, <2>2
<1>7. \A i \in DOMAIN rows' : (rows[i].target \in Targets(rows[i].kind))'
    BY <1>6
<1> QED BY <1>5, <1>7 DEF Register!TypeOK, Row, Targets

\* An update leaves a row its kind and its target.
LEMMA ChangeKeeps ==
    ASSUME Register!TypeOK, NEW i \in DOMAIN rows, NEW key \in Keys \cup {None},
           NEW active \in BOOLEAN, Register!Change(i, key, active)
    PROVE  Register!TypeOK'
<1>1. rows \in Seq(Row) /\ rows[i] \in Row
    BY RegisterTypes, RowType
<1>2. PICK row : row = [rows[i] EXCEPT !.key = key, !.active = active]
    OBVIOUS
<1>3. row \in Row /\ row.kind = rows[i].kind /\ row.target = rows[i].target
    BY <1>1, <1>2 DEF Row
<1>4. PICK new : new = [rows EXCEPT ![i] = row]
    OBVIOUS
<1>5. rows' = new
    BY <1>2, <1>4 DEF Register!Change
<1>6. /\ new \in Seq(Row)
      /\ DOMAIN new = DOMAIN rows
      /\ \A j \in DOMAIN rows : new[j] = IF j = i THEN row ELSE rows[j]
    <2>1. rows \in Seq(Row)
        BY <1>1
    <2>2. row \in Row
        BY <1>3
    <2>3. i \in DOMAIN rows
        OBVIOUS
    <2> QED BY ONLY <1>4, <2>1, <2>2, <2>3, ChangeRow, Zenon
<1>7. \A j \in DOMAIN rows : /\ rows'[j].kind = rows[j].kind
                             /\ rows'[j].target = rows[j].target
    BY <1>3, <1>5, <1>6
<1>8. \A j \in DOMAIN rows : rows[j].target \in Targets(rows[j].kind)
    BY RegisterTypes
<1>9. \A j \in DOMAIN rows' : (rows[j].target \in Targets(rows[j].kind))'
    BY <1>5, <1>6, <1>7, <1>8 DEF Targets, Register!Of
<1> QED BY <1>5, <1>6, <1>9 DEF Register!TypeOK, Row, Targets

LEMMA InitRegister == Register!Init => Register!TypeOK
BY DEF Register!Init, Register!TypeOK

LEMMA NextRegister == Register!TypeOK /\ Register!Next => Register!TypeOK'
<1> SUFFICES ASSUME Register!TypeOK, Register!Next PROVE Register!TypeOK'
    OBVIOUS
<1>1. \A i \in DOMAIN rows : rows[i].key \in Keys \cup {None} /\ rows[i].active \in BOOLEAN
    <2>1. \A i \in DOMAIN rows : rows[i] \in Row
        BY RegisterTypes, RowType
    <2> QED BY <2>1 DEF Row
<1>2. ASSUME NEW kind \in Register!Kinds \ {"maintenance"}, NEW key \in Keys \cup {None},
             Register!Insert(kind, key, 0)
      PROVE  Register!TypeOK'
    BY <1>2, InsertKeeps DEF Targets
<1>3. ASSUME NEW target \in Register!Of({"vehicle", "asset"}),
             Register!Insert("maintenance", None, target)
      PROVE  Register!TypeOK'
    BY <1>3, InsertKeeps DEF Targets, Register!Kinds
<1>4. ASSUME NEW i \in DOMAIN rows, NEW key \in Keys \cup {None},
             NEW active \in BOOLEAN, Register!Change(i, key, active)
      PROVE  Register!TypeOK'
    BY <1>4, ChangeKeeps
<1>5. CASE Register!FleetRoutes
    BY <1>1, <1>2, <1>4, <1>5 DEF Register!FleetRoutes, Register!CreateVehicle,
       Register!UpdateVehicle, Register!DeactivateVehicle, Register!Deactivate, Register!Kinds
<1>6. CASE Register!AssetsRoutes
    BY <1>1, <1>2, <1>4, <1>6 DEF Register!AssetsRoutes, Register!CreateAsset,
       Register!UpdateAsset, Register!DeactivateAsset, Register!Deactivate, Register!Kinds
<1>7. CASE Register!MaintenanceRoutes
    BY <1>1, <1>3, <1>4, <1>7 DEF Register!MaintenanceRoutes, Register!CreateMaintenance,
       Register!UpdateMaintenance, Register!DeactivateMaintenance, Register!Deactivate
<1>8. CASE Register!SuppliersRoutes
    BY <1>1, <1>2, <1>4, <1>8 DEF Register!SuppliersRoutes, Register!CreateSupplier,
       Register!UpdateSupplier, Register!DeactivateSupplier, Register!Deactivate, Register!Kinds
<1>9. CASE Register!CustomersRoutes
    BY <1>1, <1>2, <1>4, <1>9 DEF Register!CustomersRoutes, Register!CreateCustomer,
       Register!UpdateCustomer, Register!DeactivateCustomer, Register!Deactivate, Register!Kinds
<1>10. CASE Register!WarehousesRoutes
    BY <1>1, <1>2, <1>4, <1>10 DEF Register!WarehousesRoutes, Register!CreateWarehouse,
       Register!UpdateWarehouse, Register!DeactivateWarehouse, Register!Deactivate, Register!Kinds
<1>11. CASE Register!CompaniesRoutes
    BY <1>1, <1>2, <1>4, <1>11 DEF Register!CompaniesRoutes, Register!CreateCompany,
       Register!DeactivateCompany, Register!Deactivate, Register!Kinds
<1> QED BY <1>5, <1>6, <1>7, <1>8, <1>9, <1>10, <1>11 DEF Register!Next
-----------------------------------------------------------------------------
\* Numbering.

Reference == 1..(MaxDocuments + 1)
Document == [parent : Parents, year : 1..2, ref : Reference, counted : 1..2]

NumberTyped ==
    /\ table \in Number!Tables
    /\ documents \subseteq Document
    /\ IsFiniteSet(documents)
    /\ Cardinality(documents) <= MaxDocuments
    /\ removed => table = "campaign"
    /\ straddled \in BOOLEAN
    /\ year \in [{"local", "utc"} -> 1..2]
    /\ numberStage \in [Requests -> {"idle", "counted"}]
    /\ numberJob \in [Requests -> [parent : Parents \cup {None}, year : 0..2,
                             ref : Nat]]
    /\ \A r \in Requests :
          numberStage[r] = "counted" => /\ numberJob[r].parent \in Parents
                                  /\ numberJob[r].year \in 1..2
                                  /\ numberJob[r].ref \in Reference

\* The unique key is kept.
KeyIsUnique ==
    \A a, b \in documents : a.year = b.year /\ a.ref = b.ref => a = b

CountsInItsYear == straddled \/ \A d \in documents : d.counted = d.year

\* The documents of D that count in the year y.
Counting(D, y) == Cardinality({d \in D : d.counted = y})

\* A reference drawn is one of its year or the next.
DrawnInRange ==
    straddled \/ removed \/
    \A r \in Requests :
        numberStage[r] = "counted" => numberJob[r].ref \in 1..Counting(documents, numberJob[r].year) + 1

\* The references of a year are used without a hole.
NoHole ==
    straddled \/ removed \/
    \A y \in 1..2 : {d.ref : d \in {e \in documents : e.year = y}}
                        = 1..Counting(documents, y)

NumberInv ==
    /\ NumberTyped
    /\ KeyIsUnique
    /\ CountsInItsYear
    /\ DrawnInRange
    /\ NoHole


\* The number of documents that count in a year is a number.
LEMMA CountingType ==
    ASSUME NEW D, IsFiniteSet(D), NEW y
    PROVE  /\ Counting(D, y) \in Nat
           /\ Counting(D, y) <= Cardinality(D)
           /\ Cardinality(D) \in Nat
<1> DEFINE C == {d \in D : d.counted = y}
<1>1. C \subseteq D
    OBVIOUS
<1> HIDE DEF C
<1>2. IsFiniteSet(C) /\ Cardinality(C) <= Cardinality(D)
    BY <1>1, FS_Subset
<1>3. Cardinality(C) \in Nat /\ Cardinality(D) \in Nat
    BY <1>2, FS_CardinalityType
<1> QED BY <1>2, <1>3 DEF Counting, C

\* .. the one countThisYear answers.
LEMMA CountsTheYear == \A y : Number!CountThisYear(y) = Counting(documents, y)
BY SameCardinality DEF Number!CountThisYear, Counting

\* One more document: one more in the year it counts in.
LEMMA CountingOneMore ==
    ASSUME NEW D, IsFiniteSet(D), NEW d, d \notin D, NEW y
    PROVE  Counting(D \cup {d}, y)
               = IF d.counted = y THEN Counting(D, y) + 1 ELSE Counting(D, y)
<1> DEFINE C == {e \in D : e.counted = y}
<1>1. IsFiniteSet(C)
    BY FS_Subset
<1>2. CASE d.counted = y
    <2>1. {e \in D \cup {d} : e.counted = y} = C \cup {d}
        BY <1>2
    <2>2. d \notin C
        OBVIOUS
    <2>3. Cardinality(C \cup {d}) = Cardinality(C) + 1
        BY <1>1, <2>2, FS_AddElement
    <2> QED BY <1>2, <2>1, <2>3 DEF Counting
<1>3. CASE d.counted # y
    <2>1. {e \in D \cup {d} : e.counted = y} = C
        BY <1>3
    <2> QED BY <1>3, <2>1 DEF Counting
<1> QED BY <1>2, <1>3

-----------------------------------------------------------------------------
\* The tables begin empty.
LEMMA InitNumber ==
    Number!Init => NumberInv
<1> SUFFICES ASSUME Number!Init PROVE NumberInv
    OBVIOUS
<1>1. NumberTyped
    <2>1. Cardinality(documents) <= MaxDocuments /\ IsFiniteSet(documents)
        BY FS_EmptySet, BackOfficeAssumption DEF Number!Init
    <2>2. numberJob \in [Requests -> [parent : Parents \cup {None}, year : 0..2, ref : Nat]]
        BY DEF Number!Init, Number!NoJob
    <2>4. year \in [{"local", "utc"} -> 1..2]
        BY DEF Number!Init
    <2>5. documents \subseteq Document
        BY DEF Number!Init
    <2>3. /\ numberStage \in [Requests -> {"idle", "counted"}]
          /\ \A r \in Requests : numberStage[r] # "counted"
          /\ table \in Number!Tables
          /\ ~ removed
          /\ straddled \in BOOLEAN
        BY DEF Number!Init
    <2> QED BY <2>1, <2>2, <2>3, <2>4, <2>5 DEF NumberTyped
<1>2. KeyIsUnique /\ CountsInItsYear /\ DrawnInRange
    BY DEF Number!Init, KeyIsUnique, CountsInItsYear, DrawnInRange
<1>3. NoHole
    <2> SUFFICES ASSUME NEW y \in 1..2
                 PROVE  {d.ref : d \in {e \in documents : e.year = y}}
                            = 1..Counting(documents, y)
        BY DEF NoHole
    <2>1. {e \in documents : e.year = y} = {} /\ {e \in documents : e.counted = y} = {}
        BY DEF Number!Init
    <2>2. Counting(documents, y) = 0
        BY <2>1, FS_EmptySet DEF Counting
    <2> QED BY <2>1, <2>2
<1> QED BY <1>1, <1>2, <1>3 DEF NumberInv

\* A request that draws a reference draws the next one of the year.
LEMMA DrawRefKeeps ==
    ASSUME NumberInv, NEW r \in Requests, Number!DrawRef(r)
    PROVE  NumberInv'
<1> USE DEF NumberInv
<1>1. PICK parent \in Parents :
          numberJob' = [numberJob EXCEPT ![r] = [parent |-> parent, year |-> year.local,
                                     ref |-> Number!NextRef]]
    BY DEF Number!DrawRef
<1>2. numberStage[r] = "idle" /\ numberStage' = [numberStage EXCEPT ![r] = "counted"]
    BY DEF Number!DrawRef
<1>3. UNCHANGED <<table, documents, year, removed, straddled>>
    BY DEF Number!DrawRef
<1>4. year.local \in 1..2
    BY DEF NumberTyped
<1>5. /\ Counting(documents, year.local) \in Nat
      /\ Counting(documents, year.local) <= Cardinality(documents)
      /\ Cardinality(documents) \in Nat
    BY CountingType DEF NumberTyped
<1>a. Number!NextRef = Counting(documents, year.local) + 1
    BY CountsTheYear DEF Number!NextRef
<1>6. Number!NextRef \in Reference
    <2>1. MaxDocuments \in Nat
        BY BackOfficeAssumption
    <2> QED BY <1>5, <1>a, <2>1 DEF Reference, NumberTyped
<1>7. NumberTyped'
    <2>1. numberJob' \in [Requests -> [parent : Parents \cup {None}, year : 0..2, ref : Nat]]
        BY <1>1, <1>4, <1>5, <1>a DEF NumberTyped
    <2> QED BY <1>1, <1>2, <1>3, <1>4, <1>6, <2>1 DEF NumberTyped
<1>8. KeyIsUnique' /\ CountsInItsYear' /\ NoHole'
    BY <1>3 DEF KeyIsUnique, CountsInItsYear, NoHole
<1>9. DrawnInRange'
    <2> SUFFICES ASSUME ~ straddled, ~ removed, NEW s \in Requests,
                        numberStage'[s] = "counted"
                 PROVE  numberJob'[s].ref \in 1..Counting(documents, numberJob'[s].year) + 1
        BY <1>3 DEF DrawnInRange
    <2>1. CASE s = r
        BY <1>1, <1>5, <1>a, <2>1 DEF NumberTyped
    <2>2. CASE s # r
        BY <1>1, <1>2, <2>2 DEF NumberTyped, DrawnInRange
    <2> QED BY <2>1, <2>2
<1> QED BY <1>7, <1>8, <1>9

\* The end of a request leaves the others as they are.
LEMMA NumberAbortKeeps ==
    ASSUME NumberInv, NEW r \in Requests, Number!Abort(r)
    PROVE  NumberInv'
<1> USE DEF NumberInv
<1>1. /\ numberStage' = [numberStage EXCEPT ![r] = "idle"]
      /\ numberJob' = [numberJob EXCEPT ![r] = Number!NoJob]
      /\ UNCHANGED <<table, documents, year, removed, straddled>>
    BY DEF Number!Abort, Number!End
<1>2. NumberTyped'
    BY <1>1 DEF NumberTyped, Number!NoJob
<1>3. KeyIsUnique' /\ CountsInItsYear' /\ NoHole'
    BY <1>1 DEF KeyIsUnique, CountsInItsYear, NoHole
<1>4. DrawnInRange'
    BY <1>1 DEF NumberTyped, DrawnInRange
<1> QED BY <1>2, <1>3, <1>4

\* The insert: the unique key leaves the next reference of the year.
LEMMA CreateDocumentKeeps ==
    ASSUME NumberInv, NEW r \in Requests, Number!CreateDocument(r)
    PROVE  NumberInv'
<1> USE DEF NumberInv
<1> DEFINE d == [parent |-> numberJob[r].parent, year |-> numberJob[r].year,
                 ref |-> numberJob[r].ref, counted |-> year.utc]
<1>1. /\ numberStage[r] = "counted"
      /\ \A other \in documents : <<other.year, other.ref>> # <<d.year, d.ref>>
      /\ documents' = documents \cup {d}
      /\ straddled' = (straddled \/ d.year # d.counted)
      /\ UNCHANGED <<table, year, removed>>
    BY DEF Number!CreateDocument, Number!FreeRef
<1>2. /\ numberStage' = [numberStage EXCEPT ![r] = "idle"]
      /\ numberJob' = [numberJob EXCEPT ![r] = Number!NoJob]
    BY DEF Number!CreateDocument, Number!End
<1>3. d \in Document
    BY <1>1 DEF NumberTyped, Document
<1>4. d \notin documents
    BY <1>1
<1> HIDE DEF d
<1>5. NumberTyped'
    <2>1. IsFiniteSet(documents') /\ Cardinality(documents') = Cardinality(documents) + 1
        BY <1>1, <1>4, FS_AddElement DEF NumberTyped
    <2>2. Cardinality(documents) < MaxDocuments
        BY SameCardinality DEF Number!CreateDocument
    <2>3. Cardinality(documents') <= MaxDocuments
        BY <2>1, <2>2, FS_CardinalityType, BackOfficeAssumption DEF NumberTyped
    <2>4. straddled' \in BOOLEAN
        BY <1>1 DEF NumberTyped
    <2>5. numberJob' \in [Requests -> [parent : Parents \cup {None}, year : 0..2, ref : Nat]]
        BY <1>2 DEF NumberTyped, Number!NoJob
    <2>6. documents' \subseteq Document
        BY <1>1, <1>3 DEF NumberTyped
    <2> QED BY <1>1, <1>2, <2>1, <2>3, <2>4, <2>5, <2>6 DEF NumberTyped
<1>6. KeyIsUnique'
    BY <1>1 DEF KeyIsUnique
<1>7. CountsInItsYear'
    BY <1>1 DEF CountsInItsYear
<1>8. ASSUME NEW y
      PROVE  /\ Counting(documents, y) \in Nat
             /\ Counting(documents', y) = IF d.counted = y
                                          THEN Counting(documents, y) + 1
                                          ELSE Counting(documents, y)
    <2>1. IsFiniteSet(documents)
        BY DEF NumberTyped
    <2> QED BY <1>1, <1>4, <2>1, CountingType, CountingOneMore
<1>9. DrawnInRange'
    <2> SUFFICES ASSUME ~ straddled', ~ removed', NEW s \in Requests,
                        numberStage'[s] = "counted"
                 PROVE  numberJob'[s].ref \in 1..Counting(documents', numberJob'[s].year) + 1
        BY DEF DrawnInRange
    <2>1. s # r
        BY <1>2 DEF NumberTyped
    <2>2. numberJob'[s] = numberJob[s] /\ numberStage[s] = "counted"
        BY <1>2, <2>1 DEF NumberTyped
    <2>3. numberJob[s].ref \in 1..Counting(documents, numberJob[s].year) + 1
        BY <1>1, <2>2 DEF DrawnInRange
    <2>4. Counting(documents', numberJob[s].year) \in
              {Counting(documents, numberJob[s].year), Counting(documents, numberJob[s].year) + 1}
        BY <1>8
    <2>5. Counting(documents, numberJob[s].year) \in Nat
        BY <1>8
    <2> QED BY <2>2, <2>3, <2>4, <2>5
<1>10. NoHole'
    <2> SUFFICES ASSUME ~ straddled', ~ removed', NEW y \in 1..2
                 PROVE  {e.ref : e \in {f \in documents' : f.year = y}}
                            = 1..Counting(documents', y)
        BY DEF NoHole
    <2> DEFINE Refs == {e.ref : e \in {f \in documents : f.year = y}}
    <2>1. Refs = 1..Counting(documents, y)
        BY <1>1 DEF NoHole
    <2>2. d.counted = d.year
        BY <1>1
    <2>3. CASE d.year = y
        <3>1. {e.ref : e \in {f \in documents' : f.year = y}} = Refs \cup {d.ref}
            BY <1>1, <2>3
        <3>2. d.ref \notin Refs
            BY <1>1, <2>3
        <3>3. d.ref \in 1..Counting(documents, y) + 1
            BY <1>1, <2>3 DEF DrawnInRange, d
        <3>4. d.ref = Counting(documents, y) + 1
            BY <1>8, <2>1, <3>2, <3>3
        <3>5. Counting(documents', y) = Counting(documents, y) + 1
            BY <1>8, <2>2, <2>3
        <3>6. Counting(documents, y) \in Nat
            BY <1>8
        <3>7. ASSUME NEW n \in Nat PROVE (1..n) \cup {n + 1} = 1..(n + 1)
            OBVIOUS
        <3>8. Refs \cup {d.ref} = 1..(Counting(documents, y) + 1)
            BY <2>1, <3>4, <3>6, <3>7
        <3> QED BY <3>1, <3>5, <3>8
    <2>4. CASE d.year # y
        <3>1. {e.ref : e \in {f \in documents' : f.year = y}} = Refs
            BY <1>1, <2>4
        <3>2. Counting(documents', y) = Counting(documents, y)
            BY <1>8, <2>2, <2>4
        <3> QED BY <2>1, <3>1, <3>2
    <2> QED BY <2>3, <2>4
<1> QED BY <1>5, <1>6, <1>7, <1>9, <1>10

\* A campaign that changes its warehouse keeps its reference and its year.
LEMMA UpdateCampaignKeeps ==
    ASSUME NumberInv, NEW c \in documents, Number!UpdateCampaign(c)
    PROVE  NumberInv'
<1> USE DEF NumberInv
<1>1. PICK warehouse \in Parents :
          documents' = (documents \ {c}) \cup {[c EXCEPT !.parent = warehouse]}
    BY DEF Number!UpdateCampaign
<1>2. UNCHANGED <<table, year, numberStage, numberJob, removed, straddled>>
    BY DEF Number!UpdateCampaign
<1> DEFINE d    == [c EXCEPT !.parent = warehouse]
           rest == documents \ {c}
<1>3. /\ c \in Document
      /\ d \in Document
      /\ d.year = c.year /\ d.ref = c.ref /\ d.counted = c.counted
    BY DEF NumberTyped, Document
<1> HIDE DEF d
<1>4. d \notin rest
    BY <1>3 DEF KeyIsUnique
<1>5. /\ documents = rest \cup {c}
      /\ documents' = rest \cup {d}
      /\ c \notin rest
    BY <1>1 DEF d
<1>6. /\ IsFiniteSet(rest) /\ IsFiniteSet(documents')
      /\ Cardinality(documents') = Cardinality(documents)
    <2>1. IsFiniteSet(rest)
        BY <1>5, FS_Subset DEF NumberTyped
    <2>2. Cardinality(rest \cup {c}) = Cardinality(rest) + 1
        BY <1>5, <2>1, FS_AddElement
    <2>3. IsFiniteSet(rest \cup {d}) /\ Cardinality(rest \cup {d}) = Cardinality(rest) + 1
        BY <1>4, <2>1, FS_AddElement
    <2>4. documents = rest \cup {c} /\ documents' = rest \cup {d}
        BY <1>5
    <2> HIDE DEF rest
    <2> QED BY <2>1, <2>2, <2>3, <2>4
<1> HIDE DEF rest
<1>7. ASSUME NEW y
      PROVE  Counting(documents', y) = Counting(documents, y)
    BY <1>3, <1>4, <1>5, <1>6, CountingOneMore
<1>8. ASSUME NEW y
      PROVE  {e.ref : e \in {f \in documents' : f.year = y}}
                 = {e.ref : e \in {f \in documents : f.year = y}}
    BY <1>3, <1>5
<1>9. NumberTyped'
    BY <1>2, <1>3, <1>5, <1>6 DEF NumberTyped
<1>10. KeyIsUnique' /\ CountsInItsYear'
    BY <1>2, <1>3, <1>5 DEF KeyIsUnique, CountsInItsYear
<1>11. DrawnInRange'
    <2> SUFFICES ASSUME ~ straddled, ~ removed, NEW s \in Requests,
                        numberStage[s] = "counted"
                 PROVE  numberJob[s].ref \in 1..Counting(documents', numberJob[s].year) + 1
        BY <1>2 DEF DrawnInRange
    <2>1. numberJob[s].ref \in 1..Counting(documents, numberJob[s].year) + 1
        BY DEF DrawnInRange
    <2>2. Counting(documents', numberJob[s].year) = Counting(documents, numberJob[s].year)
        BY <1>7
    <2> QED BY <2>1, <2>2
<1>12. NoHole'
    <2> SUFFICES ASSUME ~ straddled, ~ removed, NEW y \in 1..2
                 PROVE  {e.ref : e \in {f \in documents' : f.year = y}}
                            = 1..Counting(documents', y)
        BY <1>2 DEF NoHole
    <2>1. {e.ref : e \in {f \in documents : f.year = y}} = 1..Counting(documents, y)
        BY DEF NoHole
    <2> QED BY <1>7, <1>8, <2>1
<1> QED BY <1>9, <1>10, <1>11, <1>12

\* A deletion ends what is claimed.
LEMMA RemoveCampaignKeeps ==
    ASSUME NumberInv, NEW c \in documents, Number!RemoveCampaign(c)
    PROVE  NumberInv'
<1> USE DEF NumberInv
<1>1. /\ documents' = documents \ {c}
      /\ removed'
      /\ UNCHANGED <<table, year, numberStage, numberJob, straddled>>
    BY DEF Number!RemoveCampaign
<1>2. IsFiniteSet(documents') /\ Cardinality(documents') <= Cardinality(documents)
    BY <1>1, FS_Subset DEF NumberTyped
<1>a. Cardinality(documents) \in Nat /\ Cardinality(documents') \in Nat /\ MaxDocuments \in Nat
    BY <1>2, FS_CardinalityType, BackOfficeAssumption DEF NumberTyped
<1>b. table = "campaign" /\ table' = table
    BY DEF Number!RemoveCampaign
<1>3. NumberTyped'
    BY <1>1, <1>2, <1>a, <1>b DEF NumberTyped
<1>4. KeyIsUnique' /\ CountsInItsYear'
    BY <1>1 DEF KeyIsUnique, CountsInItsYear
<1>5. DrawnInRange' /\ NoHole'
    BY <1>1 DEF DrawnInRange, NoHole
<1> QED BY <1>3, <1>4, <1>5

\* The clocks decide on nothing until the next creation.
LEMMA NewYearKeeps ==
    ASSUME NumberInv, NEW clock \in {"local", "utc"}, Number!NewYear(clock)
    PROVE  NumberInv'
<1> USE DEF NumberInv
<1>1. /\ year' = [year EXCEPT ![clock] = 2]
      /\ UNCHANGED <<table, documents, numberStage, numberJob, removed, straddled>>
    BY DEF Number!NewYear
<1>2. NumberTyped'
    BY <1>1 DEF NumberTyped
<1>3. KeyIsUnique' /\ CountsInItsYear' /\ DrawnInRange' /\ NoHole'
    BY <1>1
    DEF KeyIsUnique, CountsInItsYear, DrawnInRange, NoHole
<1> QED BY <1>2, <1>3

-----------------------------------------------------------------------------
LEMMA NextNumber ==
    ASSUME NumberInv, Number!Next
    PROVE  NumberInv'
<1>1. ASSUME NEW r \in Requests, Number!DrawRef(r) PROVE NumberInv'
    BY <1>1, DrawRefKeeps
<1>2. ASSUME NEW r \in Requests, Number!CreateDocument(r) PROVE NumberInv'
    BY <1>2, CreateDocumentKeeps
<1>3. ASSUME NEW r \in Requests, Number!Abort(r) PROVE NumberInv'
    BY <1>3, NumberAbortKeeps
<1>4. ASSUME NEW c \in documents, Number!UpdateCampaign(c) PROVE NumberInv'
    BY <1>4, UpdateCampaignKeeps
<1>5. ASSUME NEW c \in documents, Number!RemoveCampaign(c) PROVE NumberInv'
    BY <1>5, RemoveCampaignKeeps
<1>6. ASSUME NEW clock \in {"local", "utc"}, Number!NewYear(clock) PROVE NumberInv'
    BY <1>6, NewYearKeeps
<1> QED BY <1>1, <1>2, <1>3, <1>4, <1>5, <1>6 DEF Number!Next

\* What the properties of Numbering say of a state of the invariant.
LEMMA NumberProperties ==
    ASSUME NumberInv
    PROVE  Number!TypeOK /\ Number!CleanRefIsFree
<1>1. NumberTyped /\ NoHole
    BY DEF NumberInv
<1>2. Number!TypeOK
    BY <1>1 DEF NumberTyped, Number!TypeOK, Document, Reference
<1>3. Number!CleanRefIsFree
    BY <1>1, CountsTheYear DEF NoHole, Number!CleanRefIsFree
<1> QED BY <1>2, <1>3
-----------------------------------------------------------------------------
\* Listing.

ReaderStages == {"idle", "asked", "read", "counted", "answered"}
Reader == [stage : ReaderStages, page : Nat, limit : Nat, total : Nat,
           due : SUBSET Nat, seen : SUBSET Nat]

ListTyped ==
    /\ born \in 0..MaxListed
    /\ DOMAIN shown \subseteq 1..born
    /\ shown \in [DOMAIN shown -> Int]
    /\ reader \in Reader
    /\ reader.due \subseteq 1..born
    /\ reader.seen \subseteq 1..born
    /\ reader.stage # "idle" => reader.page \in Nat \ {0} /\ reader.limit \in Limits
    /\ reader.stage = "idle" => reader.due = {}
    /\ shifted \in BOOLEAN

\* How many rows come before the row d, with the keys f.
Below(f, d) == {x \in DOMAIN f : f[x] < f[d]}
Rank(f, d) == Cardinality(Below(f, d))

\* The rows of the pages already read: with the one asked for, or without.
PagesRead == IF reader.stage \in {"asked", "counted"} THEN reader.page - 1
                                                      ELSE reader.page
Missing == reader.due \ reader.seen

\* A row that was there and was not seen yet is not on a page already read.
MissingIsAhead ==
    \A d \in Missing : d \in DOMAIN shown /\ Rank(shown, d) >= PagesRead * reader.limit

CountIsRight ==
    /\ reader.stage = "counted" => reader.total = Cardinality(DOMAIN shown)
    /\ reader.stage = "answered" =>
          \A d \in Missing : reader.total > reader.page * reader.limit

ListInv ==
    /\ ListTyped
    /\ shifted \/ (MissingIsAhead /\ CountIsRight)

\* The rows are finitely many, and so are those before a row.
LEMMA FiniteRows ==
    ASSUME NEW n \in Nat, NEW f, DOMAIN f \subseteq 1..n
    PROVE  /\ IsFiniteSet(DOMAIN f)
           /\ Cardinality(DOMAIN f) \in Nat
           /\ \A d : IsFiniteSet(Below(f, d)) /\ Rank(f, d) \in Nat
<1>1. IsFiniteSet(1..n)
    BY FS_Interval
<1>2. IsFiniteSet(DOMAIN f)
    BY <1>1, FS_Subset
<1>3. ASSUME NEW d PROVE IsFiniteSet(Below(f, d))
    <2>1. Below(f, d) \subseteq DOMAIN f
        BY DEF Below
    <2> QED BY <1>2, <2>1, FS_Subset
<1> QED BY <1>2, <1>3, FS_CardinalityType DEF Rank

\* A row is one of those that are not before it.
LEMMA RankIsSmall ==
    ASSUME NEW n \in Nat, NEW f, f \in [DOMAIN f -> Int],
           DOMAIN f \subseteq 1..n,
           NEW d \in DOMAIN f
    PROVE  Rank(f, d) < Cardinality(DOMAIN f)
<1>1. IsFiniteSet(DOMAIN f) /\ Cardinality(DOMAIN f) \in Nat /\ Rank(f, d) \in Nat
    BY FiniteRows
<1>2. Below(f, d) \subseteq DOMAIN f \ {d}
    BY DEF Below
<1>3. /\ IsFiniteSet(DOMAIN f \ {d})
      /\ Cardinality(DOMAIN f \ {d}) = Cardinality(DOMAIN f) - 1
    BY <1>1, FS_RemoveElement
<1>4. Rank(f, d) <= Cardinality(DOMAIN f \ {d})
    BY <1>2, <1>3, FS_Subset DEF Rank
<1> QED BY <1>1, <1>3, <1>4

\* A new row pushes others back, and none forward.
LEMMA RankGrows ==
    ASSUME NEW n \in Nat, NEW f, f \in [DOMAIN f -> Int],
           NEW g, g \in [DOMAIN g -> Int], DOMAIN g \subseteq 1..n,
           DOMAIN f \subseteq DOMAIN g, \A x \in DOMAIN f : g[x] = f[x],
           NEW d \in DOMAIN f
    PROVE  Rank(f, d) <= Rank(g, d)
<1>1. Below(f, d) \subseteq Below(g, d)
    BY DEF Below
<1>2. IsFiniteSet(Below(g, d))
    BY FiniteRows
<1> QED BY <1>1, <1>2, FS_Subset DEF Rank

\* The pages that end where the next begins.
LEMMA NextPageBegins ==
    ASSUME NEW p \in Nat, NEW l \in Nat
    PROVE  /\ (p - 1) * l + l = p * l
           /\ p * l \in Nat
           /\ p > 0 => (p - 1) * l \in Nat
OBVIOUS

\* More rows than fit on the pages read make one more page.
LEMMA OnePageMore ==
    ASSUME NEW p \in Nat, NEW l \in Nat \ {0}, NEW t \in Nat, t > p * l
    PROVE  (t + l - 1) \div l > p
<1>1. t + l - 1 >= (p + 1) * l
    <2>1. (p + 1) * l = p * l + l /\ p * l \in Nat
        OBVIOUS
    <2> QED BY <2>1
<1>2. ASSUME NEW a \in Nat, NEW k \in Nat, a >= k * l PROVE a \div l >= k
    <2>1. /\ a \div l \in Int
          /\ a = l * (a \div l) + (a % l)
          /\ 0 <= a % l /\ a % l < l
        OBVIOUS
    <2> QED BY <1>2, <2>1
<1>3. t + l - 1 \in Nat /\ p + 1 \in Nat
    OBVIOUS
<1>4. (t + l - 1) \div l >= p + 1
    BY <1>1, <1>2, <1>3
<1>5. (t + l - 1) \div l \in Int
    OBVIOUS
<1> QED BY <1>4, <1>5

\* The keys a row may take are numbers.
LEMMA KeysAreNumbers ==
    ASSUME ListTyped
    PROVE  /\ \A row \in Nat : Lists!CreationKey(row) \in Int
           /\ Lists!NewKeys \subseteq Int
<1>1. \A row \in Nat : Lists!CreationKey(row) \in Int
    BY DEF Lists!CreationKey
<1>2. born + 1 \in Nat
    BY BackOfficeAssumption DEF ListTyped
<1>3. Positions \subseteq Int
    BY BackOfficeAssumption
<1>4. Lists!CreationKey(born + 1) \in Int
    BY <1>1, <1>2
<1> QED BY <1>1, <1>3, <1>4 DEF Lists!NewKeys

\* A row that enters the list leaves the missing ones ahead.
LEMMA ShowKeeps ==
    ASSUME ListInv, NEW row \in 1..(born + 1), row \notin DOMAIN shown, NEW key \in Int,
           Lists!Show(row, key), born' \in 0..MaxListed, born <= born', row <= born',
           shifted' = (shifted \/ Lists!Counted),
           UNCHANGED <<list, reader>>
    PROVE  ListInv'
<1>1. ListTyped /\ born \in Nat /\ born' \in Nat
    BY BackOfficeAssumption DEF ListInv, ListTyped
<1>2. /\ DOMAIN shown' = DOMAIN shown \cup {row}
      /\ shown' \in [DOMAIN shown' -> Int]
      /\ \A d \in DOMAIN shown : shown'[d] = shown[d]
    BY <1>1 DEF Lists!Show, Lists!Rows, ListTyped
<1>3. 1..born \subseteq 1..born'
    BY <1>1
<1>4. DOMAIN shown' \subseteq 1..born'
    BY <1>1, <1>2, <1>3 DEF ListTyped
<1>5. ListTyped'
    BY <1>1, <1>2, <1>3, <1>4 DEF ListTyped, Lists!Counted
<1>6. ASSUME ~ shifted' PROVE MissingIsAhead' /\ CountIsRight'
    <2>1. MissingIsAhead /\ CountIsRight /\ reader.stage # "counted"
        BY <1>1, <1>6 DEF ListInv, ListTyped, Lists!Counted
    <2>2. ASSUME NEW d \in Missing'
          PROVE  d \in DOMAIN shown' /\ Rank(shown', d) >= PagesRead' * reader'.limit
        <3>1. d \in DOMAIN shown /\ Rank(shown, d) >= PagesRead * reader.limit
            BY <2>1 DEF MissingIsAhead, Missing
        <3>2. shown \in [DOMAIN shown -> Int] /\ DOMAIN shown \subseteq 1..born
            BY <1>1 DEF ListTyped
        <3>3. Rank(shown, d) <= Rank(shown', d)
            BY <1>1, <1>2, <1>4, <3>1, <3>2, RankGrows
        <3>4. Rank(shown, d) \in Nat /\ Rank(shown', d) \in Nat
            BY <1>1, <1>4, <3>2, FiniteRows
        <3>5. PagesRead * reader.limit \in Int
            BY <1>1 DEF ListTyped, Reader, PagesRead
        <3>6. PagesRead' * reader'.limit = PagesRead * reader.limit
            BY DEF PagesRead
        <3>7. Rank(shown', d) >= PagesRead * reader.limit
            BY <3>1, <3>3, <3>4, <3>5
        <3> QED BY <1>2, <3>1, <3>6, <3>7
    <2>3. CountIsRight'
        BY <2>1 DEF CountIsRight, Missing
    <2> QED BY <2>2, <2>3 DEF MissingIsAhead
<1> QED BY <1>5, <1>6 DEF ListInv

LEMMA RowsComeKeeps ==
    ASSUME ListInv, Lists!CreateRow \/ \E row \in (1..born) \ Lists!Rows : Lists!RestoreRow(row)
    PROVE  ListInv'
<1>1. ListTyped /\ born \in Nat
    BY BackOfficeAssumption DEF ListInv, ListTyped
<1>2. CASE Lists!CreateRow
    <2>1. PICK key \in Int : Lists!Show(born + 1, key)
        BY <1>1, <1>2, KeysAreNumbers DEF Lists!CreateRow
    <2>2. /\ born < MaxListed /\ born' = born + 1
          /\ shifted' = (shifted \/ Lists!Counted)
          /\ UNCHANGED <<list, reader>>
        BY <1>2 DEF Lists!CreateRow
    <2>3. born + 1 \notin DOMAIN shown /\ born + 1 \in 1..(born + 1)
        BY <1>1 DEF ListTyped
    <2>4. born' \in 0..MaxListed /\ born <= born' /\ born + 1 <= born'
        BY <1>1, <2>2, BackOfficeAssumption
    <2> QED BY <2>1, <2>2, <2>3, <2>4, ShowKeeps
<1>3. ASSUME NEW row \in (1..born) \ Lists!Rows, Lists!RestoreRow(row)
      PROVE  ListInv'
    <2>0. row \in Nat
        BY <1>1
    <2>1. PICK key \in Int : Lists!Show(row, key)
        BY <1>1, <1>3, <2>0, KeysAreNumbers DEF Lists!RestoreRow
    <2>2. /\ shifted' = (shifted \/ Lists!Counted)
          /\ UNCHANGED <<list, born, reader>>
        BY <1>3 DEF Lists!RestoreRow
    <2>3. row \notin DOMAIN shown /\ row \in 1..(born + 1)
        BY <1>1 DEF Lists!Rows
    <2>4. born' \in 0..MaxListed /\ born <= born' /\ row <= born'
        BY <1>1, <2>2, <1>3 DEF ListTyped
    <2> QED BY <2>1, <2>2, <2>3, <2>4, ShowKeeps
<1> QED BY <1>2, <1>3

\* A row that moves or leaves is marked for a client that reads, and nothing is
\* missing to one that does not.
LEMMA RowsShiftKeep ==
    ASSUME ListInv, NEW row \in Lists!Rows, Lists!MoveRow(row) \/ Lists!RemoveRow(row)
    PROVE  ListInv'
<1>1. ListTyped
    BY DEF ListInv
<1>2. UNCHANGED <<list, born, reader>> /\ shifted' = (shifted \/ Lists!Reading)
    BY DEF Lists!MoveRow, Lists!RemoveRow
<1>3. DOMAIN shown' \subseteq DOMAIN shown /\ shown' \in [DOMAIN shown' -> Int]
    <2>1. CASE Lists!MoveRow(row)
        <3>1. PICK key \in Int : shown' = [shown EXCEPT ![row] = key]
            BY <1>1, <2>1, KeysAreNumbers DEF Lists!MoveRow
        <3> QED BY <1>1, <3>1 DEF ListTyped
    <2>2. CASE Lists!RemoveRow(row)
        <3>1. shown' = [other \in DOMAIN shown \ {row} |-> shown[other]]
            BY <2>2 DEF Lists!RemoveRow, Lists!Rows
        <3> QED BY <1>1, <3>1 DEF ListTyped
    <2> QED BY <2>1, <2>2
<1>4. ListTyped'
    BY <1>1, <1>2, <1>3 DEF ListTyped, Lists!Reading
<1>5. ASSUME ~ shifted' PROVE MissingIsAhead' /\ CountIsRight'
    <2>1. reader'.stage = "idle" /\ reader'.due = {}
        BY <1>1, <1>2, <1>5 DEF Lists!Reading, ListTyped
    <2> QED BY <2>1 DEF MissingIsAhead, CountIsRight, Missing
<1> QED BY <1>4, <1>5 DEF ListInv

\* The client begins: every row is ahead.
LEMMA AskFirstKeeps ==
    ASSUME ListInv, NEW limit \in Limits, Lists!AskFirst(limit)
    PROVE  ListInv'
<1>1. ListTyped /\ born \in Nat /\ limit \in Nat
    BY BackOfficeAssumption DEF ListInv, ListTyped
<1>2. /\ reader' = [stage |-> "asked", page |-> 1, limit |-> limit, total |-> 0,
                    due |-> DOMAIN shown, seen |-> {}]
      /\ shifted' = FALSE
      /\ UNCHANGED <<list, shown, born>>
    BY DEF Lists!AskFirst, Lists!Rows
<1>3. DOMAIN shown \subseteq Nat
    BY <1>1 DEF ListTyped
<1>4. reader' \in Reader
    BY <1>1, <1>2, <1>3 DEF Reader, ReaderStages
<1>5. /\ reader'.stage = "asked"
      /\ reader'.page = 1
      /\ reader'.limit = limit
      /\ reader'.due = DOMAIN shown
      /\ reader'.seen = {}
    BY <1>2
<1>6. ListTyped'
    <2>1. shifted' \in BOOLEAN
        BY <1>2, Zenon
    <2>2. /\ born' \in 0..MaxListed
          /\ DOMAIN shown' \subseteq 1..born'
          /\ shown' \in [DOMAIN shown' -> Int]
        BY <1>1, <1>2 DEF ListTyped
    <2>3. reader'.due \subseteq 1..born' /\ reader'.seen \subseteq 1..born'
        BY <1>5, <2>2, <1>2
    <2> QED BY <1>4, <1>5, <2>1, <2>2, <2>3 DEF ListTyped
<1>7. MissingIsAhead'
    <2>1. PagesRead' * reader'.limit = 0
        BY <1>1, <1>5 DEF PagesRead
    <2>2. \A d : Rank(shown, d) \in Nat
        BY <1>1, FiniteRows DEF ListTyped
    <2> QED BY <1>2, <1>5, <2>1, <2>2 DEF MissingIsAhead, Missing
<1>8. CountIsRight'
    BY <1>5 DEF CountIsRight
<1> QED BY <1>6, <1>7, <1>8 DEF ListInv

\* The count: no fewer than what is ahead.
LEMMA CountRowsKeeps ==
    ASSUME ListInv, Lists!CountRows
    PROVE  ListInv'
<1>1. ListTyped /\ born \in Nat
    BY BackOfficeAssumption DEF ListInv, ListTyped
<1>2. PICK n : n = Cardinality(DOMAIN shown)
    OBVIOUS
<1>3. PICK next : next = IF reader.stage = "asked" THEN "counted" ELSE "answered"
    OBVIOUS
<1>4. /\ reader.stage \in {"asked", "read"}
      /\ reader' = [reader EXCEPT !.total = n, !.stage = next]
      /\ UNCHANGED <<list, shown, born, shifted>>
    BY <1>2, <1>3, SameCardinality DEF Lists!CountRows, Lists!Rows
<1>5. n \in Nat
    BY <1>1, <1>2, FiniteRows DEF ListTyped
<1>6. /\ reader' \in Reader
      /\ reader'.page = reader.page
      /\ reader'.limit = reader.limit
      /\ reader'.due = reader.due
      /\ reader'.seen = reader.seen
      /\ reader'.stage = next
      /\ reader'.total = n
    BY <1>1, <1>3, <1>4, <1>5 DEF ListTyped, Reader, ReaderStages
<1>7. ListTyped'
    BY <1>1, <1>3, <1>4, <1>6 DEF ListTyped
<1>8. ASSUME ~ shifted' PROVE MissingIsAhead' /\ CountIsRight'
    <2>1. MissingIsAhead
        BY <1>4, <1>8 DEF ListInv
    <2>2. PagesRead' = PagesRead
        BY <1>3, <1>4, <1>6 DEF PagesRead
    <2>3. MissingIsAhead'
        BY <1>4, <1>6, <2>1, <2>2 DEF MissingIsAhead, Missing
    <2>4. ASSUME next = "answered", NEW d \in Missing PROVE n > reader.page * reader.limit
        <3>1. d \in DOMAIN shown /\ Rank(shown, d) >= reader.page * reader.limit
            BY <1>3, <1>4, <2>1, <2>4 DEF MissingIsAhead, PagesRead
        <3>2. shown \in [DOMAIN shown -> Int] /\ DOMAIN shown \subseteq 1..born
            BY <1>1 DEF ListTyped
        <3>3. Rank(shown, d) < n
            BY <1>1, <1>2, <3>1, <3>2, RankIsSmall
        <3>4. Rank(shown, d) \in Nat
            BY <1>1, <3>2, FiniteRows
        <3>5. reader.page * reader.limit \in Int
            BY <1>1 DEF ListTyped, Reader
        <3> QED BY <1>5, <3>1, <3>3, <3>4, <3>5
    <2>5. CountIsRight'
        BY <1>2, <1>3, <1>4, <1>6, <2>4 DEF CountIsRight, Missing
    <2> QED BY <2>3, <2>5
<1> QED BY <1>7, <1>8 DEF ListInv

\* The smaller of two numbers.
LEMMA SmallerOf ==
    ASSUME NEW a \in Int, NEW b \in Int
    PROVE  Lists!Min({a, b}) = IF a <= b THEN a ELSE b
<1>1. \E x \in {a, b} : \A y \in {a, b} : x <= y
    OBVIOUS
<1>2. /\ Lists!Min({a, b}) \in {a, b}
      /\ \A y \in {a, b} : Lists!Min({a, b}) <= y
    BY <1>1 DEF Lists!Min
<1> QED BY <1>2

\* The pages the answer promises: one more, when more rows are there.
LEMMA PromisesMore ==
    ASSUME ListTyped, reader.stage # "idle", reader.total > reader.page * reader.limit
    PROVE  reader.page < Lists!TotalPages
<1> DEFINE n == (reader.total + reader.limit - 1) \div reader.limit
<1>1. /\ reader.page \in Nat
      /\ reader.limit \in Nat \ {0}
      /\ reader.total \in Nat
    BY BackOfficeAssumption DEF ListTyped, Reader
<1>2. n > reader.page
    BY <1>1, OnePageMore
<1>3. n \in Int
    BY <1>1
<1> HIDE DEF n
<1>4. \E x \in {1, n} : \A y \in {1, n} : x >= y
    BY <1>3
<1>5. /\ Lists!Max({1, n}) \in {1, n}
      /\ \A y \in {1, n} : Lists!Max({1, n}) >= y
    BY <1>4 DEF Lists!Max
<1>6. Lists!Max({1, n}) > reader.page
    BY <1>1, <1>2, <1>3, <1>5
<1> QED BY <1>1, <1>3, <1>5, <1>6 DEF Lists!TotalPages, n

\* A row that was not skipped and is not on the page comes after it.
LEMMA NotOnThePage ==
    ASSUME ListTyped, reader.stage # "idle", ~ Lists!Tie(DOMAIN shown),
           NEW items \in SUBSET DOMAIN shown, Lists!Page(items),
           NEW d \in DOMAIN shown, d \notin items,
           Rank(shown, d) >= (reader.page - 1) * reader.limit
    PROVE  Rank(shown, d) >= reader.page * reader.limit
<1> DEFINE all == DOMAIN shown
           skip == (reader.page - 1) * reader.limit
<1>1. /\ reader.page \in Nat \ {0}
      /\ reader.limit \in Nat \ {0}
      /\ born \in Nat
      /\ shown \in [all -> Int]
      /\ all \subseteq 1..born
    BY BackOfficeAssumption DEF ListTyped, Reader
<1>2. /\ skip \in Nat
      /\ skip + reader.limit = reader.page * reader.limit
    BY <1>1, NextPageBegins
<1>3. /\ IsFiniteSet(all)
      /\ Cardinality(all) \in Nat
      /\ IsFiniteSet(Below(shown, d))
      /\ Rank(shown, d) \in Nat
      /\ Rank(shown, d) < Cardinality(all)
    BY <1>1, FiniteRows, RankIsSmall
<1>4. Lists!Skip = skip
    BY DEF Lists!Skip
<1> HIDE DEF skip
<1>5. PICK before \in SUBSET (all \ items) :
          /\ Cardinality(before) = Lists!Min({skip, Cardinality(all)})
          /\ Cardinality(items) =
                 Lists!Min({reader.limit, Cardinality(all) - Cardinality(before)})
          /\ \A x \in before, y \in items \cup (all \ (before \cup items)) :
                shown[x] <= shown[y]
          /\ \A x \in items, y \in all \ (before \cup items) : shown[x] <= shown[y]
    BY <1>4, SameCardinality DEF Lists!Page, Lists!Rows
<1>6. skip <= Rank(shown, d)
    BY DEF skip
<1>7. Cardinality(before) = skip
    <2>1. Cardinality(before) = IF skip <= Cardinality(all) THEN skip ELSE Cardinality(all)
        BY <1>2, <1>3, <1>5, SmallerOf
    <2> QED BY <1>2, <1>3, <1>6, <2>1
<1>8. IsFiniteSet(before) /\ IsFiniteSet(items) /\ Cardinality(items) \in Nat
    BY <1>3, <1>5, FS_Subset, FS_CardinalityType
<1>9. d \notin before
    <2> SUFFICES ASSUME d \in before PROVE FALSE
        OBVIOUS
    <2>1. Below(shown, d) \subseteq before \ {d}
        <3> SUFFICES ASSUME NEW x \in Below(shown, d), x \notin before PROVE FALSE
            BY <1>1 DEF Below
        <3>1. x \in all /\ shown[x] < shown[d]
            BY DEF Below
        <3>2. shown[d] <= shown[x]
            BY <1>5, <3>1
        <3>3. shown[x] \in Int /\ shown[d] \in Int
            BY <1>1, <3>1
        <3> QED BY <3>1, <3>2, <3>3
    <2>2. IsFiniteSet(before \ {d}) /\ Cardinality(before \ {d}) = skip - 1
        BY <1>7, <1>8, FS_RemoveElement
    <2>3. Rank(shown, d) <= skip - 1
        BY <2>1, <2>2, FS_Subset DEF Rank
    <2> QED BY <1>2, <1>3, <1>6, <2>3
<1>10. before \cup items \subseteq Below(shown, d)
    <2> SUFFICES ASSUME NEW x \in before \cup items PROVE x \in Below(shown, d)
        OBVIOUS
    <2>1. x \in all /\ shown[x] <= shown[d]
        BY <1>5, <1>9
    <2>2. shown[x] # shown[d]
        BY <1>9, <2>1 DEF Lists!Tie
    <2>3. shown[x] \in Int /\ shown[d] \in Int
        BY <1>1, <2>1
    <2> QED BY <2>1, <2>2, <2>3 DEF Below
<1>11. Cardinality(before \cup items) = skip + Cardinality(items)
    <2>1. before \cap items = {}
        OBVIOUS
    <2>2. Cardinality(before \cap items) = 0
        BY <2>1, FS_EmptySet
    <2>3. Cardinality(before \cup items)
              = Cardinality(before) + Cardinality(items) - Cardinality(before \cap items)
        BY <1>8, FS_Union
    <2> QED BY <1>2, <1>7, <1>8, <2>2, <2>3
<1>12. Cardinality(before \cup items) <= Rank(shown, d)
    BY <1>3, <1>10, FS_Subset DEF Rank
<1>13. Cardinality(items) = IF reader.limit <= Cardinality(all) - skip
                            THEN reader.limit ELSE Cardinality(all) - skip
    <2>1. PICK rest : rest = Cardinality(all) - skip
        OBVIOUS
    <2>2. rest \in Int /\ reader.limit \in Int
        BY <1>1, <1>2, <1>3, <2>1
    <2>3. Cardinality(items) = Lists!Min({reader.limit, rest})
        BY <1>5, <1>7, <2>1
    <2> QED BY <2>1, <2>2, <2>3, SmallerOf
<1>14. skip + reader.limit <= Rank(shown, d)
    BY <1>1, <1>2, <1>3, <1>8, <1>11, <1>12, <1>13
<1> QED BY <1>2, <1>14

\* The rows of the page: those still missing come after it.
LEMMA ReadItemsKeeps ==
    ASSUME ListInv, Lists!ReadItems
    PROVE  ListInv'
<1>1. ListTyped /\ born \in Nat
    BY BackOfficeAssumption DEF ListInv, ListTyped
<1>2. PICK next : next = IF Lists!Counted THEN "answered" ELSE "read"
    OBVIOUS
<1>3. PICK items \in SUBSET DOMAIN shown :
          /\ Lists!Page(items)
          /\ reader' = [reader EXCEPT !.seen = @ \cup items, !.stage = next]
    BY <1>2 DEF Lists!ReadItems, Lists!Rows
<1>4. /\ reader.stage \in {"asked", "counted"}
      /\ shifted' = (shifted \/ Lists!Tie(DOMAIN shown))
      /\ UNCHANGED <<list, shown, born>>
    BY DEF Lists!ReadItems, Lists!Rows
<1>5. items \subseteq 1..born /\ items \subseteq Nat
    BY <1>1, <1>3 DEF ListTyped
<1>6. /\ reader' \in Reader
      /\ reader'.page = reader.page
      /\ reader'.limit = reader.limit
      /\ reader'.due = reader.due
      /\ reader'.seen = reader.seen \cup items
      /\ reader'.stage = next
      /\ reader'.total = reader.total
    BY <1>1, <1>2, <1>3, <1>5 DEF ListTyped, Reader, ReaderStages
<1>7. ListTyped'
    BY <1>1, <1>2, <1>4, <1>5, <1>6 DEF ListTyped, Lists!Tie
<1>8. ASSUME ~ shifted' PROVE MissingIsAhead' /\ CountIsRight'
    <2>1. MissingIsAhead /\ CountIsRight /\ ~ Lists!Tie(DOMAIN shown)
        BY <1>1, <1>4, <1>8 DEF ListInv, ListTyped, Lists!Tie
    <2>2. PagesRead' = reader.page
        BY <1>2, <1>6 DEF PagesRead
    <2>3. ASSUME NEW d \in Missing'
          PROVE  /\ d \in Missing
                 /\ d \in DOMAIN shown
                 /\ Rank(shown, d) >= reader.page * reader.limit
        <3>1. d \in Missing /\ d \notin items
            BY <1>6, <2>3 DEF Missing
        <3>2. d \in DOMAIN shown /\ Rank(shown, d) >= (reader.page - 1) * reader.limit
            BY <1>4, <2>1, <3>1 DEF MissingIsAhead, PagesRead
        <3> QED BY <1>1, <1>3, <1>4, <2>1, <3>1, <3>2, NotOnThePage
    <2>4. MissingIsAhead'
        BY <1>4, <1>6, <2>2, <2>3 DEF MissingIsAhead
    <2>5. ASSUME next = "answered", NEW d \in Missing'
          PROVE  reader.total > reader.page * reader.limit
        <3>1. reader.total = Cardinality(DOMAIN shown)
            BY <1>2, <2>1, <2>5 DEF CountIsRight, Lists!Counted
        <3>2. d \in DOMAIN shown /\ Rank(shown, d) >= reader.page * reader.limit
            BY <2>3, <2>5
        <3>3. shown \in [DOMAIN shown -> Int] /\ DOMAIN shown \subseteq 1..born
            BY <1>1 DEF ListTyped
        <3>4. Rank(shown, d) < reader.total
            BY <1>1, <3>1, <3>2, <3>3, RankIsSmall
        <3>5. Rank(shown, d) \in Nat
            BY <1>1, <3>3, FiniteRows
        <3>6. reader.page * reader.limit \in Int /\ reader.total \in Nat
            BY <1>1 DEF ListTyped, Reader
        <3> QED BY <3>2, <3>4, <3>5, <3>6
    <2>6. CountIsRight'
        BY <1>2, <1>6, <2>5 DEF CountIsRight
    <2> QED BY <2>4, <2>6
<1> QED BY <1>7, <1>8 DEF ListInv

\* The client turns the page, or ends.
LEMMA AskNextKeeps ==
    ASSUME ListInv, Lists!AskNext
    PROVE  ListInv'
<1>1. ListTyped
    BY DEF ListInv
<1>p. PICK page : page = reader.page + 1
    OBVIOUS
<1>2. /\ reader.stage = "answered"
      /\ reader' = [reader EXCEPT !.page = page, !.stage = "asked"]
      /\ UNCHANGED <<list, shown, born, shifted>>
    BY <1>p DEF Lists!AskNext
<1>q. page \in Nat \ {0}
    BY <1>1, <1>p DEF ListTyped, Reader
<1>3. /\ reader' \in Reader
      /\ reader'.page = reader.page + 1
      /\ reader'.page \in Nat \ {0}
      /\ reader'.limit = reader.limit
      /\ reader'.due = reader.due
      /\ reader'.seen = reader.seen
      /\ reader'.stage = "asked"
    BY <1>1, <1>2, <1>p, <1>q DEF ListTyped, Reader, ReaderStages
<1>4. ListTyped'
    BY <1>1, <1>2, <1>3 DEF ListTyped
<1>5. PagesRead' = PagesRead
    BY <1>1, <1>2, <1>3 DEF PagesRead, ListTyped, Reader
<1>6. MissingIsAhead => MissingIsAhead'
    BY <1>2, <1>3, <1>5 DEF MissingIsAhead, Missing
<1>7. CountIsRight'
    BY <1>3 DEF CountIsRight
<1> QED BY <1>2, <1>4, <1>6, <1>7 DEF ListInv

LEMMA StopKeeps ==
    ASSUME ListInv, Lists!Stop
    PROVE  ListInv'
<1>1. ListTyped
    BY DEF ListInv
<1>2. reader' = Lists!NoReader /\ UNCHANGED <<list, shown, born, shifted>>
    BY DEF Lists!Stop
<1>3. /\ reader' \in Reader
      /\ reader'.due = {}
      /\ reader'.seen = {}
      /\ reader'.stage = "idle"
    BY <1>2 DEF Lists!NoReader, Reader, ReaderStages
<1>4. ListTyped'
    BY <1>1, <1>2, <1>3 DEF ListTyped
<1>5. MissingIsAhead' /\ CountIsRight'
    BY <1>3 DEF MissingIsAhead, Missing, CountIsRight
<1> QED BY <1>4, <1>5 DEF ListInv

LEMMA InitList == Lists!Init => ListInv
<1> SUFFICES ASSUME Lists!Init PROVE ListInv
    OBVIOUS
<1>1. /\ reader \in Reader
      /\ reader.due = {}
      /\ reader.seen = {}
      /\ reader.stage = "idle"
    BY DEF Lists!Init, Lists!NoReader, Reader, ReaderStages
<1>2. shown = << >> /\ born = 0 /\ shifted = FALSE
    BY DEF Lists!Init
<1>3. born \in 0..MaxListed
    BY <1>2, BackOfficeAssumption
<1>4. DOMAIN shown = {} /\ shown \in [DOMAIN shown -> Int]
    BY <1>2
<1>5. shifted \in BOOLEAN
    BY <1>2, Zenon
<1>6. ListTyped
    BY <1>1, <1>3, <1>4, <1>5 DEF ListTyped
<1>7. MissingIsAhead /\ CountIsRight
    BY <1>1 DEF MissingIsAhead, Missing, CountIsRight
<1> QED BY <1>6, <1>7 DEF ListInv

LEMMA NextList == ListInv /\ Lists!Next => ListInv'
<1> SUFFICES ASSUME ListInv, Lists!Next PROVE ListInv'
    OBVIOUS
<1>1. CASE Lists!CreateRow \/ \E row \in (1..born) \ Lists!Rows : Lists!RestoreRow(row)
    BY <1>1, RowsComeKeeps
<1>2. ASSUME NEW row \in Lists!Rows, Lists!MoveRow(row) \/ Lists!RemoveRow(row)
      PROVE  ListInv'
    BY <1>2, RowsShiftKeep
<1>3. ASSUME NEW limit \in Limits, Lists!AskFirst(limit) PROVE ListInv'
    BY <1>3, AskFirstKeeps
<1>4. CASE Lists!ReadItems \/ Lists!CountRows \/ Lists!AskNext \/ Lists!Stop
    BY <1>4, ReadItemsKeeps, CountRowsKeeps, AskNextKeeps, StopKeeps
<1> QED BY <1>1, <1>2, <1>3, <1>4 DEF Lists!Next

\* What the properties of Listing say of a state of the invariant.
LEMMA ListProperties ==
    ASSUME ListInv
    PROVE  Lists!TypeOK /\ Lists!CleanPagesMissNone
<1>1. ListTyped
    BY DEF ListInv
<1>2. Lists!TypeOK
    BY <1>1 DEF ListTyped, Lists!TypeOK, Lists!Rows, Reader, ReaderStages
<1>3. Lists!CleanPagesMissNone
    <2> SUFFICES ASSUME reader.stage = "answered", reader.page >= Lists!TotalPages,
                        ~ shifted, NEW d \in reader.due, d \notin reader.seen
                 PROVE  FALSE
        BY DEF Lists!CleanPagesMissNone
    <2>1. reader.total > reader.page * reader.limit
        BY DEF ListInv, CountIsRight, Missing
    <2>2. reader.page < Lists!TotalPages
        BY <1>1, <2>1, PromisesMore
    <2>3. Lists!TotalPages \in Int /\ reader.page \in Int
        <3>1. /\ reader.page \in Nat
              /\ reader.limit \in Nat \ {0}
              /\ reader.total \in Nat
            BY <1>1, BackOfficeAssumption DEF ListTyped, Reader
        <3>2. PICK n : n = (reader.total + reader.limit - 1) \div reader.limit
            OBVIOUS
        <3>3. n \in Int
            BY <3>1, <3>2
        <3>4. \E x \in {1, n} : \A y \in {1, n} : x >= y
            BY <3>3
        <3>5. Lists!Max({1, n}) \in {1, n}
            BY <3>4 DEF Lists!Max
        <3> QED BY <3>1, <3>2, <3>3, <3>5 DEF Lists!TotalPages
    <2> QED BY <2>2, <2>3
<1> QED BY <1>2, <1>3
-----------------------------------------------------------------------------
\* Catalog.

Code == Nat \ {0}
Known == [id : Nat, category : CategoryNames, name : TypeNames, code : Code]
CatalogStages == {"idle", "readType", "insert", "write", "readTypes", "rows", "done"}
CatalogJob == [kind : {"none", "create", "update", "import"},
               category : CategoryNames \cup {None}, categoryCode : Nat, type : Nat,
               typeCode : Nat, product : Nat, old : Catalogue!Product \cup {None},
               codes : {<< >>} \cup [CategoryNames -> Code \cup {None}],
               known : SUBSET Known, row : Nat, errors : SUBSET Nat]

CategoryRecoded(c) == <<c, 0>> \in recoded
TypeRecoded(t) == <<None, t>> \in recoded

TablesTyped ==
    /\ categories \in [CategoryNames -> Code \cup {None}]
    /\ types \in Seq(Catalogue!Type)
    /\ products \in Seq(Catalogue!Product)
    /\ \A p \in DOMAIN products : /\ products[p].type \in DOMAIN types
                                  /\ products[p].issuer[2] \in DOMAIN types
    /\ recoded \subseteq ((CategoryNames \cup {None}) \X Nat)
    /\ moved \subseteq DOMAIN types
    /\ \A t \in moved : TypeRecoded(t)
    /\ raced \subseteq Requests \cup DOMAIN products

\* The unique keys of the codes.
CodesAreUnique ==
    /\ \A a, b \in CategoryNames :
          categories[a] = categories[b] => a = b \/ categories[a] = None
    /\ \A t, u \in DOMAIN types :
          types[t].category = types[u].category /\ types[t].code = types[u].code => t = u

\* A reference is what its issuer gave, where the issuer has not changed.
SkuHolds(p) ==
    LET c == products[p].issuer[1]
        t == products[p].issuer[2]
        sku == products[p].sku
    IN  /\ sku[3] < types[t].nextProductSeq
        /\ CategoryRecoded(c) \/ sku[1] = categories[c]
        /\ TypeRecoded(t) \/ (sku[2] = types[t].code /\ types[t].category = c)

TypeInCategory(p) ==
    \/ p \in raced
    \/ products[p].type \in moved
    \/ products[p].category = types[products[p].type].category

CatalogTables ==
    /\ TablesTyped
    /\ CodesAreUnique
    /\ \A p \in DOMAIN products : SkuHolds(p) /\ TypeInCategory(p)

\* What a request has read of a category, of a type and of a product,
HasCategory(j) ==
    /\ j.category \in CategoryNames
    /\ j.categoryCode \in Code
    /\ CategoryRecoded(j.category) \/ j.categoryCode = categories[j.category]

HasType(j) ==
    /\ j.type \in DOMAIN types
    /\ j.typeCode \in Code
    /\ TypeRecoded(j.type) \/ j.typeCode = types[j.type].code
    /\ j.type \in moved \/ j.category = types[j.type].category

HasUpdate(j) ==
    /\ j.product \in DOMAIN products
    /\ j.old \in Catalogue!Product
    /\ j.old.type \in DOMAIN types
    /\ j.type \in {0} \cup DOMAIN types
    /\ LET t == IF j.type = 0 THEN j.old.type ELSE j.type
           c == IF j.category = None THEN j.old.category ELSE j.category
       IN  t \in moved \/ c = types[t].category

\* .. and an import of all categories and of all types.
HasCodes(j) ==
    /\ j.kind = "import"
    /\ j.row \in DOMAIN ImportRows
    /\ j.codes \in [CategoryNames -> Code \cup {None}]
    /\ \A c \in CategoryNames :
          j.codes[c] = None \/ CategoryRecoded(c) \/ j.codes[c] = categories[c]

HasTypes(j) ==
    /\ IsFiniteSet(j.known)
    /\ \A k \in j.known : /\ k.id \in DOMAIN types
                          /\ TypeRecoded(k.id) \/ k.code = types[k.id].code
                          /\ k.id \in moved \/ k.category = types[k.id].category

HoldsAt(s, j) ==
    /\ s = "idle" => j = Catalogue!NoJob
    /\ s = "readType" => HasCategory(j) /\ j.kind = "create"
    /\ s = "insert" => HasCategory(j) /\ HasType(j) /\ j.kind = "create"
    /\ s = "write" => HasUpdate(j) /\ j.kind = "update"
    /\ s = "readTypes" => HasCodes(j)
    /\ s = "rows" => HasCodes(j) /\ HasTypes(j)

\* An import that nothing is marked beside holds the catalogue as it is.
ImportIsClean(r, s, j) ==
    r \notin raced /\ j.kind = "import" =>
        /\ recoded = {} => j.errors = {}
        /\ s \in {"readTypes", "rows"} => j.codes = categories
        /\ s = "rows" => j.known = {Catalogue!AsRead(t) : t \in DOMAIN types}

CatalogRequest(r, s, j) == HoldsAt(s, j) /\ ImportIsClean(r, s, j)

CatalogInv ==
    /\ CatalogTables
    /\ catalogStage \in [Requests -> CatalogStages]
    /\ catalogJob \in [Requests -> CatalogJob]
    /\ \A r \in Requests : CatalogRequest(r, catalogStage[r], catalogJob[r])

\* What a step leaves of the catalogue as it was: a code or a category changes
\* with a mark, and nothing goes.
CatalogGrows ==
    /\ \A c \in CategoryNames :
          categories[c] = None \/ CategoryRecoded(c)' \/ categories'[c] = categories[c]
    /\ DOMAIN types \subseteq DOMAIN types'
    /\ \A t \in DOMAIN types :
          /\ TypeRecoded(t)' \/ types'[t].code = types[t].code
          /\ t \in moved' \/ types'[t].category = types[t].category
    /\ DOMAIN products \subseteq DOMAIN products'
    /\ recoded \subseteq recoded'
    /\ moved \subseteq moved'
    /\ raced \subseteq raced'

\* No code changes, and neither a category nor a type is made.
CatalogStands ==
    /\ categories' = categories
    /\ DOMAIN types' = DOMAIN types
    /\ \A t \in DOMAIN types : /\ types'[t].category = types[t].category
                               /\ types'[t].name = types[t].name
                               /\ types'[t].code = types[t].code

MarksGrow == raced \subseteq raced' /\ raced' \subseteq Requests \cup DOMAIN products

\* What was read holds, or is marked.
LEMMA HoldsStill ==
    ASSUME CatalogGrows, NEW s, NEW j, HoldsAt(s, j)
    PROVE  HoldsAt(s, j)'
<1>1. ASSUME HasCategory(j) PROVE HasCategory(j)'
    <2>1. j.categoryCode = categories[j.category] => categories[j.category] # None
        BY <1>1, BackOfficeAssumption DEF HasCategory, Code
    <2> QED BY <1>1, <2>1 DEF HasCategory, CatalogGrows, CategoryRecoded
<1>2. ASSUME HasType(j) PROVE HasType(j)'
    BY <1>2 DEF HasType, CatalogGrows, TypeRecoded
<1>3. ASSUME HasUpdate(j) PROVE HasUpdate(j)'
    <2>1. PICK t : t = IF j.type = 0 THEN j.old.type ELSE j.type
        OBVIOUS
    <2>2. PICK c : c = IF j.category = None THEN j.old.category ELSE j.category
        OBVIOUS
    <2>3. t \in DOMAIN types /\ (t \in moved \/ c = types[t].category)
        BY <1>3, <2>1, <2>2 DEF HasUpdate
    <2>4. t \in moved' \/ c = types'[t].category
        BY <2>3 DEF CatalogGrows
    <2> QED BY <1>3, <2>1, <2>2, <2>4 DEF HasUpdate, CatalogGrows
<1>4. ASSUME HasCodes(j) PROVE HasCodes(j)'
    BY <1>4 DEF HasCodes, CatalogGrows, CategoryRecoded
<1>5. ASSUME HasTypes(j) PROVE HasTypes(j)'
    BY <1>5 DEF HasTypes, CatalogGrows, TypeRecoded
<1> QED BY <1>1, <1>2, <1>3, <1>4, <1>5 DEF HoldsAt

LEMMA CleanStill ==
    ASSUME CatalogGrows, NEW r, NEW s, NEW j, ImportIsClean(r, s, j),
           CatalogStands \/ s \notin {"readTypes", "rows"} \/ j.kind # "import" \/ r \in raced'
    PROVE  ImportIsClean(r, s, j)'
<1> SUFFICES ASSUME r \notin raced', j.kind = "import"
             PROVE  /\ recoded' = {} => j.errors = {}
                    /\ s \in {"readTypes", "rows"} => j.codes = categories'
                    /\ s = "rows" => j.known = {Catalogue!AsRead(t) : t \in DOMAIN types}'
    BY DEF ImportIsClean
<1>1. /\ recoded = {} => j.errors = {}
      /\ s \in {"readTypes", "rows"} => j.codes = categories
      /\ s = "rows" => j.known = {Catalogue!AsRead(t) : t \in DOMAIN types}
    BY DEF ImportIsClean, CatalogGrows
<1>2. recoded' = {} => recoded = {}
    BY DEF CatalogGrows
<1>3. CASE CatalogStands
    <2>1. ASSUME NEW t \in DOMAIN types PROVE Catalogue!AsRead(t)' = Catalogue!AsRead(t)
        BY <1>3 DEF CatalogStands, Catalogue!AsRead
    <2>2. {Catalogue!AsRead(t) : t \in DOMAIN types}' = {Catalogue!AsRead(t) : t \in DOMAIN types}
        BY <1>3, <2>1 DEF CatalogStands
    <2> QED BY <1>1, <1>2, <1>3, <2>2 DEF CatalogStands
<1>4. CASE s \notin {"readTypes", "rows"}
    BY <1>1, <1>2, <1>4
<1> QED BY <1>3, <1>4

\* The requests a step does not run keep what they hold.
LEMMA OtherRequestsKeep ==
    ASSUME CatalogInv, CatalogGrows, NEW r,
           CatalogStands \/ Catalogue!Importing(r) \subseteq raced',
           NEW q \in Requests, q # r,
           catalogStage'[q] = catalogStage[q], catalogJob'[q] = catalogJob[q]
    PROVE  CatalogRequest(q, catalogStage[q], catalogJob[q])'
<1>1. PICK s : s = catalogStage[q]
    OBVIOUS
<1>2. PICK j : j = catalogJob[q]
    OBVIOUS
<1>3. HoldsAt(s, j) /\ ImportIsClean(q, s, j)
    BY <1>1, <1>2 DEF CatalogInv, CatalogRequest
<1>4. HoldsAt(s, j)'
    BY <1>3, HoldsStill
<1>5. CatalogStands \/ s \notin {"readTypes", "rows"} \/ j.kind # "import" \/ q \in raced'
    BY <1>1, <1>2 DEF Catalogue!Importing
<1>6. ImportIsClean(q, s, j)'
    BY <1>3, <1>5, CleanStill
<1>7. catalogStage'[q] = s /\ catalogJob'[q] = j
    BY <1>1, <1>2
<1> QED BY <1>4, <1>6, <1>7 DEF CatalogRequest, HoldsAt, ImportIsClean, HasCategory, HasType,
                                HasUpdate, HasCodes, HasTypes

\* A request enters a stage with what it holds from there,
LEMMA CatalogMovesKeep ==
    ASSUME CatalogInv, CatalogTables', CatalogGrows, NEW r \in Requests,
           NEW s \in CatalogStages, NEW new \in CatalogJob,
           catalogStage' = [catalogStage EXCEPT ![r] = s],
           catalogJob' = [catalogJob EXCEPT ![r] = new],
           CatalogStands \/ Catalogue!Importing(r) \subseteq raced',
           CatalogRequest(r, s, new)'
    PROVE  CatalogInv'
<1>1. /\ catalogStage' \in [Requests -> CatalogStages]
      /\ catalogJob' \in [Requests -> CatalogJob]
    BY DEF CatalogInv
<1>2. /\ catalogStage'[r] = s /\ catalogJob'[r] = new
      /\ \A q \in Requests \ {r} : /\ catalogStage'[q] = catalogStage[q]
                                   /\ catalogJob'[q] = catalogJob[q]
    BY DEF CatalogInv
<1>3. \A q \in Requests \ {r} : CatalogRequest(q, catalogStage[q], catalogJob[q])'
    BY <1>2, OtherRequestsKeep
<1>4. CatalogRequest(r, catalogStage[r], catalogJob[r])'
    BY <1>2 DEF CatalogRequest, HoldsAt, ImportIsClean, HasCategory, HasType,
                HasUpdate, HasCodes, HasTypes
<1> QED BY <1>1, <1>3, <1>4 DEF CatalogInv

\* .. or none does.
LEMMA CatalogRoutesKeep ==
    ASSUME CatalogInv, CatalogTables', CatalogGrows,
           UNCHANGED <<catalogStage, catalogJob>>,
           Catalogue!Importing(None) \subseteq raced'
    PROVE  CatalogInv'
<1>1. \A q \in Requests : q # None
    BY BackOfficeAssumption
<1>2. \A q \in Requests : CatalogRequest(q, catalogStage[q], catalogJob[q])'
    BY <1>1, OtherRequestsKeep
<1> QED BY <1>2 DEF CatalogInv

LEMMA CatalogStaysSame ==
    ASSUME CatalogTables,
           UNCHANGED <<categories, types, products, recoded, moved, raced>>
    PROVE  CatalogTables' /\ CatalogGrows /\ CatalogStands
<1>1. CatalogTables'
    BY DEF CatalogTables, TablesTyped, CodesAreUnique, SkuHolds, TypeInCategory,
           CategoryRecoded, TypeRecoded
<1>2. CatalogGrows
    BY DEF CatalogTables, TablesTyped, CatalogGrows
<1>3. CatalogStands
    BY DEF CatalogStands
<1> QED BY <1>1, <1>2, <1>3

LEMMA CodeIsNotNone == None \notin Code /\ None \notin CategoryNames
BY BackOfficeAssumption DEF Code

\* A category is made or its code changes, to a code that no other has.
LEMMA CategoryChanges ==
    ASSUME CatalogTables, NEW name \in CategoryNames, NEW code \in Code,
           Catalogue!FreeCategoryCode(code),
           categories' = [categories EXCEPT ![name] = code],
           recoded \subseteq recoded',
           recoded' \subseteq ((CategoryNames \cup {None}) \X Nat),
           categories[name] = None \/ CategoryRecoded(name)',
           UNCHANGED <<types, products, moved>>, MarksGrow
    PROVE  CatalogTables' /\ CatalogGrows
<1>1. /\ categories' \in [CategoryNames -> Code \cup {None}]
      /\ categories'[name] = code
      /\ \A c \in CategoryNames \ {name} : categories'[c] = categories[c]
    BY DEF CatalogTables, TablesTyped
<1>2. TablesTyped'
    BY <1>1 DEF CatalogTables, TablesTyped, MarksGrow, TypeRecoded
<1>3. \A c \in CategoryNames : categories[c] = None \/ categories[c] # code
    BY DEF Catalogue!FreeCategoryCode, Catalogue!Existing
<1>4. CodesAreUnique'
    BY <1>1, <1>3, CodeIsNotNone DEF CatalogTables, CodesAreUnique
<1>5. ASSUME NEW c \in CategoryNames
      PROVE  categories[c] = None \/ CategoryRecoded(c)' \/ categories'[c] = categories[c]
    BY <1>1 DEF CatalogTables, TablesTyped, CategoryRecoded
<1>6. ASSUME NEW p \in DOMAIN products
      PROVE  SkuHolds(p)' /\ TypeInCategory(p)'
    <2>1. products[p] \in Catalogue!Product
        BY DEF CatalogTables, TablesTyped
    <2>2. products[p].issuer[1] \in CategoryNames /\ products[p].sku[1] \in Code
        BY <2>1 DEF Catalogue!Product, Catalogue!Sku, Code
    <2>3. SkuHolds(p) /\ TypeInCategory(p)
        BY DEF CatalogTables
    <2>4. SkuHolds(p)'
        BY <2>2, <2>3, <1>5, CodeIsNotNone DEF SkuHolds, CategoryRecoded, TypeRecoded
    <2>5. TypeInCategory(p)'
        BY <2>3 DEF TypeInCategory, MarksGrow
    <2> QED BY <2>4, <2>5
<1>7. CatalogTables'
    BY <1>2, <1>4, <1>6 DEF CatalogTables
<1>8. CatalogGrows
    BY <1>5 DEF CatalogGrows, TypeRecoded, MarksGrow
<1> QED BY <1>7, <1>8

\* A type is made, with a code that no other of its category has.
LEMMA TypeMade ==
    ASSUME CatalogTables, NEW category \in CategoryNames, NEW name \in TypeNames,
           NEW code \in Code, Catalogue!AddType(category, name, code),
           UNCHANGED <<categories, products, recoded, moved>>, MarksGrow
    PROVE  CatalogTables' /\ CatalogGrows
<1> DEFINE row == [category |-> category, name |-> name, code |-> code, nextProductSeq |-> 1]
<1>1. row \in Catalogue!Type /\ types \in Seq(Catalogue!Type)
    BY DEF Catalogue!Type, Code, CatalogTables, TablesTyped
<1>2. types' = Append(types, row)
    BY DEF Catalogue!AddType
<1>3. /\ types' \in Seq(Catalogue!Type)
      /\ DOMAIN types' = DOMAIN types \cup {Len(types) + 1}
      /\ Len(types) + 1 \notin DOMAIN types
      /\ \A t \in DOMAIN types : types'[t] = types[t]
      /\ types'[Len(types) + 1] = row
      /\ DOMAIN types = 1..Len(types)
    BY <1>1, <1>2, InsertRow
<1>4. TablesTyped'
    BY <1>3 DEF CatalogTables, TablesTyped, MarksGrow, TypeRecoded
<1>5. \A t \in DOMAIN types : types[t].category = category => types[t].code # code
    <2>1. 0 \notin DOMAIN types
        BY <1>3
    <2> QED BY <2>1 DEF Catalogue!AddType, Catalogue!FreeInCategory, Catalogue!TypesOf
<1>6. CodesAreUnique'
    BY <1>3, <1>5 DEF CatalogTables, CodesAreUnique
<1>7. ASSUME NEW p \in DOMAIN products
      PROVE  SkuHolds(p)' /\ TypeInCategory(p)'
    <2>1. products[p].type \in DOMAIN types /\ products[p].issuer[2] \in DOMAIN types
        BY DEF CatalogTables, TablesTyped
    <2>2. SkuHolds(p) /\ TypeInCategory(p)
        BY DEF CatalogTables
    <2>3. SkuHolds(p)'
        BY <1>3, <2>1, <2>2 DEF SkuHolds, CategoryRecoded, TypeRecoded
    <2>4. TypeInCategory(p)'
        BY <1>3, <2>1, <2>2 DEF TypeInCategory, MarksGrow
    <2> QED BY <2>3, <2>4
<1>8. CatalogTables'
    BY <1>4, <1>6, <1>7 DEF CatalogTables
<1>9. CatalogGrows
    BY <1>3 DEF CatalogGrows, MarksGrow
<1> QED BY <1>8, <1>9

\* A type takes another code or goes to another category.
LEMMA TypeChanges ==
    ASSUME CatalogTables, NEW t \in DOMAIN types, NEW category \in CategoryNames,
           NEW code \in Code,
           Catalogue!FreeInCategory(t, category, types[t].name, code),
           types' = [types EXCEPT ![t].category = category, ![t].code = code],
           recoded' = recoded \cup {<<None, t>>},
           moved' = IF category # types[t].category THEN moved \cup {t} ELSE moved,
           UNCHANGED <<categories, products>>, MarksGrow
    PROVE  CatalogTables' /\ CatalogGrows
<1>1. types \in Seq(Catalogue!Type)
    BY DEF CatalogTables, TablesTyped
<1>2. types[t] \in Catalogue!Type /\ t \in Nat
    BY <1>1, RowType
<1>3. PICK row : row = [types[t] EXCEPT !.category = category, !.code = code]
    OBVIOUS
<1>4. row \in Catalogue!Type
    BY <1>2, <1>3 DEF Catalogue!Type, Code
<1>5. row.category = category /\ row.code = code /\ row.nextProductSeq = types[t].nextProductSeq
    BY <1>2, <1>3 DEF Catalogue!Type
<1>6. types' = [types EXCEPT ![t] = row]
    BY <1>1, <1>2, <1>3, RowType
<1>7. /\ types' \in Seq(Catalogue!Type)
      /\ DOMAIN types' = DOMAIN types
      /\ \A u \in DOMAIN types : types'[u] = IF u = t THEN row ELSE types[u]
    BY ONLY <1>1, <1>4, <1>6, t \in DOMAIN types, ChangeRow
<1>8. TypeRecoded(t)'
    BY DEF TypeRecoded
<1>9. TablesTyped'
    <2>1. recoded' \subseteq ((CategoryNames \cup {None}) \X Nat)
        BY <1>2 DEF CatalogTables, TablesTyped
    <2>2. \A u \in moved' : TypeRecoded(u)'
        BY <1>8 DEF CatalogTables, TablesTyped, TypeRecoded
    <2>3. moved' \subseteq DOMAIN types
        BY DEF CatalogTables, TablesTyped
    <2> QED BY <1>7, <2>1, <2>2, <2>3 DEF CatalogTables, TablesTyped, MarksGrow
<1>10. \A u \in DOMAIN types \ {t} : types[u].category = category => types[u].code # code
    BY DEF Catalogue!FreeInCategory, Catalogue!TypesOf
<1>11. CodesAreUnique'
    BY <1>5, <1>7, <1>10 DEF CatalogTables, CodesAreUnique
<1>12. ASSUME NEW p \in DOMAIN products
      PROVE  SkuHolds(p)' /\ TypeInCategory(p)'
    <2>1. products[p].type \in DOMAIN types /\ products[p].issuer[2] \in DOMAIN types
        BY DEF CatalogTables, TablesTyped
    <2>2. SkuHolds(p) /\ TypeInCategory(p)
        BY DEF CatalogTables
    <2>3. SkuHolds(p)'
        BY <1>5, <1>7, <1>8, <2>1, <2>2 DEF SkuHolds, CategoryRecoded, TypeRecoded
    <2>4. TypeInCategory(p)'
        BY <1>5, <1>7, <2>1, <2>2 DEF TypeInCategory, MarksGrow
    <2> QED BY <2>3, <2>4
<1>13. CatalogTables'
    BY <1>9, <1>11, <1>12 DEF CatalogTables
<1>14. CatalogGrows
    BY <1>5, <1>7, <1>8 DEF CatalogGrows, TypeRecoded, CategoryRecoded, MarksGrow
<1> QED BY <1>13, <1>14

\* What a product is created from: codes as they are, or marked.
ReadAlike(category, categoryCode, t, typeCode) ==
    /\ category \in CategoryNames /\ categoryCode \in Code
    /\ t \in DOMAIN types /\ typeCode \in Code
    /\ CategoryRecoded(category) \/ categoryCode = categories[category]
    /\ TypeRecoded(t) \/ typeCode = types[t].code
    /\ t \in moved \/ category = types[t].category

\* A product is created: its number is the counter of its type, which it moves on.
LEMMA ProductMade ==
    ASSUME CatalogTables, NEW category, NEW categoryCode, NEW t, NEW typeCode,
           ReadAlike(category, categoryCode, t, typeCode),
           Catalogue!AddProduct(category, categoryCode, t, typeCode),
           UNCHANGED <<categories, recoded, moved>>, MarksGrow
    PROVE  CatalogTables' /\ CatalogGrows /\ CatalogStands
<1>1. types \in Seq(Catalogue!Type) /\ products \in Seq(Catalogue!Product)
    BY DEF CatalogTables, TablesTyped
<1>2. t \in DOMAIN types /\ types[t] \in Catalogue!Type /\ t \in Nat \ {0}
    BY <1>1, RowType DEF ReadAlike
<1>3. PICK n : n = types[t].nextProductSeq
    OBVIOUS
<1>4. n \in Nat \ {0} /\ n + 1 \in Nat \ {0} /\ n < n + 1
    <2>1. n \in Nat \ {0}
        BY <1>2, <1>3 DEF Catalogue!Type
    <2> QED BY <2>1
<1>5. PICK type : type = [types[t] EXCEPT !.nextProductSeq = n + 1]
    OBVIOUS
<1>6. /\ type \in Catalogue!Type /\ type.category = types[t].category
      /\ type.name = types[t].name /\ type.code = types[t].code
      /\ type.nextProductSeq = n + 1
    BY <1>2, <1>4, <1>5 DEF Catalogue!Type
<1>7. types' = [types EXCEPT ![t] = type]
    BY <1>1, <1>2, <1>3, <1>5, RowType DEF Catalogue!AddProduct
<1>8. /\ types' \in Seq(Catalogue!Type)
      /\ DOMAIN types' = DOMAIN types
      /\ \A u \in DOMAIN types : types'[u] = IF u = t THEN type ELSE types[u]
    BY ONLY <1>1, <1>2, <1>6, <1>7, ChangeRow
<1>9. \A u \in DOMAIN types : /\ types'[u].category = types[u].category
                              /\ types'[u].name = types[u].name
                              /\ types'[u].code = types[u].code
    BY <1>6, <1>8
<1>10. PICK sku : sku = <<categoryCode, typeCode, n>>
    OBVIOUS
<1>11. PICK row : row = [category |-> category, type |-> t, sku |-> sku,
                         issuer |-> <<category, t>>]
    OBVIOUS
<1>12. row \in Catalogue!Product
    BY <1>2, <1>4, <1>10, <1>11 DEF ReadAlike, Code, Catalogue!Product, Catalogue!Sku
<1>13. products' = Append(products, row)
    BY <1>3, <1>10, <1>11 DEF Catalogue!AddProduct, Catalogue!ClaimedSeq
<1>14. /\ products' \in Seq(Catalogue!Product)
       /\ DOMAIN products' = DOMAIN products \cup {Len(products) + 1}
       /\ \A p \in DOMAIN products : products'[p] = products[p]
       /\ products'[Len(products) + 1] = row
    BY <1>1, <1>12, <1>13, InsertRow
<1>15. TablesTyped'
    BY <1>2, <1>8, <1>11, <1>14 DEF CatalogTables, TablesTyped, MarksGrow, TypeRecoded
<1>16. CodesAreUnique'
    BY <1>8, <1>9 DEF CatalogTables, CodesAreUnique
<1>17. ASSUME NEW p \in DOMAIN products
       PROVE  SkuHolds(p)' /\ TypeInCategory(p)'
    <2>1. products[p].type \in DOMAIN types /\ products[p].issuer[2] \in DOMAIN types
        BY DEF CatalogTables, TablesTyped
    <2>2. SkuHolds(p) /\ TypeInCategory(p)
        BY DEF CatalogTables
    <2>3. products[p].sku[3] \in Nat /\ types[products[p].issuer[2]].nextProductSeq \in Nat
        <3>1. products[p] \in Catalogue!Product /\ types[products[p].issuer[2]] \in Catalogue!Type
            BY <1>1, <2>1, RowType
        <3> QED BY <3>1 DEF Catalogue!Product, Catalogue!Sku, Catalogue!Type
    <2>4. types'[products[p].issuer[2]].nextProductSeq >= types[products[p].issuer[2]].nextProductSeq
        BY <1>3, <1>4, <1>6, <1>8, <2>1, <2>3
    <2>5. types'[products[p].issuer[2]].nextProductSeq \in Nat
        BY <1>4, <1>6, <1>8, <2>1, <2>3
    <2>6. products[p].sku[3] < types[products[p].issuer[2]].nextProductSeq
        BY <2>2 DEF SkuHolds
    <2>7. products[p].sku[3] < types'[products[p].issuer[2]].nextProductSeq
        BY <2>3, <2>4, <2>5, <2>6
    <2>8. SkuHolds(p)'
        BY <1>9, <1>14, <2>1, <2>2, <2>7 DEF SkuHolds, CategoryRecoded, TypeRecoded
    <2>9. TypeInCategory(p)'
        BY <1>9, <1>14, <2>1, <2>2 DEF TypeInCategory, MarksGrow
    <2> QED BY <2>8, <2>9
<1>18. t \in moved => TypeRecoded(t)
    BY DEF CatalogTables, TablesTyped
<1>19. ASSUME NEW p, p = Len(products) + 1
       PROVE  SkuHolds(p)' /\ TypeInCategory(p)'
    <2>1. products'[p] = row /\ types'[t] = type
        BY <1>2, <1>8, <1>14, <1>19
    <2>2. row.issuer[1] = category /\ row.issuer[2] = t /\ row.sku = sku /\ row.type = t
          /\ row.category = category /\ sku[1] = categoryCode /\ sku[2] = typeCode /\ sku[3] = n
        BY <1>10, <1>11
    <2>3. SkuHolds(p)'
        BY <1>4, <1>6, <1>18, <2>1, <2>2 DEF SkuHolds, ReadAlike, CategoryRecoded, TypeRecoded
    <2>4. TypeInCategory(p)'
        BY <1>6, <2>1, <2>2 DEF TypeInCategory, ReadAlike
    <2> QED BY <2>3, <2>4
<1>20. CatalogTables'
    BY <1>14, <1>15, <1>16, <1>17, <1>19 DEF CatalogTables
<1>21. CatalogGrows
    BY <1>8, <1>9, <1>14 DEF CatalogGrows, MarksGrow
<1>22. CatalogStands
    BY <1>8, <1>9 DEF CatalogStands
<1> QED BY <1>20, <1>21, <1>22

\* A product takes another category or type: the two belong together, where
\* the product is still as it was read.
LEMMA ProductChanges ==
    ASSUME CatalogTables, NEW j \in CatalogJob, HasUpdate(j), NEW p, p = j.product,
           NEW c, c = IF j.category = None THEN products[p].category ELSE j.category,
           NEW t, t = IF j.type = 0 THEN products[p].type ELSE j.type,
           products' = [products EXCEPT ![p].category = c, ![p].type = t],
           products[p] # j.old => p \in raced',
           UNCHANGED <<categories, types, recoded, moved>>, MarksGrow
    PROVE  CatalogTables' /\ CatalogGrows /\ CatalogStands
<1>1. products \in Seq(Catalogue!Product) /\ p \in DOMAIN products
    BY DEF CatalogTables, TablesTyped, HasUpdate
<1>4. PICK row : row = [products[p] EXCEPT !.category = c, !.type = t]
    OBVIOUS
<1>5. products[p] \in Catalogue!Product /\ products[p].type \in DOMAIN types
    BY <1>1, RowType DEF CatalogTables, TablesTyped
<1>6. c \in CategoryNames /\ t \in DOMAIN types /\ t \in Nat \ {0}
    <2>1. c \in CategoryNames
        BY <1>5 DEF Catalogue!Product, CatalogJob
    <2>2. t \in DOMAIN types
        BY <1>5 DEF HasUpdate
    <2>3. types \in Seq(Catalogue!Type)
        BY DEF CatalogTables, TablesTyped
    <2>4. DOMAIN types \subseteq Nat \ {0}
        BY <2>3, RowType
    <2> QED BY <2>1, <2>2, <2>4
<1>7. /\ row \in Catalogue!Product /\ row.category = c /\ row.type = t
      /\ row.sku = products[p].sku /\ row.issuer = products[p].issuer
    BY <1>4, <1>5, <1>6 DEF Catalogue!Product
<1>8. products' = [products EXCEPT ![p] = row]
    BY <1>1, <1>4, <1>5 DEF Catalogue!Product
<1>9. /\ products' \in Seq(Catalogue!Product)
      /\ DOMAIN products' = DOMAIN products
      /\ \A o \in DOMAIN products : products'[o] = IF o = p THEN row ELSE products[o]
    BY ONLY <1>1, <1>7, <1>8, ChangeRow
<1>10. TablesTyped'
    BY <1>6, <1>7, <1>9 DEF CatalogTables, TablesTyped, MarksGrow, TypeRecoded
<1>11. CodesAreUnique'
    BY DEF CatalogTables, CodesAreUnique
<1>12. ASSUME NEW o \in DOMAIN products
       PROVE  SkuHolds(o)' /\ TypeInCategory(o)'
    <2>1. SkuHolds(o) /\ TypeInCategory(o)
        BY DEF CatalogTables
    <2>2. products'[o].sku = products[o].sku /\ products'[o].issuer = products[o].issuer
        BY <1>7, <1>9
    <2>3. SkuHolds(o)'
        <3>1. PICK cat, of, sku : cat = products[o].issuer[1] /\ of = products[o].issuer[2]
                                  /\ sku = products[o].sku
            OBVIOUS
        <3>2. /\ sku[3] < types[of].nextProductSeq
              /\ CategoryRecoded(cat) \/ sku[1] = categories[cat]
              /\ TypeRecoded(of) \/ (sku[2] = types[of].code /\ types[of].category = cat)
            BY <2>1, <3>1 DEF SkuHolds
        <3>3. /\ products'[o].issuer[1] = cat /\ products'[o].issuer[2] = of
              /\ products'[o].sku = sku
            BY <2>2, <3>1
        <3>4. CategoryRecoded(cat)' = CategoryRecoded(cat) /\ TypeRecoded(of)' = TypeRecoded(of)
            BY DEF CategoryRecoded, TypeRecoded
        <3> QED BY <3>2, <3>3, <3>4 DEF SkuHolds, CategoryRecoded, TypeRecoded
    <2>4. CASE o # p
        BY <1>9, <2>1, <2>3, <2>4 DEF TypeInCategory, MarksGrow
    <2>5. CASE o = p /\ products[p] = j.old
        <3>1. t \in moved \/ c = types[t].category
            BY <2>5 DEF HasUpdate
        <3>2. products'[o].type = t /\ products'[o].category = c
            BY <1>7, <1>9, <2>5
        <3>3. t \in moved' \/ c = types'[t].category
            BY <3>1
        <3> QED BY <2>3, <3>2, <3>3 DEF TypeInCategory
    <2>6. CASE o = p /\ products[p] # j.old
        BY <2>3, <2>6 DEF TypeInCategory
    <2> QED BY <2>4, <2>5, <2>6
<1>13. CatalogTables'
    BY <1>9, <1>10, <1>11, <1>12 DEF CatalogTables
<1>14. CatalogGrows
    BY <1>9 DEF CatalogGrows, MarksGrow
<1>15. CatalogStands
    BY DEF CatalogStands
<1> QED BY <1>13, <1>14, <1>15

\* The values of a finite table are finitely many.
LEMMA ImageFinite ==
    ASSUME NEW S, IsFiniteSet(S), NEW f, DOMAIN f = S, f = [x \in S |-> f[x]]
    PROVE  IsFiniteSet({f[x] : x \in S})
<1> DEFINE T == {f[x] : x \in S}
<1>1. f \in [S -> T]
    <2>1. \A x \in S : f[x] \in T
        OBVIOUS
    <2> QED BY <2>1
<1>2. \A y \in T : \E x \in S : f[x] = y
    OBVIOUS
<1>3. f \in Surjection(S, T)
    BY <1>1, <1>2 DEF Surjection
<1> QED BY <1>3, FS_Surjection

\* The code the import makes up is free.
LEMMA CodeMadeUp ==
    ASSUME NEW taken, IsFiniteSet(taken), NEW code, code = Catalogue!UniqueCode(taken)
    PROVE  code \in Code /\ code \notin taken
<1>1. PICK n : n = Cardinality(taken)
    OBVIOUS
<1>2. n \in Nat
    BY <1>1, FS_CardinalityType
<1>3. PICK S : S = 1..(n + 1)
    OBVIOUS
<1>4. IsFiniteSet(S) /\ Cardinality(S) = n + 1 /\ S \subseteq Nat \ {0}
    BY <1>2, <1>3, FS_Interval
<1>5. S \ taken # {}
    <2> SUFFICES ASSUME S \subseteq taken PROVE FALSE
        OBVIOUS
    <2>1. Cardinality(S) <= Cardinality(taken)
        BY FS_Subset
    <2> QED BY <1>1, <1>2, <1>4, <2>1
<1>6. \E x \in S \ taken : \A y \in S \ taken : x <= y
    <2>1. S \ taken \in SUBSET Nat
        BY <1>4
    <2> QED BY <1>5, <2>1, LeastNatural
<1>7. code = Catalogue!Min(S \ taken)
    <2>1. Catalogue!Cardinality(taken) = n
        BY <1>1, SameCardinality
    <2> QED BY <1>3, <2>1 DEF Catalogue!UniqueCode
<1>8. code \in S \ taken
    BY <1>6, <1>7 DEF Catalogue!Min
<1> QED BY <1>4, <1>8 DEF Code

\* A reference that is taken was given by another type, which has changed.
LEMMA SkuIsFree ==
    ASSUME CatalogTables, NEW t \in DOMAIN types, NEW p \in DOMAIN products,
           products[p].sku = Catalogue!NextSku(t)
    PROVE  /\ products[p].issuer[2] # t
           /\ CategoryRecoded(products[p].issuer[1]) \/ TypeRecoded(products[p].issuer[2])
<1>1. PICK c, u, sku : c = products[p].issuer[1] /\ u = products[p].issuer[2]
                       /\ sku = products[p].sku
    OBVIOUS
<1>2. types \in Seq(Catalogue!Type) /\ products \in Seq(Catalogue!Product)
      /\ u \in DOMAIN types
    BY <1>1 DEF CatalogTables, TablesTyped
<1>3. types[t] \in Catalogue!Type /\ types[u] \in Catalogue!Type /\ products[p] \in Catalogue!Product
    BY <1>2, RowType
<1>4. /\ types[t].nextProductSeq \in Nat /\ types[t].category \in CategoryNames
      /\ sku[1] \in Code /\ sku[3] \in Nat /\ c \in CategoryNames
    BY <1>1, <1>3 DEF Catalogue!Type, Catalogue!Product, Catalogue!Sku, Code
<1>5. /\ sku[3] < types[u].nextProductSeq
      /\ CategoryRecoded(c) \/ sku[1] = categories[c]
      /\ TypeRecoded(u) \/ (sku[2] = types[u].code /\ types[u].category = c)
    BY <1>1 DEF CatalogTables, SkuHolds
<1>6. /\ sku[1] = categories[types[t].category] /\ sku[2] = types[t].code
      /\ sku[3] = types[t].nextProductSeq
    BY <1>1 DEF Catalogue!NextSku
<1>7. u # t
    BY <1>4, <1>5, <1>6
<1>8. CategoryRecoded(c) \/ TypeRecoded(u)
    <2> SUFFICES ASSUME ~CategoryRecoded(c), ~TypeRecoded(u) PROVE FALSE
        OBVIOUS
    <2>1. c = types[t].category
        BY <1>4, <1>5, <1>6, CodeIsNotNone DEF CatalogTables, CodesAreUnique
    <2> QED BY <1>2, <1>5, <1>6, <1>7, <2>1 DEF CatalogTables, CodesAreUnique
<1> QED BY <1>1, <1>7, <1>8

LEMMA NoJobTyped == Catalogue!NoJob \in CatalogJob
BY DEF Catalogue!NoJob, CatalogJob

LEMMA InitCatalog == Catalogue!Init => CatalogInv
<1> SUFFICES ASSUME Catalogue!Init PROVE CatalogInv
    OBVIOUS
<1>1. TablesTyped
    <2>1. categories \in [CategoryNames -> Code \cup {None}]
        BY BackOfficeAssumption DEF Catalogue!Init, Code
    <2>2. types = << >> /\ products = << >> /\ recoded = {} /\ moved = {} /\ raced = {}
        BY DEF Catalogue!Init
    <2>3. types \in Seq(Catalogue!Type) /\ products \in Seq(Catalogue!Product)
        BY <2>2
    <2>4. DOMAIN products = {}
        BY <2>2
    <2> QED BY <2>1, <2>2, <2>3, <2>4 DEF TablesTyped
<1>2. CodesAreUnique
    BY BackOfficeAssumption DEF Catalogue!Init, CodesAreUnique
<1>3. CatalogTables
    BY <1>1, <1>2 DEF Catalogue!Init, CatalogTables
<1>4. /\ catalogStage \in [Requests -> CatalogStages]
      /\ catalogJob \in [Requests -> CatalogJob]
    BY NoJobTyped DEF Catalogue!Init, CatalogStages
<1>5. ASSUME NEW r \in Requests PROVE CatalogRequest(r, catalogStage[r], catalogJob[r])
    BY DEF Catalogue!Init, CatalogRequest, HoldsAt, ImportIsClean, Catalogue!NoJob
<1> QED BY <1>3, <1>4, <1>5 DEF CatalogInv

\* The routes of the categories and of the types mark the imports they run beside.
LEMMA TouchMarks ==
    ASSUME CatalogTables, NEW r, Catalogue!Touch(r)
    PROVE  MarksGrow /\ Catalogue!Importing(r) \subseteq raced'
BY DEF CatalogTables, TablesTyped, Catalogue!Touch, Catalogue!Importing, MarksGrow

LEMMA CategoriesKeep ==
    ASSUME CatalogInv, NEW name \in CategoryNames, NEW code \in Codes,
           Catalogue!CreateCategory(name, code) \/ Catalogue!UpdateCategory(name, code)
    PROVE  CatalogInv'
<1>1. CatalogTables /\ code \in Code
    BY BackOfficeAssumption DEF CatalogInv, Code
<1>2. Catalogue!Touch(None) /\ UNCHANGED <<types, products, catalogStage, catalogJob, moved>>
    BY DEF Catalogue!CreateCategory, Catalogue!UpdateCategory
<1>3. MarksGrow /\ Catalogue!Importing(None) \subseteq raced'
    BY <1>1, <1>2, TouchMarks
<1>4. /\ Catalogue!FreeCategoryCode(code)
      /\ categories' = [categories EXCEPT ![name] = code]
    BY DEF Catalogue!CreateCategory, Catalogue!UpdateCategory, Catalogue!AddCategory
<1>5. /\ recoded \subseteq recoded'
      /\ recoded' \subseteq ((CategoryNames \cup {None}) \X Nat)
      /\ categories[name] = None \/ CategoryRecoded(name)'
    <2>1. recoded \subseteq ((CategoryNames \cup {None}) \X Nat)
        BY <1>1 DEF CatalogTables, TablesTyped
    <2>2. CASE Catalogue!CreateCategory(name, code)
        BY <2>1, <2>2 DEF Catalogue!CreateCategory, Catalogue!AddCategory, Catalogue!Existing
    <2>3. CASE Catalogue!UpdateCategory(name, code)
        BY <2>1, <2>3 DEF Catalogue!UpdateCategory, CategoryRecoded
    <2> QED BY <2>2, <2>3
<1>6. CatalogTables' /\ CatalogGrows
    BY <1>1, <1>2, <1>3, <1>4, <1>5, CategoryChanges
<1> QED BY <1>2, <1>3, <1>6, CatalogRoutesKeep

LEMMA TypesKeep ==
    ASSUME CatalogInv, NEW category \in CategoryNames, NEW code \in Codes,
           \/ \E name \in TypeNames : Catalogue!CreateType(category, name, code)
           \/ \E t \in DOMAIN types : Catalogue!UpdateType(t, category, code)
    PROVE  CatalogInv'
<1>1. CatalogTables /\ code \in Code
    BY BackOfficeAssumption DEF CatalogInv, Code
<1>2. Catalogue!Touch(None) /\ UNCHANGED <<categories, products, catalogStage, catalogJob>>
    BY DEF Catalogue!CreateType, Catalogue!UpdateType
<1>3. MarksGrow /\ Catalogue!Importing(None) \subseteq raced'
    BY <1>1, <1>2, TouchMarks
<1>4. CatalogTables' /\ CatalogGrows
    <2>1. ASSUME NEW name \in TypeNames, Catalogue!CreateType(category, name, code)
          PROVE  CatalogTables' /\ CatalogGrows
        <3>1. Catalogue!AddType(category, name, code) /\ UNCHANGED <<recoded, moved>>
            BY <2>1 DEF Catalogue!CreateType
        <3> QED BY <1>1, <1>2, <1>3, <3>1, TypeMade
    <2>2. ASSUME NEW t \in DOMAIN types, Catalogue!UpdateType(t, category, code)
          PROVE  CatalogTables' /\ CatalogGrows
        <3>1. /\ Catalogue!FreeInCategory(t, category, types[t].name, code)
              /\ types' = [types EXCEPT ![t].category = category, ![t].code = code]
              /\ recoded' = recoded \cup {<<None, t>>}
              /\ moved' = IF category # types[t].category THEN moved \cup {t} ELSE moved
            BY <2>2 DEF Catalogue!UpdateType
        <3> QED BY <1>1, <1>2, <1>3, <3>1, TypeChanges
    <2> QED BY <2>1, <2>2
<1> QED BY <1>2, <1>3, <1>4, CatalogRoutesKeep

\* A request reads: it enters a stage with what it holds from there.
LEMMA CatalogReadsKeep ==
    ASSUME CatalogInv, NEW r \in Requests, NEW s \in CatalogStages, NEW new \in CatalogJob,
           catalogStage' = [catalogStage EXCEPT ![r] = s],
           catalogJob' = [catalogJob EXCEPT ![r] = new],
           UNCHANGED <<categories, types, products, recoded, moved, raced>>,
           CatalogRequest(r, s, new)
    PROVE  CatalogInv'
<1>1. CatalogTables' /\ CatalogGrows /\ CatalogStands
    BY CatalogStaysSame DEF CatalogInv
<1>2. HoldsAt(s, new)'
    BY <1>1, HoldsStill DEF CatalogRequest
<1>3. ImportIsClean(r, s, new)'
    BY <1>1, CleanStill DEF CatalogRequest
<1>4. CatalogRequest(r, s, new)'
    BY <1>2, <1>3 DEF CatalogRequest
<1> QED BY <1>1, <1>4, CatalogMovesKeep

\* A request that ends holds nothing.
LEMMA CatalogEndsKeep ==
    ASSUME CatalogInv, CatalogTables', CatalogGrows, NEW r \in Requests,
           catalogStage' = [catalogStage EXCEPT ![r] = "done"],
           catalogJob' = [catalogJob EXCEPT ![r] = Catalogue!NoJob],
           CatalogStands \/ Catalogue!Importing(r) \subseteq raced'
    PROVE  CatalogInv'
<1>1. "done" \in CatalogStages
    BY DEF CatalogStages
<1>2. CatalogRequest(r, "done", Catalogue!NoJob)'
    BY DEF CatalogRequest, HoldsAt, ImportIsClean, Catalogue!NoJob
<1> QED BY <1>1, <1>2, NoJobTyped, CatalogMovesKeep

LEMMA RefuseKeeps ==
    ASSUME CatalogInv, NEW r \in Requests, Catalogue!Refuse(r)
    PROVE  CatalogInv'
<1>1. CatalogTables' /\ CatalogGrows /\ CatalogStands
    BY CatalogStaysSame DEF CatalogInv, Catalogue!Refuse
<1>2. /\ catalogStage' = [catalogStage EXCEPT ![r] = "done"]
      /\ catalogJob' = [catalogJob EXCEPT ![r] = Catalogue!NoJob]
    BY DEF Catalogue!Refuse
<1> QED BY <1>1, <1>2, CatalogEndsKeep

\* The creation of a product.
LEMMA ReadCategoryKeeps ==
    ASSUME CatalogInv, NEW r \in Requests, NEW category \in CategoryNames,
           Catalogue!ReadCategory(r, category)
    PROVE  CatalogInv'
<1>1. PICK code : code = categories[category]
    OBVIOUS
<1>2. code \in Code
    BY <1>1 DEF CatalogInv, CatalogTables, TablesTyped, Catalogue!ReadCategory, Catalogue!Existing
<1>3. catalogJob[r] = Catalogue!NoJob /\ catalogJob \in [Requests -> CatalogJob]
    BY DEF CatalogInv, CatalogRequest, HoldsAt, Catalogue!ReadCategory
<1>4. PICK new : new = [Catalogue!NoJob EXCEPT !.kind = "create", !.category = category,
                                               !.categoryCode = code]
    OBVIOUS
<1>5. /\ new \in CatalogJob /\ new.kind = "create" /\ new.category = category
      /\ new.categoryCode = code
    BY <1>2, <1>4, NoJobTyped DEF CatalogJob, Code, Catalogue!NoJob
<1>6. catalogJob' = [catalogJob EXCEPT ![r] = new]
    BY <1>1, <1>3, <1>4 DEF Catalogue!ReadCategory
<1>7. /\ catalogStage' = [catalogStage EXCEPT ![r] = "readType"]
      /\ UNCHANGED <<categories, types, products, recoded, moved, raced>>
    BY DEF Catalogue!ReadCategory
<1>8. CatalogRequest(r, "readType", new)
    BY <1>1, <1>2, <1>5 DEF CatalogRequest, HoldsAt, ImportIsClean, HasCategory
<1>9. "readType" \in CatalogStages
    BY DEF CatalogStages
<1> QED BY <1>5, <1>6, <1>7, <1>8, <1>9, CatalogReadsKeep

LEMMA ReadTypeKeeps ==
    ASSUME CatalogInv, NEW r \in Requests, NEW t \in DOMAIN types,
           Catalogue!ReadType(r, t)
    PROVE  CatalogInv'
<1>1. PICK code : code = types[t].code
    OBVIOUS
<1>2. types \in Seq(Catalogue!Type)
    BY DEF CatalogInv, CatalogTables, TablesTyped
<1>3. t \in Nat /\ code \in Code
    <2>1. t \in Nat /\ types[t] \in Catalogue!Type
        BY <1>2, RowType
    <2> QED BY <1>1, <2>1 DEF Catalogue!Type, Code
<1>4. PICK j : j = catalogJob[r]
    OBVIOUS
<1>5. /\ j \in CatalogJob /\ HasCategory(j) /\ j.kind = "create"
      /\ types[t].category = j.category
    BY <1>4 DEF CatalogInv, CatalogRequest, HoldsAt, Catalogue!ReadType
<1>6. PICK new : new = [j EXCEPT !.type = t, !.typeCode = code]
    OBVIOUS
<1>7. /\ new \in CatalogJob /\ new.kind = "create" /\ new.category = j.category
      /\ new.categoryCode = j.categoryCode /\ new.type = t /\ new.typeCode = code
    BY <1>3, <1>5, <1>6 DEF CatalogJob, Code
<1>8. catalogJob' = [catalogJob EXCEPT ![r] = new]
    BY <1>1, <1>4, <1>6 DEF Catalogue!ReadType, CatalogInv
<1>9. /\ catalogStage' = [catalogStage EXCEPT ![r] = "insert"]
      /\ UNCHANGED <<categories, types, products, recoded, moved, raced>>
    BY DEF Catalogue!ReadType
<1>10. HasCategory(new) /\ HasType(new)
    BY <1>1, <1>3, <1>5, <1>7 DEF HasCategory, HasType
<1>11. CatalogRequest(r, "insert", new)
    BY <1>7, <1>10 DEF CatalogRequest, HoldsAt, ImportIsClean
<1>12. "insert" \in CatalogStages
    BY DEF CatalogStages
<1> QED BY <1>7, <1>8, <1>9, <1>11, <1>12, CatalogReadsKeep

LEMMA CreateProductKeeps ==
    ASSUME CatalogInv, NEW r \in Requests, Catalogue!CreateProduct(r)
    PROVE  CatalogInv'
<1>1. PICK j : j = catalogJob[r]
    OBVIOUS
<1>2. HasCategory(j) /\ HasType(j) /\ CatalogTables
    BY <1>1 DEF CatalogInv, CatalogRequest, HoldsAt, Catalogue!CreateProduct
<1>3. PICK category, categoryCode, t, typeCode :
          /\ category = j.category /\ categoryCode = j.categoryCode
          /\ t = j.type /\ typeCode = j.typeCode
    OBVIOUS
<1>4. ReadAlike(category, categoryCode, t, typeCode)
    BY <1>2, <1>3 DEF ReadAlike, HasCategory, HasType
<1>5. Catalogue!AddProduct(category, categoryCode, t, typeCode)
    BY <1>1, <1>3 DEF Catalogue!CreateProduct
<1>6. UNCHANGED <<categories, recoded, moved>> /\ Catalogue!Touch(r)
    BY DEF Catalogue!CreateProduct
<1>7. MarksGrow
    BY <1>2, <1>6, TouchMarks
<1>8. CatalogTables' /\ CatalogGrows /\ CatalogStands
    BY <1>2, <1>4, <1>5, <1>6, <1>7, ProductMade
<1>9. /\ catalogStage' = [catalogStage EXCEPT ![r] = "done"]
      /\ catalogJob' = [catalogJob EXCEPT ![r] = Catalogue!NoJob]
    BY DEF Catalogue!CreateProduct
<1> QED BY <1>8, <1>9, CatalogEndsKeep

\* The update of a product.
LEMMA ReadProductKeeps ==
    ASSUME CatalogInv, NEW r \in Requests, NEW p \in DOMAIN products,
           NEW category \in CategoryNames \cup {None}, NEW given \in DOMAIN types \cup {None},
           Catalogue!ReadProduct(r, p, category, given)
    PROVE  CatalogInv'
<1>1. types \in Seq(Catalogue!Type) /\ products \in Seq(Catalogue!Product)
      /\ products[p].type \in DOMAIN types
    BY DEF CatalogInv, CatalogTables, TablesTyped
<1>2. /\ p \in Nat /\ DOMAIN types \subseteq Nat \ {0} /\ None \notin DOMAIN types
      /\ products[p] \in Catalogue!Product
    BY <1>1, RowType, BackOfficeAssumption
<1>3. PICK old : old = products[p]
    OBVIOUS
<1>4. PICK t : t = IF given = None THEN 0 ELSE given
    OBVIOUS
<1>5. t \in {0} \cup DOMAIN types /\ t \in Nat /\ (t = 0 <=> given = None)
      /\ (t # 0 => t = given)
    BY <1>2, <1>4
<1>6. catalogJob[r] = Catalogue!NoJob /\ catalogJob \in [Requests -> CatalogJob]
    BY DEF CatalogInv, CatalogRequest, HoldsAt, Catalogue!ReadProduct
<1>7. PICK new : new = [Catalogue!NoJob EXCEPT !.kind = "update", !.product = p,
                            !.category = category, !.type = t, !.old = old]
    OBVIOUS
<1>8. /\ new \in CatalogJob /\ new.kind = "update" /\ new.product = p
      /\ new.category = category /\ new.type = t /\ new.old = old
    BY <1>2, <1>3, <1>5, <1>7, NoJobTyped DEF CatalogJob, Catalogue!NoJob
<1>9. catalogJob' = [catalogJob EXCEPT ![r] = new]
    BY <1>3, <1>4, <1>6, <1>7 DEF Catalogue!ReadProduct
<1>10. /\ catalogStage' = [catalogStage EXCEPT ![r] = "write"]
       /\ UNCHANGED <<categories, types, products, recoded, moved, raced>>
    BY DEF Catalogue!ReadProduct
<1>11. HasUpdate(new)
    <2>1. PICK u : u = IF new.type = 0 THEN new.old.type ELSE new.type
        OBVIOUS
    <2>2. PICK c : c = IF new.category = None THEN new.old.category ELSE new.category
        OBVIOUS
    <2>3. Catalogue!Admits(old, category, given)
        BY <1>3 DEF Catalogue!ReadProduct
    <2>4. c = types[u].category
        <3>1. CASE given = None
            BY <1>5, <1>8, <2>1, <2>2, <2>3, <3>1 DEF Catalogue!Admits
        <3>2. CASE given # None
            BY <1>5, <1>8, <2>1, <2>2, <2>3, <3>2 DEF Catalogue!Admits
        <3> QED BY <3>1, <3>2
    <2> QED BY <1>1, <1>2, <1>3, <1>5, <1>8, <2>1, <2>2, <2>4 DEF HasUpdate
<1>12. CatalogRequest(r, "write", new)
    BY <1>8, <1>11 DEF CatalogRequest, HoldsAt, ImportIsClean
<1>13. "write" \in CatalogStages
    BY DEF CatalogStages
<1> QED BY <1>8, <1>9, <1>10, <1>12, <1>13, CatalogReadsKeep

LEMMA UpdateProductKeeps ==
    ASSUME CatalogInv, NEW r \in Requests, Catalogue!UpdateProduct(r)
    PROVE  CatalogInv'
<1>1. PICK j : j = catalogJob[r]
    OBVIOUS
<1>2. HasUpdate(j) /\ CatalogTables /\ j \in CatalogJob
    BY <1>1 DEF CatalogInv, CatalogRequest, HoldsAt, Catalogue!UpdateProduct
<1>3. PICK p : p = j.product
    OBVIOUS
<1>4. PICK c : c = IF j.category = None THEN products[p].category ELSE j.category
    OBVIOUS
<1>5. PICK t : t = IF j.type = 0 THEN products[p].type ELSE j.type
    OBVIOUS
<1>6. products' = [products EXCEPT ![p].category = c, ![p].type = t]
    BY <1>1, <1>3, <1>4, <1>5 DEF Catalogue!UpdateProduct
<1>7. raced' = raced \cup Catalogue!Importing(r)
                     \cup (IF products[p] # j.old THEN {p} ELSE {})
    BY <1>1, <1>3 DEF Catalogue!UpdateProduct
<1>8. MarksGrow /\ (products[p] # j.old => p \in raced')
    BY <1>2, <1>3, <1>7 DEF MarksGrow, HasUpdate, CatalogTables, TablesTyped, Catalogue!Importing
<1>9. UNCHANGED <<categories, types, recoded, moved>>
    BY DEF Catalogue!UpdateProduct
<1>10. CatalogTables' /\ CatalogGrows /\ CatalogStands
    BY ONLY <1>2, <1>3, <1>4, <1>5, <1>6, <1>8, <1>9, ProductChanges
<1>11. /\ catalogStage' = [catalogStage EXCEPT ![r] = "done"]
       /\ catalogJob' = [catalogJob EXCEPT ![r] = Catalogue!NoJob]
    BY DEF Catalogue!UpdateProduct
<1> QED BY <1>10, <1>11, CatalogEndsKeep

\* The import of products.
LEMMA ReadCategoriesKeeps ==
    ASSUME CatalogInv, NEW r \in Requests, Catalogue!ReadCategories(r)
    PROVE  CatalogInv'
<1>1. categories \in [CategoryNames -> Code \cup {None}]
    BY DEF CatalogInv, CatalogTables, TablesTyped
<1>2. 1 \in DOMAIN ImportRows
    BY BackOfficeAssumption DEF Catalogue!ReadCategories
<1>3. catalogJob[r] = Catalogue!NoJob /\ catalogJob \in [Requests -> CatalogJob]
    BY DEF CatalogInv, CatalogRequest, HoldsAt, Catalogue!ReadCategories
<1>4. PICK new : new = [Catalogue!NoJob EXCEPT !.kind = "import", !.codes = categories, !.row = 1]
    OBVIOUS
<1>5. /\ new \in CatalogJob /\ new.kind = "import" /\ new.codes = categories /\ new.row = 1
      /\ new.errors = {}
    BY <1>1, <1>4, NoJobTyped DEF CatalogJob, Catalogue!NoJob
<1>6. catalogJob' = [catalogJob EXCEPT ![r] = new]
    BY <1>3, <1>4 DEF Catalogue!ReadCategories
<1>7. /\ catalogStage' = [catalogStage EXCEPT ![r] = "readTypes"]
      /\ UNCHANGED <<categories, types, products, recoded, moved, raced>>
    BY DEF Catalogue!ReadCategories
<1>8. CatalogRequest(r, "readTypes", new)
    BY <1>1, <1>2, <1>5 DEF CatalogRequest, HoldsAt, ImportIsClean, HasCodes
<1>9. "readTypes" \in CatalogStages
    BY DEF CatalogStages
<1> QED BY <1>5, <1>6, <1>7, <1>8, <1>9, CatalogReadsKeep

\* The types as they are, are finitely many.
LEMMA TypesRead ==
    ASSUME CatalogTables, NEW known, known = {Catalogue!AsRead(t) : t \in DOMAIN types}
    PROVE  known \subseteq Known /\ IsFiniteSet(known)
<1>1. types \in Seq(Catalogue!Type)
    BY DEF CatalogTables, TablesTyped
<1>2. \A t \in DOMAIN types : t \in Nat /\ types[t] \in Catalogue!Type
    BY <1>1, RowType
<1>3. \A t \in DOMAIN types : Catalogue!AsRead(t) \in Known
    BY <1>2 DEF Catalogue!AsRead, Known, Code, Catalogue!Type
<1>4. IsFiniteSet(DOMAIN types)
    <2>1. DOMAIN types = 1..Len(types) /\ Len(types) \in Nat
        BY <1>1, RowType
    <2> QED BY <2>1, FS_Interval
<1>5. PICK f : f = [t \in DOMAIN types |-> Catalogue!AsRead(t)]
    OBVIOUS
<1>6. DOMAIN f = DOMAIN types /\ f = [t \in DOMAIN types |-> f[t]]
      /\ known = {f[t] : t \in DOMAIN types}
    BY <1>5
<1>7. IsFiniteSet({f[t] : t \in DOMAIN types})
    BY ONLY <1>4, <1>6, ImageFinite
<1> QED BY <1>3, <1>6, <1>7

LEMMA ReadTypesKeeps ==
    ASSUME CatalogInv, NEW r \in Requests, Catalogue!ReadTypes(r)
    PROVE  CatalogInv'
<1>1. PICK known : known = {Catalogue!AsRead(t) : t \in DOMAIN types}
    OBVIOUS
<1>2. known \subseteq Known /\ IsFiniteSet(known)
    BY <1>1, TypesRead DEF CatalogInv
<1>3. PICK j : j = catalogJob[r]
    OBVIOUS
<1>4. j \in CatalogJob /\ HasCodes(j) /\ ImportIsClean(r, "readTypes", j)
    BY <1>3 DEF CatalogInv, CatalogRequest, HoldsAt, Catalogue!ReadTypes
<1>5. PICK new : new = [j EXCEPT !.known = known]
    OBVIOUS
<1>6. /\ new \in CatalogJob /\ new.kind = j.kind /\ new.codes = j.codes /\ new.row = j.row
      /\ new.errors = j.errors /\ new.known = known
    BY <1>2, <1>4, <1>5 DEF CatalogJob
<1>7. catalogJob' = [catalogJob EXCEPT ![r] = new]
    BY <1>1, <1>3, <1>5 DEF Catalogue!ReadTypes, CatalogInv
<1>8. /\ catalogStage' = [catalogStage EXCEPT ![r] = "rows"]
      /\ UNCHANGED <<categories, types, products, recoded, moved, raced>>
    BY DEF Catalogue!ReadTypes
<1>9. HasCodes(new)
    BY <1>4, <1>6 DEF HasCodes
<1>10. HasTypes(new)
    BY <1>1, <1>2, <1>6 DEF HasTypes, Catalogue!AsRead
<1>11. ImportIsClean(r, "rows", new)
    BY <1>1, <1>4, <1>6 DEF ImportIsClean
<1>12. CatalogRequest(r, "rows", new)
    BY <1>9, <1>10, <1>11 DEF CatalogRequest, HoldsAt
<1>13. "rows" \in CatalogStages
    BY DEF CatalogStages
<1> QED BY <1>6, <1>7, <1>8, <1>12, <1>13, CatalogReadsKeep

\* What an import at work on a row holds.
AtRow(r, j, category, name) ==
    /\ j = catalogJob[r]
    /\ j \in CatalogJob
    /\ catalogJob \in [Requests -> CatalogJob]
    /\ catalogStage \in [Requests -> CatalogStages]
    /\ catalogStage[r] = "rows"
    /\ HasCodes(j)
    /\ HasTypes(j)
    /\ ImportIsClean(r, "rows", j)
    /\ category \in CategoryNames
    /\ name \in TypeNames
    /\ category = ImportRows[j.row][1]
    /\ name = ImportRows[j.row][2]

LEMMA ImportHolds ==
    ASSUME CatalogInv, NEW r \in Requests, catalogStage[r] = "rows",
           NEW j, j = catalogJob[r],
           NEW category, category = ImportRows[j.row][1],
           NEW name, name = ImportRows[j.row][2]
    PROVE  AtRow(r, j, category, name)
<1>1. CatalogRequest(r, "rows", j) /\ j \in CatalogJob
    BY DEF CatalogInv
<1>2. HasCodes(j) /\ HasTypes(j) /\ ImportIsClean(r, "rows", j)
    BY <1>1 DEF CatalogRequest, HoldsAt
<1>3. ImportRows[j.row] \in CategoryNames \X TypeNames
    BY <1>2, BackOfficeAssumption, RowType DEF HasCodes
<1> QED BY <1>1, <1>2, <1>3 DEF AtRow, CatalogInv

\* The import goes on to its next row, or ends.
LEMMA NextRowKeeps ==
    ASSUME CatalogInv, CatalogTables', CatalogGrows, CatalogStands,
           NEW r \in Requests, NEW j, NEW category, NEW name, AtRow(r, j, category, name),
           NEW errors \in SUBSET Nat, Catalogue!NextRow(r, errors),
           r \notin raced' /\ recoded' = {} => errors = {}
    PROVE  CatalogInv'
<1>1. j.row \in DOMAIN ImportRows /\ j.kind = "import" /\ j.row \in Nat
      /\ ImportRows \in Seq(CategoryNames \X TypeNames)
    BY BackOfficeAssumption DEF AtRow, HasCodes, CatalogJob
<1>2. DOMAIN ImportRows = 1..Len(ImportRows) /\ Len(ImportRows) \in Nat
    BY <1>1, RowType
<1>3. CASE j.row = Len(ImportRows)
    <2>1. PICK new : new = [Catalogue!NoJob EXCEPT !.kind = "import", !.errors = errors]
        OBVIOUS
    <2>2. new \in CatalogJob /\ new.kind = "import" /\ new.errors = errors
        BY <2>1, NoJobTyped DEF CatalogJob, Catalogue!NoJob
    <2>3. /\ catalogStage' = [catalogStage EXCEPT ![r] = "done"]
          /\ catalogJob' = [catalogJob EXCEPT ![r] = new]
        BY <1>3, <2>1 DEF Catalogue!NextRow, AtRow
    <2>4. CatalogRequest(r, "done", new)'
        BY <2>2 DEF CatalogRequest, HoldsAt, ImportIsClean
    <2>5. "done" \in CatalogStages
        BY DEF CatalogStages
    <2> QED BY <2>2, <2>3, <2>4, <2>5, CatalogMovesKeep
<1>4. CASE j.row # Len(ImportRows)
    <2>1. PICK n : n = j.row + 1
        OBVIOUS
    <2>2. n \in Nat /\ n \in DOMAIN ImportRows
        BY <1>1, <1>2, <1>4, <2>1
    <2>3. PICK new : new = [j EXCEPT !.row = n, !.errors = errors]
        OBVIOUS
    <2>4. /\ new \in CatalogJob /\ new.kind = "import" /\ new.errors = errors /\ new.row = n
          /\ new.codes = j.codes /\ new.known = j.known
        BY <1>1, <2>2, <2>3 DEF CatalogJob, AtRow
    <2>5. catalogJob' = [catalogJob EXCEPT ![r] = new]
        BY <1>4, <2>1, <2>3 DEF Catalogue!NextRow, AtRow
    <2>6. catalogStage' = [catalogStage EXCEPT ![r] = "rows"]
        BY <1>4 DEF Catalogue!NextRow, AtRow
    <2>7. "rows" \in CatalogStages
        BY DEF CatalogStages
    <2>8. HasCodes(new) /\ HasTypes(new)
        BY <1>1, <2>2, <2>4 DEF AtRow, HasCodes, HasTypes
    <2>9. HoldsAt("rows", new)'
        <3>1. HoldsAt("rows", new)
            BY <2>8 DEF HoldsAt
        <3> QED BY <2>7, <3>1, HoldsStill
    <2>10. ImportIsClean(r, "rows", j)'
        BY CleanStill DEF AtRow
    <2>11. ImportIsClean(r, "rows", new)'
        BY <1>1, <2>4, <2>10 DEF ImportIsClean
    <2>12. CatalogRequest(r, "rows", new)'
        BY <2>9, <2>11 DEF CatalogRequest
    <2> QED BY <2>4, <2>5, <2>6, <2>7, <2>12, CatalogMovesKeep
<1> QED BY <1>3, <1>4

\* A row fails: the catalogue is not what the import has read.
LEMMA RowFailsKeeps ==
    ASSUME CatalogInv, NEW r \in Requests, NEW j, NEW category, NEW name,
           AtRow(r, j, category, name), Catalogue!RowFails(r),
           r \in raced \/ recoded # {}
    PROVE  CatalogInv'
<1>1. CatalogTables' /\ CatalogGrows /\ CatalogStands
    BY CatalogStaysSame DEF CatalogInv, Catalogue!RowFails
<1>2. PICK errors : errors = j.errors \cup {j.row}
    OBVIOUS
<1>3. errors \in SUBSET Nat
    BY <1>2 DEF AtRow, CatalogJob
<1>4. Catalogue!NextRow(r, errors)
    BY <1>2 DEF AtRow, Catalogue!RowFails
<1>5. r \notin raced' /\ recoded' = {} => errors = {}
    BY DEF Catalogue!RowFails
<1> QED BY <1>1, <1>3, <1>4, <1>5, NextRowKeeps

LEMMA ImportCategoryKeeps ==
    ASSUME CatalogInv, NEW r \in Requests, Catalogue!ImportCategory(r)
    PROVE  CatalogInv'
<1>1. PICK j : j = catalogJob[r]
    OBVIOUS
<1>2. PICK name, type : name = ImportRows[j.row][1] /\ type = ImportRows[j.row][2]
    OBVIOUS
<1>3. AtRow(r, j, name, type)
    BY <1>1, <1>2, ImportHolds DEF Catalogue!ImportCategory
<1>4. PICK taken : taken = Catalogue!CategoryCodes(r)
    OBVIOUS
<1>5. taken = {j.codes[c] : c \in CategoryNames} \ {None}
    BY <1>1, <1>4 DEF Catalogue!CategoryCodes
<1>6. IsFiniteSet(taken)
    <2>1. PICK f : f = j.codes
        OBVIOUS
    <2>2. DOMAIN f = CategoryNames /\ f = [c \in CategoryNames |-> f[c]]
        BY <1>3, <2>1 DEF AtRow, HasCodes
    <2>3. IsFiniteSet({f[c] : c \in CategoryNames})
        BY <2>2, BackOfficeAssumption, ImageFinite
    <2> QED BY <1>5, <2>1, <2>3, FS_Subset
<1>7. PICK code : code = Catalogue!UniqueCode(taken)
    OBVIOUS
<1>8. code \in Code /\ code \notin taken
    BY <1>6, <1>7, CodeMadeUp
<1>9. j.codes[name] = None
    BY <1>1, <1>2 DEF Catalogue!ImportCategory, Catalogue!KnownCategory
<1>10. CASE /\ Catalogue!AddCategory(name, code)
            /\ catalogJob' = [catalogJob EXCEPT ![r].codes[name] = code]
            /\ Catalogue!Touch(r)
            /\ UNCHANGED <<types, products, catalogStage, recoded, moved>>
    <2>1. CatalogTables /\ name \in CategoryNames
        BY <1>3 DEF CatalogInv, AtRow
    <2>2. MarksGrow /\ Catalogue!Importing(r) \subseteq raced'
        BY <1>10, <2>1, TouchMarks
    <2>3. /\ Catalogue!FreeCategoryCode(code)
          /\ categories' = [categories EXCEPT ![name] = code]
          /\ categories[name] = None
        BY <1>10, <2>1 DEF Catalogue!AddCategory, Catalogue!Existing
    <2>4. recoded' \subseteq ((CategoryNames \cup {None}) \X Nat)
        BY <1>10, <2>1 DEF CatalogTables, TablesTyped
    <2>5. CatalogTables' /\ CatalogGrows
        BY <1>8, <1>10, <2>1, <2>2, <2>3, <2>4, CategoryChanges
    <2>6. PICK codes : codes = [j.codes EXCEPT ![name] = code]
        OBVIOUS
    <2>7. /\ codes \in [CategoryNames -> Code \cup {None}]
          /\ codes[name] = code
          /\ \A c \in CategoryNames \ {name} : codes[c] = j.codes[c]
        BY <1>3, <1>8, <2>1, <2>6 DEF AtRow, HasCodes
    <2>8. PICK new : new = [j EXCEPT !.codes = codes]
        OBVIOUS
    <2>9. /\ new \in CatalogJob /\ new.kind = j.kind /\ new.row = j.row
          /\ new.errors = j.errors /\ new.known = j.known /\ new.codes = codes
        BY <1>3, <2>7, <2>8 DEF AtRow, CatalogJob
    <2>10. catalogJob' = [catalogJob EXCEPT ![r] = new]
        BY <1>1, <1>3, <1>10, <2>6, <2>8 DEF AtRow
    <2>11. catalogStage' = [catalogStage EXCEPT ![r] = "rows"]
        BY <1>3, <1>10 DEF AtRow
    <2>12. categories'[name] = code /\ \A c \in CategoryNames \ {name} : categories'[c] = categories[c]
        BY <2>1, <2>3 DEF CatalogTables, TablesTyped
    <2>13. HasCodes(new)'
        BY <1>3, <1>10, <2>7, <2>9, <2>12 DEF AtRow, HasCodes, CategoryRecoded
    <2>14. HasTypes(new)'
        BY <1>3, <1>10, <2>9 DEF AtRow, HasTypes, TypeRecoded
    <2>15. HoldsAt("rows", new)'
        BY <2>13, <2>14 DEF HoldsAt
    <2>16. ImportIsClean(r, "rows", new)'
        <3> SUFFICES ASSUME r \notin raced', new.kind = "import"
                     PROVE  /\ recoded' = {} => new.errors = {}
                            /\ new.codes = categories'
                            /\ new.known = {Catalogue!AsRead(t) : t \in DOMAIN types}'
            BY DEF ImportIsClean
        <3>1. /\ recoded = {} => j.errors = {}
              /\ j.codes = categories
              /\ j.known = {Catalogue!AsRead(t) : t \in DOMAIN types}
            BY <1>3, <2>2, <2>9 DEF AtRow, ImportIsClean, MarksGrow
        <3>2. new.codes = categories'
            BY <2>3, <2>6, <2>9, <3>1
        <3>3. {Catalogue!AsRead(t) : t \in DOMAIN types}' = {Catalogue!AsRead(t) : t \in DOMAIN types}
            BY <1>10 DEF Catalogue!AsRead
        <3> QED BY <1>10, <2>9, <3>1, <3>2, <3>3
    <2>17. CatalogRequest(r, "rows", new)'
        BY <2>15, <2>16 DEF CatalogRequest
    <2>18. "rows" \in CatalogStages
        BY DEF CatalogStages
    <2> QED BY <2>2, <2>5, <2>9, <2>10, <2>11, <2>17, <2>18, CatalogMovesKeep
<1>11. CASE ~(name \notin Catalogue!Existing /\ Catalogue!FreeCategoryCode(code))
            /\ Catalogue!RowFails(r)
    <2>1. r \in raced
        <3> SUFFICES ASSUME r \notin raced PROVE FALSE
            OBVIOUS
        <3>1. j.codes = categories
            BY <1>3 DEF AtRow, ImportIsClean, HasCodes
        <3>2. name \notin Catalogue!Existing
            BY <1>9, <3>1 DEF Catalogue!Existing
        <3>3. Catalogue!FreeCategoryCode(code)
            BY <1>5, <1>8, <3>1, CodeIsNotNone DEF Catalogue!FreeCategoryCode, Catalogue!Existing
        <3> QED BY <1>11, <3>2, <3>3
    <2> QED BY <1>3, <1>11, <2>1, RowFailsKeeps
<1> QED BY <1>1, <1>2, <1>4, <1>7, <1>10, <1>11 DEF Catalogue!ImportCategory

LEMMA ImportTypeKeeps ==
    ASSUME CatalogInv, NEW r \in Requests, Catalogue!ImportType(r)
    PROVE  CatalogInv'
<1>1. PICK j : j = catalogJob[r]
    OBVIOUS
<1>2. PICK category, name : category = ImportRows[j.row][1] /\ name = ImportRows[j.row][2]
    OBVIOUS
<1>3. AtRow(r, j, category, name)
    BY <1>1, <1>2, ImportHolds DEF Catalogue!ImportType
<1>4. PICK of : of = Catalogue!KnownOf(r)
    OBVIOUS
<1>5. of = {k \in j.known : k.category = category}
    BY <1>1, <1>2, <1>4 DEF Catalogue!KnownOf
<1>6. PICK taken : taken = {k.code : k \in of}
    OBVIOUS
<1>7. IsFiniteSet(taken)
    <2>1. PICK f : f = [k \in of |-> k.code]
        OBVIOUS
    <2>2. DOMAIN f = of /\ f = [k \in of |-> f[k]] /\ taken = {f[k] : k \in of}
        BY <1>6, <2>1
    <2>3. IsFiniteSet(of)
        BY <1>3, <1>5, FS_Subset DEF AtRow, HasTypes
    <2>4. IsFiniteSet({f[k] : k \in of})
        BY ONLY <2>2, <2>3, ImageFinite
    <2> QED BY <2>2, <2>4
<1>8. PICK code : code = Catalogue!UniqueCode(taken)
    OBVIOUS
<1>9. code \in Code /\ code \notin taken
    BY <1>7, <1>8, CodeMadeUp
<1>10. \A k \in of : k.name # name
    BY <1>1, <1>2, <1>4 DEF Catalogue!ImportType, Catalogue!KnownTypes
<1>11. PICK made : made = [id |-> Len(types) + 1, category |-> category,
                           name |-> name, code |-> code]
    OBVIOUS
<1>12. CASE /\ Catalogue!AddType(category, name, code)
            /\ catalogJob' = [catalogJob EXCEPT ![r].known = @ \cup {made}]
            /\ Catalogue!Touch(r)
            /\ UNCHANGED <<categories, products, catalogStage, recoded, moved>>
    <2>1. /\ CatalogTables /\ category \in CategoryNames /\ name \in TypeNames
          /\ types \in Seq(Catalogue!Type)
        BY <1>3 DEF CatalogInv, CatalogTables, TablesTyped, AtRow
    <2>2. MarksGrow /\ Catalogue!Importing(r) \subseteq raced'
        BY <1>12, <2>1, TouchMarks
    <2>3. CatalogTables' /\ CatalogGrows
        BY <1>9, <1>12, <2>1, <2>2, TypeMade
    <2>4. PICK row : row = [category |-> category, name |-> name, code |-> code,
                            nextProductSeq |-> 1]
        OBVIOUS
    <2>5. row \in Catalogue!Type
        BY <1>9, <2>1, <2>4 DEF Catalogue!Type, Code
    <2>6. types' = Append(types, row)
        BY <1>12, <2>4 DEF Catalogue!AddType
    <2>7. PICK n : n = Len(types) + 1
        OBVIOUS
    <2>8. /\ DOMAIN types' = DOMAIN types \cup {n}
          /\ \A t \in DOMAIN types : types'[t] = types[t]
          /\ types'[n] = row
          /\ n \in Nat
        BY <2>1, <2>5, <2>6, <2>7, InsertRow
    <2>9. made \in Known /\ made = [id |-> n, category |-> category, name |-> name, code |-> code]
        BY <1>9, <1>11, <2>1, <2>7, <2>8 DEF Known
    <2>10. PICK known : known = j.known \cup {made}
        OBVIOUS
    <2>11. known \subseteq Known /\ IsFiniteSet(known)
        <3>1. j.known \subseteq Known
            BY <1>3 DEF AtRow, CatalogJob
        <3>2. IsFiniteSet(j.known)
            BY <1>3 DEF AtRow, HasTypes
        <3>3. IsFiniteSet(j.known \cup {made})
            BY ONLY <3>2, FS_AddElement
        <3> QED BY <2>9, <2>10, <3>1, <3>3
    <2>12. PICK new : new = [j EXCEPT !.known = known]
        OBVIOUS
    <2>13. /\ new \in CatalogJob /\ new.kind = j.kind /\ new.row = j.row
           /\ new.errors = j.errors /\ new.known = known /\ new.codes = j.codes
        BY <1>3, <2>11, <2>12 DEF AtRow, CatalogJob
    <2>14. catalogJob' = [catalogJob EXCEPT ![r] = new]
        BY <1>1, <1>3, <1>12, <2>10, <2>12 DEF AtRow
    <2>15. catalogStage' = [catalogStage EXCEPT ![r] = "rows"]
        BY <1>3, <1>12 DEF AtRow
    <2>16. HasCodes(new)'
        BY <1>3, <1>12, <2>13 DEF AtRow, HasCodes, CategoryRecoded
    <2>17. HasTypes(new)'
        <3>1. made.id = n /\ made.code = row.code /\ made.category = row.category
            BY <2>4, <2>9
        <3>2. \A k \in j.known : /\ k.id \in DOMAIN types
                                 /\ TypeRecoded(k.id) \/ k.code = types[k.id].code
                                 /\ k.id \in moved \/ k.category = types[k.id].category
            BY <1>3 DEF AtRow, HasTypes
        <3>3. ASSUME NEW k \in known
              PROVE  /\ k.id \in DOMAIN types'
                     /\ TypeRecoded(k.id)' \/ k.code = types'[k.id].code
                     /\ k.id \in moved' \/ k.category = types'[k.id].category
            <4>1. CASE k \in j.known
                BY <1>12, <2>8, <3>2, <4>1 DEF TypeRecoded
            <4>2. CASE k = made
                BY <2>8, <3>1, <4>2
            <4> QED BY <2>10, <4>1, <4>2
        <3> QED BY <2>11, <2>13, <3>3 DEF HasTypes, TypeRecoded
    <2>18. HoldsAt("rows", new)'
        BY <2>16, <2>17 DEF HoldsAt
    <2>19. ImportIsClean(r, "rows", new)'
        <3> SUFFICES ASSUME r \notin raced', new.kind = "import"
                     PROVE  /\ recoded' = {} => new.errors = {}
                            /\ new.codes = categories'
                            /\ new.known = {Catalogue!AsRead(t) : t \in DOMAIN types}'
            BY DEF ImportIsClean
        <3>1. /\ recoded = {} => j.errors = {}
              /\ j.codes = categories
              /\ j.known = {Catalogue!AsRead(t) : t \in DOMAIN types}
            BY <1>3, <2>2, <2>13 DEF AtRow, ImportIsClean, MarksGrow
        <3>2. \A t \in DOMAIN types : Catalogue!AsRead(t)' = Catalogue!AsRead(t)
            BY <2>8 DEF Catalogue!AsRead
        <3>3. Catalogue!AsRead(n)' = made
            BY <2>4, <2>8, <2>9 DEF Catalogue!AsRead
        <3>4. {Catalogue!AsRead(t) : t \in DOMAIN types}' = known
            BY <2>8, <2>10, <3>1, <3>2, <3>3
        <3> QED BY <1>12, <2>13, <3>1, <3>4
    <2>20. CatalogRequest(r, "rows", new)'
        BY <2>18, <2>19 DEF CatalogRequest
    <2>21. "rows" \in CatalogStages
        BY DEF CatalogStages
    <2> QED BY <2>2, <2>3, <2>13, <2>14, <2>15, <2>20, <2>21, CatalogMovesKeep
<1>13. CASE ~Catalogue!FreeInCategory(0, category, name, code) /\ Catalogue!RowFails(r)
    <2>1. r \in raced
        <3> SUFFICES ASSUME r \notin raced PROVE FALSE
            OBVIOUS
        <3>1. j.known = {Catalogue!AsRead(t) : t \in DOMAIN types}
            BY <1>3 DEF AtRow, ImportIsClean, HasCodes
        <3>2. ASSUME NEW t \in DOMAIN types, types[t].category = category
              PROVE  types[t].name # name /\ types[t].code # code
            <4>1. PICK k : k = Catalogue!AsRead(t)
                OBVIOUS
            <4>2. /\ k.category = types[t].category /\ k.name = types[t].name
                  /\ k.code = types[t].code
                BY <4>1 DEF Catalogue!AsRead
            <4>3. k \in of
                BY <1>5, <3>1, <3>2, <4>1, <4>2
            <4> QED BY <1>6, <1>9, <1>10, <4>2, <4>3
        <3>3. Catalogue!FreeInCategory(0, category, name, code)
            BY <3>2 DEF Catalogue!FreeInCategory, Catalogue!TypesOf
        <3> QED BY <1>13, <3>3
    <2> QED BY <1>3, <1>13, <2>1, RowFailsKeeps
<1> QED BY <1>1, <1>2, <1>4, <1>6, <1>8, <1>11, <1>12, <1>13 DEF Catalogue!ImportType

LEMMA ImportProductKeeps ==
    ASSUME CatalogInv, NEW r \in Requests, Catalogue!ImportProduct(r)
    PROVE  CatalogInv'
<1>1. PICK j : j = catalogJob[r]
    OBVIOUS
<1>2. PICK category, name : category = ImportRows[j.row][1] /\ name = ImportRows[j.row][2]
    OBVIOUS
<1>3. AtRow(r, j, category, name)
    BY <1>1, <1>2, ImportHolds DEF Catalogue!ImportProduct
<1>4. PICK k \in Catalogue!KnownTypes(r) :
          /\ Catalogue!KnownCategory(r)
          /\ \/ /\ Catalogue!AddProduct(k.category, catalogJob[r].codes[k.category], k.id, k.code)
                /\ Catalogue!NextRow(r, catalogJob[r].errors)
                /\ Catalogue!Touch(r)
                /\ UNCHANGED <<categories, recoded, moved>>
             \/ /\ ~Catalogue!FreeSku(<<catalogJob[r].codes[k.category], k.code,
                                        Catalogue!ClaimedSeq(k.id)>>)
                /\ Catalogue!RowFails(r)
    BY DEF Catalogue!ImportProduct
<1>5. PICK code, t, typeCode : /\ code = j.codes[category] /\ t = k.id /\ typeCode = k.code
    OBVIOUS
<1>6. k \in j.known /\ k.category = category
    BY <1>1, <1>2 DEF Catalogue!KnownTypes, Catalogue!KnownOf
<1>7. ReadAlike(category, code, t, typeCode)
    <2>1. code \in Code /\ (CategoryRecoded(category) \/ code = categories[category])
        <3>1. code # None
            BY <1>1, <1>2, <1>4, <1>5 DEF Catalogue!KnownCategory
        <3> QED BY <1>3, <1>5, <3>1 DEF AtRow, HasCodes
    <2>2. typeCode \in Code
        <3>1. k \in Known
            BY <1>3, <1>6 DEF AtRow, CatalogJob
        <3> QED BY <1>5, <3>1 DEF Known
    <2>3. /\ t \in DOMAIN types
          /\ TypeRecoded(t) \/ typeCode = types[t].code
          /\ t \in moved \/ category = types[t].category
        BY <1>3, <1>5, <1>6 DEF AtRow, HasTypes
    <2> QED BY <1>3, <2>1, <2>2, <2>3 DEF ReadAlike, AtRow
<1>8. CASE /\ Catalogue!AddProduct(category, code, t, typeCode)
           /\ Catalogue!NextRow(r, j.errors)
           /\ Catalogue!Touch(r)
           /\ UNCHANGED <<categories, recoded, moved>>
    <2>1. CatalogTables
        BY DEF CatalogInv
    <2>2. MarksGrow /\ Catalogue!Importing(r) \subseteq raced'
        BY <1>8, <2>1, TouchMarks
    <2>3. CatalogTables' /\ CatalogGrows /\ CatalogStands
        BY <1>7, <1>8, <2>1, <2>2, ProductMade
    <2>4. r \notin raced' /\ recoded' = {} => j.errors = {}
        BY <1>3, <1>8, <2>2 DEF AtRow, ImportIsClean, HasCodes, MarksGrow
    <2>5. PICK errors : errors = j.errors
        OBVIOUS
    <2>6. errors \in SUBSET Nat
        BY <1>3, <2>5 DEF AtRow, CatalogJob
    <2>7. Catalogue!NextRow(r, errors) /\ (r \notin raced' /\ recoded' = {} => errors = {})
        BY <1>8, <2>4, <2>5
    <2> QED BY <1>3, <2>3, <2>6, <2>7, NextRowKeeps
<1>9. CASE /\ ~Catalogue!FreeSku(<<code, typeCode, Catalogue!ClaimedSeq(t)>>)
           /\ Catalogue!RowFails(r)
    <2>1. r \in raced \/ recoded # {}
        <3> SUFFICES ASSUME r \notin raced, recoded = {} PROVE FALSE
            OBVIOUS
        <3>1. ~CategoryRecoded(category) /\ ~TypeRecoded(t) /\ t \notin moved
            BY DEF CategoryRecoded, TypeRecoded, CatalogInv, CatalogTables, TablesTyped
        <3>2. <<code, typeCode, Catalogue!ClaimedSeq(t)>> = Catalogue!NextSku(t)
            BY <1>7, <3>1 DEF ReadAlike, Catalogue!ClaimedSeq, Catalogue!NextSku
        <3>3. PICK p \in DOMAIN products : products[p].sku = Catalogue!NextSku(t)
            BY <1>9, <3>2 DEF Catalogue!FreeSku
        <3>4. CategoryRecoded(products[p].issuer[1]) \/ TypeRecoded(products[p].issuer[2])
            BY <1>7, <3>3, SkuIsFree DEF CatalogInv, ReadAlike
        <3> QED BY <3>4 DEF CategoryRecoded, TypeRecoded
    <2> QED BY <1>3, <1>9, <2>1, RowFailsKeeps
<1> QED BY <1>1, <1>4, <1>5, <1>6, <1>8, <1>9

LEMMA NextCatalog ==
    ASSUME CatalogInv, Catalogue!Next
    PROVE  CatalogInv'
<1>1. CASE Catalogue!CategoriesRoutes
    BY <1>1, CategoriesKeep DEF Catalogue!CategoriesRoutes
<1>2. CASE Catalogue!ProductTypesRoutes
    BY <1>2, TypesKeep DEF Catalogue!ProductTypesRoutes
<1>3. ASSUME NEW r \in Requests, NEW category \in CategoryNames,
             Catalogue!ReadCategory(r, category)
      PROVE  CatalogInv'
    BY <1>3, ReadCategoryKeeps
<1>4. ASSUME NEW r \in Requests, NEW t \in DOMAIN types, Catalogue!ReadType(r, t)
      PROVE  CatalogInv'
    BY <1>4, ReadTypeKeeps
<1>5. ASSUME NEW r \in Requests, NEW p \in DOMAIN products,
             NEW category \in CategoryNames \cup {None}, NEW t \in DOMAIN types \cup {None},
             Catalogue!ReadProduct(r, p, category, t)
      PROVE  CatalogInv'
    BY <1>5, ReadProductKeeps
<1>6. ASSUME NEW r \in Requests, Catalogue!CreateProduct(r) \/ Catalogue!UpdateProduct(r)
      PROVE  CatalogInv'
    BY <1>6, CreateProductKeeps, UpdateProductKeeps
<1>7. ASSUME NEW r \in Requests, Catalogue!ReadCategories(r) \/ Catalogue!ReadTypes(r)
      PROVE  CatalogInv'
    BY <1>7, ReadCategoriesKeeps, ReadTypesKeeps
<1>8. ASSUME NEW r \in Requests,
             \/ Catalogue!ImportCategory(r)
             \/ Catalogue!ImportType(r)
             \/ Catalogue!ImportProduct(r)
      PROVE  CatalogInv'
    BY <1>8, ImportCategoryKeeps, ImportTypeKeeps, ImportProductKeeps
<1>9. ASSUME NEW r \in Requests, Catalogue!Refuse(r) PROVE CatalogInv'
    BY <1>9, RefuseKeeps
<1> QED BY <1>1, <1>2, <1>3, <1>4, <1>5, <1>6, <1>7, <1>8, <1>9 DEF Catalogue!Next

LEMMA CatalogProperties ==
    ASSUME CatalogInv
    PROVE  /\ Catalogue!TypeOK
           /\ Catalogue!NextSkuIsFree
           /\ Catalogue!CleanTypeInCategory
           /\ Catalogue!CleanImportRefusesNone
<1>1. Catalogue!TypeOK
    BY DEF CatalogInv, CatalogTables, TablesTyped, CatalogStages, Code, Catalogue!TypeOK
<1>2. Catalogue!NextSkuIsFree
    BY SkuIsFree DEF CatalogInv, Catalogue!NextSkuIsFree, CategoryRecoded, TypeRecoded
<1>3. Catalogue!CleanTypeInCategory
    BY DEF CatalogInv, CatalogTables, TypeInCategory, Catalogue!CleanTypeInCategory
<1>4. Catalogue!CleanImportRefusesNone
    BY DEF CatalogInv, CatalogRequest, ImportIsClean, Catalogue!CleanImportRefusesNone
<1> QED BY <1>1, <1>2, <1>3, <1>4

-----------------------------------------------------------------------------
\* The services side by side.

\* The inductive invariant of each of them.
BackOfficeInv ==
    /\ CatalogInv
    /\ SessionInv
    /\ AccountInv
    /\ Register!TypeOK
    /\ NumberInv
    /\ ListInv

\* What a service holds does not depend on the others.
LEMMA CatalogStays == CatalogInv /\ UNCHANGED catalogueVars => CatalogInv'
<1> SUFFICES ASSUME CatalogInv, UNCHANGED catalogueVars PROVE CatalogInv'
    OBVIOUS
<1>1. UNCHANGED <<categories, types, products, recoded, moved, raced>>
      /\ UNCHANGED <<catalogStage, catalogJob>>
    BY DEF catalogueVars
<1>2. CatalogTables' /\ CatalogGrows /\ CatalogStands
    BY <1>1, CatalogStaysSame DEF CatalogInv
<1>3. ASSUME NEW q \in Requests
      PROVE  CatalogRequest(q, catalogStage[q], catalogJob[q])'
    <2>1. PICK s, j : s = catalogStage[q] /\ j = catalogJob[q]
        OBVIOUS
    <2>2. HoldsAt(s, j) /\ ImportIsClean(q, s, j)
        BY <2>1 DEF CatalogInv, CatalogRequest
    <2>3. HoldsAt(s, j)'
        BY <1>2, <2>2, HoldsStill
    <2>4. ImportIsClean(q, s, j)'
        BY <1>2, <2>2, CleanStill
    <2>5. catalogStage'[q] = s /\ catalogJob'[q] = j
        BY <1>1, <2>1
    <2> QED BY <2>3, <2>4, <2>5 DEF CatalogRequest, HoldsAt, ImportIsClean, HasCategory, HasType,
                                HasUpdate, HasCodes, HasTypes
<1> QED BY <1>1, <1>2, <1>3 DEF CatalogInv

LEMMA SessionStays == SessionInv /\ UNCHANGED sessionVars => SessionInv'
BY DEF sessionVars, SessionInv, SessionTyped, ChainInv, TicketInv, SessionRequest, Open,
       PasswordHolds, IsLast, ValidToken, ChainLives, Session!RacedChain, Session!OpenCodes

LEMMA AccountStays == AccountInv /\ UNCHANGED accountVars => AccountInv'
BY DEF accountVars, AccountInv, AccountTyped, JobRefers, JobIsFresh, Answered,
       DeletedInactive, Account!Through

LEMMA RegisterStays == Register!TypeOK /\ UNCHANGED rows => Register!TypeOK'
BY DEF Register!TypeOK, Register!Of

LEMMA NumberStays == NumberInv /\ UNCHANGED numberVars => NumberInv'
BY DEF numberVars, NumberInv, NumberTyped, KeyIsUnique, CountsInItsYear, DrawnInRange, NoHole

LEMMA ListStays == ListInv /\ UNCHANGED listVars => ListInv'
BY DEF listVars, ListInv, ListTyped, MissingIsAhead, CountIsRight, Missing, PagesRead

LEMMA InitBackOffice == Init => BackOfficeInv
BY InitCatalog, InitSession, InitAccount, InitRegister, InitNumber, InitList
   DEF Init, BackOfficeInv

LEMMA NextBackOffice == BackOfficeInv /\ [Next]_vars => BackOfficeInv'
<1> SUFFICES ASSUME BackOfficeInv, [Next]_vars PROVE BackOfficeInv'
    OBVIOUS
<1>1. /\ CatalogInv /\ SessionInv /\ AccountInv
      /\ Register!TypeOK /\ NumberInv /\ ListInv
    BY DEF BackOfficeInv
<1>2. CASE Catalogue!Next /\ UNCHANGED <<focus, sessionVars, accountVars, rows, numberVars, listVars>>
    <2>1. CatalogInv'
        BY <1>1, <1>2, NextCatalog
    <2> QED BY <1>1, <1>2, <2>1, SessionStays, AccountStays, RegisterStays, NumberStays,
               ListStays DEF BackOfficeInv
<1>3. CASE Session!Next /\ UNCHANGED <<focus, catalogueVars, accountVars, rows, numberVars, listVars>>
    <2>1. SessionInv'
        BY <1>1, <1>3, NextSession
    <2> QED BY <1>1, <1>3, <2>1, CatalogStays, AccountStays, RegisterStays, NumberStays,
               ListStays DEF BackOfficeInv
<1>4. CASE Account!Next /\ UNCHANGED <<focus, catalogueVars, sessionVars, rows, numberVars, listVars>>
    <2>1. AccountInv'
        BY <1>1, <1>4, NextAccount
    <2> QED BY <1>1, <1>4, <2>1, CatalogStays, SessionStays, RegisterStays, NumberStays,
               ListStays DEF BackOfficeInv
<1>5. CASE Register!Next /\ UNCHANGED <<focus, catalogueVars, sessionVars, accountVars, numberVars, listVars>>
    <2>1. Register!TypeOK'
        BY <1>1, <1>5, NextRegister
    <2> QED BY <1>1, <1>5, <2>1, CatalogStays, SessionStays, AccountStays, NumberStays,
               ListStays DEF BackOfficeInv
<1>6. CASE Number!Next /\ UNCHANGED <<focus, catalogueVars, sessionVars, accountVars, rows, listVars>>
    <2>1. NumberInv'
        BY <1>1, <1>6, NextNumber
    <2> QED BY <1>1, <1>6, <2>1, CatalogStays, SessionStays, AccountStays, RegisterStays,
               ListStays DEF BackOfficeInv
<1>7. CASE Lists!Next /\ UNCHANGED <<focus, catalogueVars, sessionVars, accountVars, rows, numberVars>>
    <2>1. ListInv'
        BY <1>1, <1>7, NextList
    <2> QED BY <1>1, <1>7, <2>1, CatalogStays, SessionStays, AccountStays, RegisterStays,
               NumberStays DEF BackOfficeInv
<1>8. CASE UNCHANGED vars
    <2>1. UNCHANGED catalogueVars /\ UNCHANGED sessionVars /\ UNCHANGED accountVars
          /\ UNCHANGED rows /\ UNCHANGED numberVars /\ UNCHANGED listVars
        BY <1>8 DEF vars
    <2> QED BY <1>1, <2>1, CatalogStays, SessionStays, AccountStays, RegisterStays, NumberStays,
               ListStays DEF BackOfficeInv
<1> QED BY <1>2, <1>3, <1>4, <1>5, <1>6, <1>7, <1>8 DEF Next

\* The invariants of the services hold together, whichever of them is at work.
THEOREM BackOfficeInvariant == Spec => []BackOfficeInv
<1>1. BackOfficeInv /\ UNCHANGED vars => BackOfficeInv'
    BY NextBackOffice
<1> QED BY InitBackOffice, NextBackOffice, PTL DEF Spec

\* Every row and every request of the services has its type and refers to rows
\* that exist.
THEOREM TypeCorrect == Spec => []TypeOK
<1>1. BackOfficeInv => TypeOK
    BY CatalogProperties, SessionProperties, AccountProperties, NumberProperties, ListProperties
       DEF BackOfficeInv, TypeOK
<1> QED BY <1>1, BackOfficeInvariant, PTL

\* The reference the next product of a type draws is held by no product, unless
\* the type or the category that gave it has changed since.
THEOREM SkuIsFreeAlways == Spec => []NextSkuIsFree
<1>1. BackOfficeInv => NextSkuIsFree
    BY CatalogProperties DEF BackOfficeInv, NextSkuIsFree
<1> QED BY <1>1, BackOfficeInvariant, PTL

\* The type of a product belongs to its category, unless the type was moved or
\* the product updated from a stale read.
THEOREM TypeIsInCategory == Spec => []CleanTypeInCategory
<1>1. BackOfficeInv => CleanTypeInCategory
    BY CatalogProperties DEF BackOfficeInv, CleanTypeInCategory
<1> QED BY <1>1, BackOfficeInvariant, PTL

\* An import refuses no row, unless the catalogue changes beside it or codes
\* have changed: the codes it makes up are free.
THEOREM ImportRefusesNone == Spec => []CleanImportRefusesNone
<1>1. BackOfficeInv => CleanImportRefusesNone
    BY CatalogProperties DEF BackOfficeInv, CleanImportRefusesNone
<1> QED BY <1>1, BackOfficeInvariant, PTL

\* A session that no overlapping request touched has one valid token, its last,
\* and none once it was ended by a logout or by a change of the password after
\* it was opened.
THEOREM SessionEnds == Spec => []CleanSessionEnds
<1>1. BackOfficeInv => CleanSessionEnds
    BY SessionProperties DEF BackOfficeInv, CleanSessionEnds
<1> QED BY <1>1, BackOfficeInvariant, PTL

\* A ticket that no overlapping request touched is used at most once, and one
\* login code at most is open.
THEOREM TicketIsUsedOnce == Spec => []CleanTicketOnce
<1>1. BackOfficeInv => CleanTicketOnce
    BY SessionProperties DEF BackOfficeInv, CleanTicketOnce
<1> QED BY <1>1, BackOfficeInvariant, PTL

\* An invitation is ACCEPTED exactly when one account came through it, and a
\* deleted account is inactive, unless requests overlapped on it.
THEOREM AnswerHolds == Spec => []CleanAnswerHolds
<1>1. BackOfficeInv => CleanAnswerHolds
    BY AccountProperties DEF BackOfficeInv, CleanAnswerHolds
<1> QED BY <1>1, BackOfficeInvariant, PTL

\* The references of a year have no hole, unless a document counts in another
\* year than its own or one was deleted.
THEOREM RefIsFree == Spec => []CleanRefIsFree
<1>1. BackOfficeInv => CleanRefIsFree
    BY NumberProperties DEF BackOfficeInv, CleanRefIsFree
<1> QED BY <1>1, BackOfficeInvariant, PTL

\* A client that has read every page of a list has seen every row that was there
\* from the first to the last, unless rows left or moved in between.
THEOREM PagesMissNone == Spec => []CleanPagesMissNone
<1>1. BackOfficeInv => CleanPagesMissNone
    BY ListProperties DEF BackOfficeInv, CleanPagesMissNone
<1> QED BY <1>1, BackOfficeInvariant, PTL

\* The composition adds nothing to a service: each behaves as it does alone.
THEOREM ServicesBehave ==
    Spec => /\ Catalogue!Spec /\ Session!Spec /\ Account!Spec
            /\ Register!Spec /\ Number!Spec /\ Lists!Spec
<1>1. Init => /\ Catalogue!Init /\ Session!Init /\ Account!Init
              /\ Register!Init /\ Number!Init /\ Lists!Init
    BY DEF Init
<1>2. [Next]_vars => [Catalogue!Next]_(Catalogue!vars)
    BY DEF Next, vars, catalogueVars, Catalogue!vars
<1>3. [Next]_vars => [Session!Next]_(Session!vars)
    BY DEF Next, vars, sessionVars, Session!vars
<1>4. [Next]_vars => [Account!Next]_(Account!vars)
    BY DEF Next, vars, accountVars, Account!vars
<1>5. [Next]_vars => [Register!Next]_rows
    BY DEF Next, vars
<1>6. [Next]_vars => [Number!Next]_(Number!vars)
    BY DEF Next, vars, numberVars, Number!vars
<1>7. [Next]_vars => [Lists!Next]_(Lists!vars)
    BY DEF Next, vars, listVars, Lists!vars
<1> QED BY <1>1, <1>2, <1>3, <1>4, <1>5, <1>6, <1>7, PTL
        DEF Spec, Catalogue!Spec, Session!Spec, Account!Spec, Register!Spec, Number!Spec, Lists!Spec
=============================================================================
