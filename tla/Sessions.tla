------------------------------ MODULE Sessions ------------------------------
(***************************************************************************)
(* AuthService and TokensService for one active user: the rotating refresh *)
(* tokens of a session, the single-use tickets (login code, password reset *)
(* link, e-mail verification link) and the password.                       *)
(*                                                                         *)
(* Each statement a handler waits for is one action; a read of the user    *)
(* row is merged with the statement after it, which is the first that      *)
(* matters.  A token or a ticket is its position in its table, and no      *)
(* longer valid when it has expired as when it is revoked or used.  Access *)
(* tokens, which no table keeps, and isEmailVerified, which only a page    *)
(* shows, are left out.  A version of the password is its number.          *)
(***************************************************************************)
EXTENDS Integers, Sequences, FiniteSets

CONSTANTS
    Requests,
    MaxTickets, MaxPasswords   \* bounds of the model: tokens and tickets, passwords

VARIABLES
    password,           \* User.passwordHash: the version of the password
    tokens,             \* the rows of RefreshToken; chain, opened and raced are
                        \* auxiliary: the first token of the session, the
                        \* version in force when it was opened, was it
                        \* overtaken?
    tickets,            \* the rows of the three tables of tickets; uses (the
                        \* times it was used or retired) and raced are auxiliary
    stage, job,
    ended,              \* auxiliary: the sessions closed by a logout
    torn                \* auxiliary: a change of password has stopped before
                        \* it revoked the tokens

vars == <<password, tokens, tickets, stage, job, ended, torn>>

Kinds == {"code", "reset", "verify"}

NoJob == [token |-> 0, ticket |-> 0, chain |-> 0, opened |-> 0,
          raced |-> FALSE]

Init ==
    /\ password = 1
    /\ tokens = << >>
    /\ tickets = << >>
    /\ stage = [r \in Requests |-> "idle"]
    /\ job = [r \in Requests |-> NoJob]
    /\ ended = {}
    /\ torn = FALSE

At(r, s) == stage[r] = s
Go(r, s) == stage' = [stage EXCEPT ![r] = s]
Finish(r) ==
    /\ Go(r, "idle")
    /\ job' = [job EXCEPT ![r] = NoJob]
Begin(r, s, new) ==
    /\ At(r, "idle")
    /\ Go(r, s)
    /\ job' = [job EXCEPT ![r] = new]

\* The requests that will issue a token on what they have read.
Issuing == {r \in Requests : stage[r] \in {"verified", "issue"}}

-----------------------------------------------------------------------------
\* POST /auth/login with the password, when no e-mail provider is configured.
Login(r) ==
    /\ Begin(r, "issue", [NoJob EXCEPT !.opened = password])
    /\ UNCHANGED <<password, tokens, tickets, ended, torn>>

\* POST /auth/login when a provider is configured, and /auth/resend-login-code.
\* The first has checked the password, the second checks nothing, and no row
\* tells the codes of the two apart or remembers the password.
SendLoginCode(r) ==
    /\ Begin(r, "retire", NoJob)
    /\ UNCHANGED <<password, tokens, tickets, ended, torn>>

\* issueSessionForUser, after an invitation is accepted, and register.
IssueSessionForUser(r) ==
    /\ Begin(r, "issue", [NoJob EXCEPT !.opened = password])
    /\ UNCHANGED <<password, tokens, tickets, ended, torn>>

\* buildAuthResponse: the refresh token, of a new session or of the one the
\* request refreshes.
GenerateRefreshToken(r) ==
    /\ At(r, "issue")
    /\ Len(tokens) + Len(tickets) < MaxTickets
    /\ tokens' = Append(tokens,
           [chain |-> IF job[r].chain = 0 THEN Len(tokens) + 1
                                          ELSE job[r].chain,
            opened |-> job[r].opened, raced |-> job[r].raced,
            valid |-> TRUE])
    /\ Finish(r)
    /\ UNCHANGED <<password, tickets, ended, torn>>

\* Mutant: the mark is forgotten.
Unmarked(k, r) ==
    [tickets[k] EXCEPT !.uses = @ + 1,
                       !.raced = @ \/ \E q \in Requests \ {r} : job[q].ticket = k]

\* used: true, whatever the ticket has become.  It is overtaken when another
\* request has found it valid; the uses of a ticket overtaken do not count.
Spent(k, r) ==
    LET raced == tickets[k].raced \/ \E q \in Requests \ {r} : job[q].ticket = k
    IN  [tickets[k] EXCEPT !.valid = FALSE, !.raced = raced,
                           !.uses = IF raced THEN 0 ELSE @ + 1]

\* createLoginVerificationCode: the codes not used yet.
OpenCodes == {k \in DOMAIN tickets : /\ tickets[k].kind = "code"
                                     /\ tickets[k].valid}

\* .. are marked used,
RetireCodes(r) ==
    /\ At(r, "retire")
    /\ tickets' = [k \in DOMAIN tickets |->
           IF k \in OpenCodes THEN Spent(k, r) ELSE tickets[k]]
    /\ Go(r, "create")
    /\ UNCHANGED <<password, tokens, job, ended, torn>>

NewTicket(kind, raced) ==
    /\ Len(tokens) + Len(tickets) < MaxTickets
    /\ tickets' = Append(tickets, [kind |-> kind, valid |-> TRUE, uses |-> 0,
                                   raced |-> raced])

\* .. and a code is inserted, overtaken when another request has retired the
\* codes and is about to insert its own.
CreateLoginCode(r) ==
    /\ At(r, "create")
    /\ NewTicket("code", \E q \in Requests \ {r} : At(q, "create"))
    /\ Finish(r)
    /\ UNCHANGED <<password, tokens, ended, torn>>

\* POST /auth/forgot-password and /auth/resend-verification-email: the older
\* links stay valid.
ForgotPassword ==
    /\ NewTicket("reset", FALSE)
    /\ UNCHANGED <<password, tokens, stage, job, ended, torn>>

ResendVerificationEmail ==
    /\ NewTicket("verify", FALSE)
    /\ UNCHANGED <<password, tokens, stage, job, ended, torn>>

-----------------------------------------------------------------------------
\* The three consume operations: the ticket is read and found valid,
FindTicket(r, k) ==
    /\ tickets[k].valid
    /\ Begin(r, "found", [NoJob EXCEPT !.ticket = k])
    /\ UNCHANGED <<password, tokens, tickets, ended, torn>>

\* .. then marked by its id.
Consume(r, kind, next, new) ==
    LET k == job[r].ticket
    IN  /\ At(r, "found")
        /\ tickets[k].kind = kind
        /\ tickets' = [tickets EXCEPT ![k] = Spent(k, r)]
        /\ Go(r, next)
        /\ job' = [job EXCEPT ![r] = new]
        /\ UNCHANGED <<password, tokens, ended, torn>>

ConsumePasswordResetToken(r) == Consume(r, "reset", "write", NoJob)
ConsumeEmailVerificationToken(r) == Consume(r, "verify", "idle", NoJob)

\* verifyLoginCode: a valid code opens the session, now.  It asks for no
\* password, so a code sent before a change of password is as good after it.
ConsumeLoginVerificationCode(r) ==
    Consume(r, "code", "issue", [NoJob EXCEPT !.opened = password])

-----------------------------------------------------------------------------
\* POST /auth/refresh: the token is read and found valid,
VerifyRefreshToken(r, t) ==
    /\ tokens[t].valid
    /\ Begin(r, "verified",
             [NoJob EXCEPT !.token = t, !.chain = tokens[t].chain,
                           !.opened = tokens[t].opened])
    /\ UNCHANGED <<password, tokens, tickets, ended, torn>>

\* A request that goes on with what it has read after that was undone.
Overtake(who) ==
    job' = [r \in Requests |-> [job[r] EXCEPT !.raced = @ \/ r \in who]]

\* Mutant: the update finds no row.
RevokeNone(t) == tokens

\* revokeRefreshTokenRaw: an update that asks nothing of the token.
Revoke(t) == [tokens EXCEPT ![t].valid = FALSE]

\* .. then revoked (a refresh token is good for one use),
RevokeVerified(r) ==
    /\ At(r, "verified")
    /\ tokens' = Revoke(job[r].token)
    /\ Go(r, "issue")
    /\ Overtake({q \in Issuing \ {r} : job[q].token = job[r].token})
    /\ UNCHANGED <<password, tickets, ended, torn>>

\* POST /auth/logout: the session of a token still valid is over.
Logout(t) ==
    /\ tokens' = Revoke(t)
    /\ ended' = IF tokens[t].valid THEN ended \cup {tokens[t].chain}
                                             ELSE ended
    /\ Overtake({q \in Issuing : job[q].token = t})
    /\ UNCHANGED <<password, tickets, stage, torn>>

-----------------------------------------------------------------------------
\* POST /auth/change-password, with the current password.
ChangePassword(r) ==
    /\ Begin(r, "write", NoJob)
    /\ UNCHANGED <<password, tokens, tickets, ended, torn>>

\* changePassword and resetPassword: the new hash,
WritePassword(r) ==
    /\ At(r, "write")
    /\ password < MaxPasswords
    /\ password' = password + 1
    /\ Go(r, "written")
    /\ UNCHANGED <<tokens, tickets, job, ended, torn>>

\* .. then revokeAllUserRefreshTokens.
RevokeAll(r) ==
    /\ At(r, "written")
    /\ tokens' = [t \in DOMAIN tokens |-> [tokens[t] EXCEPT !.valid = FALSE]]
    /\ Go(r, "idle")
    /\ Overtake({q \in Issuing : job[q].opened # password})
    /\ torn' = FALSE
    /\ UNCHANGED <<password, tickets, ended>>

\* A statement fails, or the process stops: what is written stays.
Abort(r) ==
    /\ ~ At(r, "idle")
    /\ Finish(r)
    /\ torn' = (torn \/ At(r, "written"))
    /\ UNCHANGED <<password, tokens, tickets, ended>>

ExpireToken(t) ==
    /\ tokens[t].valid
    /\ tokens' = [tokens EXCEPT ![t].valid = FALSE]
    /\ UNCHANGED <<password, tickets, stage, job, ended, torn>>

ExpireTicket(k) ==
    /\ tickets[k].valid
    /\ tickets' = [tickets EXCEPT ![k].valid = FALSE]
    /\ UNCHANGED <<password, tokens, stage, job, ended, torn>>

-----------------------------------------------------------------------------
\* The routes of AuthController, then the statements of those running.
Next ==
    \/ \E r \in Requests :
          \/ Login(r) \/ SendLoginCode(r) \/ IssueSessionForUser(r)
          \/ ChangePassword(r)
          \/ \E k \in DOMAIN tickets : FindTicket(r, k)
          \/ \E t \in DOMAIN tokens : VerifyRefreshToken(r, t)
    \/ \E t \in DOMAIN tokens : Logout(t)
    \/ ForgotPassword
    \/ ResendVerificationEmail
    \/ \E r \in Requests :
          \/ GenerateRefreshToken(r) \/ RetireCodes(r) \/ CreateLoginCode(r)
          \/ ConsumePasswordResetToken(r) \/ ConsumeEmailVerificationToken(r)
          \/ ConsumeLoginVerificationCode(r)
          \/ RevokeVerified(r)
          \/ WritePassword(r) \/ RevokeAll(r) \/ Abort(r)
    \/ \E t \in DOMAIN tokens : ExpireToken(t)
    \/ \E k \in DOMAIN tickets : ExpireTicket(k)

Spec == Init /\ [][Next]_vars

-----------------------------------------------------------------------------
\* The rows and the requests have their types.
TypeOK ==
    /\ password \in 1..MaxPasswords
    /\ tokens \in Seq([chain : Nat \ {0}, opened : 1..MaxPasswords,
                       raced : BOOLEAN, valid : BOOLEAN])
    /\ tickets \in Seq([kind : Kinds, valid : BOOLEAN, uses : Nat,
                        raced : BOOLEAN])
    /\ stage \in [Requests -> {"idle", "retire", "create", "found", "verified",
                               "issue", "write", "written"}]
    /\ ended \subseteq DOMAIN tokens
    /\ torn \in BOOLEAN

ValidIn(c) == {t \in DOMAIN tokens : /\ tokens[t].chain = c
                                     /\ tokens[t].valid}
RacedChain(c) == \E t \in DOMAIN tokens : tokens[t].chain = c /\ tokens[t].raced

\* A session no request has overtaken lives by one refresh token at most, by
\* none after a logout, and by none after a change of password made while it
\* was open, once the request that made it has revoked the tokens: rotation,
\* logout and revokeAllUserRefreshTokens leave no older token behind.  What a
\* change of password closes is the sessions, and not the login codes: one
\* sent before the change still opens a session after it, which is as old as
\* its opening here.
CleanSessionEnds ==
    \A c \in {tokens[t].chain : t \in DOMAIN tokens} :
        RacedChain(c) \/
        /\ Cardinality(ValidIn(c)) <= IF c \in ended THEN 0 ELSE 1
        /\ \A t \in ValidIn(c) : \/ tokens[t].opened = password
                                 \/ torn
                                 \/ \E r \in Requests : At(r, "written")

\* A ticket is used once, and not after it was retired, unless two requests had
\* found it together; and one login code is valid at a time, as the comment of
\* createLoginVerificationCode asks, unless two requests made one together.
CleanTicketOnce ==
    /\ \A k \in DOMAIN tickets : tickets[k].raced \/ tickets[k].uses <= 1
    /\ Cardinality({k \in DOMAIN tickets : /\ tickets[k].kind = "code"
                                           /\ tickets[k].valid
                                           /\ ~ tickets[k].raced}) <= 1
=============================================================================
