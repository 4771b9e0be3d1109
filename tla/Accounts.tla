------------------------------ MODULE Accounts ------------------------------
(***************************************************************************)
(* InvitationsService, UsersService and AuthService.register: how accounts *)
(* are invited, created, deactivated and deleted in one company.           *)
(*                                                                         *)
(* An invitation or an account is its position in its table; one action    *)
(* per statement that reads or writes these tables.  Left out: the link,   *)
(* of which a resend leaves the last one good, the e-mail that carries it, *)
(* the role and the warehouse of the account and the session it opens.     *)
(***************************************************************************)
EXTENDS Integers, Sequences, FiniteSets

CONSTANTS
    Requests, Emails,
    MaxInvitations, MaxUsers,   \* bounds of the model
    None

VARIABLES
    invitations,    \* the rows of Invitation; raced is auxiliary: answered
                    \* while another request was about to answer it
    users,          \* the rows of User, gone when deleted; invitation (0: none)
                    \* and raced (reactivated before a deletion) are auxiliary
    stage, job

vars == <<invitations, users, stage, job>>

Status == {"PENDING", "ACCEPTED", "REVOKED"}
Present == {u \in DOMAIN users : ~ users[u].gone}

NoJob == [kind |-> "none", email |-> None, invitation |-> 0, user |-> 0]

Init ==
    /\ invitations = << >>
    /\ users = << >>
    /\ stage = [r \in Requests |-> "idle"]
    /\ job = [r \in Requests |-> NoJob]

At(r, kind, s) == job[r].kind = kind /\ stage[r] = s
Go(r, s) == stage' = [stage EXCEPT ![r] = s] /\ UNCHANGED job
Finish(r) ==
    /\ stage' = [stage EXCEPT ![r] = "idle"]
    /\ job' = [job EXCEPT ![r] = NoJob]
Begin(r, s, new) ==
    /\ stage[r] = "idle"
    /\ stage' = [stage EXCEPT ![r] = s]
    /\ job' = [job EXCEPT ![r] = new]

\* findByEmail, in this company or in another: the e-mail is unique.
FreeEmail(email) == \A u \in Present : users[u].email # email

\* user.create, refused by the unique key.
AddUser(email, invitation) ==
    /\ Len(users) < MaxUsers
    /\ FreeEmail(email)
    /\ users' = Append(users, [email |-> email, active |-> TRUE, gone |-> FALSE,
                               invitation |-> invitation, raced |-> FALSE])

-----------------------------------------------------------------------------
\* POST /invitations: nobody has the e-mail,
InviteCheckUser(r, email) ==
    /\ FreeEmail(email)
    /\ Begin(r, "pending", [NoJob EXCEPT !.kind = "invite", !.email = email])
    /\ UNCHANGED <<invitations, users>>

\* findPendingByEmail: any of the rows, and a valid one refuses the request.
InviteCheckPending(r) ==
    LET pending == {i \in DOMAIN invitations :
                       /\ invitations[i].email = job[r].email
                       /\ invitations[i].status = "PENDING"}
    IN  /\ At(r, "invite", "pending")
        /\ pending = {} \/ \E i \in pending : invitations[i].expired
        /\ Go(r, "create")
        /\ UNCHANGED <<invitations, users>>

InviteCreate(r) ==
    /\ At(r, "invite", "create")
    /\ Len(invitations) < MaxInvitations
    /\ invitations' = Append(invitations,
           [email |-> job[r].email, status |-> "PENDING",
            expired |-> FALSE, raced |-> FALSE])
    /\ Finish(r)
    /\ UNCHANGED users

-----------------------------------------------------------------------------
\* POST /invitations/:id/resend and /revoke: getOwned, the row,
Resendable(i) == invitations[i].status = "PENDING"

\* Mutant: an accepted invitation may be revoked.
RevocableAlways(i) == TRUE

Revocable(i) == invitations[i].status # "ACCEPTED"

ReadInvitation(r, i, kind) ==
    /\ CASE kind = "resend" -> Resendable(i)
         [] kind = "revoke" -> Revocable(i)
    /\ Begin(r, "write", [NoJob EXCEPT !.kind = kind, !.invitation = i])
    /\ UNCHANGED <<invitations, users>>

\* .. then mintToken and the update: a new term, whatever the status has become;
Resend(r) ==
    LET i == job[r].invitation
    IN  /\ At(r, "resend", "write")
        /\ invitations' = [invitations EXCEPT ![i].expired = FALSE]
        /\ Finish(r)
        /\ UNCHANGED users

\* Is another request about to give one of these answers to the invitation?
Answering(r, i, kinds) ==
    \E q \in Requests \ {r} : job[q].invitation = i /\ job[q].kind \in kinds

\* .. or the revocation.
Revoke(r) ==
    LET i == job[r].invitation
    IN  /\ At(r, "revoke", "write")
        /\ invitations' = [invitations EXCEPT
               ![i].status = "REVOKED",
               ![i].raced = @ \/ Answering(r, i, {"accept"})]
        /\ Finish(r)
        /\ UNCHANGED users

\* POST /invitations/accept: loadValidByToken,
AcceptLoad(r, i) ==
    /\ invitations[i].status = "PENDING"
    /\ ~ invitations[i].expired
    /\ Begin(r, "email", [NoJob EXCEPT !.kind = "accept", !.invitation = i,
                                      !.email = invitations[i].email])
    /\ UNCHANGED <<invitations, users>>

\* .. nobody has the e-mail,
AcceptCheckUser(r) ==
    /\ At(r, "accept", "email")
    /\ FreeEmail(job[r].email)
    /\ Go(r, "commit")
    /\ UNCHANGED <<invitations, users>>

\* .. and the transaction: the account, and the invitation by its id.
AcceptCommit(r) ==
    LET i == job[r].invitation
    IN  /\ At(r, "accept", "commit")
        /\ AddUser(job[r].email, i)
        /\ invitations' = [invitations EXCEPT
               ![i].status = "ACCEPTED",
               ![i].raced = @ \/ Answering(r, i, {"accept", "revoke"})]
        /\ Finish(r)

-----------------------------------------------------------------------------
\* POST /users and /auth/register: nobody has the e-mail,
CreateCheckUser(r, email) ==
    /\ FreeEmail(email)
    /\ Begin(r, "create", [NoJob EXCEPT !.kind = "create", !.email = email])
    /\ UNCHANGED <<invitations, users>>

\* .. then the insert.
CreateUser(r) ==
    /\ At(r, "create", "create")
    /\ AddUser(job[r].email, 0)
    /\ Finish(r)
    /\ UNCHANGED invitations

\* PATCH /users/:id: isActive, by somebody else.  The account that a deletion
\* has found inactive is overtaken when it is reactivated.
UpdateUser(u, active) ==
    /\ u \in Present
    /\ users' = [users EXCEPT ![u].active = active,
           ![u].raced = @ \/ (active /\ \E r \in Requests : job[r].user = u)]
    /\ UNCHANGED <<invitations, stage, job>>

\* PATCH /users/:id/deactivate
DeactivateUser(u) == UpdateUser(u, FALSE)

Deletable(u) == u \in Present /\ ~ users[u].active

\* DELETE /users/:id: the row, inactive,
DeleteRead(r, u) ==
    /\ Deletable(u)
    /\ Begin(r, "delete", [NoJob EXCEPT !.kind = "delete", !.user = u])
    /\ UNCHANGED <<invitations, users>>

\* .. then deleted by its id.
HardDelete(r) ==
    /\ At(r, "delete", "delete")
    /\ job[r].user \in Present
    /\ users' = [users EXCEPT ![job[r].user].gone = TRUE]
    /\ Finish(r)
    /\ UNCHANGED invitations

\* A refusal, a statement that fails, or the process stops.
Abort(r) ==
    /\ stage[r] # "idle"
    /\ Finish(r)
    /\ UNCHANGED <<invitations, users>>

Expire(i) ==
    /\ ~ invitations[i].expired
    /\ invitations' = [invitations EXCEPT ![i].expired = TRUE]
    /\ UNCHANGED <<users, stage, job>>

-----------------------------------------------------------------------------
\* InvitationsController
InvitationRoutes(r) ==
    \/ \E email \in Emails : InviteCheckUser(r, email)
    \/ \E i \in DOMAIN invitations :
          \/ \E kind \in {"resend", "revoke"} : ReadInvitation(r, i, kind)
          \/ AcceptLoad(r, i)

\* UsersController, and the registration
UserRoutes(r) ==
    \/ \E email \in Emails : CreateCheckUser(r, email)
    \/ \E u \in DOMAIN users : DeleteRead(r, u)

Next ==
    \/ \E r \in Requests :
          \/ InvitationRoutes(r) \/ UserRoutes(r)
          \/ InviteCheckPending(r) \/ InviteCreate(r)
          \/ Resend(r) \/ Revoke(r)
          \/ AcceptCheckUser(r) \/ AcceptCommit(r)
          \/ CreateUser(r) \/ HardDelete(r) \/ Abort(r)
    \/ \E u \in DOMAIN users : UpdateUser(u, TRUE) \/ DeactivateUser(u)
    \/ \E i \in DOMAIN invitations : Expire(i)

Spec == Init /\ [][Next]_vars

-----------------------------------------------------------------------------
\* The rows and the requests have their types.
TypeOK ==
    /\ invitations \in Seq([email : Emails, status : Status,
                            expired : BOOLEAN, raced : BOOLEAN])
    /\ users \in Seq([email : Emails, active : BOOLEAN, gone : BOOLEAN,
                      invitation : 0..Len(invitations), raced : BOOLEAN])
    /\ stage \in [Requests -> {"idle", "pending", "create", "write", "email",
                               "commit", "delete"}]
    /\ \A r \in Requests : /\ job[r].invitation \in 0..Len(invitations)
                           /\ job[r].user \in 0..Len(users)

Through(i) == {u \in DOMAIN users : users[u].invitation = i}

\* An answer to an invitation is final and true, unless two answers overlapped:
\* one account was made through it when it is ACCEPTED, whatever became of the
\* account, and none while it is PENDING or once it is REVOKED.  And no account
\* is deleted active, unless it was reactivated under the deletion.
CleanAnswerHolds ==
    /\ \A i \in DOMAIN invitations :
          \/ invitations[i].raced
          \/ Cardinality(Through(i))
                 = IF invitations[i].status = "ACCEPTED" THEN 1 ELSE 0
    /\ \A u \in DOMAIN users :
          users[u].gone => ~ users[u].active \/ users[u].raced
=============================================================================
