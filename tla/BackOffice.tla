----------------------------- MODULE BackOffice -----------------------------
(***************************************************************************)
(* The services around the stock and the sales, side by side: the product  *)
(* catalogue, the sessions, the accounts, the registers, the numbers of    *)
(* documents and the lists.                                                *)
(*                                                                         *)
(* They write no table in common and none of their handlers decides on a   *)
(* table of another one, so a behaviour exercises one of them, its focus,  *)
(* and the others stay as they are: their states add up.  The session an   *)
(* accepted invitation opens is one of Sessions.                           *)
(***************************************************************************)
EXTENDS Integers, Sequences, FiniteSets

CONSTANTS
    Requests,
    CategoryNames, TypeNames, Codes, Given, ImportRows, \* Catalog
    Emails,                                             \* Accounts
    Keys,                                               \* Registry
    MaxTypes, MaxProducts, MaxRecoded,                  \* bounds of Catalog,
    MaxTickets, MaxPasswords,                           \* of Sessions,
    MaxInvitations, MaxUsers,                           \* of Accounts
    MaxRows,                                            \* of Registry,
    Parents, MaxDocuments,                              \* Numbering
    Limits, Positions, MaxListed,                       \* and Listing
    None

ASSUME BackOfficeAssumption ==
    /\ IsFiniteSet(CategoryNames)
    /\ None \notin CategoryNames \cup Requests \cup Nat
    /\ Codes \subseteq Nat \ {0}
    /\ Given \in [CategoryNames -> Codes \cup {None}]
    /\ \A a, b \in CategoryNames : Given[a] = Given[b] => a = b \/ Given[a] = None
    /\ ImportRows \in Seq(CategoryNames \X TypeNames)
    /\ Limits \subseteq Nat \ {0}
    /\ Positions \subseteq Int
    /\ MaxPasswords \in Nat \ {0}
    /\ {MaxDocuments, MaxListed} \subseteq Nat

VARIABLES
    focus,
    categories, types, products, recoded, moved, raced, catalogStage, catalogJob,
    password, tokens, tickets, ended, torn, sessionStage, sessionJob,
    invitations, users, accountStage, accountJob,
    rows,
    table, documents, year, removed, straddled, numberStage, numberJob,
    list, shown, born, reader, shifted

catalogueVars == <<categories, types, products, recoded, moved, raced,
                   catalogStage, catalogJob>>
sessionVars == <<password, tokens, tickets, ended, torn, sessionStage,
                 sessionJob>>
accountVars == <<invitations, users, accountStage, accountJob>>
numberVars == <<table, documents, year, removed, straddled, numberStage,
                numberJob>>
listVars == <<list, shown, born, reader, shifted>>
vars == <<focus, catalogueVars, sessionVars, accountVars, rows, numberVars,
          listVars>>

Catalogue == INSTANCE Catalog WITH stage <- catalogStage, job <- catalogJob
Session == INSTANCE Sessions WITH stage <- sessionStage, job <- sessionJob
Account == INSTANCE Accounts WITH stage <- accountStage, job <- accountJob
Register == INSTANCE Registry
Number == INSTANCE Numbering WITH stage <- numberStage, job <- numberJob
Lists == INSTANCE Listing

Init ==
    /\ focus \in {"catalogue", "session", "account", "register", "number", "list"}
    /\ Catalogue!Init
    /\ Session!Init
    /\ Account!Init
    /\ Register!Init
    /\ Number!Init
    /\ focus # "number" => table = "sale"
    /\ Lists!Init
    /\ focus # "list" => list = CHOOSE choice \in Lists!Directions : TRUE

Next ==
    \/ /\ focus = "catalogue"
       /\ Catalogue!Next
       /\ UNCHANGED <<focus, sessionVars, accountVars, rows, numberVars,
                      listVars>>
    \/ /\ focus = "session"
       /\ Session!Next
       /\ UNCHANGED <<focus, catalogueVars, accountVars, rows, numberVars,
                      listVars>>
    \/ /\ focus = "account"
       /\ Account!Next
       /\ UNCHANGED <<focus, catalogueVars, sessionVars, rows, numberVars,
                      listVars>>
    \/ /\ focus = "register"
       /\ Register!Next
       /\ UNCHANGED <<focus, catalogueVars, sessionVars, accountVars,
                      numberVars, listVars>>
    \/ /\ focus = "number"
       /\ Number!Next
       /\ UNCHANGED <<focus, catalogueVars, sessionVars, accountVars, rows,
                      listVars>>
    \/ /\ focus = "list"
       /\ Lists!Next
       /\ UNCHANGED <<focus, catalogueVars, sessionVars, accountVars, rows,
                      numberVars>>

Spec == Init /\ [][Next]_vars

-----------------------------------------------------------------------------
\* Every row and every request of the services has its type, and refers to
\* rows that exist: a maintenance to its vehicle or asset, an
\* account to the invitation it was made through.
TypeOK ==
    /\ Catalogue!TypeOK
    /\ Session!TypeOK
    /\ Account!TypeOK
    /\ Register!TypeOK
    /\ Number!TypeOK
    /\ Lists!TypeOK

\* The reference the next product of a type draws is free as long as no code it
\* is drawn from has changed (ProductsService.claimSku).
NextSkuIsFree == Catalogue!NextSkuIsFree

\* The type of a product belongs to its category, unless the type was moved or
\* the product updated from a stale read (ProductsService.update).
CleanTypeInCategory == Catalogue!CleanTypeInCategory

\* An import refuses no row of the file, unless the catalogue changed beside it
\* (ProductsService.importProducts, generateUniqueCode).
CleanImportRefusesNone == Catalogue!CleanImportRefusesNone

\* A session lives by one refresh token, and by none after a logout or a change
\* of password, unless requests overlapped (AuthService.refresh, logout,
\* changePassword and resetPassword).
CleanSessionEnds == Session!CleanSessionEnds

\* A ticket is used once and one login code is valid at a time, unless requests
\* overlapped (the create and consume operations of TokensService).
CleanTicketOnce == Session!CleanTicketOnce

\* An invitation is ACCEPTED when one account was made through it, and only
\* then; an account is deleted inactive; unless requests overlapped
\* (InvitationsService.accept and revoke, UsersService.hardDelete).
CleanAnswerHolds == Account!CleanAnswerHolds

\* The references of a year have no hole, so that the next one is free, where no
\* document counts in another year than its own and none was deleted
\* (generateRef and countThisYear).
CleanRefIsFree == Number!CleanRefIsFree

\* A client that asks for every page of a list misses no row that was there,
\* unless rows left or moved beside it (findAll, buildPaginatedResult).
CleanPagesMissNone == Lists!CleanPagesMissNone
=============================================================================
