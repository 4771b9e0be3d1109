SPECIFICATION Spec
CONSTANTS
    n1 = n1
    n2 = n2
    k1 = k1

    Requests = {r1, r2}
    CategoryNames = {n1, n2}
    TypeNames = {k1}
    Codes = {1, 2}
    Given <- MCGiven
    ImportRows <- MCRows
    Emails = {e1}
    Keys = {v1, v2}
    MaxTypes = 2
    MaxProducts = 2
    MaxRecoded = 1
    MaxTickets = 3
    MaxPasswords = 2
    MaxInvitations = 2
    MaxUsers = 2
    MaxRows = 2
    Parents = {w1, w2}
    MaxDocuments = 3
    Limits = {1, 2}
    Positions = {1, 2, 3}
    MaxListed = 3
    None = None
\* a service stops at its bounds
CHECK_DEADLOCK FALSE
SYMMETRY MCSymmetry
INVARIANTS
    TypeOK
    NextSkuIsFree
    CleanTypeInCategory
    CleanImportRefusesNone
    CleanSessionEnds
    CleanTicketOnce
    CleanAnswerHolds
    CleanRefIsFree
    CleanPagesMissNone
