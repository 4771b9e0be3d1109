SPECIFICATION Spec
CONSTANTS
    a = a
    b = b
    s1 = s1
    s2 = s2
    Requests = {r1, r2, r3}
    SaleIds = {s1, s2}
    Rows <- MCRows
    Lines <- MCLines
    OpeningStock <- MCOpening
    ReorderPoint <- MCReorderPoint
SYMMETRY MCSymmetry
CHECK_DEADLOCK FALSE
INVARIANTS
    TypeOK
    CleanBalanceIsSales
    CleanNegativeOnlyIfAllowed
    SettledOnce
PROPERTIES
    AlertIffCrossing
