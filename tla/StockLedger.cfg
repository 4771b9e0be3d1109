SPECIFICATION FairSpec
CONSTANTS
    p1 = p1
    w1 = w1
    w2 = w2
    w3 = w3
    Requests = {r1, r2}
    Products = {p1}
    Warehouses = {w1, w2, w3}
    NoWarehouse = NoWarehouse
    NoMovement = NoMovement
    Rows <- MCRows
    Inputs <- MCInputs
    OpeningStock <- MCOpening
    ReorderPoint <- MCReorderPoint
    MaxInFlight = 2
CHECK_DEADLOCK FALSE
INVARIANTS
    TypeOK
    CleanBalanceIsJournalTotal
    CleanNeverNegative
    CleanNoLostUpdate
    RemovalIsFinal
PROPERTIES
    AlertIffCrossing
    EveryRequestEnds
