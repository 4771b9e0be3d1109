SPECIFICATION CountsSpec
CONSTANTS
    p1 = p1
    w1 = w1
    w3 = w3
    Requests = {r1, r2}
    Products = {p1}
    Warehouses = {w1, w3}
    NoWarehouse = NoWarehouse
    NoMovement = NoMovement
    Rows <- MCRows
    Inputs = {1}
    OpeningStock <- MCOpening
    ReorderPoint <- MCReorderPoint
    MaxInFlight = 1
    Triggers = {cron, client}
    Months = 2
    NoCount = NoCount
CHECK_DEADLOCK FALSE
SYMMETRY MCSymmetry
INVARIANTS
    CleanOpeningIsHistory
