SPECIFICATION Spec
CONSTANTS
    p1 = p1
    w1 = w1
    w2 = w2
    w3 = w3
    Requests = {r1, r2, r3}
    Products = {p1}
    Warehouses = {w1, w3}
    NoWarehouse = NoWarehouse
    NoMovement = NoMovement
    Rows <- MCRows
    Inputs <- MCInputsSmall
    OpeningStock <- MCOpening
    ReorderPoint <- MCReorderPoint
    MaxInFlight = 1
CHECK_DEADLOCK FALSE
SYMMETRY MCSymmetry
PROPERTIES
    ImplementsLedger
