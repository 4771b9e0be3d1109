SPECIFICATION Spec
CONSTANTS
    Handlers = {h1, h2}
    Quotes = {q1}
    Customers = {c1, c2}
    Prices = {1, 2}
    None = None
    MaxLines = 3
    MaxSales = 2
SYMMETRY MCSymmetry
CHECK_DEADLOCK FALSE
INVARIANTS
    TypeOK
    CleanTotalIsLines
    CleanSaleIsQuote
    NeverWithoutLines
PROPERTIES
    CleanSettledIsFrozen
