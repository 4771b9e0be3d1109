SPECIFICATION FinanceSpec
CONSTANTS
    s1 = s1
    s2 = s2
    Requests = {r1, r2, r3}
    SaleIds = {s1, s2}
    TotalAmount <- MCTotal
    Amounts = {1, 2}
    None = None
    TrendDays = 2
    LastDay = 2
SYMMETRY MCSymmetry
CHECK_DEADLOCK FALSE
INVARIANTS
    TypeOK
    NumbersAreGapless
    StatusFollowsAmount
    PaidWithinPayments
    CleanPaidIsPaymentsTotal
    PageAgrees
