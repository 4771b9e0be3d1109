SPECIFICATION Spec
CONSTANTS
    o1 = o1
    o2 = o2
    Handlers = {h1, h2, h3}
    Orders = {o1}
    LineCount <- MCLineCount
    MaxEmails = 2
    MaxReceipts = 2
SYMMETRY MCSymmetry
INVARIANTS
    TypeOK
    SentIsConfirmed
    ReceivedIsComplete
    CleanReceivedOnce
PROPERTIES
    CleanStatusAdvances
