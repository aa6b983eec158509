CONSTANTS
    Unknown = unknown
    Finer = 10
    b1 = b1
    b2 = b2
    Receipts = {r1, r2, r3}
    Branches = {b1, b2}
    Drafts <- EveryLine
    Purchases <- SomePurchases
    RowIds = {1, 2, 3, 4}
    Limits = {unknown, 3}
    DefaultPageSize = 1
    MaxPageSize = 2
SYMMETRY Anyone
SPECIFICATION Spec
INVARIANTS TypeOK PricedRight AnswersRight PagesReadEachOnce
CHECK_DEADLOCK FALSE
