CONSTANTS
    r1 = r1
    r2 = r2
    a = a
    b = b
    Receipts = {r1, r2}
    Lines = {a, b}
    MaxVersion = 2
    Confirmations <- Corrected
    MaxContent = 1
    ItemsAt <- Edits
    Jobs = {j1, j2}
    MaxRefreshes = 3
    MaxFailures = 1
    None = none
SPECIFICATION Spec
INVARIANTS TypeOK LabelHolds ShownOrFailed
PROPERTIES EachPurchaseOnce ShownMovesForward CacheMovesForward
CHECK_DEADLOCK FALSE
