CONSTANTS
    Receipts = {r1}
    LegacyReceipts = {r1}
    Jobs = {j1, j2}
    Workers = {w1, w2}
    Requests = {q1, q2}
    Reconcilers = {}
    MaxAttempts = 2
    MaxFaults = 0
    NoReceipt = noReceipt
    NoJob = noJob
SPECIFICATION Spec
SYMMETRY Interchangeable
INVARIANTS TypeOK FenceExclusive NoDoubleResult
PROPERTIES NoOrphan ConfirmedKept DeletedAccountFenced
\* Nothing need happen once every row is closed and every handler is done.
CHECK_DEADLOCK FALSE
