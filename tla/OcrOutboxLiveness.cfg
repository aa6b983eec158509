CONSTANTS
    Receipts = {r1}
    LegacyReceipts = {r1}
    Jobs = {j1}
    Workers = {w1, w2}
    Requests = {q1}
    Reconcilers = {c1}
    MaxAttempts = 2
    MaxFaults = 1
    NoReceipt = noReceipt
    NoJob = noJob
SPECIFICATION FairSpec
PROPERTIES Settles JobsEnd
\* Nothing need happen once every row is closed and every handler is done.
CHECK_DEADLOCK FALSE
