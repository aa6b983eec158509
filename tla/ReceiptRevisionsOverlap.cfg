CONSTANTS
    r1 = r1
    r2 = r2
    a = a
    b = b
    m1 = m1
    m2 = m2
    m3 = m3
    Receipts = {r1, r2}
    Lines = {a, b}
    MaxVersion = 2
    MutationIds = {m1, m2, m3}
    Requests <- TwoReceipts
    Sessions = {s1, s2}
    NoRequest = noRequest
SPECIFICATION Spec
PROPERTIES LedgerMonotone
\* Nothing need happen once every mutation ID is used.
CHECK_DEADLOCK FALSE
