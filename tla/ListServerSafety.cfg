CONSTANTS
    l1 = l1
    l2 = l2
    i1 = i1
    i2 = i2
    i3 = i3
    m1 = m1
    m2 = m2
    m3 = m3
    MutationIds = {m1, m2, m3}
    Lists = {l1, l2}
    Items = {i1}
    Requests <- SafetyRequests
    Batches <- SafetyBatches
    Devices = {d1}
    Sessions = {s1, s2}
    MaxActiveItems = 1
    MaxLines = 1
    NoList = noList
    NoItem = noItem
    NoDevice = noDevice
    NoSession = noSession
    NoRequest = noRequest
SPECIFICATION Spec
SYMMETRY Interchangeable
INVARIANTS TypeOK DeltaComplete StampedOnce
PROPERTIES NoStepBack TombstonesStay
