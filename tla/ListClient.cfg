CONSTANTS
    l = l
    i = i
    Lists = {l}
    Lines = {i}
    ListOf <- OneList
    Contents = {"one", "two"}
    MaxMutations = 2
    MaxRemote = 1
    MaxFaults = 1
    MaxExpiries = 1
    Unchanged = "unchanged"
SPECIFICATION FairSpec
INVARIANTS TypeOK Agrees
PROPERTIES EditKept EveryEditAnswered
\* Nothing need happen once every edit is made.
CHECK_DEADLOCK FALSE
