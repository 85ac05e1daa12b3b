CONSTANTS
    n1 = n1
    n2 = n2
    c1 = c1
    c2 = c2
    c3 = c3
    Node = {n1, n2}
    Client = {c1, c2, c3}
    Home <- OneAndTwo
    ConfiguredTTL <- Never
    ConfiguredL1TTL = 1
    HalfMinute = 1
    FaultyL1 = {n2}
    FaultyL2 = TRUE
    MaxWrites = 2
    MaxPause = 1
    Null = Null
SPECIFICATION FairHistorySpec
INVARIANTS StalenessBounded SessionOrder
PROPERTIES StaleFades
