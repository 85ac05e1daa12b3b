CONSTANTS
    n1 = n1
    Node = {n1}
    Client = {c1}
    Home <- Single
    ConfiguredTTL <- Never
    ConfiguredL1TTL = 1
    HalfMinute = 1
    FaultyL1 = {}
    FaultyL2 = TRUE
    MaxWrites = 1
    Null = Null
SPECIFICATION DeleteSpec
PROPERTIES DeletedIsNotBackfilled
