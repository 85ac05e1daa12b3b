CONSTANTS
    Key = {k1, k2, k3}
    Value = {v1, v2, odd}
    Unencodable = {odd}
    Undecodable = {v2}
    ConfiguredMax = 2
    ConfiguredTTL = 1
    DefaultMax = 5
    Minute = 1
    Null = Null
SPECIFICATION LRUFairSpec
INVARIANTS Coherent RecentlyUsedAreKept
PROPERTIES ImplementsContract ExpiredAreSwept
