CONSTANTS
    Key = {a}
    Burst = 2
    Unit = 5
    Rate = 1
    Second = 2
    MaxClock = 14
    MaxElapsed = 8
    MaxLost = 1
    Null = Null
SPECIFICATION WindowSpec
INVARIANTS WithinLimit RetryAfterSuffices
PROPERTIES ImplementsTokenBucket
