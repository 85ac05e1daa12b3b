CONSTANTS
    t1 = t1
    u1 = u1
    k1 = k1
    Request = {r1, r2}
    Token = {t1}
    PrepUser = {u1}
    Owner <- OneUser
    Key = {k1}
    Md5 <- OneSum
    TTL = 1
    Faults = {"redis", "breaker", "provider"}
    MaxVersion = 0
    Null = Null
    Configured <- SmallConfig
    Minute = 2
    Successful = {"ok"}
    CountBound = 2
SPECIFICATION FairGuardedSpec
INVARIANTS CallersWait
PROPERTIES OutageEnds ServedAgain
