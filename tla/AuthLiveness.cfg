CONSTANTS
    t1 = t1
    t2 = t2
    u1 = u1
    u2 = u2
    k1 = k1
    k2 = k2
    Request = {r1, r2}
    Token = {t1, t2}
    PrepUser = {u1}
    Owner <- TwoOfOne
    Key = {k1, k2}
    Md5 <- TwoSums
    TTL = 1
    Faults = {"redis", "breaker", "provider", "database"}
    MaxVersion = 1
    Null = Null
SPECIFICATION FairSpec
PROPERTIES RevocationTakesEffect ProfileConverges
