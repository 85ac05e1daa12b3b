CONSTANTS
    t1 = t1
    t2 = t2
    u1 = u1
    u2 = u2
    k1 = k1
    k2 = k2
    Request = {r1, r2}
    Token = {t1, t2}
    PrepUser = {u1, u2}
    Owner <- OneEach
    Key = {k1, k2}
    Md5 <- TwoSums
    TTL = 1
    MaxPause = 1
    Faults = {"redis", "breaker", "provider", "database"}
    MaxVersion = 1
    Null = Null
SYMMETRY Symmetry
SPECIFICATION HistorySpec
INVARIANTS IdentityMatchesToken UnauthorizedOnlyIfRejected
PROPERTIES RegisteredOnce HonouredBriefly RegisteredAreFound
