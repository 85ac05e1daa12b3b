CONSTANTS
    Call = {c1, c2, c3}
    Configured <- SmallConfig
    Minute = 2
    Outcome = {"ok", "business", "cancelled", "infra", "panic"}
    Successful = {"ok"}
    CountBound = 4
SPECIFICATION FairSpec
INVARIANTS Tally HalfOpenLimit NotWedged
PROPERTIES ClosesAfterAllProbes Recovers
