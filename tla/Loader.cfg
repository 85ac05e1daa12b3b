CONSTANTS
    Caller = {c1, c2, c3}
    TTL = 1
    Ending = {"value", "nothing", "error", "panic"}
    FaultyCache = TRUE
    MaxVersion = 1
    Null = Null
SPECIFICATION FairSharingSpec
INVARIANTS WaitsForALoad
PROPERTIES NoForeignCancellation CachedLoadsAreShared CallersReturn CatchesUp
