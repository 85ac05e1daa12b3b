CONSTANTS
    Call = {c1, c2}
    Configured <- NothingSet
    Minute = 2
    Outcome = {"ok", "business"}
    Successful = {"ok"}
    CountBound = 11
SPECIFICATION Spec
INVARIANTS BusinessErrorsDoNotTrip
