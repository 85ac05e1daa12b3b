CONSTANTS
    Request = {r1, r2}
    Grace = 2
SPECIFICATION FairSpec
INVARIANTS OutlivesRequests OrderlyExit
PROPERTIES CutOffOnlyForCause StopsWhenTold
CHECK_DEADLOCK FALSE
