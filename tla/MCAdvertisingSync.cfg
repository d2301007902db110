SPECIFICATION FairSpec
CONSTANTS
    States = {s1}
    Workers = {w1, w2}
    Admins = {a1}
    LastPage <- OnePage
    MaxAttempts = 2
    MaxFaults = 1
    None = None
INVARIANTS TypeOK HolderFactsStand RevokedIsUnleased
PROPERTIES PausedStaysPaused RunEnds FailedIsRetried
