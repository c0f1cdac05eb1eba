SPECIFICATION FairSpec
CONSTANTS
    Workers = {w1, w2}
    Browsers = {b1, b2}
    Accounts = {a1, a2}
    MaxSends = 2
    MaxFaults = 2
    None = None
INVARIANTS SentMeansMailed SavedIsSaved
PROPERTIES LeaseExcludes BuyerIsLetIn
CHECK_DEADLOCK FALSE
