SPECIFICATION FairSpec
CONSTANTS
    Carts = {k1, k2}
    Calls = {s1, s2}
    MaxFaults = 2
    None = None
CHECK_DEADLOCK FALSE
INVARIANTS OpenIsSaved
PROPERTIES CartIsClosed
