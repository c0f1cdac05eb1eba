\* One handler, whose read of the attempt may fail.
SPECIFICATION Spec
CONSTANTS
    Handlers = {h1}
    MaxFaults = 2
    AttemptReadFails = TRUE
INVARIANTS
    EarlyExpiryStaysRetryable
