\* Two handlers of the same or of different events.
SPECIFICATION FairSpec
CONSTANTS
    Handlers = {h1, h2}
    MaxFaults = 2
    AttemptReadFails = FALSE
INVARIANTS
    LedgerTellsTruth
    AcknowledgedIsSettled
    ReferenceLostOnlyByFault
PROPERTIES
    PaidIsIssuedOrReviewed
    ExpiredIsReleased
