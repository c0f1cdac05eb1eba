\* One tier, two carts that compete for its last places and for one code.
SPECIFICATION Spec
CONSTANTS
    Tiers = {t1}
    Holds = {h1, h2}
    Attempts = {a1, a2}
    Promotions = {p1}
    NoPromotion = NoPromotion
    MaxQty = 2
    HoldLife = 2
    StartWindow = 2
    FreshFor = 1
    MaxTime = 3
    MaxCapacity = 2
    MaxLimit = 2
SYMMETRY Symmetry
CHECK_DEADLOCK FALSE
INVARIANTS
    StockConserved
    NeverOversold
    LiveAttemptKeepsHold
    AbandonedIsUnpayable
    PaidCanBeIssued
    PromotionWithinLimit
    RedemptionFollowsPurchase
    QuotedReleaseRecorded
    QuoteBindsAttempt
PROPERTIES
    ClosedRowsStayClosed
    KeepsSalePromise
