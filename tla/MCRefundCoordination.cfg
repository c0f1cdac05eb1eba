\* Two requests on two tickets, so that whole and partial selections overlap;
\* two recoveries at once; one event per refund.
CONSTANTS
    Tickets = {t1, t2}
    Requests = {r1, r2}
    Operators = {o1, o2}
    Deliveries = {d1}
SYMMETRY Symmetry
SPECIFICATION Spec
CHECK_DEADLOCK FALSE
INVARIANTS
    OneCoordinatorPerTicket
    RefundedIsReversible
    LedgerTellsTruth
PROPERTIES
    ClosedRefundsStayClosed
    KeepsPromise
