\* One refund, no operator and no event: what the coordinator leaves behind.
CONSTANTS
    Tickets = {t1}
    Requests = {r1}
    Operators = {}
    Deliveries = {}
SPECIFICATION Spec
CHECK_DEADLOCK FALSE
INVARIANT
    UnreversedIsFlagged
