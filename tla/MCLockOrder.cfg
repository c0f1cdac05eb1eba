SPECIFICATION Spec
CONSTANTS
    Carts = {k1, k2}
    None = None
CHECK_DEADLOCK FALSE
INVARIANTS SameOrder
