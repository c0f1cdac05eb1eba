SPECIFICATION Spec
CONSTANTS
    Tabs = {1}
    Devices = {2}
    Accounts = {a, b}
    Draws <- MCDraws
    Slots <- MCSlots
    MaxFaults = 1
    None = None
CHECK_DEADLOCK FALSE
SYMMETRY MCSymmetry
INVARIANTS OneReservationPerTab OnePostPerHold ShownIsOwn StartIsRemembered
