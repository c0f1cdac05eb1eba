CONSTANTS
    Users = {seller, friend}
    Seller = seller
    Requests = {r1}
    MaxIssues = 1
    MaxTransfers = 1
    None = None
    Tabs = {t1}
    Calls = {c1, c2}
    Devices = {d1}
    Staff = {s1}
    MaxPasses = 2
    MaxEntries = 2
SPECIFICATION DoorSpec
SYMMETRY Symmetry
INVARIANTS PassIsOwners InsideCanLeave ShownToItsOwner
PROPERTIES AuthorizedEntry
