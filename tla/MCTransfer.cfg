CONSTANTS
    Users = {seller, friend, third}
    Seller = seller
    Requests = {r1, r2}
    MaxIssues = 3
    MaxTransfers = 2
    None = None
SPECIFICATION Spec
CHECK_DEADLOCK FALSE
INVARIANTS CodesWithinCap OwnerIsTold
PROPERTIES NewestCodeMoves
