SPECIFICATION AccountsSpec
CONSTANTS
    p1 = p1
    p2 = p2
    u1 = u1
    u2 = u2
    x1 = x1
    x2 = x2
    x3 = x3
    Procs = {p1, p2}
    Users = {u1, u2}
    Accounts = {x1, x2, x3}
    Existing = {x1}
    None = None
    Cap = 2
    MaxRows = 2
    Vendors = {"jellyfin", "immich"}
    Ops <- MCOps
    Overlapping <- MCOverlapping
    Purging = TRUE
    Failures = {"answer", "refusal"}
SYMMETRY Symmetric
CHECK_DEADLOCK FALSE
INVARIANTS CapOvershootBounded  
PROPERTIES LastAccountKept NeverChangesHands
