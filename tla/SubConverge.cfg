SPECIFICATION FairSpec
CONSTANTS
    p1 = p1
    p2 = p2
    x1 = x1
    x2 = x2
    r1 = r1
    r2 = r2
    Procs = {p1, p2}
    Accounts = {x1, x2}
    Rows = {r1}
    None = None
    Period = 1
    MaxTime = 1
    MaxExpiry = 3
    Ops = {"subscribe", "cancel", "process", "sync"}
    Failures = {"crash", "drift"}
    OthersLinked = TRUE
CHECK_DEADLOCK FALSE
PROPERTIES SyncConverges ExpiryEnforced
