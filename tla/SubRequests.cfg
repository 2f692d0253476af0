SPECIFICATION Spec
CONSTANTS
    p1 = p1
    p2 = p2
    x1 = x1
    x2 = x2
    r1 = r1
    r2 = r2
    Procs = {p1, p2}
    Accounts = {x1, x2}
    Rows = {r1, r2}
    None = None
    Period = 1
    MaxTime = 2
    MaxExpiry = 3
    Ops = {"subscribe", "cancel", "disable", "enable", "suspend", "retry", "policy", "renew", "autoRenew", "process", "sync", "cleanup"}
    Failures = {"await", "unseen"}
    OthersLinked = TRUE
ACTION_CONSTRAINT RequestsBeforeTasks
SYMMETRY Symmetry
CHECK_DEADLOCK FALSE
INVARIANTS TypeOK 
PROPERTIES AutoRenewCapped
