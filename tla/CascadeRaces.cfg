SPECIFICATION PartsSpec
CONSTANTS
    p1 = p1
    p2 = p2
    r1 = r1
    r2 = r2
    Procs <- TwoProcs
    Rows = {r1, r2}
    None = None
    Period = 2
    MaxTime = 3
    MaxExpiry = 4
    Ops = {"subscribe", "cancel", "retry", "disable", "enable", "disableDerived", "enableDerived", "suspend", "renew", "process", "autoRenew", "policy"}
    Failures = {"await", "crash"}
SYMMETRY Symmetric
INVARIANTS NoOrphan 
CHECK_DEADLOCK FALSE
