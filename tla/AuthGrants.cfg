SPECIFICATION AuthSpec
CONSTANTS
    p1 = p1
    r1 = r1
    q1 = q1
    q2 = q2
    Procs <- OneProc
    Rows = {r1}
    None = None
    Period = 2
    MaxTime = 2
    MaxExpiry = 3
    Ops = {"subscribe", "cancel", "suspend", "policy"}
    Failures = {"await", "crash"}
    Requests = {q1}
    TTL = 1
INVARIANTS
    AuthTypeOK
    GrantsAreRecent
CHECK_DEADLOCK FALSE
