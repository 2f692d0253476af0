SPECIFICATION SessionSpec
CONSTANTS
    r1 = r1
    r2 = r2
    v1 = v1
    v2 = v2
    s1 = s1
    s2 = s2
    s3 = s3
    s4 = s4
    Requests = {r1, r2}
    People = {v1, v2}
    Admins = {v1}
    Sids = {s1, s2, s3}
    Nobody = Nobody
    MaxLimit = 1
    Doing <- MCDoing
    Promoted = {v1}
ACTION_CONSTRAINT EnforcedOrEnding
SYMMETRY Interchangeable
CHECK_DEADLOCK FALSE
INVARIANTS  SessionsHaveUsers
