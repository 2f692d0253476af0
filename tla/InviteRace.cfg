SPECIFICATION Spec
CONSTANTS
    i1 = i1
    i2 = i2
    a1 = a1
    a2 = a2
    e1 = e1
    e2 = e2
    Invites = {i1}
    Attempts = {a1, a2}
    AdminOps = {o1}
    Emails = {e1, e2}
    Patches <- MCPatches
    None = None
    Keep = Keep
    MAX_INVITE_FAILED_ATTEMPTS = 2
    InviteDays = {1}
    SignUpWindow = 1
    MaxTime = 2
    MaxMismatches = 3
    Faults = TRUE
SYMMETRY Symmetry
CHECK_DEADLOCK FALSE
INVARIANTS TypeOK SingleRedemption RedemptionRecorded AccountHasProfileEmail
PROPERTIES RevokedNeverRedeemed MarksNeverCleared 
