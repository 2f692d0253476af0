SPECIFICATION Spec
CONSTANTS
    p1 = p1
    p2 = p2
    u1 = u1
    u2 = u2
    l1 = l1
    l2 = l2
    Members = {u1, u2}
    Sends = {p1, p2}
    NoMember = NoMember
    Subjects = {u1, u2}
    NoSubject = NoSubject
    Loads = {p1, p2}
    MaxCap = 2
    MaxEntries = 5
    PAGE_SIZE = 2
    Levels = {l1, l2}
    AnyLevel = AnyLevel
    i1 = i1
    i2 = i2
    Invites = {i1, i2}
    Emails = {e1}
    ServiceNames = {s1}
    NoInvite = NoInvite
    NoEmail = NoEmail
    NoName = NoName
    Requests = {p1, p2}
    Lists = {p1, p2}
    MaxSent = 2
    e1 = e1
    g1 = g1
    g2 = g2
    Entries = {e1, e2}
    Managed = {e1}
    Slugs = {g1, g2, g3}
    NoSlug = NoSlug
    Urls = {w1}
    NoUrl = NoUrl
    Changers = {p1, p2}
    o1 = o1
    d1 = d1
    Owned = {o1}
    Derived = {d1}
    SourceOf <- DerivesFromO1
    NoSub = NoSub
    MaxPeriods = 2
    Calls = {p1, p2}
    Faults = TRUE
    Mine = {o1, o2}
    Included = {d1}
    ComesWith <- ComesWithO1
    WithAccounts = {o1}
    NotOne = NotOne
    AccountCap = 2
    Deeds = {p1, p2}
    Reloads = {p1, p2}
SYMMETRY Interchangeable
CHECK_DEADLOCK FALSE
INVARIANTS CardsAreCurrent RowsFollowActions CountersFollowActions  PagesJoin ListIsCurrent   
 
