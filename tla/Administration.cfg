SPECIFICATION Spec
CONSTANTS
    p1 = p1
    p2 = p2
    u1 = u1
    u2 = u2
    r1 = r1
    t1 = t1
    t2 = t2
    c1 = c1
    c2 = c2
    Handlers = {p1, p2}
    Users = {u1, u2}
    Services = {r1}
    NoUser = NoUser
    NoService = NoService
    MaxRows = 4
    Updates = {p1, p2}
    Tasks = {t1, t2}
    Crons = {c1, c2}
    DefaultCron = c1
    NoTask = NoTask
    Patches <- MCPatches
    Clients = {p1, p2}
    Names = {n1, n2, n3}
    Seed = {n1}
    protectedNames = {n2}
    Shows = {w1, w2}
    NoImage = NoImage
    maxImages = 2
SYMMETRY Interchangeable
CHECK_DEADLOCK FALSE
INVARIANTS AdministrationTypeOK  JobsFollowSettings LibraryBounded DeletedStayDeleted ShownImagesStay
