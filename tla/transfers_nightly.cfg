SPECIFICATION FairSpec
CONSTANTS
    Tenants = {t1, t2}
    b1 = b1
    b2 = b2
    b3 = b3
    r1 = r1
    r2 = r2
    Beds = {b1, b2, b3}
    Rooms = {r1, r2}
    RoomOf <- OneAcross
    Transfers = {x1, x2}
    Workers = {w1}
    LastDay = 0
    Kinds <- NightKinds
    None = None
INVARIANTS
    TypeOK
    BedsAgree
    SlotsCovered
PROPERTIES
    DepartureReleases
CHECK_DEADLOCK FALSE
