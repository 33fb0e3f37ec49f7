SPECIFICATION Spec
CONSTANTS
    Tenants = {t1}
    b1 = b1
    b2 = b2
    b3 = b3
    r1 = r1
    r2 = r2
    Beds = {b1, b2, b3}
    Rooms = {r1, r2}
    RoomOf <- OneAcross
    Transfers = {x1}
    Workers = {w1, w2, w3}
    LastDay = 1
    Kinds <- RaceKinds
    None = None
SYMMETRY Alike
PROPERTIES
    ImplementsLifecycle
    OvertakenChangesNothing
    PaidIsKept
    AcknowledgedDayStands
CHECK_DEADLOCK FALSE
