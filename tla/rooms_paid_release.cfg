SPECIFICATION Spec
CONSTANTS
    Reservations = {r1, r2}
    Beds = {b1}
    Workers = {w1, w2}
    Kinds <- ExpiryKinds
    Decisions <- ApproveOnly
    Submetered = FALSE
    NoRes = NoRes
PROPERTIES
    SystemNeverReleasesPaid
