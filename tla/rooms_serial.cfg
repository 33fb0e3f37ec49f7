SPECIFICATION Spec
CONSTANTS
    Reservations = {r1, r2}
    Beds = {b1, b2}
    Workers = {w1}
    Kinds <- SerialKinds
    Decisions <- Statuses
    Submetered = TRUE
    NoRes = NoRes
SYMMETRY Alike
INVARIANTS
    CounterCoversTenants
    BedPointsAtItsTenant
