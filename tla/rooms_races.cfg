SPECIFICATION Spec
CONSTANTS
    Reservations = {r1, r2}
    Beds = {b1}
    Workers = {w1, w2}
    Kinds <- RaceKinds
    Decisions <- RaceDecisions
    Submetered = FALSE
    NoRes = NoRes
SYMMETRY AlikeWorkers
PROPERTIES
    ImplementsBedClaims
INVARIANTS
    TypeOK
    OneTenantPerBed
    OccupancyWithinCapacity
    HolderHasPaid
