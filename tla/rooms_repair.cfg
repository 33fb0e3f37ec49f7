SPECIFICATION FairSpec
CONSTANTS
    Reservations = {r1, r2}
    Beds = {b1}
    Workers = {w1}
    Kinds <- RepairKinds
    Decisions <- RepairDecisions
    Submetered = FALSE
    NoRes = NoRes
PROPERTIES
    LostReleaseHeals
    CounterHeals
