SPECIFICATION Spec
CONSTANTS
    MaxStays = 2
    MaxMoves = 1
    MaxRequests = 1
    MaxOffers = 1
    MaxReviews = 1
    MaxDay = 0
    MaxCrashes = 1
    Term = 1
    Workers = {w1, w2}
    Preparers = {}
    Kinds <- PlanKinds
    Nobody = Nobody
SYMMETRY WorkerSymmetry
INVARIANTS
    TypeOK
    PlansExclude
    OfferAnsweredOnce
CHECK_DEADLOCK FALSE
