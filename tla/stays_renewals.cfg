SPECIFICATION Spec
CONSTANTS
    MaxStays = 2
    MaxMoves = 1
    MaxRequests = 0
    MaxOffers = 0
    MaxReviews = 0
    MaxDay = 2
    MaxCrashes = 1
    Term = 1
    Workers = {w1}
    Preparers = {p1, p2}
    Kinds <- StallKinds
    Nobody = Nobody
INVARIANTS
    CurrentContract
PROPERTIES
    ImplementsTenancyLine
    
CHECK_DEADLOCK FALSE
