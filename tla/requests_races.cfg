SPECIFICATION FairSpec
CONSTANTS
    MaxRequests = 2
    MaxTransfers = 2
    Workers = {w1, w2}
    Kinds <- RaceKinds
    Nobody = Nobody
INVARIANTS
    TypeOK
    OwnTransfer
    CompletedMeansMoved
    RefusedIsNotScheduled

    
CHECK_DEADLOCK FALSE
