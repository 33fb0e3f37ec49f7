SPECIFICATION FairSpec
CONSTANTS
    Bills = {b1, b2}
    Payments = {p1, p2}
    Receipts = {c1}
    Workers = {w1}
    Kinds <- SerialKinds
    Total = 2
    Grace = 1
    MaxDay = 2
    NoPayment = NoPayment
INVARIANTS
    
    NoOverpayment
PROPERTIES
    AcceptedIsConcluded
    UnpaidIsCharged
\* Nothing is left to do when every bill is paid.
CHECK_DEADLOCK FALSE
