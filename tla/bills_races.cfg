SPECIFICATION Spec
CONSTANTS
    Bills = {b1, b2}
    Payments = {p1}
    Receipts = {c1}
    Workers = {w1, w2}
    Kinds <- RaceKinds
    Total = 2
    Grace = 1
    MaxDay = 0
    NoPayment = NoPayment
SYMMETRY Alike
INVARIANTS
    TypeOK
    OneEntryPerPayment
    
