SPECIFICATION Spec
CONSTANTS
  Tenants = {1, 2}
  Meter0 = 3
  Uses <- TwoUses
  LastDay = 2
  Kinds <- AllKinds
INVARIANTS
  TypeOK
  CyclesDoNotOverlap
  
  FairShare
  
CHECK_DEADLOCK FALSE
