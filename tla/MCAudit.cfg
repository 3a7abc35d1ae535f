CONSTANTS
  Sessions = {s1}
  Writers = {w1, w2}
  Jobs = {j1, j2}
  Free = free
  ClosedOnly = FALSE
  LastDay = 2
  MaxEvents = 3
  MaxFaults = 1
  MaxDossiers = 1
SPECIFICATION Spec
SYMMETRY Symmetry
INVARIANTS
  TypeOK
  Chained
  NeverRefused
  
CHECK_DEADLOCK FALSE
