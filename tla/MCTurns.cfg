CONSTANTS
  w1 = w1
  w2 = w2
  k1 = k1
  k2 = k2
  Free = Free
  Orphan = Orphan
  Workers <- MCWorkers
  Keys <- MCKeys
  MaxRequests = 3
  MaxFailures = 1
  MaxLapses = 1
SPECIFICATION FairSpec
CHECK_DEADLOCK FALSE
INVARIANTS
  TypeOK
  TurnsAreConsistent
PROPERTIES
  ImplementsTurnLog
  CheckpointAdvances
  SessionReopens
