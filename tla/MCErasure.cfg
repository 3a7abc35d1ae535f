CONSTANTS
  p1 = p1
  p2 = p2
  h1 = h1
  h2 = h2
  Free = Free
  Orphan = Orphan
  Procs <- TwoProcs
  Host <- TwoHosts
  MaxTurns = 3
  MaxOutages = 2
  MaxFailures = 1
  MaxLapses = 1
SPECIFICATION Spec
INVARIANTS
  TypeOK
  KeyOutlivesRows
  WithdrawnIsRecorded
  ErasedAsRequested
