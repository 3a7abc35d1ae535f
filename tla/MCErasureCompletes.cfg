CONSTANTS
  p1 = p1
  p2 = p2
  h1 = h1
  h2 = h2
  Free = Free
  Orphan = Orphan
  Procs <- TwoProcs
  Host <- OneHost
  MaxTurns = 3
  MaxOutages = 2
  MaxFailures = 0
  MaxLapses = 0
SPECIFICATION FairSpec
PROPERTIES
  
  ErasureCompletes
  TurnsEnd
