CONSTANTS
  None = None
  term = term
  rop = rop
  std = std
  own = own
  over = over
  Plans = {term, rop}
  Terms = {std, own, over}
  Offered <- MCOffered
  Unpriced = {rop}
  Bounds <- MCBounds
  ValidFor = 1
  MaxDay = 2
  MaxMoves = 2
  MaxTurns = 4
  MaxFaults = 2
SPECIFICATION Spec
CHECK_DEADLOCK FALSE
INVARIANT
  OneApplication
