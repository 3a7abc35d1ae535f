CONSTANTS
  s1 = s1
  s2 = s2
  None = None
  Sessions <- MCSessions
  MaxAsks = 4
  MaxFaults = 2
SPECIFICATION FairSpec
CHECK_DEADLOCK FALSE
INVARIANTS
  TypeOK
  ScreenIsHonest
PROPERTIES
  ImplementsDialogue
  EraseIsSent
