CONSTANTS
  u1 = u1
  u2 = u2
  h1 = h1
  h2 = h2
  NoHash = NoHash
  Uins <- MCUins
  Hashes <- MCHashes
  TypicalFacts <- MCTypicalFacts
  Values <- MCValues
  MaxSignals = 2
  RediscoveryLoopLimit = 2
  LowConfidenceStreakLimit = 2
SPECIFICATION DecisionSpec
CHECK_DEADLOCK FALSE
INVARIANTS
  DecisionTyped
  EntrySafe
  ErasureFirst
  HandOffEarned
