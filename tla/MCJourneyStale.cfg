CONSTANTS
  plan = plan
  h1 = h1
  h2 = h2
  p1 = p1
  p2 = p2
  p3 = p3
  NoHash = NoHash
  NoProfile = NoProfile
  Uins <- MCUins
  Hashes <- MCHashes
  Profiles <- MCProfiles
  EligibilityOf <- MCEligibilityOf
  SuitabilityOf <- MCSuitabilityOf
  RediscoveryLoopLimit = 1
  LowConfidenceStreakLimit = 1
  MaxStack = 1
  FactsIn <- MCFactsIn
SPECIFICATION Spec
INVARIANT SuitabilityForProfile
CHECK_DEADLOCK FALSE
