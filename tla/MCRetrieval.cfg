CONSTANTS
  pr0 = pr0
  pr1 = pr1
  la1 = la1
  la2 = la2
  prod = prod
  lawOld = lawOld
  lawNew = lawNew
  m1 = m1
  m2 = m2
  None = None
  Chunks <- MCChunks
  Collection <- MCCollection
  Size <- MCSize
  Id <- MCId
  Ancestors <- MCAncestors
  Rules <- MCRules
  ProductStates = {"S3"}
  Keep = 3
  Budget = 3
  EnvelopeBudget = 1
  Snapshots <- MCSnapshots
  Holds <- MCHolds
  Releases <- MCReleases
  Recorded <- MCRecorded
  EmbedModels = {m1, m2}
  RerankModels = {m1, m2}
  CalibratedFor = m1
  Calibrated <- MCSnapshots
  Threshold <- MCThreshold
  DegradedFactor = 2
  Questions <- MCQuestions
  MaxScore = 2
  FirstServed <- MCServed
  MaxMoves = 1
SPECIFICATION FairSpec
INVARIANTS
  TypeOK
  EvidenceIsReleased
  AnswersAreEarned
PROPERTIES
  BuildCompletes
