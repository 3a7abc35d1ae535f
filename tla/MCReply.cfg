CONSTANTS
  None = None
  law = law
  wording = wording
  plan = plan
  rival = rival
  needs = needs
  v1 = v1
  Chunks = {law, wording}
  Domain <- MCDomain
  Products = {plan, rival}
  Needs = needs
  Says <- MCSays
  Texts <- MCTexts
  Rankings <- MCRankings
  Values = {v1}
  Focus = {plan}
  OfferAfter = 2
  Pilot = TRUE
  MaxTurns = 2
SPECIFICATION FairSpec
CHECK_DEADLOCK FALSE
INVARIANTS
  TypeOK
  ReleaseIsSound
  OptionsWereShown
PROPERTIES
  TurnEnds
