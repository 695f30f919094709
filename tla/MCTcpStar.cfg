SPECIFICATION FairSpec
CONSTANTS
  Clients <- MCClients
  StepLimits <- MCStepLimits
  Spoilings <- MCSpoilings
  MayCrash <- MCMayCrash
INVARIANTS
  AnswerIsOfMyRound
  FullRoundUnlessLate
  HubOutlivesClients
PROPERTIES
  EndsUnlessAbandoned
CHECK_DEADLOCK FALSE
