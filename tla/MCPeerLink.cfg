SPECIFICATION FairSpec
CONSTANTS
  N = 4
  Topologies <- MCTopologies
  StepLimits <- MCStepLimits
  MayGiveUp = TRUE
PROPERTIES
  PromiseKept
  EveryoneFinishes
CHECK_DEADLOCK FALSE
