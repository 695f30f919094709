SPECIFICATION MediaFairSpec
CONSTANTS
  Agents <- MCAgents
  AP <- MCAP
  Slots <- MCSlots
  MaxTicks = 3
  Steps = 2
  Kinds <- MCKinds
  Algorithms = {"a2c", "dppo", "ctde"}
  QMax = 2
  TLen = 2
  SIFS = 1
  DIFS = 2
  ACK = 1
  CWMin = 1
  CWMax = 4
  NumS = 12
  NumE = 2
  NumB = 2
INVARIANTS
  NoTickBeforeHello
  DeliveriesAreDecodes
  MediaBehave
  LearnsThisEpisode
PROPERTIES
  EveryAgentEnds
CHECK_DEADLOCK FALSE
