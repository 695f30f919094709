SPECIFICATION MCSpec
CONSTANTS
  K = 2
  Rounds = 2
  Kinds <- MCKinds
  Deaths = 0
  N = 2
  Variants <- MCVariants
  Epochs = 2
  QCap = 1
  Crashes = 1
INVARIANTS
  TrackTheServer
CHECK_DEADLOCK FALSE
