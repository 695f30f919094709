SPECIFICATION MCSpec
CONSTANTS
  K = 3
  Rounds = 2
  Kinds <- MCKinds
  Deaths = 1
  N = 2
  Variants <- MCVariants
  Epochs = 2
  QCap = 1
  Crashes = 1
INVARIANTS
  RoundsAgree
  TrueIsEarned
PROPERTIES
  EveryProgramEnds
\* programs end
CHECK_DEADLOCK FALSE
