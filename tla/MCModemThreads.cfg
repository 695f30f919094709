SPECIFICATION FairSpec
CONSTANTS
  Roles <- AllRoles
  NumChunks = 2
  Reps = 2
  MaxBursts = 2
  Parts = 2
  MaxErrors = 2
  MaxFaults = 2
  Sessions = 2
  LeftOut <- MCLeftOut
INVARIANTS
  EveryBurstLeaves
  QuietAfterStop
  SoftLag
PROPERTIES
  ModemEnds
\* processes end
CHECK_DEADLOCK FALSE
