SPECIFICATION FairSpec
CONSTANTS
  NumChunks = 3
  MaxAttempts = 4
  GraceTimeouts = 2
  AckMayBeLost = TRUE
  QueueCap = 3
INVARIANTS
  AckedChunksAreHeld
  SuccessIsDelivery
  GraceClosesLastChunk
PROPERTIES
  PromiseKept
  SourceReports
CHECK_DEADLOCK FALSE
