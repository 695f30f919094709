SPECIFICATION MCSpec
CONSTANTS
    Last <- MCLast
    Media <- MCMedia
    MaxSteps = 2
    MayCrash <- MCMayCrash
INVARIANTS
    AdoptsItsAnswerUnlessSpoiled
    DoneAfterUpstream
PROPERTIES
    EndsUnlessOnAir
    InOneProcess
CHECK_DEADLOCK FALSE
