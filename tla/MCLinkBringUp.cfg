SPECIFICATION BringUpFairSpec
CONSTANTS
    Margin = 6
    MaxOptions = 2
    LinkWidth = 4
    Links <- MCLinks
    BandSweeps <- MCSweeps
    NoiseP95 <- MCNoise
    Peaks <- MCPeaks
    LogLimit = 4
    MaxRuns = 2
INVARIANTS
    TunedTogether
PROPERTIES
    MeasuresRight
    EveryRunEnds
CHECK_DEADLOCK FALSE
