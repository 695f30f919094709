SPECIFICATION MCSpec
CONSTANTS
    Preparers <- PreparersRun
    Asked <- AskedRun
    Plans <- PlansRun
    HostKeys <- HostsRun
    Sweeps <- SweepsRun
    Prior <- PriorRun
    MaxClock = 2
    MaxFaults = 1
INVARIANTS
    ResolvesRight
    PathKeepsSurvey
PROPERTIES
    InventorySettles
    EditsSurvive
CHECK_DEADLOCK FALSE
