SPECIFICATION SumSpec
CONSTANTS
    None = None
    MaxCases = 2
    Signals <- SomeSignals
    Traces <- SomeTraces
    Values = {0, 2}
    MinSpan = 2
    Radius = 1
    All = All
    Runs <- MCRuns
    Jobs = 2
    MayCrash = TRUE
    MaxRuns = 2
    MaxFaults = 1
    Seeds = {1, 2}
    Pools <- SomePools
    SourceMaxRuns = 2
    MaxEdits = 1
    MaxFailures = 1
INVARIANTS ValidationSound SearchSound VerdictEarned CandidateOnQualified
PROPERTIES EverySearchEnds
CHECK_DEADLOCK FALSE
