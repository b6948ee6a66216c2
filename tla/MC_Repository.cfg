SPECIFICATION SumSpec
CONSTANTS
    MaxMain = 2
    MaxMeddling = 1
    MaxFailures = 1
    Branches = {b1, b2}
    None = None
    MaxPushes = 2
    MaxEdits = 2
    MaxPrs = 1
    MaxCrashes = 1
    MaxCommits = 2
INVARIANTS MergedAsVerified OnlyLateLost NothingConsumedRuns
PROPERTIES JobsEnd
CHECK_DEADLOCK FALSE
