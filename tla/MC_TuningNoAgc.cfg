SPECIFICATION Spec
CONSTANTS
    CmdDepth = 2
    Levels = {1, 2, 3}
    TargetLevels = {1, 2}
    LimiterLevels = {2, 3}
    HasAgc = FALSE
INVARIANTS   StartRefusalJustified
