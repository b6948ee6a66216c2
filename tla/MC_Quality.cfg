SPECIFICATION SumSpec
CONSTANTS
    RecoverFrames = 4
    TrackingBuilt = TRUE
    MaxDelay = 16
    InitialDelay = 4
    Delays = {0, 14, 16}
    JumpLimit = 10
    Tolerance = 2
    MaxSlew = 1
    SearchPeriod = 2
    RenderNeeded = 2
    RolloverAt = 5
INVARIANTS MovesEarned DelayTrusted
PROPERTIES RouteEarnedAndKept AdaptationSettles
