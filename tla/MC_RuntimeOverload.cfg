SPECIFICATION OverloadSpec
CONSTANTS
    Depth = 2
    CmdDepth = 1
    SemMax = 12
    PendingMax = 2
    MaxFrames = 10
    MaxRejects = 8
INVARIANT RejectionBacklogBounded
