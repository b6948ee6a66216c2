SPECIFICATION FairSpec
CONSTANTS
    Depth = 1
    CmdDepth = 1
    SemMax = 3
    PendingMax = 2
    MaxFrames = 2
    MaxRejects = 2
INVARIANTS PipelineOwnership NoLostWakeup FramesAccounted
PROPERTIES StopCompletes WorkServed
