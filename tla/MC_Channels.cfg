SPECIFICATION SumSpec
CONSTANTS
    Depth = 4
    IndexSpan = 8
    Values = {v1, v2}
    Torn = Torn
    CmdDepth = 2
    Levels = {1, 2, 3}
    TargetLevels = {1, 2}
    LimiterLevels = {2, 3}
    HasAgc = TRUE
    ConvergedFrames = 2
    MaxCount = 2
    PreRoll = 1
    PostRoll = 1
    Kinds = {miss, failure}
    NoKind = NoKind
    MaxFrames = 7
    EventDepth = 2
    Severities = {1, 2, 3}
    TriggerSeverity = 2
    CriticalMax = 2
    MaxEvents = 3
    WordSpan = 3
    SeqSpan = 6
    Deltas = {1, 2, 4, 8}
INVARIANTS SlotExclusive AdmissionSound ToldExactly ReadCoherent DumpFaithful FreezesInTime EventsAccounted
PROPERTIES FifoRefined
