SPECIFICATION SumSpec
CONSTANTS
    None = None
    Partial = Partial
    Versions = {1, 2}
    Members <- SomeMembers
    MinCases = 2
    MaxChanges = 1
    MaxDeaths = 1
    MaxRegression = 1
    Metric = {0, 1, 2}
    Seeds = {7, 8}
    Roles = {"clean", "noise"}
    Domains = 7
    Mixes = 16
    Noises = 9
    Cases = {1, 2}
    BuiltMaxChanges = 2
    Boards = {"b1", "b2", "bad"}
    Valid = {"b1", "b2"}
    RouteOf <- SomeRoutes
    Counts = {0, 1, 6}
    Sources = {1, 2}
    Configs = {1, 2}
    Replays = {7, 8}
    MaxAgain = 1
    MaxFaults = 5
    MaxJobs = 2
    MaxEdits = 1
    Weak = 1
    Strong = 2
    VeryStrong = 3
    Budget = 1
    Regression = 60
    FalseRise = 50
    PublicFalseRise = 40
    MaxFrames = 5
    MaxCorpora = 1
    Never = 100
    Tolerance = 1
    MinScore = 2
    MinTuning = 1
    MinFaster = 2
    Alternatives = {"A"}
    DevReports <- SomeDev
    HoldoutReports <- SomeHoldouts
    BuildReports <- SomeBuilds
    Halves = 6
    HoldLength = 4
    Energies <- SomeEnergies
    Stages <- SomeStages
    Compared = {"NS", "full"}
    FreshSeeds = {7, 8}
    MinNonWorse = 1
    MinDelta = 1
INVARIANTS NoContraction PatchConforms TailBounded ConfirmedDetectsMore StageEarned LabDataKept PublicDataBound CorpusSound BundlesSound RecoverySound
CHECK_DEADLOCK FALSE
