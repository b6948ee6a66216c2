SPECIFICATION SumSpec
CONSTANTS
    Files = {f1, f2}
    Contents = {c1, c2}
    Absent = Absent
    Runs = {run, earlier}
    Run = run
    Prs = {1, 2, 3}
    MaxVersion = 3
    MaxUpdates = 1
    Sites = {s1, s2}
    MaxMain = 2
    MaxPushes = 2
    MaxCommits = 3
INVARIANTS RestoredIsSnapshot MergedOnFullChecks SkipEarned PlanKept
CHECK_DEADLOCK FALSE
