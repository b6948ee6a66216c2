SPECIFICATION Spec
CONSTANTS
    None = None
    Versions = {1, 2}
    MaxRegression = 1
    Metric = {0, 1, 2}
    MaxChanges = 1
    MaxDeaths = 1
INVARIANTS IndexSealed
CHECK_DEADLOCK FALSE
