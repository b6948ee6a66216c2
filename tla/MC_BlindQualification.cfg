SPECIFICATION Spec
CONSTANTS
    MaxRuns = 2
    MaxFaults = 1
INVARIANT AdmittedOnly
CHECK_DEADLOCK FALSE
