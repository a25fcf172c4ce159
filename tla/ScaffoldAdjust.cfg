SPECIFICATION Spec
CONSTANTS
    Releases = {1, 2}
    MaxRuns = 3
    MaxFaults = 2
INVARIANTS
    AdjustIsWhole
CHECK_DEADLOCK FALSE
