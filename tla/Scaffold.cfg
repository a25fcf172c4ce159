SPECIFICATION Spec
CONSTANTS
    Releases = {1, 2}
    MaxRuns = 3
    MaxFaults = 2
INVARIANTS
    TypeOK
    NewIsWhole
    OthersAreKept
    AdjustAllOrNothing
CHECK_DEADLOCK FALSE
