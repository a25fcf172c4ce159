SPECIFICATION FairSpec
CONSTANTS
    Globs <- MCGlobs
    MaxRuns = 2
    MaxLines = 2
    PipeSize = 1
    MaxFaults = 1
INVARIANTS
    TypeOK
    ResultsAreEarned
    ReportIsRight
    NothingIsLeft
PROPERTIES
    Terminates
CHECK_DEADLOCK FALSE
