SPECIFICATION FairSpec
CONSTANTS
    MaxRounds = 2
    MaxBlocks = 2
    MaxSteps = 2
    MaxInterrupts = 2
    MaxFaults = 1
INVARIANTS
    TypeOK
    RunsItsOwnBuild
    OutputIsSound
    LeavesNothing
PROPERTIES
    InterruptEnds
CHECK_DEADLOCK FALSE
