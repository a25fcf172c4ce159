SPECIFICATION FairSpec
CONSTANTS
    MaxMajor = 5
    MaxMinor = 1
    MaxFaults = 1
    Requests <- AllRequests
INVARIANTS
    TypeOK
    PlanAgrees
    LatestNotStale
    ChoiceIsEarned
PROPERTIES
    Resolves
