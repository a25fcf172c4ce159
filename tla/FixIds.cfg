SPECIFICATION Spec
CONSTANTS
    User = "xk6"
    Group = "xk6"
    Ids <- MCIds
    Users <- MCUsers
    Groups <- MCGroups
    Passwd <- MCPasswd
    Etc <- MCEtc
    Files <- MCFiles
    Walked <- MCWalked
    Owner <- MCOwner
    MaxCrashes = 2
    MaxFaults = 1
    MaxStarts = 3
INVARIANTS
    TypeOK
    AccountsAreSound
    OwnersAreRight
    RunsAsCaller
    FatalIsEarned
CHECK_DEADLOCK FALSE
