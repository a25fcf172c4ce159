SPECIFICATION Spec
CONSTANTS
    User = "xk6"
    Group = "xk6"
    Ids <- MCIds
    Users <- MCUsers
    Groups <- MCGroups
    Passwd <- MCPasswd
    Etc <- MCEtc
    Files <- MCFiles
    Walked <- MCWalked
    Owner <- MCOwner
    MaxCrashes = 0
    MaxFaults = 0
    MaxStarts = 1
INVARIANT OldGidRemoved
CHECK_DEADLOCK FALSE
