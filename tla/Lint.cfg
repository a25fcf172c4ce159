SPECIFICATION Spec
CONSTANTS
    Options <- MCOptions
    Extensions <- MCExtensions
    GoMods = {"unreadable", "headless", "plain", "replace"}
    MaxEdits = 1
    MaxFaults = 2
INVARIANTS
    TypeOK
    OneReading
    TempIsKept
    ReportIsThere
PROPERTIES
    ReportSpec
CHECK_DEADLOCK FALSE
