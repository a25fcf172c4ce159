SPECIFICATION Spec
CONSTANTS
    Options <- MCOptions
    Extensions <- MCExtensions
    GoMods = {"unreadable", "headless", "plain", "replace"}
    MaxEdits = 0
    MaxFaults = 2
CHECK_DEADLOCK FALSE
INVARIANTS
    TwoMeansFailed
