SPECIFICATION Spec
CONSTANTS
    K6 = "k6"
    Modules <- MCModules
    K6Mods <- MCK6Mods
    Needs <- MCNeeds
    MaxVersion = 2
    MaxRuns = 2
    MaxEdits = 1
    MaxFaults = 1
INVARIANTS
    TypeOK
    AllOrNothing
    ReportIsTrue
    DefaultKeepsOthers
PROPERTIES
    EditsSurvive
CHECK_DEADLOCK FALSE
