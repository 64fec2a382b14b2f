CONSTANTS
    Polls = {p1, p2}
    Linked = {legacy}
    FetchLimit = 2
    AutoRepair = TRUE
    MaxRetries <- Strategies
    MaxDue = 1
    MaxRuns = 2
    MaxClears = 1
SPECIFICATION Spec
INVARIANTS
    TypeOK
    RepairedOnce
    RepairsTell
PROPERTIES
    RepairsSettle
