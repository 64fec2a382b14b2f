CONSTANTS
    Nodes <- GateNodes
    Rank <- GateRank
    Edges <- GateEdges
    Override = {}
    Gates = {"gate"}
    MaxAttempts <- OneEach
    Processes = {"server", "cli"}
    Host = "server"
    Stages <- NoStages
    Checkpoint = "none"
    DiskMayFail = FALSE
    NoNode = "none"
SPECIFICATION Spec
INVARIANTS
    GateHolds
    RecordInOrder
PROPERTIES
    FinishExplained
CHECK_DEADLOCK FALSE
