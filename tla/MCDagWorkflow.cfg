CONSTANTS
    Nodes <- LeadNodes
    Rank <- LeadRank
    Edges <- LeadEdges
    Override = {}
    Gates = {}
    MaxAttempts <- LeadBudget
    Processes = {"server"}
    Host = "server"
    Stages <- LeadStages
    Checkpoint = "governance"
    DiskMayFail = TRUE
    NoNode = "none"
SPECIFICATION Spec
INVARIANTS
    StatusDerived
    NeverStuck
CHECK_DEADLOCK FALSE
