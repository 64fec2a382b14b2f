CONSTANTS
    r1 = r1
    r2 = r2
    r3 = r3
    Deliverables = {"brief", "post"}
    OfRun = {"post"}
    Requests = {r1, r2, r3}
    SaveMayFail = TRUE
    MaxCalls = 6
    MaxDeaths = 1
SPECIFICATION Spec
SYMMETRY Symmetric
INVARIANTS
    OneMover
    ArtifactNearRecord
    PublishedRootApproved
PROPERTIES
    RecordCatchesUp
CHECK_DEADLOCK FALSE
