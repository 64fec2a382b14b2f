SPECIFICATION Spec
CONSTANTS
    Orch = orch
    Deciders = {d1, d2}
    Executors = {e1}
    NumAssets = 2
SYMMETRY Slots
INVARIANTS
    PublishedOnlyAfterApproval
    RecordCoherent
    RevisionCountExact
    ExecutedMeansWritten
PROPERTIES
    DecidedStaysDecided
