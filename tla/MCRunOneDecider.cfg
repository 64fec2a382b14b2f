SPECIFICATION Spec
CONSTANTS
    Orch = orch
    Deciders = {d1}
    Executors = {e1, e2}
    NumAssets = 1
PROPERTIES
    KeepsPromise
    TableRespected
