SPECIFICATION Spec
CONSTANTS
    AuthIndex = {a1, a2}
    Manual = {m1}
    Inspector = {i1, i2}
    WorkerLimit = 2
    LateErrors = FALSE
    MaxIds = 3
    MaxEvents = 3
INVARIANTS
    NoDuplicateUpstreamCall
    CompletedInspectionIsSettled
PROPERTIES
    EveryTaskSettles
    AutoRoundEnds
