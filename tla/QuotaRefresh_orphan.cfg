SPECIFICATION Spec
CONSTANTS
    AuthIndex = {a1, a2}
    Manual = {m1}
    Inspector = {}
    WorkerLimit = 1
    LateErrors = TRUE
    MaxIds = 3
    MaxEvents = 2
INVARIANT
    QueuedTaskHasAnOwner
