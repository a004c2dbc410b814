SPECIFICATION Spec
CONSTANTS
    AuthFiles = {a}
    Providers = {p}
    Requests = {r1, r2}
    MaxGen = 2
    MaxFaults = 0
PROPERTIES
    SnapshotNeverRollsBack
    OwnChangesStay
CHECK_DEADLOCK FALSE
