SPECIFICATION Spec
CONSTANTS
    AuthFiles = {a}
    Providers = {}
    Requests = {r1}
    MaxGen = 1
    MaxFaults = 1
PROPERTIES
    FailedSyncIsRetried
CHECK_DEADLOCK FALSE
