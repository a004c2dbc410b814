SPECIFICATION Spec
CONSTANTS
    AuthFiles = {a}
    Providers = {}
    Requests = {r1}
    MaxGen = 2
    MaxFaults = 1
PROPERTIES
    Converges
CHECK_DEADLOCK FALSE
