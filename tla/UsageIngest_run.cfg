SPECIFICATION Spec
CONSTANTS
    MaxMsgs = 3
    Kinds = {"usage", "refresh", "blank"}
    BatchSize = 2
    MaxFaults = 2
    MaxShutdowns = 1
INVARIANTS
    OneHome
    PerSourceOrder
PROPERTIES
    BatchRetained
    BacklogDrains
    ShutdownTerminates
CHECK_DEADLOCK FALSE
