SPECIFICATION Spec
CONSTANTS
    MaxMsgs = 2
    Kinds = {"usage"}
    BatchSize = 2
    MaxFaults = 0
    MaxShutdowns = 1
INVARIANT
    ShutdownFlushesBatch
CHECK_DEADLOCK FALSE
