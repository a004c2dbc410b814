SPECIFICATION Spec
CONSTANTS
    MaxMsgs = 2
    Kinds = {"usage"}
    BatchSize = 2
    MaxFaults = 1
    MaxShutdowns = 0
INVARIANT
    ArrivedEventsAreRead
CHECK_DEADLOCK FALSE
