SPECIFICATION Spec
CONSTANTS
    MaxEvents = 2
    MaxIdentities = 1
    PageSize = 1
    IdentityPageSize = 1
    MaxArrivals = 1
    MaxFaults = 1
INVARIANTS
    RollupExactlyOnce
    EveryCommitIsTargeted
    IdentityExactlyOnce
    ArchivedIsAggregated
PROPERTIES
    EventsReachRollups
    EventsReachIdentities
CHECK_DEADLOCK FALSE
