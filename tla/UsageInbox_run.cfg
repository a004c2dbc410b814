SPECIFICATION Spec
CONSTANTS
    MaxRows = 3
    Limit = 2
    MaxAttempts = 2
    MaxFaults = 3
INVARIANTS
    OneEventPerRow
    StatusAgreesWithEvents
PROPERTIES
    AttemptsArePaced
    FeedSpec
    EveryRowSettles
