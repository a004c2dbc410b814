SPECIFICATION Spec
CONSTANTS
    \* One auth file and a pending map of one place.
    HAuth = {"a1"}
    PendingLimit = 1
    MaxTime = 3
    MaxHeaders = 3
    MaxHEvents = 1
    Raw <- HeaderKinds
    \* One window role.
    Role = {"primary"}
    Tolerance = 1
    QueueSize = 2
    MaxObserved = 3
    MaxInputs = 3
    MaxHFaults = 1
    HistoryShape <- ObservedShapes
    \* A new session and one found in the table, two overlapping requests, two
    \* client addresses, one failure or crash.
    Token = {"t1", "v"}
    Legacy = {"v"}
    Req = {"q1", "q2"}
    Ip = {"x", "y"}
    TTL = 1
    MaxClock = 1
    MaxRequests = 2
    MaxSFaults = 1
    \* Three clients for a table of two, a window of two ticks passed twice.
    Client = {"c1", "c2", "c3"}
    LoginWindow = 2
    PerSourceLimit = 1
    GlobalLimit = 2
    MaxSources = 2
    MaxLTime = 3
    MaxAttempts = 5
    \* Hours of two ticks, days of four, a cache of three; the clock crosses
    \* midnight (16).
    Cred = {"c1", "c2"}
    Hour = 2
    Day = 4
    CacheWindow = 3
    RollHours = 4
    RollDays = 8
    DayThreshold = 8
    HealthSpan = 2
    HealthWindow = 4
    AppendQueue = 1
    PageSize = 1
    FirstClock = 15
    LastClock = 16
    MaxQEvents = 2
    MaxRestarts = 1
    QShape <- Arrivals
    RetryLimit = 2
    MaxPublished = 3
    MaxConnects = 3
    \* Days of six ticks; a daily interval and one of three ticks; one
    \* retry after two ticks, files kept for the day, three failed
    \* copies, cleanups or reads of the directory, one crash.
    DayLen = 6
    BackupHour = 1
    Intervals = {3, 6}
    RetryDelay = 2
    RetryAttempts = 1
    RetentionDays = 1
    MaxBClock = 8
    MaxBFaults = 3
    MaxBCrashes = 1
    \* Two models and two fields; amounts above 7 count as infinite, so a price
    \* of 1 doubled by its multiplier and by two rules is refused.
    Model = {"m1", "m2"}
    Field = {"f", "g"}
    Value = {"x", "y"}
    Finite = 7
    MaxTokens = 1
    PWriter = {"w1", "w2"}
    PReader = {"r1"}
    MaxChanges = 2
    MaxPCrashes = 1
    PriceInput <- PriceInputs
    RuleInput <- RuleInputs
    ListPrice <- ListPrices
    \* Two events in pages of one, of all formats, on an ordinary day and on one
    \* of a clock change, left by six releases; a cursor has passed none or the
    \* first; two raw keys that share an auth index, one that has two; one crash.
    MEvents = 2
    Page = 1
    Starts = {1, 2, 5, 8, 13, 14}
    Progress = {0, 1}
    MaxMCrashes = 1
    UpgradeShape <- StoredEvents
    Deleted <- DeletedSums
    \* One account with two grants and a credit, three requests, two faults or
    \* changes of the account.
    RAuth = {"a1"}
    Grant = {1, 2}
    RReq = {"d1", "d2", "d3"}
    MaxRFaults = 2
    Services = {"headers"}
PROPERTY
    CompletedNeverRollsBack
CHECK_DEADLOCK FALSE
