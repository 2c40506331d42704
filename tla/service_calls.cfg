\* Every call ends and the clock stops at its bound.
CHECK_DEADLOCK FALSE
SPECIFICATION FairCallersSpec
CONSTANTS
    Threads = {t1, t2}
    NoThread = NoThread
    Nothing = Nothing
    LogFiles <- TheLogFiles
    DiskMayFail = FALSE
    Consumers = {c1, c2}
    PingIds = {c1, c2}
    Plans <- SomePlans
    EnableClientLog = TRUE
    Requests <- PlannedRequests
    Headers <- PlannedHeaders
    ForeignTokens <- NoForeignTokens
    Pings <- PlannedPings
    MaxTokens = 2
    PingValidity = 0
    ServiceClockSkew = 0
    DefaultTokenLifetime = 2
    MaximumTokenLifetime = 2
    MaxClockSkew = 0
    ConfirmationLifetime = 2
    BaseNameClaims = 1
    MaxTime = 1
INVARIANTS
    CallerTypeOK
    CallsEndAsDue
    RefusedCallsDoNotRun
    LoneCallIsLoggedFourTimes
PROPERTIES
    EveryCallEnds
    ImplementsPingPromise
