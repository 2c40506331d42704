\* The clients run out of messages and the clock stops at its bound.
CHECK_DEADLOCK FALSE
SPECIFICATION FairSpec
CONSTANTS
    Threads = {t1, t2}
    NoThread = NoThread
    Nothing = Nothing
    LogFiles <- TheLogFiles
    DiskMayFail = TRUE
    Requests <- SomeRequests
    ForeignTokens <- SomeForeignTokens
    MaxTokens = 1
    Pings <- ThePings
    Headers <- MatchingOrMissing
    PingIds = {1, 2}
    PingValidity = 1
    ServiceClockSkew = 1
    DefaultTokenLifetime = 1
    MaximumTokenLifetime = 3
    MaxClockSkew = 0
    ConfirmationLifetime = 2
    BaseNameClaims = 1
    MaxTime = 2
INVARIANTS
    TypeOK
    PingedAtMostOnce
    PingsAreEntitled
    ConfirmationHoldsUnchecked
PROPERTIES
    PingsAreAnswered
    ImplementsPingPromise
