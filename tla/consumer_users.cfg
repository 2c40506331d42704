\* Every test ends and the clock stops at its bound.
CHECK_DEADLOCK FALSE
SPECIFICATION FairConsumerSpec
CONSTANTS
    Threads = {t1, t2}
    NoThread = NoThread
    Nothing = Nothing
    LogFiles <- TheLogFiles
    DiskMayFail = FALSE
    EnableSoapMessageLog = FALSE
    Consumers = {c1, c2}
    Plans <- ConcurrentPlans
    EnableClientLog = TRUE
    ShortDelay = 2
    LongDelay = 4
    Messages <- PlannedMessages
    DefaultTokenLifetime = 1
    MaximumTokenLifetime = 2
    MaxClockSkew = 1
    ConfirmationLifetime = 6
    ChannelClockSkew = 2
    BaseNameClaims = 1
    MaxTime = 1
INVARIANTS
    TokensReachTheirRequester
    TestsGetWhatTheyAssert
PROPERTIES
    EveryTestEnds
