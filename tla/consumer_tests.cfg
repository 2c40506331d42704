\* Every test ends and the clock stops at its bound.
CHECK_DEADLOCK FALSE
SPECIFICATION FairHostSpec
CONSTANTS
    Threads = {t1}
    NoThread = NoThread
    Nothing = Nothing
    LogFiles <- TheLogFiles
    DiskMayFail = TRUE
    EnableSoapMessageLog = TRUE
    Consumers = {c1}
    Plans <- Tests
    EnableClientLog = TRUE
    ShortDelay = 2
    LongDelay = 4
    Messages <- PlannedMessages
    DefaultTokenLifetime = 1
    MaximumTokenLifetime = 2
    MaxClockSkew = 1
    ConfirmationLifetime = 6
    ChannelClockSkew = 2
    BaseNameClaims = 1
    MaxTime = 5
INVARIANTS
    ConsumerTypeOK
    ReplayGetsOneToken
    TestsGetWhatTheyAssert
PROPERTIES
    EveryRequestIsAnswered
    RefusalsHaveACause
