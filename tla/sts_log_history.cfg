SPECIFICATION Spec
CONSTANTS
    m1 = m1
    m2 = m2
    m3 = m3
    Threads = {t1}
    NoThread = NoThread
    Nothing = Nothing
    LogFiles <- TheLogFiles
    DiskMayFail = FALSE
    EnableSoapMessageLog = TRUE
    Messages <- ConcurrentMessages
    DefaultTokenLifetime = 1
    MaximumTokenLifetime = 2
    MaxClockSkew = 1
    ConfirmationLifetime = 6
    ChannelClockSkew = 1
    BaseNameClaims = 1
    MaxTime = 1
INVARIANTS
    AllRequestsAreStored
