\* Every test ends and the clock stops at its bound.
CHECK_DEADLOCK FALSE
SPECIFICATION FairSpec
CONSTANTS
    Threads = {t1, t2}
    Consumers = {c1}
    Nobody = Nobody
    JwtCvr = JwtCvr
    JwtClockSkew = 1
    JwtLifetime = 1
    Certificates = {"client", "client 2"}
    Plans <- AllPlans
    Calls <- TheCalls
    OtherCalls <- SomeOtherCalls
    MaxTime = 3
INVARIANTS
    OutcomeIsDue
    TypeOK
    CongratulationsAreDue
PROPERTIES
    EveryTestEnds
    ImplementsRestPromise
