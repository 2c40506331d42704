\* The description is finished once every endpoint is exported, or one has failed.
CHECK_DEADLOCK FALSE
SPECIFICATION Spec
CONSTANTS
    Contracts = {"IWSTrustFeb2005Async", "IWSTrust13Async", "IWSTrust13Sync"}
    Transports <- SomeTransports
INVARIANTS
    BindingsImplementPortTypes
    NothingDangles
    FailedExportsHaveACause
PROPERTIES
    EarlierExportsStay
