\* The defaults 60s, 60s and 10s, in units of ten seconds.
CONSTANTS
    TTL = 6
    MaxAge = 6
    FetchTimeout = 1
    RecordDelay = 0
    HandlerDelay = 0
    Second = 1
    Versions = 1
    Horizon = 20
SPECIFICATION Spec
INVARIANT SingleMissTolerated
