\* FetchTimeout above TTL, as the configuration allows (TTL >= 5s, timeout
\* 10s): fetches overrun ticks.  Half-second units.
CONSTANTS
    TTL = 2
    MaxAge = 2
    FetchTimeout = 3
    RecordDelay = 1
    HandlerDelay = 1
    Second = 2
    Versions = 2
    Horizon = 12
SPECIFICATION Spec
INVARIANTS
    TypeOK
    BoundedExposure
