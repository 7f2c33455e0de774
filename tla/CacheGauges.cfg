\* MaxAge > TTL + FetchTimeout and FetchTimeout < TTL.
CONSTANTS
    TTL = 2
    MaxAge = 4
    FetchTimeout = 1
    HandlerDelay = 0
    Second = 1
    Versions = 2
    Horizon = 11
    RecordDelay = 1
    Skew = 1
SPECIFICATION GaugesSpec
INVARIANTS
    GaugesTypeOK
    SingleMissTolerated
    GaugeTracksReady
    KeysGaugeTruthful
