\* Two instances: an old one and the one that replaces it.
CONSTANTS
    n1 = n1
    n2 = n2
    Nodes = {n1, n2}
    NoNode = NoNode
    BackoffBase = 1
    BackoffMax = 3
    CheckHost = TRUE
SPECIFICATION Spec
INVARIANTS
    TypeOK
    NoNodeLeaks
    VerifiedBeforeServing
    ReadyMeansServing
PROPERTIES
    RequestsDrained
    LoginLossNoticed
    ImplementsEndpoint
    Recovers
