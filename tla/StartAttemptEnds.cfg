CONSTANTS
    n1 = n1
    n2 = n2
    Nodes = {n1, n2}
    NoNode = NoNode
    BackoffBase = 1
    BackoffMax = 2
    CheckHost = TRUE
SPECIFICATION Spec
PROPERTY StartAttemptEnds
