CONSTANTS
    Nodes = {n1, n2}
    NoNode = NoNode
    BackoffBase = 1
    BackoffMax = 1
    CheckHost = TRUE
    Self = a
    Others = {}
    NoPod = NoPod
    LeaderElection = FALSE
    HealthFaults = TRUE
SPECIFICATION BridgeSpec
PROPERTIES
    ImplementsProcess
    NoRequestCut
    ExitLeavesNoNode
    SignalEndsBridge
