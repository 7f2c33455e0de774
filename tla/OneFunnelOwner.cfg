CONSTANTS
    PodA = a
    PodB = b
    NoPod = NoPod
SPECIFICATION Spec
INVARIANT OneFunnelOwner
