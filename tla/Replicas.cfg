CONSTANTS
    PodA = a
    PodB = b
    NoPod = NoPod
SPECIFICATION Spec
INVARIANTS OverlapOnlyInHandover OneLeaderzOutsideYielding
PROPERTY EachPodConforms
