CONSTANTS
    Self = a
    Others = {b}
    NoPod = NoPod
    LeaderElection = TRUE
    HealthFaults = TRUE
SPECIFICATION ProbesSpec
INVARIANTS
    TypeOK
    ProbesTypeOK
    LeaderzTruthful
    LeaderzAnswersTrue
PROPERTIES
    NilExitMeansSignal
    LossEndsProcess
    SurvivorServes
    GaugesConverge
