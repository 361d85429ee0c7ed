SPECIFICATION FairSpec
CONSTANTS
    N = 3
    P = 2
    ActionDelay = TRUE
    HasHandler = TRUE
    Stubborn = {}
    ShutdownSteps = {3}
    DiskFails = TRUE
INVARIANTS
    TypeOK
    StatusTruthful
    PanicReal
    VerdictSaved
PROPERTIES
    OutcomeSpec
    OneStepAtATime
    RunEnds
