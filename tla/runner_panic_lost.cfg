SPECIFICATION Spec
CONSTANTS
    N = 2
    P = 0
    ActionDelay = TRUE
    HasHandler = TRUE
    Stubborn = {1}
    ShutdownSteps = {}
    DiskFails = FALSE
PROPERTY
    PanicFailsStep
