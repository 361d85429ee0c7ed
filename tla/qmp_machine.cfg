SPECIFICATION FairSpec
CONSTANTS
    Clients = {"handler", "test"}
    Script <- SessionScript
    Deadline = {"test"}
    Events <- QmpEvents
    Spontaneous = {"GUEST_PANICKED"}
    Answers = {"return", "error"}
    RespCap = 1
    MaxEvents = 1
    Nobody = Nobody
INVARIANTS
    TypeOK
    ListenersOpen
    LagBound
PROPERTIES
    DeadlinesHold
    ExitReleasesEveryone
    WaitSeesEvent
    ResponsesInOrder
