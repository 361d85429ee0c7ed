SPECIFICATION Spec
CONSTANTS
    Clients = {"handler", "test"}
    Script <- StaleScript
    Deadline = {}
    Events <- QmpEvents
    Spontaneous = {"GUEST_PANICKED"}
    Answers = {"return"}
    RespCap = 2
    MaxEvents = 1
    Nobody = Nobody
INVARIANT
    OwnResponse
