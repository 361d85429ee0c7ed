SPECIFICATION FairSpec
CONSTANTS
    Clients = {"handler", "resume"}
    Script <- ResumeScript
    Deadline = {}
    Events <- QmpEvents
    Spontaneous = {"GUEST_PANICKED"}
    Answers = {"return"}
    RespCap = 2
    MaxEvents = 1
    Nobody = Nobody
PROPERTY
    ExecuteReturns
