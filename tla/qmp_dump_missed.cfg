SPECIFICATION FairSpec
CONSTANTS
    Clients = {"dump"}
    Script <- DumpScript
    Deadline = {}
    Events <- QmpEvents
    Spontaneous = {"GUEST_PANICKED"}
    Answers = {"return"}
    RespCap = 2
    MaxEvents = 0
    Nobody = Nobody
PROPERTY
    FollowUpSeen
