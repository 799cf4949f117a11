CONSTANTS
    None = None
    Messages = {m1, m2, m3}
    Requests = {r1}
    SpecRequests = {r1}
    MsgCap = 1
    Topics <- MCTopics
    RpcNodes = 1
SPECIFICATION FairSpec
CHECK_DEADLOCK FALSE
PROPERTIES
    CommandsFirst
