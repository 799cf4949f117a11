CONSTANTS
    None = None
    Messages = {m1, m2, m3}
    Requests = {r1, r2}
    SpecRequests = {r1}
    MsgCap = 1
    Topics <- MCTopics
    RpcNodes = 2
SPECIFICATION FairSpec
CHECK_DEADLOCK FALSE
INVARIANTS
    TypeOK
    RequestsSettled
    StopsInOrder
    HandlersGoOn
PROPERTIES
    HandlersCountDown
    KeepsAcceptances
    ArrivedIsSettled
    CancelledEndsBoth
