SPECIFICATION FairSpec
CONSTANTS
    Peer = {"rpc", "peer"}
    NoPeer = "none"
    Garbage = "garbage"
    Bootstrap = {"peer", "none"}
    Relay = {"peer"}
    Responses <- MCResponses
    Model = {"llama", "gpt"}
    ProviderOf <- MCProviderOf
    Models <- MCModels
    Messages <- MCTopicMessages
    Requests <- MCRequests
    PingLiveness = 1
    MaxClock = 2
    MaxInbox = 2
    MaxEvents = 2
INVARIANTS
    TopicsExhausted
CHECK_DEADLOCK FALSE
