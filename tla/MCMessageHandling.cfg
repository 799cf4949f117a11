SPECIFICATION FairSpec
CONSTANTS
    Peer = {"rpc", "peer"}
    NoPeer = "none"
    Garbage = "garbage"
    Bootstrap = {"peer", "none"}
    Relay = {"peer"}
    Responses <- MCResponses
    Model = {"llama", "gpt"}
    ProviderOf <- MCProviderOf
    Models <- MCModels
    Messages <- MCMessages
    Requests <- MCRequests
    PingLiveness = 1
    MaxClock = 2
    MaxInbox = 2
    MaxEvents = 2
INVARIANTS
    TypeOK
PROPERTIES
    EffectsVouched
    VerdictsByMerit
    WarnsOfSilence
    StalledOnlyByApis
    LostRpcIsDialled
CHECK_DEADLOCK FALSE
