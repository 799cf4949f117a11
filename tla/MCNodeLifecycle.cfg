SPECIFICATION FairSpec
CONSTANTS
    Model = {"llama", "phi", "gpt", "flash", "qwen"}
    ProviderOf <- MCProviderOf
    MaxModels = 3
CHECK_DEADLOCK FALSE
INVARIANTS
    TypeOK
    ExitsAfterAll
    WorkersMatchModels
PROPERTIES
    SurvivorsOnly
    CheckCountsDown
    StuckCheckIsUntimed
    CancelledExits
    NodeEndsAll
