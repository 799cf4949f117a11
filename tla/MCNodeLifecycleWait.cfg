SPECIFICATION FairSpec
CONSTANTS
    Model = {"llama", "phi", "gpt", "flash", "qwen"}
    ProviderOf <- MCProviderOf
    MaxModels = 1
CHECK_DEADLOCK FALSE
PROPERTIES
    WaitEnds
