CONSTANTS
    req1 = req1
    req2 = req2
    Requests = {req1, req2}
    AllTokenIds <- TextImageTokens
    NumPromptTokens <- OneTokenPrompts
    MaxTokens <- OneToken
    MMPositions <- TextImageInputs
    MaxModelLen = 2
    EncoderInputTokensConfig = 1
    EncoderCacheSizeConfig = 1
    MaxTokensPerMMItem = 1
    NumGpuBlocks = 4
    BlockSize = 2
    NumPreallocateTokens = 0
    EnableCaching = TRUE
    MaxNumScheduledTokens = 4
    MaxNumRunningReqs = 2
    ReuseRequestIds = FALSE
    ResultQueueSize = 1
SPECIFICATION SystemSpec
PROPERTIES
    EveryRequestServed
CHECK_DEADLOCK FALSE
