CONSTANTS
    req1 = req1
    req2 = req2
    Requests = {req1}
    AllTokenIds <- TwoImagesTokens
    NumPromptTokens <- TwoImagesPrompts
    MaxTokens <- OneToken
    MMPositions <- TwoImagesInputs
    MaxModelLen = 3
    EncoderInputTokensConfig = 2
    EncoderCacheSizeConfig = 2
    MaxTokensPerMMItem = 2
    NumGpuBlocks = 4
    BlockSize = 2
    NumPreallocateTokens = 0
    EnableCaching = TRUE
    MaxNumScheduledTokens = 4
    MaxNumRunningReqs = 2
    ReuseRequestIds = FALSE
    ResultQueueSize = 1
SPECIFICATION SystemSpec
INVARIANTS
    NeededOutputNotLost
CHECK_DEADLOCK FALSE
