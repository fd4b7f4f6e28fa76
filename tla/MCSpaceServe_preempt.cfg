CONSTANTS
    req1 = req1
    req2 = req2
    Requests = {req1, req2}
    AllTokenIds <- OneImageTokens
    NumPromptTokens <- OneImagePrompts
    MaxTokens <- OneImageLonger
    MMPositions <- OneImageInputs
    MaxModelLen = 4
    EncoderInputTokensConfig = 2
    EncoderCacheSizeConfig = 2
    MaxTokensPerMMItem = 2
    NumGpuBlocks = 2
    BlockSize = 2
    NumPreallocateTokens = 0
    EnableCaching = TRUE
    MaxNumScheduledTokens = 4
    MaxNumRunningReqs = 2
    ReuseRequestIds = FALSE
    ResultQueueSize = 1
SPECIFICATION SystemSpec
PROPERTIES
    PreemptedResumes
CHECK_DEADLOCK FALSE
