CONSTANTS
    req1 = req1
    req2 = req2
    req3 = req3
    req4 = req4
    Requests = {req1, req2, req3}
    AllTokenIds <- MMTokens
    NumPromptTokens <- MMPrompts
    MaxTokens <- MMMaxTokens
    MMPositions <- MMInputs
    MaxModelLen = 5
    EncoderInputTokensConfig = 4
    EncoderCacheSizeConfig = 4
    MaxTokensPerMMItem = 2
    NumGpuBlocks = 3
    BlockSize = 2
    NumPreallocateTokens = 0
    EnableCaching = TRUE
    MaxNumScheduledTokens = 3
    MaxNumRunningReqs = 3
    ReuseRequestIds = FALSE
SPECIFICATION Spec
INVARIANTS
    AbortSurvived
CHECK_DEADLOCK FALSE
