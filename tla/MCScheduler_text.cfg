CONSTANTS
    req1 = req1
    req2 = req2
    req3 = req3
    req4 = req4
    Requests = {req1, req2, req3, req4}
    AllTokenIds <- TextTokens
    NumPromptTokens <- TextPrompts
    MaxTokens <- TextMaxTokens
    MMPositions <- TextInputs
    MaxModelLen = 6
    EncoderInputTokensConfig = 1
    EncoderCacheSizeConfig = 1
    MaxTokensPerMMItem = 1
    NumGpuBlocks = 3
    BlockSize = 2
    NumPreallocateTokens = 0
    EnableCaching = TRUE
    MaxNumScheduledTokens = 3
    MaxNumRunningReqs = 3
    ReuseRequestIds = FALSE
SPECIFICATION FairSpec
CONSTRAINT OneMix
INVARIANTS
    TypeOK
    RunningHasWork
    QueuesMatchStatus
PROPERTIES
    OrderPreserved
    EveryRequestFinishes
CHECK_DEADLOCK FALSE
