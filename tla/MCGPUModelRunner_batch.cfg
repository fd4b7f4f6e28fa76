CONSTANTS
    req1 = req1
    req2 = req2
    req3 = req3
    Requests = {req1, req2, req3}
    AllTokenIds <- MMTokens
    NumPromptTokens <- MMPrompts
    MaxTokens <- MMMaxTokens
    MMPositions <- MMInputs
    MaxModelLen = 6
    EncoderInputTokensConfig = 4
    EncoderCacheSizeConfig = 4
    MaxTokensPerMMItem = 2
    NumGpuBlocks = 5
    BlockSize = 2
    NumPreallocateTokens = 2
    EnableCaching = TRUE
    MaxNumScheduledTokens = 3
    MaxNumRunningReqs = 3
    ReuseRequestIds = FALSE
    Seeded = {req1, req3}
SPECIFICATION RunnerSpec
INVARIANTS
    RunnerTypeOK
    PreemptedNotScheduled
    BlockAccounting
    PrefixCacheSound
    ExclusiveWrites
    SlotAccounting
    EncoderOutputsPresent
    StopFindsNothingCached
    BatchIsSchedule
    RowsHoldRequests
    SamplesAgree
    CommonPrefixSound
CHECK_DEADLOCK FALSE
