CONSTANTS
    call1 = call1
    call2 = call2
    call3 = call3
    img1 = img1
    img2 = img2
    img3 = img3
    bad = bad
    encoder = encoder
    Engine = Engine
    NoCall = NoCall
    Hashes = {img1, img2, img3, bad}
    BadImages = {bad}
    Servers = {Engine, encoder}
    Calls = {call1, call2, call3}
    Owners = {call1, call2, call3}
    CacheSize = 2
    IdOf <- Ids
    ParamsOf <- Params
    ImagesOf <- Prompts
    TextsOf <- Texts
    ChunkSize = 1
    MaxBatches = 2
    Leaving = {call1}
SPECIFICATION AsyncSpec
INVARIANTS
    AsyncTypeOK
    Mirrored
    DeliveredExactly
    NoOrphans
PROPERTIES
    MapperSpec
    GenerateReturns
\* The calls end.
CHECK_DEADLOCK FALSE
