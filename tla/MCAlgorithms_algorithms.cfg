CONSTANTS
    NumBlocks = 5
    img1 = img1
    img2 = img2
    img3 = img3
    Images = {img1, img2, img3}
    ImageLength <- Lengths
    HashBlockSize = 3
    MaxItems = 4
    MaxGenerated = 4
    Chars = {"a", "b"}
    Pieces <- TokenTexts
    StopLists <- Stops
    MaxTokens = 4
SPECIFICATION AlgorithmsSpec
INVARIANTS
    LinksFollowQueue
    PromptKeysExact
    HitsSound
    ShownIsText
    StopStringEndsText
PROPERTIES
    ShownOnlyGrows
\* A detokenizer stops at the end of its request.
CHECK_DEADLOCK FALSE
