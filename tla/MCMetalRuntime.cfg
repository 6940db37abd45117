SPECIFICATION FairSpec
CONSTANTS
    Requests <- MCRequests
    Prompt <- MCPrompt
    PromptTokens <- MCPromptTokens
    MaxTokens <- MCMaxTokens
    Multimodal = {"r3"}
    Workers = {"w1", "w2"}
    QueueLimit = 2
    Budget = 8
    VisionReserve = 4
    Capacity = 2
    Free = "free"
    Off = "off"
CHECK_DEADLOCK FALSE
INVARIANTS
    WorkIsAccounted
    CacheIsRecent
    AloneFitsBudget
PROPERTIES
    NoWorkForAbandoned
    QueueIsServed
