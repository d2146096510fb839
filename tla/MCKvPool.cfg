SPECIFICATION KvSpec
CONSTANTS
    MaxRequestSlots = 3
    MaxGeneration = 2
    PageCount = 3
    PageTokens = 2
    MaxContext = 4
    MaxPagesPerRequest = 2
    MaxPageGeneration = 2
INVARIANTS PageOwnership ReadsInitialized WriteExclusive
PROPERTIES CommittedStable PageLifecycle
CHECK_DEADLOCK FALSE
