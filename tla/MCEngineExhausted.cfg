SPECIFICATION EngineFairSpec
CONSTANTS
    MaxRequestSlots = 2
    MaxGeneration = 2
    C = 2
    MaxEpoch = 2
    PageCount = 2
    PageTokens = 1
    MaxContext = 1
    MaxPagesPerRequest = 1
    MaxPageGeneration = 2
PROPERTIES CompletionSettlesOrFaults
CHECK_DEADLOCK FALSE
