SPECIFICATION EngineSpec
CONSTANTS
    MaxRequestSlots = 2
    MaxGeneration = 2
    C = 2
    MaxEpoch = 2
    PageCount = 2
    PageTokens = 2
    MaxContext = 3
    MaxPagesPerRequest = 2
    MaxPageGeneration = 2
INVARIANTS IdentityAgreement DevicePagesHeld EpochCustody
PROPERTIES DevicePagesUnwritten FaultOnlyExhaustion
CHECK_DEADLOCK FALSE
