SPECIFICATION SchedSpec
CONSTANTS
    MaxRequestSlots = 3
    MaxGeneration = 2
    C = 3
    MaxEpoch = 2
INVARIANTS SchedTypeOK RingsExact PendingExact PermitAuthority
PROPERTIES BoundedBypass LifecycleRefined
CHECK_DEADLOCK FALSE
