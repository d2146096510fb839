SPECIFICATION LedgerSpec
CONSTANTS
    Service = {s1, s2}
    NoService = NoService
    Candidate <- MCCandidate
    Kind = "Reservation"
    Header = Header
    Torn = Torn
    MaxRecords = 2
INVARIANTS GrantedOnce GrantDurable CheckStillCurrent NoFalseRollback
PROPERTIES StrandedForever RegistryRefined
CHECK_DEADLOCK FALSE
