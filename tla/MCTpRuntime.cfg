SPECIFICATION RuntimeSpec
CONSTANTS
  Token = {"a", "b"}
  Generated = {"b"}
  Admissions <- AdmissionsMC
  PageTokens = 2
  PhysicalPages = 3
  MaxSequences = 3
  ContextTokens = 5
  CacheTtl = 1
  Slots = 2
  MaxRows = 2
  PrefillChunk = 2
  RowBudget = 2
  RetainPrefixes = TRUE
  MaxTick = 2
  MaxGeneration = 2
  MaxSerial = 3
INVARIANTS
  NeverRefused
  StreamExact
  EvictionComplete
  Agreement
  NeverLost
CHECK_DEADLOCK FALSE
