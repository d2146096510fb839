SPECIFICATION LiveFairSpec
CONSTANTS
  Token = {"a", "b"}
  Generated = {"b"}
  Admissions = {}
  PageTokens = 2
  PhysicalPages = 4
  MaxSequences = 2
  ContextTokens = 5
  CacheTtl = 9
  Slots = 2
  MaxRows = 6
  PrefillChunk = 3
  RowBudget = 6
  RetainPrefixes = TRUE
  MaxTick = 9
  MaxGeneration = 3
  MaxSerial = 4
  Kinds <- KindsMC
  MaxRequestId = 2
  InputCapacity = 1
  MaxPending = 2
  InputsPerBatch = 1
  MaxBatches = 3
INVARIANTS
  
  ActiveAgrees
  
PROPERTY DrainEnds
CHECK_DEADLOCK FALSE
