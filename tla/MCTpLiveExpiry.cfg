SPECIFICATION ScriptSpec
CONSTANTS
  Token = {"a", "b", "c", "d", "g", "x"}
  Generated = {"x"}
  Admissions = {}
  PageTokens = 1
  PhysicalPages = 21
  MaxSequences = 3
  ContextTokens = 12
  CacheTtl = 2
  Slots = 3
  MaxRows = 4
  PrefillChunk = 4
  RowBudget = 4
  RetainPrefixes = TRUE
  MaxTick = 40
  MaxGeneration = 5
  MaxSerial = 5
  Kinds <- KindsMC
  MaxRequestId = 5
  InputCapacity = 2
  MaxPending = 5
  InputsPerBatch = 2
  MaxBatches = 30
INVARIANT ReservationSuffices
CHECK_DEADLOCK FALSE
