SPECIFICATION FairStepSpec
CONSTANTS
  Packets = 2
  StallBound = 2
  PageTokens = 2
  Context = 7
  Slot = {1, 2}
  Prompt <- MCPrompt
  DraftTokens = 2
  MaxEpoch = 4
  MaxGeneration = 2
INVARIANTS
  
  PagesPinned
  LedgerExact
  NoInternalRefusal
  RolesInStep
PROPERTY
  WaitEnds
CHECK_DEADLOCK FALSE
