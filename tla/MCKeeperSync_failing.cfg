SPECIFICATION Spec
CONSTANTS
  MaxBlock = 5
  LastLogBlock = 2
  MaxPerBlock = 1
  Confirmations = 2
  FinalityDepth = 2
  BackfillDepth = 1
  Capacity = 7
  ReorgDepth = 1
  Worlds <- MCFailing
PROPERTY FullSyncRepairs
