SPECIFICATION Spec
CONSTANTS
  NumTxs = 1
  MaxPrice = 2
  Worlds <- MCBroke
  FinalityDepth = 3
  HistoryDepth = 3
  GasBumpThreshold = 1
  GasBumpTxDepth = 1
  MaxInFlight = 1
  MaxQueued = 1
  MaxFaults = 2
  MaxReorgs = 1
  ReorgDepth = 1
  MaxLag = 1
PROPERTY ReorgedIsRebroadcast
