SPECIFICATION Spec
CONSTANTS
  NumTxs = 2
  MaxPrice = 3
  Worlds <- MCWorlds
  FinalityDepth = 3
  HistoryDepth = 3
  GasBumpThreshold = 1
  GasBumpTxDepth = 1
  MaxInFlight = 1
  MaxQueued = 2
  MaxFaults = 1
  MaxReorgs = 1
  ReorgDepth = 1
  MaxLag = 1
INVARIANTS TypeOK RowsConsistent SentIsSaved NoNonceGap OnceInOrder ReapedIsMined
PROPERTY EventuallyConfirmed
