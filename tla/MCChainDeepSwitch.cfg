CONSTANTS
  a1 = a1  a2 = a2  a3 = a3  a4 = a4  a5 = a5  b2 = b2  b3 = b3  b4 = b4  b5 = b5  b6 = b6  A = A  B = B
  Genesis = Genesis
  None = None
  Blocks <- MCBlocks
  Parent <- MCParent
  Signer <- MCSigner
  Txs <- MCTxs
  BadBlocks = {b3}
  Witnesses = {A, B}
  Transactions = {}
  Spends <- MCSpends
  MaxUndoHistory = 10
  MinUndoHistory = 3
  MaxForkSize = 8
  ReadAhead = 2
  MaxPending = 0
  MaxCrashes = 0
  MaxCloses = 0
SPECIFICATION Spec
INVARIANT FailedPushUnwinds
