CONSTANTS
  a1 = a1  a2 = a2  A = A  B = B
  Genesis = Genesis
  None = None
  Blocks <- MCBlocks
  Parent <- MCParent
  Signer <- MCSigner
  Txs <- MCTxs
  BadBlocks = {}
  Witnesses = {A, B}
  Transactions = {}
  Spends <- MCSpends
  MaxUndoHistory = 10
  MinUndoHistory = 3
  MaxForkSize = 8
  ReadAhead = 2
  MaxPending = 0
  MaxCrashes = 0
  MaxCloses = 1
SPECIFICATION Spec
INVARIANT CloseRewindsAll
