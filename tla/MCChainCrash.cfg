CONSTANTS
  a1 = a1  a2 = a2  a3 = a3  b2 = b2  b3 = b3  b4 = b4  A = A  B = B
  Genesis = Genesis
  None = None
  Blocks <- MCBlocks
  Parent <- MCParent
  Signer <- MCSigner
  Txs <- MCTxs
  BadBlocks = {}
  Witnesses = {A, B}
  Transactions = {}
  Spends <- MCSpends
  MaxUndoHistory = 10
  MinUndoHistory = 3
  MaxForkSize = 8
  ReadAhead = 2
  MaxPending = 0
  MaxCrashes = 1
  MaxCloses = 0
SPECIFICATION Spec
INVARIANT ReplayRecovers
