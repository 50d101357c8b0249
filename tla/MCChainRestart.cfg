CONSTANTS
  a1 = a1  a2 = a2  a3 = a3  a4 = a4  a5 = a5  a6 = a6  b3 = b3  b4 = b4  A = A  B = B  t1 = t1  x = x
  Genesis = Genesis
  None = None
  Blocks <- MCBlocks
  Parent <- MCParent
  Signer <- MCSigner
  Txs <- MCTxs
  BadBlocks = {}
  Witnesses = {A, B}
  Transactions = {t1}
  Spends <- MCSpends
  MaxUndoHistory = 3
  MinUndoHistory = 3
  MaxForkSize = 8
  ReadAhead = 2
  MaxPending = 1
  MaxCrashes = 2
  MaxCloses = 1
SPECIFICATION Spec
INVARIANT StartSucceeds
PROPERTY RestartAgrees
