CONSTANTS
  a1 = a1  a2 = a2  a3 = a3  a4 = a4  b2 = b2  b3 = b3  c3 = c3  c4 = c4  c5 = c5
  A = A  B = B  C = C  t1 = t1  t2 = t2  t3 = t3  x = x  y = y
  Genesis = Genesis
  None = None
  Blocks <- MCBlocks
  Parent <- MCParent
  Signer <- MCSigner
  Txs <- MCTxs
  BadBlocks = {}
  Witnesses = {A, B, C}
  Transactions <- MCTransactions
  Spends <- MCSpends
  MaxUndoHistory = 10
  MinUndoHistory = 3
  MaxForkSize = 8
  ReadAhead = 2
  MaxPending = 2
  MaxCrashes = 0
  MaxCloses = 0
SPECIFICATION Spec
INVARIANTS
  UndoSuffices
  LogHoldsChain
PROPERTIES
  IrreversibleStays
  NoTransactionLost
