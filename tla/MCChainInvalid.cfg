CONSTANTS
  z1 = z1  a1 = a1  a2 = a2  a3 = a3  b2 = b2  b3 = b3  b4 = b4  c2 = c2  c3 = c3  c4 = c4  d4 = d4  e5 = e5  A = A  B = B  t1 = t1  t2 = t2  x = x
  Genesis = Genesis
  None = None
  Blocks <- MCBlocks
  Parent <- MCParent
  Signer <- MCSigner
  Txs <- MCTxs
  BadBlocks = {z1, b3, d4, e5}
  Witnesses = {A, B}
  Transactions = {t1, t2}
  Spends <- MCSpends
  MaxUndoHistory = 10
  MinUndoHistory = 3
  MaxForkSize = 8
  ReadAhead = 2
  MaxPending = 1
  MaxCrashes = 0
  MaxCloses = 0
SPECIFICATION LiveSpec
INVARIANTS
  FailedPushUnwinds
  ForkHeadIsHead
PROPERTY Converges
