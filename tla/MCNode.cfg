SPECIFICATION Spec
INVARIANTS
  NoStall
  SyncSound
PROPERTIES
  SlotsAgree
  TransactionsKept
  CatchesUp
CHECK_DEADLOCK FALSE
