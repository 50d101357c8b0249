SPECIFICATION Spec
INVARIANTS
  Conserved
  WithinLimits
  CreditSound
  FundsRepaid
  ProposalsGuarded
PROPERTIES
  TimeLocksHold
  TicketsKept
  VestingSound
  ProposalsResolve
  PoolFair
  RedemptionFair
CHECK_DEADLOCK FALSE
