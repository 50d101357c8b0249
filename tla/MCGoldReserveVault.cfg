CONSTANTS
  CoreMax = 26
  GoldMax = 13
  MaxShareSupply = 100
  InitialReserve = 24
  GoldPrice <- MCGoldPrice
  RefreshBlocks = 2
  DayLength = 3
  ReserveTime = 4
  BorrowTime = 6
  Divisor = 2
  WitnessGold = 1
  WitnessCore = 1
  BudgetCore = 2
  WorkerCore = 1
  Workers <- MCWorkers
  Amounts = {2}
  MaxBlock = 5
  MaxTime = 8
SPECIFICATION Spec
INVARIANTS
  Conserved
  AlwaysCollateralized
  NeverEmergency
  SpendingExact
PROPERTY DailyLimitHolds
CHECK_DEADLOCK FALSE
