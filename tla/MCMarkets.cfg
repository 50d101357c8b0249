SPECIFICATION Spec
CONSTANTS
  a1 = a1
  a2 = a2
SYMMETRY Traders
INVARIANTS
  Conserved
  LinksMutual
  FeedOfTheMoment
PROPERTIES
  MatchingFair
  DebtSound
CHECK_DEADLOCK FALSE
