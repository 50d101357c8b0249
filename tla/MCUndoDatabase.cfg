CONSTANTS
  Indexes = {acct}
  Values = {v1, v2}
  None = None
  MaxInstance = 2
  MaxForced = 1
  MaxHistory = 2
  MaxStack = 3
SPECIFICATION Spec
CONSTRAINT StackBound
INVARIANTS
  LayersRestore
  RestoreNeverThrows
  MergeIsCausal
  SessionsHaveStates
PROPERTY AbstractSpec
CHECK_DEADLOCK FALSE
