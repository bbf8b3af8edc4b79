SPECIFICATION Spec
CONSTANTS
  MaxRetries = 2
  ServerCap = 80
  Asked = {0, 24, 88}
  MaxChunks = 3
  MaxSteers = 2
  MaxTurns = 2
  RetryCap = 1
  MaxAttempts = 16
  BatchSize = 2
  Widths = {1, 2}
  Priorities = {0, 1}
  MaxHooks = 4
  MaxItems = 4
  Names = {"a", "b"}
  Budgets <- MCBudgets
  EarlyNotice = FALSE
INVARIANTS
  RunIsAccountable BatchIsWhole TurnIsFaithful AdaptersTellTheTurn RequestsKeepHistory
PROPERTIES
  NothingIsLeftBehind StreamKeepsEveryWord
\* A run or a stream ends, a batch settles, or the bounds are used up.
CHECK_DEADLOCK FALSE
