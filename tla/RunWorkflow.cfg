SPECIFICATION FairRunSpec
CONSTANTS
  MaxTurns = 4
  MaxTokens = 4
  RetryCount = 1
  RouteCost = 3
  Needs = {1, 3}
  Estimates = {1}
  Reports = {0, 1, 4}
INVARIANTS
  WithinBudget
  SignalledNeverSucceeds
  FailsAfterFallback
PROPERTIES
  RunEnds
CHECK_DEADLOCK FALSE
