SPECIFICATION TaskSpec
CONSTANTS
  Kinds = {"draft", "parse", "analysis", "match", "file"}
  MaxAttempts = 2
  MaxClaims = 3
INVARIANTS
  LedgerFollowsRuns
  NewestClaimOnly
  RowTellsOutcome
  EventLogTellsTheRow
PROPERTIES
  EndsForGood
  KeepsContract
CHECK_DEADLOCK FALSE
