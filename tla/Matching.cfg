SPECIFICATION MatchingSpec
CONSTANTS
  Reqs = {r1}
  Facts = {f1}
  v1 = v1
  v2 = v2
  Values = {v1, v2}
  PerDay = 1
  Concurrent = 1
  MaxAnalyses = 2
  MaxClaims = 2
  MaxVersions = 2
  MaxDisturbances = 2
SYMMETRY ValueSymmetry
INVARIANTS
  AnalysesConsistent
  LimitsHold
PROPERTIES
  PublishedIfCurrent
  OnlyTheHolderPublishes
CHECK_DEADLOCK FALSE
