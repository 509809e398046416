SPECIFICATION FairPipelineSpec
CONSTANTS
  Kinds = {"draft", "parse", "analysis", "match", "file"}
  MaxAttempts = 2
  MaxClaims = 4
  MaxDispatchAttempts = 2
  MaxPublishFaults = 1
  MaxCrashes = 0
  MaxPauses = 0
  MaxAiFaults = 2
  MaxLostCancels = 0
  MaxCancels = 1
  w1 = w1
  w2 = w2
  Workers = {w1, w2}
INVARIANTS
  NothingIsLost
  JobIsFree
PROPERTIES
  WorkFinishes
CHECK_DEADLOCK FALSE
