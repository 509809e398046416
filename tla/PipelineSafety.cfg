SPECIFICATION PipelineSpec
CONSTANTS
  Kinds = {"draft", "parse", "analysis", "match", "file"}
  MaxAttempts = 2
  MaxClaims = 4
  MaxDispatchAttempts = 1
  MaxPublishFaults = 1
  MaxCrashes = 1
  MaxPauses = 1
  MaxAiFaults = 1
  MaxLostCancels = 1
  MaxCancels = 1
  w1 = w1
  w2 = w2
  Workers = {w1, w2}
SYMMETRY WorkerSymmetry
INVARIANTS
  RunsAgree
  UnusedUnlessFault
PROPERTIES
  UsesTaskService
CHECK_DEADLOCK FALSE
