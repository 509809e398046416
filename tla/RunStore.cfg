SPECIFICATION FairStoreSpec
CONSTANTS
  i1 = i1
  i2 = i2
  Instances = {i1, i2}
  r1 = r1
  RunIds = {r1}
  MaxCrashes = 2
  MaxStoreFaults = 3
INVARIANTS
  StoreConsistent
  OneExecution
PROPERTIES
  ServesClient
  RunsStop
CHECK_DEADLOCK FALSE
