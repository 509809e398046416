SPECIFICATION FilesSpec
CONSTANTS
  f1 = f1
  x1 = x1
  d1 = d1
  c1 = c1
  c2 = c2
  p1 = p1
  p2 = p2
  Uploads = {f1}
  Exports = {x1}
  DataExports = {d1}
  Contents = {c1, c2}
  Processes = {p1, p2}
  None = None
  MaxRuns = 4
SYMMETRY ProcessSymmetry
INVARIANTS
  FilesConsistent
  ExportsAreErased
PROPERTIES
  ImportsSettle
  DeletedWhenDue
CHECK_DEADLOCK FALSE
