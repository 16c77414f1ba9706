SPECIFICATION Spec
CONSTANTS
  Clients = {c1, c2}
  MaxBatches = 2
  StaleReads = FALSE
INVARIANT
  SnapshotFirst
CHECK_DEADLOCK FALSE
