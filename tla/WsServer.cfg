SPECIFICATION FairSpec
CONSTANTS
  Clients = {c1, c2}
  MaxBatches = 3
  StaleReads = TRUE
INVARIANTS
  NothingMissed
  InOrder
PROPERTY
  Delivered
CHECK_DEADLOCK FALSE
