SPECIFICATION Spec
CONSTANTS
  Clients = {c1, c2}
  MaxBatches = 2
  StaleReads = FALSE
INVARIANT
  AllConnectedListed
CHECK_DEADLOCK FALSE
