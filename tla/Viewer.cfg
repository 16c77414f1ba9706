SPECIFICATION Spec
CONSTANTS
  kMaxShards = 2
  ShardSize = 4
  HeaderSize = 1
  MAX_TIMELINE_EVENTS = 2
  MyShard = 0
  Offsets = {0, 2}
  UserSize = 1
  BlockSize = 2
  RingSize = 2
  Samplings = {1, 2}
  MaxOps = 3
  MaxConnects = 2
  MaxImports = 1
INVARIANTS
  SnapshotSound
  ViewRight
  ReplayReproduces
CHECK_DEADLOCK FALSE
