SPECIFICATION Spec
CONSTANTS
  Threads = {t1, t2}
  Handles = {h1, h2}
  MaxArenas = 2
  kMaxShards = 2
  ShardSize = 64
  Overhead = 16
  Sizes = {8}
  Alignments = {16, 32}
  Slack = 15
  None = None
  MaxCalls = 4
INVARIANTS
  NeverAborts
  MagicIsLive
  CallersSafe
  OwnArena
CHECK_DEADLOCK FALSE
PROPERTY ShardsKeepContract
SYMMETRY Symmetry
