SPECIFICATION Spec
CONSTANTS
  Addr = {1, 2, 3, 4, 5, 6, 7, 8, 9, 10}
  Nil = Nil
  Sizes = {1, 2}
  MaxLarge = 1
INVARIANTS
  HoldsBlocks
  NeverAborts
  Ordered
  Balanced
  FirstFit
  Neighbours
