SPECIFICATION Spec
CONSTANTS
  Base = 16
  Size = 576
  Requests = {100, 144}
  Alignments = {16, 256}
  Modulus = 4
  Nil = Nil
INVARIANT
  SearchComplete
PROPERTY
  ImplementsFreeList
