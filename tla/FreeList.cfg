SPECIFICATION Spec
CONSTANTS
  Base = 16
  Size = 448
  Requests = {100, 130}
  Alignments = {16, 64, 256}
  Modulus = 2
INVARIANTS
  TypeOK
  Disjoint
  Covered
  WellFormed
  Coalesced
  Accounting
  WholeAgain
  CacheReportRight
  PaddingAdds
PROPERTY
  KeepsContract
