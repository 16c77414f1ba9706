SPECIFICATION Spec
CONSTANTS
  Base = 16
  Size = 448
  Requests = {100, 130}
  Alignments = {16, 64}
  Modulus = 4
PROPERTY
  AlignmentHonoured
