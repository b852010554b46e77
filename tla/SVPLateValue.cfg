\* A is a csr or amo instruction.
CONSTANTS
  A = A
  B = B
  NoPC = NoPC
  PC = {A, B}
  index <- ConflictIndex
  tag <- ConflictTag
  qsize = 2
  confmax = 1
  V = 2
  stride <- NoStride
  Late = {A}
  MaxWindow = 2
SPECIFICATION Spec
PROPERTY RecordedValueIsTrue
