\* A and B evict each other from one entry; A has the tag of a fresh entry and
\* produces 0, 1, 2, 0...  Two VPQ slots fill and wrap under a window of three;
\* three values tell a stride from its opposite.
CONSTANTS
  A = A
  B = B
  NoPC = NoPC
  PC = {A, B}
  index <- ConflictIndex
  tag <- ConflictTag
  qsize = 2
  confmax = 2
  V = 3
  stride <- StrideA
  Late = {}
  MaxWindow = 3
SPECIFICATION FairSpec
INVARIANTS
  InstanceExact
  VPQMirrorsWindow
  ConfidentStrideIsRight
PROPERTIES
  ImplementsStride
  VPQStallEnds
