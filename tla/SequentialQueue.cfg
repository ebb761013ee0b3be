SPECIFICATION Spec
CONSTANTS
  NumThreads = 3
  Nodes = {n1, n2, n3, n4, n5}
  Values = {a, b}
  NULL = NULL
SYMMETRY Symmetry
INVARIANTS
  NodesAccounted
PROPERTIES
  IsFifo
