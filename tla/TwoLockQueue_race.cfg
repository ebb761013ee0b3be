SPECIFICATION Spec
CONSTANTS
  NumThreads = 2
  Nodes = {n1, n2, n3}
  Values = {a}
  NULL = NULL
INVARIANTS
  RaceFree
