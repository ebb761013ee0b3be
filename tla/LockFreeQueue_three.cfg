SPECIFICATION Spec
CONSTANTS
  NumThreads = 3
  Nodes = {n1, n2, n3}
  Values = {a, b}
  NULL = NULL
  CtrMod = 8
  CtrBound = 3
  SpuriousCAS = TRUE
SYMMETRY Symmetry
PROPERTIES
  Linearizable
