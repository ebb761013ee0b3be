SPECIFICATION FairSpec
CHECK_DEADLOCK FALSE
CONSTANTS
  NumThreads = 2
  Nodes = {n1, n2, n3}
  Values = {a}
  NULL = NULL
  SizeBound = 2
INVARIANTS
  LocksHeld
PROPERTIES
  CallsReturn
