SPECIFICATION FairSpec
CONSTANTS
  NumThreads = 2
  Nodes = {n1, n2, n3}
  Values = {a, b}
  NULL = NULL
INVARIANTS
  LockHeld
  RaceFree
  NodesAccounted
PROPERTIES
  Linearizable
  CallsReturn
