SPECIFICATION FairSpec
CONSTANTS
  NumThreads = 2
  Nodes = {n1, n2, n3}
  Values = {a, b}
  NULL = NULL
INVARIANTS
  LocksHeld
  TailNotRecycled
  WaitMovesTail
  OnlyLinkRaces
  NodesAccounted
PROPERTIES
  Linearizable
  CallsReturn
