SPECIFICATION SurvivorSpec
CONSTANTS
  NumThreads = 2
  Nodes = {n1, n2, n3}
  Values = {a}
  NULL = NULL
  CtrMod = 4
  CtrBound = 4
  SpuriousCAS = FALSE
INVARIANTS
  TypeOK
  NodesAccounted
  SafeReclaim
  DataRaceFree
  TailLag
  WaitsForWorker
PROPERTIES
  EndsMove
  SomeCallReturns
  EnqSurvives
  DeqWaitsForStopped
