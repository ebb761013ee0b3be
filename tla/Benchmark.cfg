SPECIFICATION FairSpec
CHECK_DEADLOCK FALSE
CONSTANTS
  NumThreads = 2
  Team = 2
  Repetitions = 2
  EnqSizes = {1}
  DeqSizes = {0, 2}
  MaxBatches = 3
  Memory = 3
  IntBits = 3
  LongBits = 5
  Garbage = {0}
  Losses = 1
  OpenFails = TRUE
INVARIANTS
  SumsAgree
  CountsAgree
  VerdictExact
PROPERTIES
  EndsUnlessRefused
