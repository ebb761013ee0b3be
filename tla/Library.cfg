SPECIFICATION LibFairSpec
CHECK_DEADLOCK FALSE
CONSTANTS
  T = 6
  LibTeam = 3
  Times = 1
  Copies = 2
  LibGarbage = {0, 7}
INVARIANTS
  SomeoneCanMove
  LendsExplainStock
PROPERTIES
  Ends
