SPECIFICATION FairSpec
CHECK_DEADLOCK FALSE
CONSTANTS
  IntBits = 3
  Numbers <- MCNumbers
  MaxThreads = 3
  MaxLen <- MCMaxLen
  DeqLen = 9
  MaxElems = 4
  InitialCap = 1
INVARIANTS
  StaysInside
  RangesOrdered
  AcceptsDocumented
  RejectsOthers
  SamplesFillRange
PROPERTIES
  ParserEnds
