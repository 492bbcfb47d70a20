CONSTANTS
  MaxSegs = 3
  Size <- MCSize
  PartSize = 2
  QueueCap = 2
  Reorder = 1
  MaxUris = 1
  MaxCutovers = 1
  MaxFaults = 2
  Trouble <- MCAll
SPECIFICATION FairSpec
INVARIANTS
  TypeOK
  UniformParts
  IndexMatchesObject
  OpenRowIsCurrent
  ObjectWithinLivestream
  OneFaultOneGap
PROPERTY CloseReturns
CHECK_DEADLOCK FALSE
