CONSTANTS
  n1 = n1
  n2 = n2
  kWindow = kWindow
  Nodes = {n1, n2}
  NoKey = NoKey
  Keys = {kWindow}
  TypeOf <- MCTypeOf
  Delayed = {kWindow}
  MaxRows = 2
  MaxTries = 3
  MaxStops = 2
  MaxReturned = 1
SPECIFICATION FairSpec
INVARIANT WindowRunsOnce
PROPERTY EveryTaskIsTaken
CHECK_DEADLOCK FALSE
