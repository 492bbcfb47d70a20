CONSTANTS
  n1 = n1
  n2 = n2
  kWindow = kWindow
  Nodes = {n1, n2}
  NoKey = NoKey
  Keys = {kWindow}
  TypeOf <- MCTypeOf
  Delayed = {}
  MaxRows = 2
  MaxTries = 3
  MaxStops = 0
  MaxReturned = 0
SPECIFICATION FairSpec
PROPERTY FailedIsRetried
CHECK_DEADLOCK FALSE
