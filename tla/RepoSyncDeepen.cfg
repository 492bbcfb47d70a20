CONSTANTS
  Relays = {r1}
  Writes <- MCWrites
  InitialWindow = 0
  Spans <- MCSpans
  CASAttempts = 3
  WalkAttempts = 2
  MaxMishaps = 0
  None = None
SPECIFICATION Spec
PROPERTY GapsAreRepaired
CHECK_DEADLOCK FALSE
