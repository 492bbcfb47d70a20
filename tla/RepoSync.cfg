CONSTANTS
  Relays = {r1}
  Writes <- MCWrites
  InitialWindow = 0
  Spans <- MCSpans
  CASAttempts = 3
  WalkAttempts = 2
  MaxMishaps = 1
  None = None
SPECIFICATION Spec
INVARIANTS
  ClaimsHoldButDeepening
PROPERTIES
  RepairSurvives
  DriftHealed
CHECK_DEADLOCK FALSE
