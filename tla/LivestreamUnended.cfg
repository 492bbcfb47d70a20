CONSTANTS
  Streams = 1
  MaxWrites = 3
  LastAct = 1
  MaxTime = 2
  Idle = 1
  Prompt = TRUE
  Relays = 1
  MaxBusy = 2
  MaxMishaps = 0
SPECIFICATION Spec
PROPERTY EndedStaysEnded
CHECK_DEADLOCK FALSE
