CONSTANTS
  Streams = 2
  MaxWrites = 3
  LastAct = 2
  MaxTime = 5
  Idle = 1
  Prompt = TRUE
  Relays = 2
  MaxBusy = 2
  MaxMishaps = 1
SPECIFICATION FairSpec
PROPERTIES
  RevivedOnlyByStaleBeat
  IdleEndSparesTheLiving
  AbandonedIsEnded
  EndingSchedulesVod
CONSTRAINTS
  OverlapBound
  MishapBound
CHECK_DEADLOCK FALSE
