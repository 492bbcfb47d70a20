CONSTANTS
  MaxSegs = 3
  Recorded = TRUE
SPECIFICATION FairSpec
INVARIANTS
  TypeOK
  NoSendOnClosed
  NoRecordingLeftOpen
PROPERTY OwnSessionEnds
CHECK_DEADLOCK FALSE
