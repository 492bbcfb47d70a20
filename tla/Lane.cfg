CONSTANT MaxTurns = 4
SPECIFICATION LaneFairSpec
INVARIANTS
  LaneTypeOK
  NoLostWakeup
  PublishedInOrder
PROPERTIES
  ImplementsFeed
  EveryTurnComesRound
CHECK_DEADLOCK FALSE
