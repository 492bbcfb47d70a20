CONSTANTS
  Subs = {a, b}
  QueueLimit = 1
  ChanCap = 1
  SegCap = 2
  BufSize = 2
  Replays = {0, 1, 2}
  MaxItems = 4
SPECIFICATION FairSpec
INVARIANTS
  PresenceCountsViewers
  EventsInOrder
  SegmentsInOrder
  ReplayIsCurrent
PROPERTIES
  DeliverEnds
CHECK_DEADLOCK FALSE
