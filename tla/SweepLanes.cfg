CONSTANTS
  l1 = l1
  l2 = l2
  l3 = l3
  a1 = a1
  a2 = a2
  b1 = b1
  c1 = c1
  Lanes = {l1, l2, l3}
  Repos = {a1, a2, b1, c1}
  LaneOf <- MCLaneOf
  Limit = 1
  MaxRounds = 2
SPECIFICATION FairSpec
INVARIANTS
  SlotsConserved
  LaneIsServed
PROPERTY EveryRepoIsReached
CHECK_DEADLOCK FALSE
