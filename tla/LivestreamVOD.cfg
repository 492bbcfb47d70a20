CONSTANTS
  AutoUpload = AutoUpload
  Hands = {h1}
  Calls = {c1, c2}
  MaxWaits = 1
  MaxFaults = 2
SPECIFICATION FairSpec
INVARIANTS
  SourceIsWhole
  OneSetOfTracks
  OneVideoPerRequest
  AutoYieldsToHand
PROPERTIES
  RepublishMintsAnew
  EveryVODHasAnOutcome
CONSTRAINT OneAtATime
CHECK_DEADLOCK FALSE
