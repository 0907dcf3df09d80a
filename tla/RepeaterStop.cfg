CONSTANTS
  Repeaters = {r1}
  NoRepeater = NoRepeater
  RepeaterIds = {i1}
  Pushers = {p1}
  MaxImages = 2
  MaxStarts = 1
SPECIFICATION FairSpec
PROPERTY
  SignalledIsStopped
CHECK_DEADLOCK FALSE
