\* Two repeaters with different identifiers or the same one; a system at rest has come to
\* an end.
CONSTANTS
  Repeaters = {r1, r2}
  NoRepeater = NoRepeater
  RepeaterIds = {i1, i2}
  Pushers = {p1}
  MaxImages = 2
  MaxStarts = 2
SPECIFICATION FairSpec
INVARIANTS
  TypeOK
  RegistryIsAccurate
PROPERTIES
  PushedIsSent
  StopOutsideGap
CHECK_DEADLOCK FALSE
