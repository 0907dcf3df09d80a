CONSTANTS
  Streams <- MCStreams
  Magic <- MCMagic
  Space <- MCSpace
  MaxBuffer = 22
SPECIFICATION FairStream
INVARIANTS
  StreamTypeOK
  GivenAreWhole
PROPERTIES
  StopTakesPlace
