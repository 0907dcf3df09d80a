\* Any mix of two objects, sources or scripting threads.
CONSTANTS
  MaxDevices = 2
SPECIFICATION FairSpec
INVARIANTS
  TypeOK
  OneMapPerObject
  RemovedIsOver
PROPERTIES
  PhaseOnlyAdvances
  DrainLeavesNothing
  QueueIsEmptied
  StopCompletes
