\* The plug-in is started twice, with one retry and one property set at any time.
CONSTANTS
  Urls <- MCUrls
  Version = "/version"
  Configuration = "/camera/config"
  MaxCommands = 7
  MaxRetries = 1
  MaxStarts = 2
  MaxSettings = 1
SPECIFICATION FairCamera
INVARIANTS
  CameraTypeOK
  QueuedIsSignalled
  EveryCommandIsAccounted
  UnsubscribedIsQuiet
PROPERTIES
  ReportedOnce
  StopsTakePlace
CHECK_DEADLOCK FALSE
