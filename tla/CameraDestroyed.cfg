CONSTANTS
  Urls <- MCUrls
  Version = "/version"
  Configuration = "/camera/config"
  MaxCommands = 3
  MaxRetries = 1
  MaxStarts = 1
  MaxSettings = 0
SPECIFICATION FairCamera
INVARIANT
  DestroyedIsStopped
CHECK_DEADLOCK FALSE
