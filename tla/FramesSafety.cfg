\* Safety with everything that can go wrong: copying may fail, a handler may
\* unsubscribe its listener. Such a handler may deadlock with the holder of ServerSync
\* (run handler_deadlock), so the system may stop.
CONSTANTS
  MaxFrames = 3
  Listeners = {l1}
  NoListener = NoListener
  CopyMayFail = TRUE
  HandlerUnsubscribes = TRUE
SPECIFICATION Spec
INVARIANTS
  TypeOK
  BusyIsTemporary
  StopIsNeverMissed
  OnlySubscribedAreCalled
  DestroyedIsUnused
  FrameAccounting
  GraphHasImage
PROPERTIES
  LastImageStable
  DeliversLatest
CHECK_DEADLOCK FALSE
